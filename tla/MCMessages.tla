---------------------------- MODULE MCMessages ----------------------------
EXTENDS QuicMessageObjects

CONSTANT MaxNumber   \* bound: the largest packet number

\* The server keeps numbers above rcv_next in its list, and the last in order
\* number it acknowledged is below rcv_next.  A frame is only due when there
\* is something to acknowledge.
SmallReports ==
  {r \in [rcv_next : 0 .. MaxNumber, current_largest : -1 .. MaxNumber,
          list : SUBSET (1 .. MaxNumber)] :
     /\ \A n \in r.list : n > r.rcv_next
     /\ IF r.list = {} THEN r.current_largest < r.rcv_next - 1
                       ELSE r.current_largest < r.rcv_next}

=============================================================================
