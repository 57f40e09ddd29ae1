------------------------------ MODULE MCServer ------------------------------
(***************************************************************************)
(* The packet numbers of the server against every sequence of arrivals:    *)
(* any packet, in any order, any number of times, with any history of      *)
(* earlier numbers.  The packets are empty; the streams are exercised by   *)
(* MCTransfer.                                                             *)
(***************************************************************************)
EXTENDS QuicConnectionServer

CONSTANTS
  MaxNumber,    \* bound: the largest packet number
  MaxReceived   \* bound: how many packets arrive

\* A retransmission has been sent under at most two numbers before.
Histories(n) == {h \in SUBSET (0 .. n - 1) : Cardinality(h) <= 2}

MCPackets ==
  UNION {{[number |-> n, history |-> h, frames |-> << >>] :
            h \in Histories(n)} : n \in 0 .. MaxNumber}

MCNext ==
  \/ /\ num_packets_recieved < MaxReceived
     /\ \E p \in Packets : ReceivePacket(p)
  \/ AckTimeout

MCSpec == ServerInit /\ [][MCNext]_serverVars

(***************************************************************************)
(* The loop of ProcessServerReceivedPacket as it is written, to compare    *)
(* with Popped and the count of removed numbers.                           *)
(***************************************************************************)
RECURSIVE PopLoop(_, _)
PopLoop(waiting, next) ==
  IF waiting # {} /\ Min(waiting) <= next
  THEN PopLoop(waiting \ {Min(waiting)}, next + 1)
  ELSE [rcv_next |-> next, list |-> waiting]

\* Popped is what the loop removes, for every list of small numbers
\* (QuicConnectionServer.cc:136-147).
PoppedIsTheLoop ==
  [][\A p \in Packets : ReceivePacket(p) =>
       PopLoop(received_out_of_order \cup Listed(p),
               IF InOrder(p) THEN rcv_next + 1 ELSE rcv_next)
         = [rcv_next |-> rcv_next', list |-> received_out_of_order']]_serverVars

=============================================================================
