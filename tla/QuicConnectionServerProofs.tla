--------------------- MODULE QuicConnectionServerProofs ---------------------
(***************************************************************************)
(* Proofs about the packet numbers of the server, for every set of packets *)
(* and every order of arrival, and about its ACK frames: the client        *)
(* unpacks the numbers the server packed, for every list of numbers.       *)
(***************************************************************************)
EXTENDS QuicConnectionServer, FiniteSetTheorems, TLAPS

Ranges == INSTANCE FoldTheorems WITH op <- DecodeRange
Counts == INSTANCE FoldTheorems WITH op <- LAMBDA total, range : total + range.length

(***************************************************************************)
(* What popping the list leaves and takes: everything left is above the    *)
(* new rcv_next, everything taken is below it.                             *)
(***************************************************************************)
LEMMA PoppedFinite ==
  ASSUME NEW waiting \in SUBSET Nat, IsFiniteSet(waiting), NEW next \in Nat
  PROVE  /\ Popped(waiting, next) \subseteq waiting
         /\ IsFiniteSet(Popped(waiting, next))
         /\ Cardinality(Popped(waiting, next)) \in Nat
<1>1. Popped(waiting, next) \subseteq waiting
  BY DEF Popped
<1>2. IsFiniteSet(Popped(waiting, next))
  BY <1>1, FS_Subset
<1> QED
  BY <1>1, <1>2, FS_CardinalityType

LEMMA BelowFinite ==
  ASSUME NEW waiting \in SUBSET Nat, IsFiniteSet(waiting), NEW x \in Nat
  PROVE  /\ IsFiniteSet(Below(waiting, x))
         /\ Cardinality(Below(waiting, x)) \in Nat
<1>1. Below(waiting, x) \subseteq waiting
  BY DEF Below
<1>2. IsFiniteSet(Below(waiting, x))
  BY <1>1, FS_Subset
<1> QED
  BY <1>2, FS_CardinalityType

LEMMA LeftIsAbove ==
  ASSUME NEW waiting \in SUBSET Nat, IsFiniteSet(waiting), NEW next \in Nat,
         NEW x \in waiting \ Popped(waiting, next)
  PROVE  x > next + Cardinality(Popped(waiting, next))
<1> DEFINE P == Popped(waiting, next)
<1>1. PICK y \in waiting : y <= x /\ ~(y <= next + Cardinality(Below(waiting, y)))
  BY DEF Popped
<1>2. P \subseteq Below(waiting, y)
  <2> SUFFICES ASSUME NEW z \in P
               PROVE  z \in Below(waiting, y)
    OBVIOUS
  <2>1. z \in waiting /\ (y <= z => y <= next + Cardinality(Below(waiting, y)))
    BY DEF Popped
  <2>2. ~(y <= z)
    BY <1>1, <2>1
  <2> QED
    BY <2>1, <2>2 DEF Below
<1>3. Cardinality(P) <= Cardinality(Below(waiting, y))
  BY <1>2, BelowFinite, FS_Subset
<1>4. Cardinality(P) \in Nat /\ Cardinality(Below(waiting, y)) \in Nat
  BY PoppedFinite, BelowFinite
<1> HIDE DEF P
<1>5. x > next + Cardinality(P)
  BY <1>1, <1>3, <1>4
<1> QED
  BY <1>5 DEF P

LEMMA TakenIsBelow ==
  ASSUME NEW waiting \in SUBSET Nat, IsFiniteSet(waiting), NEW next \in Nat,
         NEW x \in Popped(waiting, next)
  PROVE  x < next + Cardinality(Popped(waiting, next))
<1> DEFINE P == Popped(waiting, next)
<1>1. x \in waiting /\ x <= next + Cardinality(Below(waiting, x))
  BY DEF Popped
<1>2. Below(waiting, x) \subseteq P \ {x}
  <2> SUFFICES ASSUME NEW z \in Below(waiting, x)
               PROVE  z \in P /\ z # x
    OBVIOUS
  <2>1. z \in waiting /\ z < x
    BY DEF Below
  <2>2. ASSUME NEW y \in waiting, y <= z
        PROVE  y <= next + Cardinality(Below(waiting, y))
    <3>1. y <= x
      BY <2>1, <2>2, <1>1
    <3> QED
      BY <3>1 DEF Popped
  <2> QED
    BY <1>1, <2>1, <2>2 DEF Popped
<1>3. IsFiniteSet(P) /\ Cardinality(P) \in Nat
  BY PoppedFinite
<1>4. IsFiniteSet(P \ {x}) /\ Cardinality(P \ {x}) = Cardinality(P) - 1
  BY <1>3, FS_RemoveElement
<1>5. Cardinality(Below(waiting, x)) <= Cardinality(P \ {x})
  BY <1>2, <1>4, FS_Subset
<1>6. Cardinality(Below(waiting, x)) \in Nat
  BY <1>1, BelowFinite
<1> HIDE DEF P
<1>7. x < next + Cardinality(P)
  BY <1>1, <1>3, <1>4, <1>5, <1>6
<1> QED
  BY <1>7 DEF P

-----------------------------------------------------------------------------
(***************************************************************************)
(* The inductive invariant.  QuietMeansReported and AckHasContent are not  *)
(* inductive: they need that the acknowledged in order number never passes *)
(* rcv_next, and WaitingAboveNext needs the type of the list.              *)
(***************************************************************************)
ReportedBelowNext ==
  /\ current_largest <= rcv_next - 1
  /\ ack_timer /\ received_out_of_order = {} => current_largest < rcv_next - 1

ServerInv ==
  /\ ServerTypeOK
  /\ WaitingAboveNext
  /\ QuietMeansReported
  /\ ReportedBelowNext
  /\ ArrivedIsKept

LEMMA InitInv == ServerInit => ServerInv
<1> SUFFICES ASSUME ServerInit
             PROVE  ServerInv
  OBVIOUS
<1> USE DEF ServerInit
<1>1. IsFiniteSet(received_out_of_order)
  BY FS_EmptySet
<1>2. ServerTypeOK
  BY <1>1 DEF ServerTypeOK
<1>3. WaitingAboveNext /\ ArrivedIsKept
  BY DEF WaitingAboveNext, ArrivedIsKept
<1>4. QuietMeansReported /\ ReportedBelowNext
  BY DEF QuietMeansReported, ReportedBelowNext
<1> QED
  BY <1>2, <1>3, <1>4 DEF ServerInv

\* A number below next stays below it when next grows.
LEMMA StaysBelow ==
  ASSUME NEW largest \in Int, NEW next \in Int, NEW later \in Int,
         largest <= next - 1, later >= next
  PROVE  /\ largest <= later - 1
         /\ later > next => largest < later - 1
OBVIOUS

\* What the arrival of a packet does to the numbers.
ReceiveNumbers(p) ==
  LET next    == IF InOrder(p) THEN rcv_next + 1 ELSE rcv_next
      waiting == received_out_of_order \cup Listed(p)
      popped  == Popped(waiting, next)
  IN  /\ rcv_next' = next + Cardinality(popped)
      /\ received_out_of_order' = waiting \ popped
      /\ num_packets_recieved' = num_packets_recieved + 1
      /\ ack_timer' = TRUE
      /\ arrived' = arrived \cup {p.number} \cup p.history
      /\ UNCHANGED current_largest

LEMMA ListedFinite ==
  ASSUME ServerInv, NEW p, p.number \in Nat, p.history \in SUBSET Nat,
         IsFiniteSet(p.history)
  PROVE  LET waiting == received_out_of_order \cup Listed(p)
         IN  waiting \in SUBSET Nat /\ IsFiniteSet(waiting)
<1>1. received_out_of_order \in SUBSET Nat /\ IsFiniteSet(received_out_of_order)
  BY DEF ServerInv, ServerTypeOK
<1>2. IsFiniteSet({h \in p.history : h >= rcv_next})
  BY FS_Subset
<1>3. IsFiniteSet({p.number}) /\ IsFiniteSet({p.number} \ {rcv_next})
  BY FS_Singleton, FS_Subset
<1>4. IsFiniteSet(Listed(p)) /\ Listed(p) \in SUBSET Nat
  BY <1>2, <1>3, FS_Union DEF Listed
<1> QED
  BY <1>1, <1>4, FS_Union

\* The arrival of any packet keeps the invariant.
LEMMA ReceiveInv ==
  ASSUME ServerInv,
         NEW p, p.number \in Nat, p.history \in SUBSET Nat,
         IsFiniteSet(p.history), ReceiveNumbers(p)
  PROVE  ServerInv' /\ rcv_next' >= rcv_next
<1> DEFINE next    == IF InOrder(p) THEN rcv_next + 1 ELSE rcv_next
           waiting == received_out_of_order \cup Listed(p)
           popped  == Popped(waiting, next)
<1> USE DEF ServerInv, ServerTypeOK
<1>1. next \in Nat /\ next >= rcv_next
  OBVIOUS
<1>2. waiting \in SUBSET Nat
  BY ListedFinite
<1>3. IsFiniteSet(waiting)
  BY ListedFinite
<1>4. /\ rcv_next' = next + Cardinality(popped)
      /\ received_out_of_order' = waiting \ popped
      /\ ack_timer' = TRUE
      /\ num_packets_recieved' = num_packets_recieved + 1
      /\ arrived' = arrived \cup {p.number} \cup p.history
      /\ current_largest' = current_largest
  BY DEF ReceiveNumbers
<1>5. popped \subseteq waiting /\ IsFiniteSet(popped) /\ Cardinality(popped) \in Nat
  BY <1>1, <1>2, <1>3, PoppedFinite
<1>6. rcv_next' \in Nat /\ rcv_next' >= next
  <2> DEFINE count == Cardinality(popped)
  <2>1. next \in Nat /\ count \in Nat /\ rcv_next' = next + count
    BY <1>1, <1>4, <1>5
  <2> HIDE DEF next, count
  <2> QED
    BY <2>1
<1>7. ServerTypeOK'
  <2>1. IsFiniteSet(received_out_of_order')
    BY <1>3, <1>4, FS_Subset
  <2>2. received_out_of_order' \in SUBSET Nat /\ arrived' \in SUBSET Nat
    BY <1>2, <1>4
  <2>3. current_largest' \in Nat \cup {-1} /\ num_packets_recieved' \in Nat
    BY <1>4
  <2> QED
    BY <1>4, <1>6, <2>1, <2>2, <2>3
<1>8. WaitingAboveNext'
  BY <1>1, <1>2, <1>3, <1>4, LeftIsAbove DEF WaitingAboveNext
<1>9. QuietMeansReported'
  BY <1>4 DEF QuietMeansReported
<1>10. ReportedBelowNext'
  <2>1. current_largest <= rcv_next - 1
    BY DEF ReportedBelowNext
  <2>2. ASSUME received_out_of_order' = {}
        PROVE  rcv_next' > rcv_next
    <3>1. CASE InOrder(p)
      BY <1>6, <3>1
    <3>2. CASE ~InOrder(p)
      <4>1. p.number \in Listed(p)
        BY <3>2 DEF InOrder, Listed
      <4>2. p.number \in popped
        BY <1>4, <2>2, <4>1
      <4>3. Cardinality(popped) # 0
        BY <1>5, <4>2, FS_EmptySet
      <4> QED
        BY <1>1, <1>4, <1>5, <4>3
    <3> QED
      BY <3>1, <3>2
  <2>3. current_largest \in Int /\ rcv_next \in Int /\ rcv_next' \in Int
    BY <1>6
  <2>4. current_largest' = current_largest /\ rcv_next' >= rcv_next
    BY <1>1, <1>4, <1>6
  <2>5. /\ current_largest <= rcv_next' - 1
        /\ rcv_next' > rcv_next => current_largest < rcv_next' - 1
    <3> HIDE DEF ServerInv, ServerTypeOK
    <3> QED
      BY <2>1, <2>3, <2>4, StaysBelow
  <2>6. /\ current_largest' <= rcv_next' - 1
        /\ rcv_next' > rcv_next => current_largest' < rcv_next' - 1
    BY <2>4, <2>5
  <2> QED
    BY <2>2, <2>6 DEF ReportedBelowNext
<1>11. ArrivedIsKept'
  <2> SUFFICES ASSUME NEW n \in arrived'
               PROVE  n < rcv_next' \/ n \in received_out_of_order'
    BY DEF ArrivedIsKept
  <2>1. n \in Nat
    BY <1>4
  <2>2. n < next \/ n \in waiting
    <3>1. CASE n \in arrived
      BY <1>1, <3>1, <2>1 DEF ArrivedIsKept
    <3>2. CASE n = p.number
      BY <3>2, <2>1 DEF Listed, InOrder
    <3>3. CASE n \in p.history
      BY <1>1, <3>3, <2>1 DEF Listed
    <3> QED
      BY <1>4, <3>1, <3>2, <3>3
  <2>3. n \in popped => n < rcv_next'
    BY <1>1, <1>2, <1>3, <1>4, TakenIsBelow
  <2> QED
    BY <1>1, <1>4, <1>6, <2>1, <2>2, <2>3
<1> QED
  BY <1>1, <1>6, <1>7, <1>8, <1>9, <1>10, <1>11

(***************************************************************************)
(* When packets arrive in the order of their numbers, what is popped fills *)
(* the numbers up to the new rcv_next without a hole: it is as many        *)
(* numbers as there are places.                                            *)
(***************************************************************************)
NumbersArrived ==
  /\ \A n \in 0 .. rcv_next - 1 : n \in arrived
  /\ received_out_of_order \subseteq arrived

LEMMA ReceiveArrived ==
  ASSUME ServerInv, NumbersArrived,
         NEW p, p.number \in Nat, p.history \in SUBSET Nat,
         IsFiniteSet(p.history), ReceiveNumbers(p), p.number >= rcv_next
  PROVE  NumbersArrived'
<1> DEFINE next    == IF InOrder(p) THEN rcv_next + 1 ELSE rcv_next
           waiting == received_out_of_order \cup Listed(p)
           popped  == Popped(waiting, next)
           places  == next .. rcv_next' - 1
<1>1. rcv_next \in Nat /\ next \in Nat /\ next >= rcv_next
  BY DEF ServerInv, ServerTypeOK
<1>2. waiting \in SUBSET Nat /\ IsFiniteSet(waiting)
  BY ListedFinite
<1>3. /\ rcv_next' = next + Cardinality(popped)
      /\ received_out_of_order' = waiting \ popped
      /\ arrived' = arrived \cup {p.number} \cup p.history
  BY DEF ReceiveNumbers
<1>4. /\ popped \subseteq waiting /\ IsFiniteSet(popped) /\ Cardinality(popped) \in Nat
      /\ \A x \in popped : x < rcv_next'
  BY <1>1, <1>2, <1>3, PoppedFinite, TakenIsBelow
<1>5. \A x \in waiting : x >= next
  <2>1. \A x \in received_out_of_order : x > rcv_next
    BY DEF ServerInv, WaitingAboveNext
  <2>2. \A x \in Listed(p) : x >= next
    BY <1>1 DEF Listed, InOrder
  <2>3. next = rcv_next \/ next = rcv_next + 1
    OBVIOUS
  <2> HIDE DEF next
  <2> QED
    BY <1>1, <1>2, <2>1, <2>2, <2>3
<1>6. waiting \subseteq arrived'
  <2>1. Listed(p) \subseteq {p.number} \cup p.history
    BY DEF Listed
  <2> QED
    BY <1>3, <2>1 DEF NumbersArrived
<1>7. popped = places
  <2>1. \A x \in popped : x \in Nat /\ x >= next /\ x < rcv_next'
    BY <1>2, <1>4, <1>5
  <2> HIDE DEF popped, next
  <2>2. popped \in SUBSET places
    BY <1>1, <1>3, <1>4, <2>1
  <2>3. IsFiniteSet(places) /\ Cardinality(places) = Cardinality(popped)
    <3>1. next \in Int /\ rcv_next' - 1 \in Int
      BY <1>1, <1>3, <1>4
    <3>2. IsFiniteSet(places)
          /\ Cardinality(places) = IF next > rcv_next' - 1 THEN 0 ELSE (rcv_next' - 1) - next + 1
      BY <3>1, FS_Interval
    <3> QED
      BY <1>1, <1>3, <1>4, <3>2
  <2> QED
    BY <2>2, <2>3, FS_Subset
<1>8. ASSUME NEW n \in 0 .. rcv_next' - 1 PROVE n \in arrived'
  <2>0. rcv_next' \in Nat /\ n \in Nat
    BY <1>1, <1>3, <1>4
  <2>1. CASE n < rcv_next
    BY <1>1, <1>3, <2>0, <2>1 DEF NumbersArrived
  <2>2. CASE n = rcv_next /\ InOrder(p)
    BY <1>3, <2>2 DEF InOrder
  <2>3. CASE n >= next
    <3>1. n \in popped
      <4> DEFINE later == rcv_next'
      <4>1. n >= next /\ next \in Nat /\ n \in 0 .. later - 1 /\ popped = next .. later - 1
            /\ later \in Nat
        BY <1>1, <1>7, <2>0, <2>3
      <4> HIDE DEF next, popped, later
      <4> QED
        BY <4>1
    <3> QED
      BY <1>4, <1>6, <3>1
  <2> QED
    BY <1>1, <2>0, <2>1, <2>2, <2>3
<1>9. received_out_of_order' \subseteq arrived'
  BY <1>3, <1>6
<1> QED
  BY <1>8, <1>9 DEF NumbersArrived

LEMMA AckTimeoutInv ==
  ASSUME ServerInv, AckTimeout
  PROVE  ServerInv' /\ current_largest' >= current_largest
<1>1. /\ current_largest' = rcv_next - 1
      /\ ack_timer' = FALSE
      /\ UNCHANGED <<rcv_next, received_out_of_order, num_packets_recieved,
                     arrived>>
  BY DEF AckTimeout
<1>2. rcv_next \in Nat /\ current_largest \in Int
  BY DEF ServerInv, ServerTypeOK
<1>3. ServerTypeOK'
  <2>1. IsFiniteSet(received_out_of_order')
    BY <1>1 DEF ServerInv, ServerTypeOK
  <2>2. current_largest' \in Nat \cup {-1}
    BY <1>1, <1>2
  <2> QED
    BY <1>1, <2>1, <2>2 DEF ServerInv, ServerTypeOK
<1>4. WaitingAboveNext' /\ ArrivedIsKept'
  BY <1>1 DEF ServerInv, WaitingAboveNext, ArrivedIsKept
<1>5. QuietMeansReported' /\ ReportedBelowNext'
  BY <1>1, <1>2 DEF QuietMeansReported, ReportedBelowNext
<1>6. current_largest' >= current_largest
  BY <1>1, <1>2 DEF ServerInv, ReportedBelowNext
<1> QED
  BY <1>3, <1>4, <1>5, <1>6 DEF ServerInv

LEMMA NextInv ==
  ASSUME ServerInv, [ServerNext]_serverVars
  PROVE  ServerInv'
<1>1. CASE \E p \in Packets : ReceivePacket(p)
  <2> PICK p \in Packets : ReceivePacket(p)
    BY <1>1
  <2> QED
    BY PacketsAssumption, ReceiveInv DEF ReceivePacket, ReceiveNumbers
<1>2. CASE AckTimeout
  BY <1>2, AckTimeoutInv
<1>3. CASE UNCHANGED serverVars
  BY <1>3 DEF serverVars, ServerInv, ServerTypeOK, WaitingAboveNext,
     QuietMeansReported, ReportedBelowNext, ArrivedIsKept
<1> QED
  BY <1>1, <1>2, <1>3 DEF ServerNext

THEOREM Invariance == ServerSpec => []ServerInv
<1>1. ServerInv /\ [ServerNext]_serverVars => ServerInv'
  BY NextInv
<1> QED
  BY InitInv, <1>1, PTL DEF ServerSpec

-----------------------------------------------------------------------------
\* The packet number state of the server has its type: rcv_next and the list
\* of waiting numbers (QuicConnectionServer.h:63-68) stay natural numbers.
THEOREM TypeCorrect == ServerSpec => []ServerTypeOK
<1>1. ServerInv => ServerTypeOK
  BY DEF ServerInv
<1> QED
  BY Invariance, <1>1, PTL

\* Whatever arrives, in any order: the numbers waiting out of order stay above
\* rcv_next (the pop loop, QuicConnectionServer.cc:136-147).
THEOREM WaitingSafe == ServerSpec => []WaitingAboveNext
<1>1. ServerInv => WaitingAboveNext
  BY DEF ServerInv
<1> QED
  BY Invariance, <1>1, PTL

\* No number that arrived is forgotten: it is in order or waits
\* (ProcessServerReceivedPacket, QuicConnectionServer.cc:91-164).
THEOREM NothingForgotten == ServerSpec => []ArrivedIsKept
<1>1. ServerInv => ArrivedIsKept
  BY DEF ServerInv
<1> QED
  BY Invariance, <1>1, PTL

\* While no ACK is scheduled, everything in order has been acknowledged
\* (setAckTimer and handleAckTimeout, ConnectionManager.cc:570, 704).
THEOREM QuietSafe == ServerSpec => []QuietMeansReported
<1>1. ServerInv => QuietMeansReported
  BY DEF ServerInv
<1> QED
  BY Invariance, <1>1, PTL

\* An in order ACK that is due acknowledges at least one packet, so the
\* client's loop over first_ACK_range ends (ConnectionManager.cc:465).
THEOREM AckNeverEmpty == ServerSpec => []AckHasContent
<1>1. ServerInv => AckHasContent
  BY DEF ServerInv, ServerTypeOK, ReportedBelowNext, AckHasContent, AckFrame,
     InOrderAck
<1> QED
  BY Invariance, <1>1, PTL

\* rcv_next and the acknowledged in order number never decrease, and the ACK
\* timer only stops by sending the ACK.
THEOREM Monotone == ServerSpec => NeverTakenBack
<1> DEFINE Step == /\ rcv_next' >= rcv_next
                   /\ current_largest' >= current_largest
                   /\ (ack_timer /\ ~ack_timer') =>
                        current_largest' = rcv_next - 1
<1>1. ServerInv /\ [ServerNext]_serverVars => [Step]_serverVars
  <2> SUFFICES ASSUME ServerInv, ServerNext
               PROVE  Step
    OBVIOUS
  <2>0. rcv_next \in Nat /\ current_largest \in Int
    BY DEF ServerInv, ServerTypeOK
  <2>1. CASE \E p \in Packets : ReceivePacket(p)
    <3> PICK p \in Packets : ReceivePacket(p)
      BY <2>1
    <3>0. ReceiveNumbers(p)
      BY DEF ReceivePacket, ReceiveNumbers
    <3>1. rcv_next' >= rcv_next
      BY <3>0, PacketsAssumption, ReceiveInv
    <3>2. current_largest' = current_largest /\ ack_timer' = TRUE
      BY DEF ReceivePacket
    <3> QED
      BY <2>0, <3>1, <3>2
  <2>2. CASE AckTimeout
    <3>1. current_largest' >= current_largest
      BY <2>2, AckTimeoutInv
    <3>2. rcv_next' = rcv_next /\ current_largest' = rcv_next - 1
      BY <2>2 DEF AckTimeout
    <3> QED
      BY <2>0, <3>1, <3>2
  <2> QED
    BY <2>1, <2>2 DEF ServerNext
<1> QED
  BY Invariance, <1>1, PTL DEF ServerSpec, NeverTakenBack

-----------------------------------------------------------------------------
(***************************************************************************)
(* The ACK frame: the client unpacks the numbers the server packed.        *)
(***************************************************************************)
\* Sequences and the elements in them.
LEMMA AppendIs ==
  ASSUME NEW S, NEW s \in Seq(S), NEW e \in S
  PROVE  /\ Append(s, e) \in Seq(S)
         /\ Len(Append(s, e)) = Len(s) + 1
         /\ DOMAIN Append(s, e) = 1 .. Len(s) + 1
         /\ \A i \in 1 .. Len(s) : Append(s, e)[i] = s[i]
         /\ Append(s, e)[Len(s) + 1] = e
OBVIOUS

LEMMA SeqOfSubset ==
  ASSUME NEW T, NEW S \in SUBSET T, NEW s \in Seq(S) PROVE s \in Seq(T)
OBVIOUS

LEMMA ConcatIs ==
  ASSUME NEW S, NEW s \in Seq(S), NEW t \in Seq(S)
  PROVE  s \o t \in Seq(S) /\ Len(s \o t) = Len(s) + Len(t)
OBVIOUS

LEMMA ToSetConcat ==
  ASSUME NEW S, NEW s \in Seq(S), NEW t \in Seq(S)
  PROVE  ToSet(s \o t) = ToSet(s) \cup ToSet(t)
<1> DEFINE a == s \o t
           m == Len(s)
           n == Len(t)
<1>1. /\ DOMAIN a = 1 .. m + n /\ DOMAIN s = 1 .. m /\ DOMAIN t = 1 .. n
      /\ m \in Nat /\ n \in Nat
      /\ \A i \in 1 .. m : a[i] = s[i]
      /\ \A i \in 1 .. n : a[m + i] = t[i]
  OBVIOUS
<1>2. \A i \in 1 .. m + n : i \in 1 .. m \/ (i - m \in 1 .. n /\ i = m + (i - m))
  BY <1>1
<1>3. (\A i \in 1 .. m : i \in 1 .. m + n) /\ (\A i \in 1 .. n : m + i \in 1 .. m + n)
  BY <1>1
<1> HIDE DEF a, m, n
<1>4. \A x \in ToSet(a) : x \in ToSet(s) \cup ToSet(t)
  <2> SUFFICES ASSUME NEW i \in 1 .. m + n PROVE a[i] \in ToSet(s) \cup ToSet(t)
    BY <1>1 DEF ToSet
  <2>1. CASE i \in 1 .. m
    BY <1>1, <2>1 DEF ToSet
  <2>2. CASE i \notin 1 .. m
    <3> DEFINE k == i - m
    <3>1. k \in 1 .. n /\ m + k = i
      BY <1>1, <1>2, <2>2
    <3> HIDE DEF k
    <3>2. a[i] = t[k] /\ k \in DOMAIN t
      BY <1>1, <3>1
    <3> QED
      BY <3>2 DEF ToSet
  <2> QED
    BY <2>1, <2>2
<1>5. \A x \in ToSet(s) : x \in ToSet(a)
  BY <1>1, <1>3 DEF ToSet
<1>6. \A x \in ToSet(t) : x \in ToSet(a)
  BY <1>1, <1>3 DEF ToSet
<1> QED
  BY <1>4, <1>5, <1>6 DEF a

LEMMA ToSetType ==
  ASSUME NEW S, NEW s \in Seq(S) PROVE ToSet(s) \subseteq S
BY DEF ToSet

\* A descending sequence has every number once, the largest first.
Falling(s) == \A i, j \in 1 .. Len(s) : i < j => s[i] > s[j]

LEMMA FallingConcat ==
  ASSUME NEW s \in Seq(Int), NEW t \in Seq(Int), Falling(s), Falling(t),
         \A x \in ToSet(s), y \in ToSet(t) : x > y
  PROVE  Falling(s \o t)
<1> DEFINE a == s \o t
           m == Len(s)
           n == Len(t)
<1>1. /\ Len(a) = m + n /\ m \in Nat /\ n \in Nat
      /\ DOMAIN s = 1 .. m /\ DOMAIN t = 1 .. n
      /\ \A i \in 1 .. m : a[i] = s[i]
      /\ \A i \in m + 1 .. m + n : a[i] = t[i - m]
  OBVIOUS
<1> HIDE DEF a, m, n
<1> SUFFICES ASSUME NEW i \in 1 .. m + n, NEW j \in 1 .. m + n, i < j
             PROVE  a[i] > a[j]
  BY <1>1 DEF Falling, a
<1>2. CASE j <= m
  <2>1. i \in 1 .. m /\ j \in 1 .. m
    BY <1>1, <1>2
  <2> QED
    BY <1>1, <2>1 DEF Falling, m
<1>3. CASE ~(j <= m) /\ i <= m
  <2>1. i \in 1 .. m /\ j \in m + 1 .. m + n /\ j - m \in 1 .. n
    BY <1>1, <1>3
  <2>2. s[i] \in ToSet(s) /\ t[j - m] \in ToSet(t)
    BY <1>1, <2>1 DEF ToSet
  <2> QED
    BY <1>1, <2>1, <2>2
<1>4. CASE ~(i <= m)
  <2>1. /\ i \in m + 1 .. m + n /\ j \in m + 1 .. m + n
        /\ i - m \in 1 .. n /\ j - m \in 1 .. n /\ i - m < j - m
    BY <1>1, <1>4
  <2>2. t[i - m] > t[j - m]
    BY <2>1 DEF Falling, n
  <2> QED
    BY <1>1, <2>1, <2>2
<1> QED
  BY <1>1, <1>2, <1>3, <1>4

\* Two descending sequences of the same numbers are the same.
LEMMA FallingPrefix ==
  ASSUME NEW s \in Seq(Int), NEW t \in Seq(Int), Falling(s), Falling(t),
         ToSet(s) = ToSet(t)
  PROVE  Len(s) <= Len(t) /\ \A i \in 1 .. Len(s) : s[i] = t[i]
<1> DEFINE m == Len(s)
           n == Len(t)
           Same(i) == i <= m => i <= n /\ s[i] = t[i]
           K == {k \in Nat : \A i \in 1 .. k : Same(i)}
<1>1. /\ m \in Nat /\ n \in Nat /\ DOMAIN s = 1 .. m /\ DOMAIN t = 1 .. n
      /\ \A i \in 1 .. m : s[i] \in Int
      /\ \A i \in 1 .. n : t[i] \in Int
  OBVIOUS
<1>2. /\ \A i \in 1 .. m : \E j \in 1 .. n : s[i] = t[j]
      /\ \A i \in 1 .. n : \E j \in 1 .. m : t[i] = s[j]
  BY <1>1 DEF ToSet
<1>3. /\ \A i, j \in 1 .. m : i < j => s[i] > s[j]
      /\ \A i, j \in 1 .. n : i < j => t[i] > t[j]
  BY DEF Falling
<1> HIDE DEF m, n
<1>4. 0 \in K
  OBVIOUS
<1>5. ASSUME NEW k \in Nat, k \in K PROVE k + 1 \in K
  <2>1. ASSUME k + 1 <= m PROVE k + 1 <= n /\ s[k + 1] = t[k + 1]
    <3>1. k + 1 \in 1 .. m /\ \A i \in 1 .. k : i \in 1 .. m /\ i \in 1 .. n /\ s[i] = t[i]
      <4>1. \A i \in 1 .. k : i <= m
        BY <1>1, <2>1
      <4>2. \A i \in 1 .. k : i <= n /\ s[i] = t[i]
        BY <1>5, <4>1
      <4> QED
        BY <1>1, <2>1, <4>1, <4>2
    <3>2. PICK j \in 1 .. n : s[k + 1] = t[j]
      BY <1>2, <3>1
    <3>3. ~(j <= k)
      <4>1. ASSUME j <= k PROVE FALSE
        <5>1. j \in 1 .. k /\ j < k + 1
          BY <4>1
        <5>2. s[j] > s[k + 1] /\ s[j] = t[j] /\ s[j] \in Int /\ s[k + 1] \in Int
          BY <1>1, <1>3, <3>1, <5>1
        <5> QED
          BY <3>2, <5>2
      <4> QED
        BY <4>1
    <3>4. k + 1 <= n /\ k + 1 \in 1 .. n /\ k + 1 <= j
      BY <1>1, <3>3
    <3>5. t[k + 1] >= s[k + 1]
      <4>1. t[k + 1] \in Int /\ t[j] \in Int
        BY <1>1, <3>4
      <4>2. CASE k + 1 = j
        BY <3>2, <4>1, <4>2
      <4>3. CASE k + 1 < j
        BY <1>3, <3>2, <3>4, <4>1, <4>3
      <4> QED
        BY <3>4, <4>2, <4>3
    <3>6. PICK l \in 1 .. m : t[k + 1] = s[l]
      BY <1>2, <3>4
    <3>7. ~(l <= k)
      <4>1. ASSUME l <= k PROVE FALSE
        <5>1. l \in 1 .. k /\ l < k + 1
          BY <4>1
        <5>2. t[l] > t[k + 1] /\ s[l] = t[l] /\ t[l] \in Int /\ t[k + 1] \in Int
          BY <1>1, <1>3, <3>1, <3>4, <5>1
        <5> QED
          BY <3>6, <5>2
      <4> QED
        BY <4>1
    <3>8. s[k + 1] >= t[k + 1]
      <4>1. s[k + 1] \in Int /\ s[l] \in Int
        BY <1>1, <3>1
      <4>2. CASE k + 1 = l
        BY <3>6, <4>1, <4>2
      <4>3. CASE k + 1 < l
        BY <1>3, <3>1, <3>6, <4>1, <4>3
      <4> QED
        BY <3>7, <4>2, <4>3
    <3>9. s[k + 1] \in Int /\ t[k + 1] \in Int
      BY <1>1, <3>1, <3>4
    <3> QED
      BY <3>4, <3>5, <3>8, <3>9
  <2>2. Same(k + 1) /\ \A i \in 1 .. k : Same(i)
    BY <1>5, <2>1
  <2>3. \A i \in 1 .. k + 1 : i \in 1 .. k \/ i = k + 1
    OBVIOUS
  <2> HIDE DEF Same
  <2> QED
    BY <2>2, <2>3
<1>6. Nat \subseteq K
  <2> HIDE DEF K
  <2> QED
    BY <1>4, <1>5, Ranges!NatSetInduction
<1>7. \A i \in 1 .. m : i <= n /\ s[i] = t[i]
  <2> TAKE i \in 1 .. m
  <2>1. i \in Nat /\ i <= m /\ i \in 1 .. i
    BY <1>1
  <2>2. i \in K
    BY <1>6, <2>1
  <2> QED
    BY <2>1, <2>2
<1>8. m <= n
  <2>1. CASE m = 0
    BY <1>1, <2>1
  <2>2. CASE m # 0
    BY <1>1, <1>7, <2>2
  <2> QED
    BY <2>1, <2>2
<1> QED
  BY <1>7, <1>8 DEF m, n

AckFrames ==
  [largest : Int, first : Int, ranges : Seq([gap : Int, length : Int])]

(***************************************************************************)
(* The rank of an element is an injection into as many numbers as there    *)
(* are elements, so every rank is taken.                                   *)
(***************************************************************************)
LEMMA DescendingIs ==
  ASSUME NEW S \in SUBSET Int, IsFiniteSet(S)
  PROVE  LET d == Descending(S)
             n == Cardinality(S)
         IN  /\ n \in Nat /\ d \in Seq(S) /\ Len(d) = n
             /\ \A i, j \in 1 .. n : i < j => d[i] > d[j]
             /\ \A x \in S : \E i \in 1 .. n : d[i] = x
<1> DEFINE n == Cardinality(S)
           d == Descending(S)
           above(x) == {y \in S : y > x}
           r == [x \in S |-> Cardinality(above(x))]
<1>1. n \in Nat
  BY FS_CardinalityType
<1>2. ASSUME NEW x \in S
      PROVE  IsFiniteSet(above(x)) /\ r[x] \in 0 .. n - 1
  <2>1. above(x) \in SUBSET (S \ {x}) /\ above(x) \in SUBSET S
    OBVIOUS
  <2>2. IsFiniteSet(S \ {x}) /\ Cardinality(S \ {x}) = n - 1
    BY FS_RemoveElement
  <2> HIDE DEF above
  <2>3. IsFiniteSet(above(x)) /\ Cardinality(above(x)) <= Cardinality(S \ {x})
    BY <2>1, <2>2, FS_Subset
  <2>4. Cardinality(above(x)) \in Nat
    BY <2>3, FS_CardinalityType
  <2> HIDE DEF n
  <2> QED
    BY <1>1, <2>2, <2>3, <2>4
<1>3. ASSUME NEW x \in S, NEW y \in S, x < y PROVE r[y] < r[x]
  <2>1. above(y) \in SUBSET (above(x) \ {y}) /\ y \in above(x)
    <3>1. x \in Int /\ y \in Int /\ x < y
      BY <1>3
    <3>2. \A z \in S : z \in Int /\ (z > y => z > x /\ z # y)
      BY <3>1
    <3> QED
      BY <3>1, <3>2
  <2>2. IsFiniteSet(above(x)) /\ r[x] \in Nat /\ r[y] \in Nat
    BY <1>2
  <2> HIDE DEF above
  <2>3. IsFiniteSet(above(x) \ {y}) /\ Cardinality(above(x) \ {y}) = Cardinality(above(x)) - 1
    BY <2>1, <2>2, FS_RemoveElement
  <2>4. Cardinality(above(y)) <= Cardinality(above(x) \ {y})
    BY <2>1, <2>3, FS_Subset
  <2> QED
    BY <2>2, <2>3, <2>4
<1>4. \A x, y \in S : r[x] = r[y] => x = y
  <2> SUFFICES ASSUME NEW x \in S, NEW y \in S, x # y PROVE r[x] # r[y]
    OBVIOUS
  <2>1. (x < y \/ y < x) /\ r[x] \in Int /\ r[y] \in Int
    BY <1>2
  <2> HIDE DEF r
  <2> QED
    BY <1>3, <2>1
<1>5. r \in Injection(S, 0 .. n - 1)
  <2>1. r \in [S -> 0 .. n - 1]
    BY <1>2
  <2> HIDE DEF r
  <2> QED
    BY <1>4, <2>1 DEF Injection, IsInjective
<1>6. IsFiniteSet(0 .. n - 1) /\ Cardinality(0 .. n - 1) = n
  BY <1>1, FS_Interval
<1>7. r \in Surjection(S, 0 .. n - 1)
  <2> HIDE DEF r
  <2> QED
    BY <1>5, <1>6, FS_Injection
<1>8. ASSUME NEW i \in 1 .. n PROVE d[i] \in S /\ r[d[i]] = i - 1
  <2>1. i - 1 \in 0 .. n - 1
    BY <1>1
  <2>2. PICK x \in S : r[x] = i - 1
    BY <1>7, <2>1 DEF Surjection
  <2>3. Cardinality({y \in S : y > x}) = i - 1
    BY <2>2
  <2>4. d[i] = CHOOSE z \in S : Cardinality({y \in S : y > z}) = i - 1
    BY DEF Descending
  <2> QED
    BY <2>3, <2>4
<1>9. d \in Seq(S) /\ Len(d) = n
  <2>1. d \in [1 .. n -> S]
    BY <1>8 DEF Descending
  <2> HIDE DEF d, n
  <2> QED
    BY <1>1, <2>1
<1>10. ASSUME NEW i \in 1 .. n, NEW j \in 1 .. n, i < j PROVE d[i] > d[j]
  <2>1. d[i] \in S /\ d[j] \in S /\ r[d[i]] = i - 1 /\ r[d[j]] = j - 1
    BY <1>8
  <2> HIDE DEF d, r
  <2>2. d[i] # d[j]
    BY <1>1, <1>10, <2>1
  <2>3. ~(d[i] < d[j])
    <3> SUFFICES ASSUME d[i] < d[j] PROVE FALSE
      OBVIOUS
    <3>1. r[d[j]] < r[d[i]]
      BY <1>3, <2>1
    <3> QED
      BY <1>1, <1>10, <2>1, <3>1
  <2>4. d[i] \in Int /\ d[j] \in Int
    BY <2>1
  <2> QED
    BY <2>2, <2>3, <2>4
<1>11. ASSUME NEW x \in S PROVE \E i \in 1 .. n : d[i] = x
  <2> DEFINE i == r[x] + 1
  <2>1. i \in 1 .. n /\ i - 1 = r[x]
    BY <1>1, <1>2
  <2> HIDE DEF i
  <2>2. d[i] \in S /\ r[d[i]] = r[x]
    BY <1>8, <2>1
  <2> QED
    BY <1>4, <2>1, <2>2
<1> HIDE DEF d
<1> QED
  BY <1>1, <1>9, <1>10, <1>11 DEF d

LEMMA AscendingIs ==
  ASSUME NEW S \in SUBSET Int, IsFiniteSet(S)
  PROVE  LET d == Ascending(S)
             n == Cardinality(S)
         IN  /\ n \in Nat /\ d \in Seq(S) /\ Len(d) = n
             /\ \A i, j \in 1 .. n : i < j => d[i] < d[j]
             /\ \A x \in S : \E i \in 1 .. n : d[i] = x
<1> DEFINE n == Cardinality(S)
           d == Ascending(S)
           below(x) == {y \in S : y < x}
           r == [x \in S |-> Cardinality(below(x))]
<1>1. n \in Nat
  BY FS_CardinalityType
<1>2. ASSUME NEW x \in S
      PROVE  IsFiniteSet(below(x)) /\ r[x] \in 0 .. n - 1
  <2>1. below(x) \in SUBSET (S \ {x}) /\ below(x) \in SUBSET S
    OBVIOUS
  <2>2. IsFiniteSet(S \ {x}) /\ Cardinality(S \ {x}) = n - 1
    BY FS_RemoveElement
  <2> HIDE DEF below
  <2>3. IsFiniteSet(below(x)) /\ Cardinality(below(x)) <= Cardinality(S \ {x})
    BY <2>1, <2>2, FS_Subset
  <2>4. Cardinality(below(x)) \in Nat
    BY <2>3, FS_CardinalityType
  <2> HIDE DEF n
  <2> QED
    BY <1>1, <2>2, <2>3, <2>4
<1>3. ASSUME NEW x \in S, NEW y \in S, y < x PROVE r[y] < r[x]
  <2>1. below(y) \in SUBSET (below(x) \ {y}) /\ y \in below(x)
    <3>1. x \in Int /\ y \in Int /\ y < x
      BY <1>3
    <3>2. \A z \in S : z \in Int /\ (z < y => z < x /\ z # y)
      BY <3>1
    <3> QED
      BY <3>1, <3>2
  <2>2. IsFiniteSet(below(x)) /\ r[x] \in Nat /\ r[y] \in Nat
    BY <1>2
  <2> HIDE DEF below
  <2>3. IsFiniteSet(below(x) \ {y}) /\ Cardinality(below(x) \ {y}) = Cardinality(below(x)) - 1
    BY <2>1, <2>2, FS_RemoveElement
  <2>4. Cardinality(below(y)) <= Cardinality(below(x) \ {y})
    BY <2>1, <2>3, FS_Subset
  <2> QED
    BY <2>2, <2>3, <2>4
<1>4. \A x, y \in S : r[x] = r[y] => x = y
  <2> SUFFICES ASSUME NEW x \in S, NEW y \in S, x # y PROVE r[x] # r[y]
    OBVIOUS
  <2>1. (x < y \/ y < x) /\ r[x] \in Int /\ r[y] \in Int
    BY <1>2
  <2> HIDE DEF r
  <2> QED
    BY <1>3, <2>1
<1>5. r \in Injection(S, 0 .. n - 1)
  <2>1. r \in [S -> 0 .. n - 1]
    BY <1>2
  <2> HIDE DEF r
  <2> QED
    BY <1>4, <2>1 DEF Injection, IsInjective
<1>6. IsFiniteSet(0 .. n - 1) /\ Cardinality(0 .. n - 1) = n
  BY <1>1, FS_Interval
<1>7. r \in Surjection(S, 0 .. n - 1)
  <2> HIDE DEF r
  <2> QED
    BY <1>5, <1>6, FS_Injection
<1>8. ASSUME NEW i \in 1 .. n PROVE d[i] \in S /\ r[d[i]] = i - 1
  <2>1. i - 1 \in 0 .. n - 1
    BY <1>1
  <2>2. PICK x \in S : r[x] = i - 1
    BY <1>7, <2>1 DEF Surjection
  <2>3. Cardinality({y \in S : y < x}) = i - 1
    BY <2>2
  <2>4. d[i] = CHOOSE z \in S : Cardinality({y \in S : y < z}) = i - 1
    BY DEF Ascending
  <2> QED
    BY <2>3, <2>4
<1>9. d \in Seq(S) /\ Len(d) = n
  <2>1. d \in [1 .. n -> S]
    BY <1>8 DEF Ascending
  <2> HIDE DEF d, n
  <2> QED
    BY <1>1, <2>1
<1>10. ASSUME NEW i \in 1 .. n, NEW j \in 1 .. n, i < j PROVE d[i] < d[j]
  <2>1. d[i] \in S /\ d[j] \in S /\ r[d[i]] = i - 1 /\ r[d[j]] = j - 1
    BY <1>8
  <2> HIDE DEF d, r
  <2>2. d[i] # d[j]
    BY <1>1, <1>10, <2>1
  <2>3. ~(d[i] > d[j])
    <3> SUFFICES ASSUME d[i] > d[j] PROVE FALSE
      OBVIOUS
    <3>1. r[d[j]] < r[d[i]]
      BY <1>3, <2>1
    <3> QED
      BY <1>1, <1>10, <2>1, <3>1
  <2>4. d[i] \in Int /\ d[j] \in Int
    BY <2>1
  <2> QED
    BY <2>2, <2>3, <2>4
<1>11. ASSUME NEW x \in S PROVE \E i \in 1 .. n : d[i] = x
  <2> DEFINE i == r[x] + 1
  <2>1. i \in 1 .. n /\ i - 1 = r[x]
    BY <1>1, <1>2
  <2> HIDE DEF i
  <2>2. d[i] \in S /\ r[d[i]] = r[x]
    BY <1>8, <2>1
  <2> QED
    BY <1>4, <2>1, <2>2
<1> HIDE DEF d
<1> QED
  BY <1>1, <1>9, <1>10, <1>11 DEF d

\* Nothing lies between two neighbours.
LEMMA DescendingNeighbours ==
  ASSUME NEW S \in SUBSET Int, IsFiniteSet(S), NEW x \in S
  PROVE  LET d == Descending(S)
             n == Cardinality(S)
         IN  /\ n >= 1 /\ x <= d[1] /\ d[n] <= x
             /\ \A i \in 1 .. n - 1 : ~(d[i + 1] < x /\ x < d[i])
<1> DEFINE d == Descending(S)
           n == Cardinality(S)
<1>1. /\ n \in Nat /\ \A i, j \in 1 .. n : i < j => d[i] > d[j]
      /\ d \in Seq(S) /\ Len(d) = n
      /\ \A y \in S : \E i \in 1 .. n : d[i] = y
  BY DescendingIs
<1> HIDE DEF d, n
<1>2. \A i \in 1 .. n : d[i] \in Int
  <2>1. \A i \in 1 .. n : d[i] \in S
    BY <1>1
  <2> QED
    BY <2>1
<1>3. PICK u \in 1 .. n : d[u] = x
  BY <1>1
<1>4. n >= 1 /\ 1 \in 1 .. n /\ n \in 1 .. n /\ u \in Int /\ 1 <= u /\ u <= n
  BY <1>1, <1>3
<1>5. x <= d[1]
  <2>1. u = 1 \/ d[1] > d[u]
    BY <1>1, <1>4
  <2> QED
    BY <1>2, <1>3, <1>4, <2>1
<1>6. d[n] <= x
  <2>1. u = n \/ d[u] > d[n]
    BY <1>1, <1>4
  <2> QED
    BY <1>2, <1>3, <1>4, <2>1
<1>7. ASSUME NEW i \in 1 .. n - 1, d[i + 1] < x, x < d[i] PROVE FALSE
  <2>1. i \in 1 .. n /\ i + 1 \in 1 .. n
    BY <1>1
  <2>2. u # i /\ u # i + 1
    BY <1>2, <1>3, <1>7, <2>1
  <2>3. u < i \/ u > i + 1
    BY <2>1, <2>2
  <2>4. u < i => d[u] > d[i]
    BY <1>1, <2>1
  <2>5. u > i + 1 => d[i + 1] > d[u]
    BY <1>1, <2>1
  <2> QED
    BY <1>2, <1>3, <1>7, <2>1, <2>3, <2>4, <2>5
<1> QED
  BY <1>4, <1>5, <1>6, <1>7 DEF d, n

LEMMA MinMax ==
  ASSUME NEW S \in SUBSET Int, IsFiniteSet(S), S # {}
  PROVE  /\ Max(S) \in S /\ \A x \in S : x <= Max(S)
         /\ Min(S) \in S /\ \A x \in S : Min(S) <= x
<1> DEFINE d == Descending(S)
           n == Cardinality(S)
<1>1. n \in Nat /\ d \in Seq(S) /\ Len(d) = n
  BY DescendingIs
<1>2. n >= 1 /\ \A x \in S : x <= d[1] /\ d[n] <= x
  BY DescendingNeighbours
<1> HIDE DEF d, n
<1>3. d[1] \in S /\ d[n] \in S
  BY <1>1, <1>2
<1>4. \E x \in S : \A y \in S : x >= y
  BY <1>2, <1>3
<1>5. \E x \in S : \A y \in S : x =< y
  BY <1>2, <1>3
<1>6. Max(S) \in S /\ \A y \in S : Max(S) >= y
  BY <1>4 DEF Max
<1>7. Min(S) \in S /\ \A y \in S : Min(S) =< y
  BY <1>5 DEF Min
<1> QED
  BY <1>6, <1>7

\* A stretch of a descending sequence without jumps.
LEMMA Run ==
  ASSUME NEW d, NEW a \in Nat, NEW b \in Nat, a <= b, d[a] \in Int,
         \A t \in Nat : a <= t /\ t < b => d[t + 1] = d[t] - 1
  PROVE  \A k \in Nat : k <= b - a => d[a + k] = d[a] - k
<1> DEFINE K == {k \in Nat : k <= b - a => d[a + k] = d[a] - k}
<1>1. 0 \in K
  OBVIOUS
<1>2. ASSUME NEW k \in Nat, k \in K PROVE k + 1 \in K
  <2> SUFFICES ASSUME k + 1 <= b - a PROVE d[a + (k + 1)] = d[a] - (k + 1)
    OBVIOUS
  <2>1. a + k \in Nat /\ a <= a + k /\ a + k < b /\ (a + k) + 1 = a + (k + 1) /\ k <= b - a
    OBVIOUS
  <2>2. d[(a + k) + 1] = d[a + k] - 1
    BY <2>1
  <2>3. d[a + k] = d[a] - k
    BY <1>2, <2>1
  <2> QED
    BY <2>1, <2>2, <2>3
<1> HIDE DEF K
<1>3. Nat \subseteq K
  BY <1>1, <1>2, Ranges!NatSetInduction
<1> QED
  BY <1>3 DEF K

LEMMA DownwardsIs ==
  ASSUME NEW from \in Int, NEW count \in Int
  PROVE  /\ Downwards(from, count) \in Seq(Int) /\ Falling(Downwards(from, count))
         /\ count \in Nat => Len(Downwards(from, count)) = count
         /\ \A x \in Int : x \in ToSet(Downwards(from, count)) <=> from - count <= x /\ x < from
<1> DEFINE s == Downwards(from, count)
           n == IF count > 0 THEN count ELSE 0
<1>1. n \in Nat /\ 1 .. count = 1 .. n
  OBVIOUS
<1>2. s = [i \in 1 .. n |-> from - i]
  BY <1>1 DEF Downwards
<1> HIDE DEF s
<1>3. s \in Seq(Int) /\ DOMAIN s = 1 .. n /\ \A i \in 1 .. n : s[i] = from - i
  <2> HIDE DEF n
  <2> QED
    BY <1>1, <1>2
<1>4. ASSUME NEW x \in Int
      PROVE  x \in ToSet(s) <=> from - count <= x /\ x < from
  <2>1. ASSUME x \in ToSet(s) PROVE from - count <= x /\ x < from
    <3> PICK i \in 1 .. n : x = from - i
      BY <1>3, <2>1 DEF ToSet
    <3> QED
      OBVIOUS
  <2>2. ASSUME from - count <= x, x < from PROVE x \in ToSet(s)
    <3>1. from - x \in 1 .. n /\ from - (from - x) = x
      BY <2>2
    <3> HIDE DEF n
    <3> QED
      BY <1>3, <3>1 DEF ToSet
  <2> QED
    BY <2>1, <2>2
<1>5. Falling(s) /\ Len(s) = n
  <2> HIDE DEF n
  <2>1. Len(s) = n
    BY <1>1, <1>3
  <2>2. \A i, j \in 1 .. n : i < j => s[i] > s[j]
    BY <1>1, <1>3
  <2> QED
    BY <2>1, <2>2 DEF Falling
<1> QED
  BY <1>3, <1>4, <1>5 DEF s

(***************************************************************************)
(* The descending missing numbers d[1 .. m], and the places j[1 .. r] they *)
(* jump at.  Between two jumps there are missing numbers only, and at a    *)
(* jump received ones only.                                                *)
(***************************************************************************)
Holes(list, d, m, j, r) ==
  LET from(k) == IF k = 0 THEN 1 ELSE j[k] + 1
      to(k)   == IF k <= r THEN j[k] ELSE m
  IN  /\ m \in Nat /\ r \in Nat
      /\ \A t \in 1 .. m : d[t] \in Int
      /\ \A s, t \in 1 .. m : s < t => d[s] > d[t]
      /\ \A k \in 1 .. r : j[k] \in 1 .. m - 1
      /\ \A k \in 1 .. r + 1 :
           /\ from(k - 1) \in 1 .. m /\ to(k) \in 1 .. m
           /\ from(k - 1) <= to(k)
           /\ d[to(k)] = d[from(k - 1)] - (to(k) - from(k - 1))
           /\ \A x \in list : ~(d[to(k)] <= x /\ x <= d[from(k - 1)])
      /\ \A k \in 1 .. r : \A x \in Int : d[j[k] + 1] < x /\ x < d[j[k]] => x \in list
      /\ \A x \in Int : d[1] < x /\ x <= Max(list) => x \in list
      /\ \A x \in list : d[m] < x
      /\ d[1] = Max(Missing(list)) /\ d[1] <= Max(list)

LEMMA HolesIs ==
  ASSUME NEW list \in SUBSET Int, IsFiniteSet(list), list # {}
  PROVE  LET d == Descending(Missing(list))
             m == Len(d)
             J == {i \in 1 .. m - 1 : d[i + 1] # d[i] - 1}
         IN  /\ Holes(list, d, m, Ascending(J), Len(Ascending(J)))
             /\ Ascending(J) \in Seq(J)
<1> DEFINE M == Missing(list)
           d == Descending(M)
           m == Len(d)
           J == {i \in 1 .. m - 1 : d[i + 1] # d[i] - 1}
           j == Ascending(J)
           r == Len(j)
           min == Min(list)
           max == Max(list)
           from(k) == IF k = 0 THEN 1 ELSE j[k] + 1
           to(k)   == IF k <= r THEN j[k] ELSE m
<1>1. /\ max \in list /\ max \in Int /\ \A x \in list : x <= max
      /\ min \in list /\ min \in Int /\ \A x \in list : min <= x
  BY MinMax
<1>2. M = {n \in min - 1 .. max : n \notin list}
  BY DEF Missing
<1> HIDE DEF min, max, M
<1>3. M \in SUBSET Int /\ IsFiniteSet(M) /\ min - 1 \in M /\ \A x \in M : min - 1 <= x /\ x <= max
  <2>1. M \in SUBSET (min - 1 .. max)
    BY <1>2
  <2>2. IsFiniteSet(min - 1 .. max)
    BY <1>1, FS_Interval
  <2>3. IsFiniteSet(M)
    BY <2>1, <2>2, FS_Subset
  <2>4. min - 1 \in M
    BY <1>1, <1>2
  <2> QED
    BY <1>1, <2>1, <2>3, <2>4
<1>4. /\ m \in Nat /\ Cardinality(M) = m /\ d \in Seq(M) /\ Len(d) = m
      /\ \A s, t \in 1 .. m : s < t => d[s] > d[t]
      /\ \A x \in M : \E t \in 1 .. m : d[t] = x
  BY <1>3, DescendingIs
<1>5. \A x \in M : /\ m >= 1 /\ x <= d[1] /\ d[m] <= x
                   /\ \A t \in 1 .. m - 1 : ~(d[t + 1] < x /\ x < d[t])
  BY <1>3, <1>4, DescendingNeighbours
<1> HIDE DEF d, m
<1>6. \A t \in 1 .. m : d[t] \in M /\ d[t] \in Int
  <2>1. \A t \in 1 .. m : d[t] \in M
    BY <1>4
  <2> QED
    BY <1>3, <2>1
<1>7. m >= 1 /\ 1 \in 1 .. m /\ m \in 1 .. m /\ d[m] = min - 1
  <2>1. m >= 1 /\ d[m] <= min - 1
    BY <1>3, <1>5
  <2>2. m \in 1 .. m
    BY <1>4, <2>1
  <2>3. d[m] \in Int /\ min - 1 <= d[m]
    BY <1>3, <1>6, <2>2
  <2> QED
    BY <1>1, <1>4, <2>1, <2>2, <2>3
<1>8. J \in SUBSET Int /\ IsFiniteSet(J)
  <2>1. J \in SUBSET (1 .. m - 1) /\ m - 1 \in Int
    BY <1>4
  <2>2. IsFiniteSet(1 .. m - 1)
    BY <2>1, FS_Interval
  <2>3. 1 .. m - 1 \in SUBSET Int
    BY <2>1
  <2> HIDE DEF J
  <2>4. IsFiniteSet(J)
    BY <2>1, <2>2, FS_Subset
  <2> QED
    BY <2>1, <2>3, <2>4
<1>9. \A t \in J : t \in 1 .. m - 1 /\ d[t + 1] # d[t] - 1
  OBVIOUS
<1>10. \A t \in 1 .. m - 1 : t \notin J => d[t + 1] = d[t] - 1
  OBVIOUS
<1> HIDE DEF J
<1>11. /\ r \in Nat /\ j \in Seq(J) /\ Len(j) = r
       /\ \A s, t \in 1 .. r : s < t => j[s] < j[t]
       /\ \A x \in J : \E t \in 1 .. r : j[t] = x
  BY <1>8, AscendingIs
<1> HIDE DEF j, r
<1>12. \A k \in 1 .. r : j[k] \in J /\ j[k] \in 1 .. m - 1 /\ j[k] \in Int
  <2>1. \A k \in 1 .. r : j[k] \in J
    BY <1>11
  <2> QED
    BY <1>9, <2>1
<1>13. ASSUME NEW k \in 1 .. r + 1
       PROVE  /\ from(k - 1) \in 1 .. m /\ to(k) \in 1 .. m
              /\ from(k - 1) <= to(k)
              /\ \A t \in Int : from(k - 1) <= t /\ t < to(k) => t \notin J
  <2>1. k - 1 \in 0 .. r /\ (k - 1 # 0 => k - 1 \in 1 .. r) /\ (k <= r => k \in 1 .. r)
    BY <1>11
  <2>2. from(k - 1) \in 1 .. m
    BY <1>4, <1>7, <1>12, <2>1
  <2>3. to(k) \in 1 .. m
    BY <1>4, <1>7, <1>12, <2>1
  <2>4. from(k - 1) <= to(k)
    <3>1. CASE k - 1 = 0
      BY <2>3, <3>1
    <3>2. CASE k - 1 # 0 /\ k <= r
      <4>1. j[k - 1] < j[k] /\ j[k - 1] \in Int /\ j[k] \in Int
        BY <1>11, <1>12, <2>1, <3>2
      <4> QED
        BY <3>2, <4>1
    <3>3. CASE k - 1 # 0 /\ ~(k <= r)
      <4>1. j[k - 1] \in 1 .. m - 1
        BY <1>12, <2>1, <3>3
      <4> QED
        BY <1>4, <3>3, <4>1
    <3> QED
      BY <3>1, <3>2, <3>3
  <2>5. ASSUME NEW t \in Int, from(k - 1) <= t, t < to(k), t \in J PROVE FALSE
    <3>1. PICK u \in 1 .. r : j[u] = t
      BY <1>11, <2>5
    <3>2. ~(u <= k - 1)
      <4> SUFFICES ASSUME u <= k - 1 PROVE FALSE
        OBVIOUS
      <4>1. k - 1 \in 1 .. r
        BY <1>11, <2>1
      <4>2. j[u] <= j[k - 1]
        <5>1. u = k - 1 \/ u < k - 1
          BY <4>1
        <5>2. u < k - 1 => j[u] < j[k - 1]
          BY <1>11, <4>1
        <5> QED
          BY <1>12, <4>1, <5>1, <5>2
      <4>3. j[k - 1] + 1 <= t /\ j[k - 1] \in Int
        BY <1>12, <2>5, <4>1
      <4> QED
        BY <3>1, <4>2, <4>3
    <3>3. k <= r /\ k <= u /\ k \in 1 .. r
      BY <1>11, <3>2
    <3>4. j[k] <= j[u]
      <4>1. u = k \/ k < u
        BY <3>3
      <4>2. k < u => j[k] < j[u]
        BY <1>11, <3>3
      <4> QED
        BY <1>12, <3>3, <4>1, <4>2
    <3>5. t < j[k] /\ j[k] \in Int
      BY <1>12, <2>5, <3>3
    <3> QED
      BY <3>1, <3>4, <3>5
  <2> QED
    BY <2>2, <2>3, <2>4, <2>5
<1>14. ASSUME NEW k \in 1 .. r + 1
       PROVE  /\ d[to(k)] = d[from(k - 1)] - (to(k) - from(k - 1))
              /\ \A x \in list : ~(d[to(k)] <= x /\ x <= d[from(k - 1)])
  <2> DEFINE a == from(k - 1)
             b == to(k)
  <2>1. a \in 1 .. m /\ b \in 1 .. m /\ a <= b /\ \A t \in Int : a <= t /\ t < b => t \notin J
    BY <1>13
  <2> HIDE DEF a, b
  <2>2. a \in Nat /\ b \in Nat /\ d[a] \in Int
    BY <1>6, <2>1
  <2>3. \A t \in Nat : a <= t /\ t < b => d[t + 1] = d[t] - 1
    <3> SUFFICES ASSUME NEW t \in Nat, a <= t, t < b PROVE d[t + 1] = d[t] - 1
      OBVIOUS
    <3>1. t \in 1 .. m - 1
      BY <1>4, <2>1
    <3> QED
      BY <1>10, <2>1, <3>1
  <2>4. \A u \in Nat : u <= b - a => d[a + u] = d[a] - u
    BY <2>1, <2>2, <2>3, Run
  <2>5. d[b] = d[a] - (b - a)
    <3>1. b - a \in Nat /\ a + (b - a) = b
      BY <2>1, <2>2
    <3> QED
      BY <2>4, <3>1
  <2>6. ASSUME NEW x \in list, d[b] <= x, x <= d[a] PROVE FALSE
    <3>1. x \in Int
      OBVIOUS
    <3>2. d[a] - x \in Nat /\ d[a] - x <= b - a /\ d[a] - (d[a] - x) = x
      BY <2>2, <2>5, <2>6, <3>1
    <3> DEFINE u == d[a] - x
    <3>3. d[a + u] = x /\ u \in Nat /\ u <= b - a
      BY <2>4, <3>2
    <3> HIDE DEF u
    <3>4. a + u \in 1 .. m
      <4>1. a >= 1 /\ b <= m
        BY <1>4, <2>1
      <4> QED
        BY <1>4, <2>2, <3>3, <4>1
    <3>5. x \in M
      BY <1>6, <3>3, <3>4
    <3> QED
      BY <1>2, <3>5
  <2> QED
    BY <2>5, <2>6 DEF a, b
<1>15. ASSUME NEW k \in 1 .. r, NEW x \in Int, d[j[k] + 1] < x, x < d[j[k]]
       PROVE  x \in list
  <2>1. j[k] \in 1 .. m - 1 /\ j[k] \in 1 .. m /\ j[k] + 1 \in 1 .. m
    BY <1>4, <1>12
  <2>2. /\ d[j[k]] \in Int /\ d[j[k] + 1] \in Int
        /\ d[j[k]] <= max /\ min - 1 <= d[j[k] + 1]
    BY <1>3, <1>6, <2>1
  <2>3. x \in min - 1 .. max
    BY <1>1, <1>15, <2>2
  <2>4. x \notin M
    BY <1>5, <1>15, <2>1
  <2> QED
    BY <1>2, <2>3, <2>4
<1>16. ASSUME NEW x \in Int, d[1] < x, x <= max PROVE x \in list
  <2>1. d[1] \in Int /\ min - 1 <= d[1]
    BY <1>3, <1>6, <1>7
  <2>2. x \in min - 1 .. max
    BY <1>1, <1>16, <2>1
  <2>3. x \notin M
    <3> SUFFICES ASSUME x \in M PROVE FALSE
      OBVIOUS
    <3>1. x <= d[1]
      BY <1>5
    <3> QED
      BY <1>16, <2>1, <3>1
  <2> QED
    BY <1>2, <2>2, <2>3
<1>17. \A x \in list : d[m] < x
  <2> TAKE x \in list
  <2>1. min <= x /\ x \in Int
    BY <1>1
  <2> QED
    BY <1>1, <1>7, <2>1
<1>18. d[1] = Max(M)
  <2>1. Max(M) \in M /\ \A x \in M : x <= Max(M)
    BY <1>3, MinMax
  <2>2. Max(M) <= d[1] /\ d[1] <= Max(M) /\ d[1] \in Int /\ Max(M) \in Int
    BY <1>3, <1>5, <1>6, <1>7, <2>1
  <2> HIDE DEF M
  <2> QED
    BY <2>2
<1>19. Holes(list, d, m, j, r)
  <2>1. \A t \in 1 .. m : d[t] \in Int
    BY <1>6
  <2>2. \A k \in 1 .. r : j[k] \in 1 .. m - 1
    BY <1>12
  <2>3. \A x \in Int : d[1] < x /\ x <= Max(list) => x \in list
    BY <1>16 DEF max
  <2>4. d[1] = Max(Missing(list)) /\ d[1] <= Max(list)
    <3>1. Max(M) \in M
      BY <1>3, MinMax
    <3>2. \A x \in M : x <= max
      BY <1>3
    <3> HIDE DEF M
    <3> QED
      BY <1>18, <3>1, <3>2 DEF M, max
  <2> QED
    BY <1>4, <1>11, <1>13, <1>14, <1>15, <1>17, <2>1, <2>2, <2>3, <2>4 DEF Holes
<1>20. j \in Seq(J)
  BY <1>11
<1> QED
  BY <1>19, <1>20 DEF r, j, J, m, d, M

\* The numbers of a finite set in descending order are its only descending
\* sequence.
LEMMA FallingIsDescending ==
  ASSUME NEW S \in SUBSET Int, IsFiniteSet(S), NEW s \in Seq(Int), Falling(s), ToSet(s) = S
  PROVE  s = Descending(S)
<1> DEFINE d == Descending(S)
<1>1. /\ d \in Seq(S) /\ Len(d) = Cardinality(S) /\ Len(d) \in Nat
      /\ \A i, j \in 1 .. Len(d) : i < j => d[i] > d[j]
      /\ \A x \in S : \E i \in 1 .. Len(d) : d[i] = x
  BY DescendingIs
<1> HIDE DEF d
<1>2. d \in Seq(Int) /\ Falling(d)
  <2>1. d \in Seq(S)
    BY <1>1
  <2>2. d \in Seq(Int)
    BY <2>1, SeqOfSubset
  <2> QED
    BY <1>1, <2>2 DEF Falling
<1>3. ToSet(d) = ToSet(s)
  <2>1. DOMAIN d = 1 .. Len(d)
    BY <1>1
  <2>2. ToSet(d) \subseteq S
    BY <1>1, ToSetType
  <2>3. S \subseteq ToSet(d)
    BY <1>1, <2>1 DEF ToSet
  <2> QED
    BY <2>2, <2>3
<1>4. Len(s) <= Len(d) /\ Len(d) <= Len(s) /\ \A i \in 1 .. Len(s) : s[i] = d[i]
  BY <1>2, <1>3, FallingPrefix
<1>5. Len(s) = Len(d)
  BY <1>1, <1>2, <1>4
<1> QED
  BY <1>2, <1>4, <1>5 DEF d

\* The array has a place for every number that is decoded, whatever the frame,
\* as long as its counts are natural numbers.
LEMMA TotalIs ==
  ASSUME NEW frame \in AckFrames, frame.first + 1 \in Nat,
         \A k \in DOMAIN frame.ranges : frame.ranges[k].length \in Nat
  PROVE  TotalAcked(frame) = Len(DecodeAck(frame))
<1> DEFINE q == frame.ranges
           n == Len(q)
           first == [current |-> frame.largest - frame.first,
                     acked   |-> Downwards(frame.largest + 1, frame.first + 1)]
           A == [current : Int, acked : Seq(Int)]
<1>1. /\ n \in Nat /\ DOMAIN q = 1 .. n
      /\ \A k \in 1 .. n : q[k].gap \in Int /\ q[k].length \in Nat
      /\ frame.largest \in Int /\ frame.first \in Int
  <2> DEFINE R == [gap : Int, length : Int]
  <2>1. q \in Seq(R)
    BY DEF AckFrames
  <2>2. \A k \in DOMAIN q : q[k].length \in Nat
    OBVIOUS
  <2> HIDE DEF q, R
  <2>3. n \in Nat /\ DOMAIN q = 1 .. n /\ \A k \in 1 .. n : q[k] \in R
    BY <2>1
  <2> HIDE DEF n
  <2>4. n \in Nat /\ DOMAIN q = 1 .. n
    BY <2>3
  <2>5. \A k \in 1 .. n : q[k].gap \in Int /\ q[k].length \in Nat
    BY <2>2, <2>3 DEF R
  <2> QED
    BY <2>4, <2>5 DEF AckFrames
<1>2. first \in A /\ Len(first.acked) = frame.first + 1
  <2> DEFINE from == frame.largest + 1
             count == frame.first + 1
  <2>1. from \in Int /\ count \in Nat /\ count \in Int
    BY <1>1
  <2> HIDE DEF from, count
  <2>2. Downwards(from, count) \in Seq(Int) /\ Len(Downwards(from, count)) = count
    BY <2>1, DownwardsIs
  <2>3. frame.largest - frame.first \in Int
    BY <1>1
  <2> QED
    BY <2>2, <2>3 DEF from, count
<1> HIDE DEF q, n, first
<1>3. PICK a : /\ a[0] = first
               /\ \A k \in 1 .. n : a[k] = DecodeRange(a[k - 1], q[k])
               /\ a[n] = Ranges!Fold(first, q)
  BY <1>1, Ranges!FoldTrace
<1>4. PICK b : /\ b[0] = frame.first + 1
               /\ \A k \in 1 .. n : b[k] = b[k - 1] + q[k].length
               /\ b[n] = Counts!Fold(frame.first + 1, q)
  BY <1>1, Counts!FoldTrace
<1> DEFINE K == {k \in Nat : k <= n => a[k] \in A /\ Len(a[k].acked) = b[k]}
<1>5. 0 \in K
  BY <1>2, <1>3, <1>4
<1>6. ASSUME NEW k \in Nat, k \in K PROVE k + 1 \in K
  <2> SUFFICES ASSUME k + 1 <= n
               PROVE  a[k + 1] \in A /\ Len(a[k + 1].acked) = b[k + 1]
    OBVIOUS
  <2>1. k + 1 \in 1 .. n /\ (k + 1) - 1 = k /\ k <= n
    BY <1>1
  <2>2. a[k] \in A /\ Len(a[k].acked) = b[k]
    BY <1>6, <2>1
  <2> DEFINE from == a[k].current - q[k + 1].gap
             count == q[k + 1].length
             s == Downwards(from, count)
             old == a[k].acked
  <2>3. a[k + 1] = DecodeRange(a[k], q[k + 1]) /\ b[k + 1] = b[k] + count
    BY <1>3, <1>4, <2>1
  <2>4. q[k + 1].gap \in Int /\ q[k + 1].length \in Nat
    BY <1>1, <2>1
  <2>5. from \in Int /\ count \in Nat /\ count \in Int /\ old \in Seq(Int) /\ Len(old) = b[k]
    BY <2>2, <2>4
  <2>6. a[k + 1] = [current |-> from - count, acked |-> old \o s]
    BY <2>3 DEF DecodeRange
  <2> HIDE DEF from, count, old
  <2>7. s \in Seq(Int) /\ Len(s) = count
    BY <2>5, DownwardsIs
  <2> HIDE DEF s
  <2>8. old \o s \in Seq(Int) /\ Len(old \o s) = b[k] + count
    BY <2>5, <2>7, ConcatIs
  <2>9. from - count \in Int
    BY <2>5
  <2> QED
    BY <2>3, <2>6, <2>8, <2>9
<1>7. Nat \subseteq K
  <2> HIDE DEF K
  <2> QED
    BY <1>5, <1>6, Ranges!NatSetInduction
<1>8. Len(a[n].acked) = b[n]
  BY <1>1, <1>7
<1>9. DecodeAck(frame) = a[n].acked
  <2>1. DecodeAck(frame) = Ranges!Fold(first, q).acked
    BY DEF DecodeAck, Ranges!Fold, FoldLeft, MapThenFoldSet, Max,
       Ranges!MapThenFoldSet, Ranges!Largest, first, q
  <2> QED
    BY <1>3, <2>1
<1>10. TotalAcked(frame) = b[n]
  <2>1. TotalAcked(frame) = Counts!Fold(frame.first + 1, q)
    BY DEF TotalAcked, Counts!Fold, FoldLeft, MapThenFoldSet, Max,
       Counts!MapThenFoldSet, Counts!Largest, q
  <2> QED
    BY <1>4, <2>1
<1> QED
  BY <1>8, <1>9, <1>10

\* The client decoded the numbers of the list above n.
Decoded(list, a, n) ==
  /\ a \in [current : Int, acked : Seq(Int)]
  /\ a.current = n + 1
  /\ ToSet(a.acked) = {x \in list : x > n} /\ Falling(a.acked)

Between(list, hi, to, lo) ==
  /\ lo < to /\ to <= hi
  /\ \A x \in list : ~(to <= x /\ x <= hi)
  /\ \A x \in Int : lo < x /\ x < to => x \in list

\* One range: the missing numbers from hi down to to are skipped, and the
\* received ones between to and lo are taken.
LEMMA DecodeStep ==
  ASSUME NEW list \in SUBSET Int, NEW hi \in Int, NEW to \in Int, NEW lo \in Int,
         Between(list, hi, to, lo), NEW a, Decoded(list, a, hi)
  PROVE  Decoded(list, DecodeRange(a, AckRange((hi - to) + 1, (to - lo) - 1)), lo)
<1>0. /\ lo < to /\ to <= hi
      /\ \A x \in list : ~(to <= x /\ x <= hi)
      /\ \A x \in Int : lo < x /\ x < to => x \in list
      /\ a \in [current : Int, acked : Seq(Int)]
      /\ a.current = hi + 1
      /\ ToSet(a.acked) = {x \in list : x > hi} /\ Falling(a.acked)
  BY DEF Between, Decoded
<1> DEFINE range == AckRange((hi - to) + 1, (to - lo) - 1)
           b == DecodeRange(a, range)
           count == (to - lo) - 1
           s == Downwards(to, count)
           old == a.acked
<1>1. range.gap = (hi - to) + 1 /\ range.length = count
  BY DEF AckRange
<1> HIDE DEF range
<1>2. count \in Int /\ a.current - range.gap = to /\ to - count = lo + 1
  BY <1>0, <1>1
<1>3. b = [current |-> (a.current - range.gap) - range.length,
           acked   |-> old \o Downwards(a.current - range.gap, range.length)]
  BY DEF DecodeRange
<1> HIDE DEF b, count
<1>4. b = [current |-> to - count, acked |-> old \o s]
  BY <1>1, <1>2, <1>3
<1>5. /\ s \in Seq(Int) /\ Falling(s)
      /\ \A x \in Int : x \in ToSet(s) <=> to - count <= x /\ x < to
  BY <1>2, DownwardsIs
<1> HIDE DEF s
<1>6. old \in Seq(Int) /\ ToSet(old) = {x \in list : x > hi} /\ Falling(old)
  BY <1>0
<1> HIDE DEF old
<1>7. ToSet(old \o s) = ToSet(old) \cup ToSet(s) /\ old \o s \in Seq(Int)
  BY <1>5, <1>6, ToSetConcat
<1>8. ToSet(s) \subseteq Int
  BY <1>5, ToSetType
<1>9. \A x \in Int : x \in ToSet(s) <=> lo < x /\ x < to
  BY <1>2, <1>5
<1>10. ToSet(old \o s) = {x \in list : x > lo}
  <2>1. ASSUME NEW x \in ToSet(s) PROVE x \in list /\ x > lo
    BY <1>0, <1>8, <1>9
  <2>2. ASSUME NEW x \in list, x > lo, ~(x > hi) PROVE x \in ToSet(s)
    <3>1. x \in Int /\ x < to
      BY <1>0, <2>2
    <3> QED
      BY <1>9, <2>2, <3>1
  <2>3. \A x \in list : x > hi => x > lo
    BY <1>0
  <2> QED
    BY <1>6, <1>7, <2>1, <2>2, <2>3
<1>11. to - count \in Int
  BY <1>2
<1>12. b \in [current : Int, acked : Seq(Int)] /\ b.current = lo + 1 /\ b.acked = old \o s
  BY <1>2, <1>4, <1>7, <1>11
<1>13. Falling(old \o s)
  <2>1. \A x \in ToSet(old), y \in ToSet(s) : x \in Int /\ y \in Int /\ x > hi /\ y < to
    BY <1>6, <1>8, <1>9
  <2>2. \A x \in ToSet(old), y \in ToSet(s) : x > y
    BY <1>0, <2>1
  <2> QED
    BY <1>5, <1>6, <2>2, FallingConcat
<1> QED
  BY <1>10, <1>12, <1>13 DEF Decoded, b, range

\* The client unpacks from the frame the numbers of the list, and no others,
\* and has allocated a place for each: handleAckTimeout and the two loops of
\* the ACK case of processPacketFrames agree.
THEOREM AckRangesRoundTrip ==
  ASSUME NEW list \in SUBSET Int, IsFiniteSet(list), list # {}, NEW next \in Int
  PROVE  LET frame == OutOfOrderAck(list, next)
         IN  /\ frame \in AckFrames /\ frame.ranges # << >>
             /\ DecodeAck(frame) = Descending(list)
             /\ ToSet(DecodeAck(frame)) = list
             /\ TotalAcked(frame) = Len(DecodeAck(frame))
<1> DEFINE frame == OutOfOrderAck(list, next)
           d == Descending(Missing(list))
           m == Len(d)
           J == {i \in 1 .. m - 1 : d[i + 1] # d[i] - 1}
           j == Ascending(J)
           r == Len(j)
           place(k) == IF k = 0 THEN 1 ELSE j[k] + 1
           holes == HoleRanges(list)
           last == LastRange(list, next)
           largest == Max(list)
           base == [current |-> largest - frame.first,
                    acked   |-> Downwards(largest + 1, frame.first + 1)]
           gap(k) == j[k] - (IF k = 1 THEN 0 ELSE j[k - 1])
           length(k) == d[j[k]] - d[j[k] + 1] - 1
           R == [gap : Int, length : Int]
           A == [current : Int, acked : Seq(Int)]
           T == [k \in 0 .. r |->
                   {a \in A : /\ a.current = d[place(k)] + 1
                              /\ ToSet(a.acked) = {x \in list : x > d[place(k)]}
                              /\ Falling(a.acked)}]
<1>1. Holes(list, d, m, j, r) /\ j \in Seq(J)
  BY HolesIs
<1>2. largest \in Int /\ Min(list) \in Int /\ \A x \in list : x <= largest
  BY MinMax
<1>3. /\ frame.largest = largest /\ frame.first = largest - Max(Missing(list)) - 1
      /\ frame.ranges = Append(holes, last)
      /\ frame = [largest |-> frame.largest, first |-> frame.first, ranges |-> frame.ranges]
  BY DEF OutOfOrderAck
<1>4. holes = [k \in 1 .. r |-> AckRange(gap(k), length(k))]
  BY DEF HoleRanges
<1>5. last = AckRange(Min(list) - next, 0)
  BY DEF LastRange
<1> HIDE DEF d, m, J, j, r, frame, holes, last
<1>6. /\ m \in Nat /\ r \in Nat
      /\ \A t \in 1 .. m : d[t] \in Int
      /\ \A k \in 1 .. r : j[k] \in 1 .. m - 1
      /\ \A k \in 1 .. r + 1 : place(k - 1) \in 1 .. m
      /\ d[1] = Max(Missing(list))
  BY <1>1 DEF Holes
<1>7. \A k \in 0 .. r : place(k) \in 1 .. m /\ d[place(k)] \in Int
  <2> TAKE k \in 0 .. r
  <2>1. k + 1 \in 1 .. r + 1 /\ (k + 1) - 1 = k
    BY <1>6
  <2> HIDE DEF place
  <2>2. place(k) \in 1 .. m
    BY <1>6, <2>1
  <2> QED
    BY <1>6, <2>2
<1>8. \A k \in 1 .. r : gap(k) \in Int /\ length(k) \in Int
  <2> TAKE k \in 1 .. r
  <2>1. j[k] \in 1 .. m - 1 /\ (k # 1 => j[k - 1] \in 1 .. m - 1)
    BY <1>6
  <2>2. j[k] \in 1 .. m /\ j[k] + 1 \in 1 .. m
    BY <1>6, <2>1
  <2>3. d[j[k]] \in Int /\ d[j[k] + 1] \in Int
    BY <1>6, <2>2
  <2> QED
    BY <1>6, <2>1, <2>3
<1>9. holes \in Seq(R) /\ DOMAIN holes = 1 .. r /\ last \in R
      /\ \A k \in 1 .. r : holes[k] = AckRange(gap(k), length(k))
  <2>1. \A k \in 1 .. r : AckRange(gap(k), length(k)) \in R
    BY <1>8 DEF AckRange
  <2>2. last \in R
    BY <1>2, <1>5 DEF AckRange
  <2> HIDE DEF gap, length, R
  <2> QED
    BY <1>4, <1>6, <2>1, <2>2
<1>10. place(0) = 1 /\ d[1] \in Int /\ frame.first = largest - d[1] - 1
  <2>1. 0 \in 0 .. r
    BY <1>6
  <2> QED
    BY <1>3, <1>6, <1>7, <2>1
<1>11. base \in T[0]
  <2> DEFINE s == Downwards(largest + 1, frame.first + 1)
  <2>1. largest + 1 \in Int /\ frame.first + 1 \in Int /\ (largest + 1) - (frame.first + 1) = d[1] + 1
    BY <1>2, <1>10
  <2>2. /\ s \in Seq(Int) /\ Falling(s)
        /\ \A x \in Int : x \in ToSet(s) <=> d[1] + 1 <= x /\ x < largest + 1
    BY <2>1, DownwardsIs
  <2>3. ToSet(s) = {x \in list : x > d[1]}
    <3>1. ToSet(s) \subseteq Int
      BY <2>2, ToSetType
    <3>2. \A x \in Int : d[1] < x /\ x <= largest => x \in list
      BY <1>1 DEF Holes
    <3> HIDE DEF s
    <3>3. \A x \in Int : x \in ToSet(s) <=> d[1] < x /\ x <= largest
      BY <1>2, <1>10, <2>2
    <3> QED
      BY <1>2, <3>1, <3>2, <3>3
  <2>4. largest - frame.first = d[1] + 1
    BY <1>2, <1>10
  <2> HIDE DEF s
  <2>5. base \in A /\ base.current = d[1] + 1 /\ base.acked = s
    BY <1>10, <2>2, <2>4 DEF s
  <2> HIDE DEF base
  <2>6. 0 \in 0 .. r
    BY <1>6
  <2> QED
    BY <1>10, <2>2, <2>3, <2>5, <2>6
<1>12. ASSUME NEW k \in 1 .. r, NEW a \in T[k - 1]
       PROVE  DecodeRange(a, holes[k]) \in T[k]
  <2>1. k - 1 \in 0 .. r /\ k \in 0 .. r /\ k \in 1 .. r + 1 /\ k <= r /\ k # 0
    BY <1>6
  <2>2. /\ a \in A /\ a.current = d[place(k - 1)] + 1
        /\ ToSet(a.acked) = {x \in list : x > d[place(k - 1)]}
        /\ Falling(a.acked)
    BY <2>1
  <2> DEFINE p == place(k - 1)
             to == j[k]
             b == DecodeRange(a, holes[k])
  <2>3. p \in 1 .. m /\ to \in 1 .. m - 1 /\ place(k) = to + 1
    BY <1>6, <1>7, <2>1
  <2>4. to + 1 \in 1 .. m /\ to \in 1 .. m
    BY <1>6, <2>3
  <2>5. /\ p <= to /\ d[to] = d[p] - (to - p)
        /\ \A x \in list : ~(d[to] <= x /\ x <= d[p])
    BY <1>1, <2>1 DEF Holes
  <2>6. \A x \in Int : d[to + 1] < x /\ x < d[to] => x \in list
    BY <1>1 DEF Holes
  <2>7. gap(k) = (to - p) + 1
    <3>1. CASE k = 1
      BY <2>3, <3>1
    <3>2. CASE k # 1
      <4>1. j[k - 1] \in 1 .. m - 1 /\ p = j[k - 1] + 1
        BY <1>6, <3>2
      <4> QED
        BY <2>3, <3>2, <4>1
    <3> QED
      BY <3>1, <3>2
  <2>8. length(k) = (d[to] - d[to + 1]) - 1
    OBVIOUS
  <2>9. holes[k] = AckRange(gap(k), length(k))
    BY <1>9
  <2> HIDE DEF gap, length, place, to, b
  <2>10. d[to] \in Int /\ d[to + 1] \in Int /\ d[p] \in Int
    BY <1>6, <2>3, <2>4
  <2>11. d[to + 1] < d[to]
    <3>1. to < to + 1 /\ to \in Int
      BY <2>3
    <3>2. d[to] > d[to + 1]
      BY <1>1, <2>4, <3>1 DEF Holes
    <3> QED
      BY <2>10, <3>2
  <2>12. a.current = d[p] + 1 /\ ToSet(a.acked) = {x \in list : x > d[p]}
    BY <2>2
  <2> HIDE DEF p
  <2> DEFINE hi == d[p]
             at == d[to]
             lo == d[to + 1]
  <2>13. hi \in Int /\ at \in Int /\ lo \in Int /\ lo < at /\ at <= hi /\ hi - at = to - p
    BY <2>3, <2>5, <2>10, <2>11
  <2>14. gap(k) = (hi - at) + 1 /\ length(k) = (at - lo) - 1
    BY <2>7, <2>8, <2>13
  <2>15. a.current = hi + 1 /\ ToSet(a.acked) = {x \in list : x > hi}
    BY <2>12
  <2>16. /\ \A x \in list : ~(at <= x /\ x <= hi)
         /\ \A x \in Int : lo < x /\ x < at => x \in list
    BY <2>5, <2>6
  <2> HIDE DEF hi, at, lo
  <2> DEFINE e == DecodeRange(a, AckRange((hi - at) + 1, (at - lo) - 1))
  <2>17. /\ e \in A /\ e.current = lo + 1 /\ Falling(e.acked)
         /\ ToSet(e.acked) = {x \in list : x > lo}
    <3>1. Between(list, hi, at, lo)
      BY <2>13, <2>16 DEF Between
    <3>2. Decoded(list, a, hi)
      BY <2>2, <2>15 DEF Decoded
    <3>3. Decoded(list, e, lo)
      BY <2>13, <3>1, <3>2, DecodeStep
    <3> HIDE DEF e
    <3> QED
      BY <3>3 DEF Decoded
  <2>18. b = e
    BY <2>9, <2>14 DEF b
  <2> HIDE DEF e
  <2>19. lo = d[place(k)]
    BY <2>3 DEF lo
  <2>20. b \in T[k]
    BY <2>1, <2>17, <2>18, <2>19
  <2> QED
    BY <2>20 DEF b
<1> HIDE DEF base, T
<1> DEFINE a == Ranges!Fold(base, holes)
           b == DecodeRange(a, last)
<1>13. a \in T[r]
  BY <1>6, <1>9, <1>11, <1>12, Ranges!FoldInvariant
<1>14. Ranges!Fold(base, Append(holes, last)) = b
  BY <1>9, Ranges!FoldAppend
<1>15. DecodeAck(frame) = b.acked
  <2>1. DecodeAck(frame) = Ranges!Fold(base, frame.ranges).acked
    BY <1>3 DEF DecodeAck, Ranges!Fold, FoldLeft, MapThenFoldSet, Max,
       Ranges!MapThenFoldSet, Ranges!Largest, base
  <2> QED
    BY <1>3, <1>14, <2>1
<1> HIDE DEF a
<1>16. /\ a \in A /\ Falling(a.acked)
       /\ ToSet(a.acked) = {x \in list : x > d[place(r)]}
  <2>1. r \in 0 .. r
    BY <1>6
  <2> QED
    BY <1>13, <2>1 DEF T
<1>17. \A x \in list : x > d[place(r)]
  <2>1. /\ r + 1 \in 1 .. r + 1 /\ ~(r + 1 <= r) /\ (r + 1) - 1 = r
    BY <1>6
  <2>2. \A x \in list : ~(d[m] <= x /\ x <= d[place(r)]) /\ d[m] < x
    BY <1>1, <2>1 DEF Holes
  <2>3. m \in 1 .. m /\ d[m] \in Int /\ r \in 0 .. r
    BY <1>6, <1>7
  <2> HIDE DEF place
  <2>4. d[place(r)] \in Int
    BY <1>7, <2>3
  <2> QED
    BY <2>2, <2>3, <2>4
<1>18. b.acked = a.acked
  <2>1. last.gap \in Int /\ last.length = 0 /\ a.current \in Int
    BY <1>9, <1>5, <1>16 DEF AckRange
  <2>2. Downwards(a.current - last.gap, 0) = << >>
    BY DEF Downwards
  <2>3. b.acked = a.acked \o Downwards(a.current - last.gap, 0)
    BY <2>1 DEF DecodeRange
  <2>4. a.acked \in Seq(Int)
    BY <1>16
  <2> DEFINE old == a.acked
  <2>5. b.acked = old \o << >> /\ old \in Seq(Int)
    BY <2>2, <2>3, <2>4
  <2> HIDE DEF b, old
  <2>6. b.acked = old
    BY <2>5
  <2> QED
    BY <2>6 DEF old
<1> HIDE DEF b
<1>19. /\ DecodeAck(frame) = Descending(list) /\ ToSet(DecodeAck(frame)) = list
       /\ DecodeAck(frame) \in Seq(Int)
  <2> HIDE DEF place
  <2>1. /\ DecodeAck(frame) \in Seq(Int) /\ Falling(DecodeAck(frame))
        /\ ToSet(DecodeAck(frame)) = list
    BY <1>15, <1>16, <1>17, <1>18
  <2> QED
    BY <2>1, FallingIsDescending
<1>20. frame \in AckFrames /\ frame.ranges # << >>
  <2> DEFINE ranges == Append(holes, last)
  <2>1. ranges \in Seq(R) /\ ranges # << >>
    <3> HIDE DEF R
    <3>1. ranges \in Seq(R) /\ Len(ranges) = Len(holes) + 1 /\ Len(holes) \in Nat
      BY <1>9, AppendIs
    <3> HIDE DEF ranges
    <3> QED
      BY <3>1
  <2> HIDE DEF ranges
  <2>2. frame.ranges = ranges
    BY <1>3 DEF ranges
  <2>3. frame.largest \in Int /\ frame.first \in Int
    BY <1>2, <1>3, <1>10
  <2> QED
    BY <1>3, <2>1, <2>2, <2>3 DEF AckFrames
<1>21. TotalAcked(frame) = Len(DecodeAck(frame))
  <2>1. ASSUME NEW k \in 1 .. r PROVE holes[k].length \in Nat
    <3>1. j[k] \in 1 .. m /\ j[k] + 1 \in 1 .. m /\ j[k] < j[k] + 1
      BY <1>6
    <3>2. d[j[k]] > d[j[k] + 1] /\ d[j[k]] \in Int /\ d[j[k] + 1] \in Int
      BY <1>1, <1>6, <3>1 DEF Holes
    <3>3. length(k) \in Nat
      BY <3>2
    <3> HIDE DEF gap, length
    <3> QED
      BY <1>9, <3>3 DEF AckRange
  <2>2. last.length = 0
    BY <1>5 DEF AckRange
  <2>3. /\ Append(holes, last) \in Seq(R) /\ DOMAIN Append(holes, last) = 1 .. r + 1
        /\ \A k \in 1 .. r : Append(holes, last)[k] = holes[k]
        /\ Append(holes, last)[r + 1] = last
    <3>1. Len(holes) = r
      BY <1>6, <1>9
    <3> HIDE DEF R
    <3> QED
      BY <1>9, <3>1, AppendIs
  <2>4. \A k \in DOMAIN frame.ranges : frame.ranges[k].length \in Nat
    <3>1. \A k \in 1 .. r + 1 : k \in 1 .. r \/ k = r + 1
      BY <1>6
    <3> DEFINE q == Append(holes, last)
    <3>2. DOMAIN q = 1 .. r + 1 /\ \A k \in 1 .. r : q[k] = holes[k]
      BY <2>3
    <3>3. q[r + 1] = last
      BY <2>3
    <3> HIDE DEF q
    <3>4. \A k \in DOMAIN q : q[k].length \in Nat
      BY <2>1, <2>2, <3>1, <3>2, <3>3
    <3>5. frame.ranges = q
      BY <1>3 DEF q
    <3> QED
      BY <3>4, <3>5
  <2>5. frame.first + 1 \in Nat
    <3>1. d[1] <= largest
      BY <1>1 DEF Holes
    <3> QED
      BY <1>2, <1>10, <3>1
  <2> QED
    BY <1>20, <2>4, <2>5, TotalIs
<1> QED
  BY <1>19, <1>20, <1>21 DEF frame

\* The same for the numbers received in order since the previous ACK.
THEOREM AckInOrderRoundTrip ==
  ASSUME NEW next \in Int, NEW current \in Int, current < next
  PROVE  LET frame == InOrderAck(next, current)
         IN  /\ DecodeAck(frame) = Descending(current + 1 .. next - 1)
             /\ TotalAcked(frame) = Len(DecodeAck(frame))
<1> DEFINE frame == InOrderAck(next, current)
           none == << >>
           s == Downwards(frame.largest + 1, frame.first + 1)
           first == [current |-> frame.largest - frame.first, acked |-> s]
           S == current + 1 .. next - 1
<1>1. /\ frame.largest = next - 1 /\ frame.first = (next - 1) - current - 1
      /\ frame.ranges = none
      /\ frame = [largest |-> frame.largest, first |-> frame.first, ranges |-> none]
  BY DEF InOrderAck
<1>2. none \in Seq([gap : Int, length : Int]) /\ DOMAIN none = {}
  OBVIOUS
<1> HIDE DEF frame, none
<1>3. /\ frame \in AckFrames /\ frame.first + 1 \in Nat
      /\ \A k \in DOMAIN frame.ranges : frame.ranges[k].length \in Nat
  <2>1. frame.largest \in Int /\ frame.first \in Int /\ frame.first + 1 \in Nat
    BY <1>1
  <2> QED
    BY <1>1, <1>2, <2>1 DEF AckFrames
<1>4. TotalAcked(frame) = Len(DecodeAck(frame))
  BY <1>3, TotalIs
<1>5. DecodeAck(frame) = s
  <2>1. DecodeAck(frame) = Ranges!Fold(first, frame.ranges).acked
    BY DEF DecodeAck, Ranges!Fold, FoldLeft, MapThenFoldSet, Max,
       Ranges!MapThenFoldSet, Ranges!Largest, first
  <2>2. Ranges!Fold(first, << >>) = first
    BY Ranges!FoldEmpty
  <2> QED
    BY <1>1, <2>1, <2>2 DEF none
<1>6. /\ s \in Seq(Int) /\ Falling(s)
      /\ \A x \in Int : x \in ToSet(s) <=> current + 1 <= x /\ x < next
  <2> DEFINE count == (next - 1) - current
  <2>1. frame.largest + 1 = next /\ frame.first + 1 = count
    BY <1>1
  <2>2. count \in Int /\ next - count = current + 1
    OBVIOUS
  <2> HIDE DEF count
  <2>3. /\ Downwards(next, count) \in Seq(Int) /\ Falling(Downwards(next, count))
        /\ \A x \in Int : x \in ToSet(Downwards(next, count)) <=> next - count <= x /\ x < next
    BY <2>2, DownwardsIs
  <2> QED
    BY <2>1, <2>2, <2>3
<1> HIDE DEF s
<1>7. ToSet(s) = S
  <2>1. ToSet(s) \subseteq Int
    BY <1>6, ToSetType
  <2>2. \A x \in Int : x \in S <=> current + 1 <= x /\ x < next
    OBVIOUS
  <2>3. S \subseteq Int
    OBVIOUS
  <2> HIDE DEF S
  <2> QED
    BY <1>6, <2>1, <2>2, <2>3
<1>8. S \in SUBSET Int /\ IsFiniteSet(S)
  BY FS_Interval
<1>9. s = Descending(S)
  <2> HIDE DEF S
  <2> QED
    BY <1>6, <1>7, <1>8, FallingIsDescending
<1> QED
  BY <1>4, <1>5, <1>9 DEF frame

=============================================================================
