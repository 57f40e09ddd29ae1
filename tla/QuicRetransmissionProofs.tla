---------------------- MODULE QuicRetransmissionProofs ----------------------
(***************************************************************************)
(* The way a connection retransmits keeps the promise of StreamDelivery,   *)
(* for every set of bytes, any number of packets and retransmissions, and  *)
(* a network that loses, reorders and duplicates.                          *)
(***************************************************************************)
EXTENDS QuicRetransmission, TLAPS

Packets == queue \cup network

\* Numbers are given out once: the names of a packet and the numbers the
\* server knows are below the counter.
Counted ==
  /\ packet_counter \in Nat
  /\ arrived \subseteq 0 .. packet_counter - 1
  /\ \A p \in Packets :
       /\ p.number \in 0 .. packet_counter - 1
       /\ Names(p) \subseteq 0 .. packet_counter - 1

\* Bytes leave their stream before they arrive.
BytesInv ==
  /\ taken \subseteq written
  /\ delivered \subseteq taken
  /\ \A p \in Packets : p.bytes \subseteq taken

\* A number stands for the same bytes wherever it is a name.
SameBytes ==
  \A p, q \in Packets : Names(p) \cap Names(q) # {} => p.bytes = q.bytes

\* What the client may drop has arrived, and what it dropped has too.
ArrivedBytes == \A p \in queue : p.number \in arrived => p.bytes \subseteq delivered

DroppedArrived == taken \ BytesIn(queue) \subseteq delivered

CloseInv ==
  /\ closed \in BOOLEAN
  /\ closed => queue = {} /\ taken = written

RetransmissionInv ==
  /\ Counted
  /\ BytesInv
  /\ SameBytes
  /\ ArrivedBytes
  /\ DroppedArrived
  /\ CloseInv
  /\ NamesDiffer

-----------------------------------------------------------------------------
LEMMA InitInv == RetransmissionInit => RetransmissionInv
<1> SUFFICES ASSUME RetransmissionInit PROVE RetransmissionInv
  OBVIOUS
<1>1. /\ taken = {} /\ queue = {} /\ network = {}
      /\ arrived = {} /\ delivered = {}
  <2>1. \A s \in {taken, queue, network, arrived, delivered} : s \in {{}}
    BY DEF RetransmissionInit
  <2> QED
    BY <2>1
<1> QED
  BY <1>1 DEF RetransmissionInit, RetransmissionInv, Counted, BytesInv,
     SameBytes, ArrivedBytes, DroppedArrived, CloseInv, NamesDiffer, Packets,
     BytesIn

LEMMA HandOverInv ==
  ASSUME RetransmissionInv, HandOver PROVE RetransmissionInv'
<1> USE DEF HandOver, RetransmissionInv
<1>1. Counted' /\ SameBytes' /\ ArrivedBytes' /\ DroppedArrived' /\ NamesDiffer'
  BY DEF Counted, SameBytes, ArrivedBytes, DroppedArrived, NamesDiffer,
     Packets, BytesIn, Names
<1>2. BytesInv' /\ CloseInv'
  BY DEF BytesInv, CloseInv, Packets
<1> QED
  BY <1>1, <1>2

\* A packet that arrives brings its bytes, which are those of all packets that
\* have a name in common with it.
LEMMA ArriveInv ==
  ASSUME RetransmissionInv, NEW p \in network, Arrive(p)
  PROVE  RetransmissionInv'
<1> USE DEF RetransmissionInv, Arrive
<1>1. Packets' \subseteq Packets /\ p \in Packets
  BY DEF Packets
<1>2. Counted'
  BY <1>1 DEF Counted, Names
<1>3. BytesInv'
  BY <1>1 DEF BytesInv
<1>4. SameBytes' /\ NamesDiffer' /\ CloseInv'
  BY <1>1 DEF SameBytes, NamesDiffer, CloseInv, Names
<1>5. ArrivedBytes'
  <2> SUFFICES ASSUME NEW q \in queue, q.number \in arrived'
               PROVE  q.bytes \subseteq delivered'
    BY DEF ArrivedBytes
  <2>1. CASE q.number \in arrived
    BY <2>1 DEF ArrivedBytes
  <2>2. CASE q.number \in Names(p)
    <3>1. q.number \in Names(q) /\ q \in Packets
      BY DEF Names, Packets
    <3> QED
      BY <1>1, <2>2, <3>1 DEF SameBytes
  <2> QED
    BY <2>1, <2>2
<1>6. DroppedArrived'
  BY DEF DroppedArrived, BytesIn
<1> QED
  BY <1>2, <1>3, <1>4, <1>5, <1>6

LEMMA LoseInv ==
  ASSUME RetransmissionInv, NEW p \in network, Lose(p)
  PROVE  RetransmissionInv'
<1> USE DEF RetransmissionInv, Lose
<1>1. Packets' \subseteq Packets
  BY DEF Packets
<1> QED
  BY <1>1 DEF Counted, BytesInv, SameBytes, ArrivedBytes, DroppedArrived,
     CloseInv, NamesDiffer, BytesIn, Names

-----------------------------------------------------------------------------
(***************************************************************************)
(* A turn of the client.  Each packet it makes is fresh or resends one     *)
(* packet it takes out of the queue.                                       *)
(***************************************************************************)
LEMMA MadeNumbers ==
  ASSUME RetransmissionInv, ClientTurn, NEW m \in Made
  PROVE  /\ m \in queue' /\ m \notin queue
         /\ m.number \in Nat
         /\ packet_counter <= m.number /\ m.number < packet_counter'
         /\ m.number \notin arrived
         /\ \A p \in Packets : m.number \notin Names(p)
<1>1. packet_counter \in Nat /\ packet_counter' \in Nat
  BY DEF RetransmissionInv, Counted, ClientTurn
<1>2. m.number \in packet_counter .. packet_counter' - 1
  BY DEF ClientTurn
<1>3. m.number \notin 0 .. packet_counter - 1
  BY <1>1, <1>2
<1> QED
  BY <1>1, <1>2, <1>3 DEF RetransmissionInv, Counted, Made

\* The names of a packet the client makes are its number and the names of the
\* packet it resends, if it resends one.
LEMMA MadeNames ==
  ASSUME RetransmissionInv, ClientTurn, NEW m \in Made
  PROVE  \/ Fresh(m) /\ Names(m) = {m.number}
         \/ \E p \in queue \ queue' :
              /\ Resends(m, p)
              /\ Names(m) = {m.number} \cup Names(p)
              /\ m.bytes = p.bytes
BY DEF ClientTurn, Fresh, Resends, Names

LEMMA TurnPackets ==
  ASSUME ClientTurn
  PROVE  \A p \in Packets' : p \in Packets \/ p \in Made
BY DEF ClientTurn, Packets, Made

LEMMA TurnCounted ==
  ASSUME RetransmissionInv, ClientTurn PROVE Counted'
<1>1. /\ packet_counter \in Nat /\ packet_counter' \in Nat
      /\ packet_counter <= packet_counter' /\ arrived' = arrived
  BY DEF RetransmissionInv, Counted, ClientTurn
<1>2. 0 .. packet_counter - 1 \subseteq 0 .. packet_counter' - 1
  <2> \A i, j \in Nat : i <= j => 0 .. i - 1 \subseteq 0 .. j - 1
    OBVIOUS
  <2> QED
    BY <1>1
<1>3. ASSUME NEW p \in Packets'
      PROVE  /\ p.number \in 0 .. packet_counter' - 1
             /\ Names(p) \subseteq 0 .. packet_counter' - 1
  <2>1. CASE p \in Packets
    BY <1>2, <2>1 DEF RetransmissionInv, Counted
  <2>2. CASE p \in Made
    <3>1. p.number \in 0 .. packet_counter' - 1
      BY <1>1, <2>2, MadeNumbers
    <3>2. \A q \in queue : Names(q) \subseteq 0 .. packet_counter' - 1
      BY <1>2 DEF RetransmissionInv, Counted, Packets
    <3> QED
      BY <2>2, <3>1, <3>2, MadeNames
  <2> QED
    BY <1>3, <2>1, <2>2, TurnPackets
<1>4. \A p \in Packets' : Names(p)' = Names(p)
  BY DEF Names
<1> QED
  BY <1>1, <1>2, <1>3 DEF RetransmissionInv, Counted, Names

LEMMA TurnBytes ==
  ASSUME RetransmissionInv, ClientTurn PROVE BytesInv'
<1>1. taken' = taken \cup BytesIn(Made) /\ written' = written
      /\ delivered' = delivered
  BY DEF ClientTurn
<1>2. \A m \in Made : m.bytes \subseteq written
  BY MadeNames DEF RetransmissionInv, BytesInv, Packets, Fresh
<1>3. \A p \in Packets' : p.bytes \subseteq taken'
  BY <1>1, TurnPackets DEF RetransmissionInv, BytesInv, BytesIn
<1>4. taken' \subseteq written'
  BY <1>1, <1>2 DEF RetransmissionInv, BytesInv, BytesIn
<1> QED
  BY <1>1, <1>3, <1>4 DEF RetransmissionInv, BytesInv

\* A name of a packet the client makes and of an older one is a name of the
\* packet that is resent.
LEMMA MadeSharesOld ==
  ASSUME RetransmissionInv, ClientTurn,
         NEW m \in Made, NEW q \in Packets, Names(m) \cap Names(q) # {}
  PROVE  m.bytes = q.bytes
<1>1. m.number \notin Names(q)
  BY MadeNumbers
<1>2. PICK p \in queue : /\ Names(m) = {m.number} \cup Names(p)
                         /\ m.bytes = p.bytes
  BY <1>1, MadeNames
<1>3. Names(p) \cap Names(q) # {}
  BY <1>1, <1>2
<1> QED
  BY <1>2, <1>3 DEF RetransmissionInv, SameBytes, Packets

\* Two packets made in one turn have no name in common.
LEMMA MadeDiffer ==
  ASSUME RetransmissionInv, ClientTurn, NEW m \in Made, NEW n \in Made, m # n
  PROVE  Names(m) \cap Names(n) = {}
<1>1. /\ m.number # n.number
      /\ \A p \in queue : ~(Resends(m, p) /\ Resends(n, p))
  BY DEF ClientTurn
<1>2. \A p \in queue : m.number \notin Names(p) /\ n.number \notin Names(p)
  BY MadeNumbers DEF Packets
<1>3. CASE Names(m) = {m.number} \/ Names(n) = {n.number}
  BY <1>1, <1>2, <1>3, MadeNames
<1>4. CASE Names(m) # {m.number} /\ Names(n) # {n.number}
  <2>1. PICK p \in queue : Resends(m, p) /\ Names(m) = {m.number} \cup Names(p)
    BY <1>4, MadeNames
  <2>2. PICK q \in queue : Resends(n, q) /\ Names(n) = {n.number} \cup Names(q)
    BY <1>4, MadeNames
  <2>3. p # q
    BY <1>1, <2>1, <2>2
  <2>4. Names(p) \cap Names(q) = {}
    BY <2>3 DEF RetransmissionInv, NamesDiffer
  <2> QED
    BY <1>1, <1>2, <2>1, <2>2, <2>4
<1> QED
  BY <1>3, <1>4

LEMMA TurnSameBytes ==
  ASSUME RetransmissionInv, ClientTurn PROVE SameBytes'
<1> SUFFICES ASSUME NEW p \in Packets', NEW q \in Packets',
                    Names(p) \cap Names(q) # {}
             PROVE  p.bytes = q.bytes
  BY DEF SameBytes, Names
<1>1. CASE p \in Packets /\ q \in Packets
  BY <1>1 DEF RetransmissionInv, SameBytes
<1>2. CASE p \in Made /\ q \in Packets
  BY <1>2, MadeSharesOld
<1>3. CASE p \in Packets /\ q \in Made
  <2>1. Names(q) \cap Names(p) # {}
    OBVIOUS
  <2> QED
    BY <1>3, <2>1, MadeSharesOld
<1>4. CASE p \in Made /\ q \in Made
  BY <1>4, MadeDiffer
<1> QED
  BY <1>1, <1>2, <1>3, <1>4, TurnPackets

LEMMA TurnNames ==
  ASSUME RetransmissionInv, ClientTurn PROVE NamesDiffer'
<1>1. ASSUME NEW m \in Made, NEW q \in queue, q \in queue'
      PROVE  Names(m) \cap Names(q) = {}
  <2>1. m.number \notin Names(q)
    BY MadeNumbers DEF Packets
  <2>2. ASSUME NEW p \in queue \ queue' PROVE Names(p) \cap Names(q) = {}
    BY <1>1 DEF RetransmissionInv, NamesDiffer
  <2> QED
    BY <2>1, <2>2, MadeNames
<1> SUFFICES ASSUME NEW p \in queue', NEW q \in queue', p # q
             PROVE  Names(p) \cap Names(q) = {}
  BY DEF NamesDiffer, Names
<1>2. CASE p \in queue /\ q \in queue
  BY <1>2 DEF RetransmissionInv, NamesDiffer
<1>3. CASE p \in Made /\ q \in queue
  BY <1>1, <1>3
<1>4. CASE p \in queue /\ q \in Made
  <2>1. Names(q) \cap Names(p) = {}
    BY <1>1, <1>4
  <2> QED
    BY <2>1
<1>5. CASE p \in Made /\ q \in Made
  BY <1>5, MadeDiffer
<1> QED
  BY <1>2, <1>3, <1>4, <1>5 DEF Made

\* No byte is taken back into the queue, and none leaves it before it arrived.
LEMMA TurnDrops ==
  ASSUME RetransmissionInv, ClientTurn
  PROVE  /\ taken \ BytesIn(queue) \subseteq taken' \ BytesIn(queue')
         /\ taken' \ BytesIn(queue') \subseteq delivered
<1>1. taken' = taken \cup BytesIn(Made)
  BY DEF ClientTurn
<1>2. ASSUME NEW b \in taken, b \notin BytesIn(queue), b \in BytesIn(queue')
      PROVE  FALSE
  <2>1. PICK m \in queue' : b \in m.bytes
    BY <1>2 DEF BytesIn
  <2>2. m \in Made
    BY <1>2, <2>1 DEF BytesIn, Made
  <2>3. CASE Fresh(m)
    BY <2>1, <2>3 DEF Fresh
  <2>4. CASE \E p \in queue : m.bytes = p.bytes
    BY <1>2, <2>1, <2>4 DEF BytesIn
  <2> QED
    BY <2>2, <2>3, <2>4, MadeNames
<1>3. ASSUME NEW b \in taken', b \notin BytesIn(queue') PROVE b \in delivered
  <2>1. b \in taken
    BY <1>1, <1>3 DEF BytesIn, Made
  <2>2. CASE b \notin BytesIn(queue)
    BY <2>1, <2>2 DEF RetransmissionInv, DroppedArrived
  <2>3. CASE b \in BytesIn(queue)
    <3>1. PICK p \in queue : b \in p.bytes
      BY <2>3 DEF BytesIn
    <3>2. p \notin queue'
      BY <1>3, <3>1 DEF BytesIn
    <3>3. CASE p.number \in arrived
      BY <3>1, <3>3 DEF RetransmissionInv, ArrivedBytes
    <3>4. CASE \E m \in Made : Resends(m, p)
      BY <1>3, <3>1, <3>4 DEF Resends, Made, BytesIn
    <3> QED
      BY <3>2, <3>3, <3>4 DEF ClientTurn
  <2> QED
    BY <2>2, <2>3
<1> QED
  BY <1>1, <1>2, <1>3

LEMMA TurnInv ==
  ASSUME RetransmissionInv, ClientTurn PROVE RetransmissionInv'
<1>1. arrived' = arrived /\ delivered' = delivered
  BY DEF ClientTurn
<1>2. ArrivedBytes'
  <2> SUFFICES ASSUME NEW p \in queue', p.number \in arrived
               PROVE  p.bytes \subseteq delivered
    BY <1>1 DEF ArrivedBytes
  <2>1. p \in queue
    BY MadeNumbers DEF Made
  <2> QED
    BY <2>1 DEF RetransmissionInv, ArrivedBytes
<1>3. DroppedArrived'
  BY <1>1, TurnDrops DEF DroppedArrived, BytesIn
<1>4. CloseInv'
  BY DEF ClientTurn, CloseInv
<1> QED
  BY <1>2, <1>3, <1>4, TurnCounted, TurnBytes, TurnSameBytes, TurnNames
  DEF RetransmissionInv

LEMMA StepInv ==
  ASSUME RetransmissionInv, [RetransmissionNext]_retransmissionVars
  PROVE  RetransmissionInv'
<1>1. CASE UNCHANGED retransmissionVars
  BY <1>1 DEF retransmissionVars, RetransmissionInv, Counted, BytesInv,
     SameBytes, ArrivedBytes, DroppedArrived, CloseInv, NamesDiffer, Packets,
     BytesIn, Names
<1> QED
  BY <1>1, HandOverInv, ArriveInv, LoseInv, TurnInv DEF RetransmissionNext

-----------------------------------------------------------------------------
\* A retransmission takes the place of a packet under a new number, so an ACK
\* of any of the numbers in the send queue is of one packet only
\* (createRetransmitPacket, QuicConnectionClient.cc).
THEOREM NamesStayDifferent == RetransmissionSpec => []NamesDiffer
<1>1. RetransmissionInv => NamesDiffer
  BY DEF RetransmissionInv
<1> QED
  BY <1>1, InitInv, StepInv, PTL DEF RetransmissionSpec

\* The client learns only of bytes that arrived, does not take them back into
\* its queue, and deletes the connection when every byte arrived, however
\* often a packet was lost and sent again: retransmission implements the
\* promise to the application.
THEOREM RetransmissionDelivers == RetransmissionSpec => Delivery!DeliverySpec
<1>1. RetransmissionInit => Delivery!DeliveryInit
  <2> SUFFICES ASSUME RetransmissionInit PROVE Delivery!DeliveryInit
    OBVIOUS
  <2>1. \A s \in {taken, queue, network, arrived, delivered} : s \in {{}}
    BY DEF RetransmissionInit
  <2>2. taken = {} /\ delivered = {}
    BY <2>1
  <2> QED
    BY <2>2 DEF RetransmissionInit, Delivery!DeliveryInit
<1>2. ASSUME RetransmissionInv, [RetransmissionNext]_retransmissionVars
      PROVE  [Delivery!DeliveryNext]_(Delivery!deliveryVars)
  <2>1. ASSUME HandOver PROVE Delivery!Write
    BY <2>1 DEF HandOver, Delivery!Write, BytesIn
  <2>2. ASSUME NEW p \in network, Arrive(p) PROVE Delivery!Deliver
    <3>1. p.bytes \subseteq written /\ delivered \subseteq written
      BY <1>2 DEF RetransmissionInv, BytesInv, Packets
    <3> QED
      BY <2>2, <3>1 DEF Arrive, Delivery!Deliver, BytesIn
  <2>3. ASSUME NEW p \in network, Lose(p) PROVE UNCHANGED Delivery!deliveryVars
    BY <2>3 DEF Lose, Delivery!deliveryVars, BytesIn
  <2>4. ASSUME ClientTurn PROVE Delivery!Acknowledge
    <3>1. ~closed /\ closed' \in BOOLEAN /\ UNCHANGED <<written, delivered>>
      BY <2>4 DEF ClientTurn
    <3>2. /\ taken \ BytesIn(queue) \subseteq (taken \ BytesIn(queue))'
          /\ (taken \ BytesIn(queue))' \subseteq delivered
      BY <1>2, <2>4, TurnDrops DEF BytesIn
    <3>3. closed' => (taken \ BytesIn(queue))' = written
      BY <2>4 DEF ClientTurn, BytesIn
    <3> QED
      BY <3>1, <3>2, <3>3 DEF Delivery!Acknowledge
  <2>5. ASSUME UNCHANGED retransmissionVars PROVE UNCHANGED Delivery!deliveryVars
    BY <2>5 DEF retransmissionVars, Delivery!deliveryVars, BytesIn
  <2> QED
    BY <1>2, <2>1, <2>2, <2>3, <2>4, <2>5
    DEF RetransmissionNext, Delivery!DeliveryNext
<1> QED
  BY <1>1, <1>2, InitInv, StepInv, PTL
  DEF RetransmissionSpec, Delivery!DeliverySpec

-----------------------------------------------------------------------------
(***************************************************************************)
(* The promise itself.  Closed means that every byte is known to have      *)
(* arrived, which Write cannot undo because it needs an open connection.   *)
(***************************************************************************)
Acked == taken \ BytesIn(queue)

DeliveryInv ==
  /\ Acked \subseteq delivered
  /\ delivered \subseteq written
  /\ closed \in BOOLEAN
  /\ closed => Acked = written

\* A closed connection has delivered every byte of its streams, and nothing is
\* acknowledged that did not arrive (sendReadyPackets deletes the connection,
\* ConnectionManager.cc:536-544).
THEOREM DeliverySafe == Delivery!DeliverySpec => []Delivery!DeliveredBeforeClosed
<1>1. Delivery!DeliveryInit => DeliveryInv
  BY DEF Delivery!DeliveryInit, DeliveryInv, Acked
<1>2. DeliveryInv /\ [Delivery!DeliveryNext]_(Delivery!deliveryVars)
        => DeliveryInv'
  <2> SUFFICES ASSUME DeliveryInv,
                      [Delivery!DeliveryNext]_(Delivery!deliveryVars)
               PROVE  DeliveryInv'
    OBVIOUS
  <2> USE DEF DeliveryInv, Acked
  <2>1. CASE Delivery!Write
    BY <2>1 DEF Delivery!Write
  <2>2. CASE Delivery!Deliver
    BY <2>2 DEF Delivery!Deliver
  <2>3. CASE Delivery!Acknowledge
    BY <2>3 DEF Delivery!Acknowledge
  <2>4. CASE UNCHANGED Delivery!deliveryVars
    BY <2>4 DEF Delivery!deliveryVars
  <2> QED
    BY <2>1, <2>2, <2>3, <2>4 DEF Delivery!DeliveryNext
<1>3. DeliveryInv => Delivery!DeliveredBeforeClosed
  BY DEF DeliveryInv, Delivery!DeliveredBeforeClosed, Acked
<1> QED
  BY <1>1, <1>2, <1>3, PTL DEF Delivery!DeliverySpec

\* Retransmission never closes a connection that has not delivered all.
THEOREM RetransmissionSafe ==
  RetransmissionSpec => []Delivery!DeliveredBeforeClosed
BY RetransmissionDelivers, DeliverySafe, PTL

=============================================================================
