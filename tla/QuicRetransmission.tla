------------------------- MODULE QuicRetransmission -------------------------
(***************************************************************************)
(* How a connection keeps the promise of StreamDelivery, without streams,  *)
(* windows, timers and ACK frames.  A packet is a number, the numbers its  *)
(* bytes were sent under before, and its bytes.  The client keeps the      *)
(* packets it has no acknowledgment of; a retransmission takes the place   *)
(* of a packet under a new number; the server books all the numbers of a   *)
(* packet that arrives.  The network may lose, reorder and duplicate       *)
(* packets, and the client may learn at any time that a number arrived.    *)
(*                                                                         *)
(* QuicTransfer, which is the code, implements this specification.         *)
(***************************************************************************)
EXTENDS Integers

CONSTANT Bytes   \* the bytes an application may hand over

VARIABLES
  written,         \* bytes of the streams of the connection
  taken,           \* bytes that left their stream in a packet
  queue,           \* the packets the client waits for
  network,         \* the packets on their way
  packet_counter,  \* the number of the next packet
  arrived,         \* the numbers the server knows
  delivered,       \* the bytes the server has
  closed           \* did the client delete the connection?

retransmissionVars ==
  <<written, taken, queue, network, packet_counter, arrived, delivered, closed>>

Names(p) == {p.number} \cup p.history

BytesIn(packets) == UNION {p.bytes : p \in packets}

RetransmissionInit ==
  /\ written \in SUBSET Bytes
  /\ packet_counter = 0
  /\ {taken, queue, network, arrived, delivered} = {{}}
  /\ closed = FALSE

HandOver ==
  /\ ~closed
  /\ written' \in SUBSET Bytes
  /\ written \subseteq written'
  /\ UNCHANGED <<taken, queue, network, packet_counter, arrived, delivered,
                 closed>>

Arrive(p) ==
  /\ arrived' = arrived \cup Names(p)
  /\ delivered' = delivered \cup p.bytes
  /\ network' \in {network, network \ {p}}
  /\ UNCHANGED <<written, taken, queue, packet_counter, closed>>

Lose(p) ==
  /\ network' = network \ {p}
  /\ UNCHANGED <<written, taken, queue, packet_counter, arrived, delivered,
                 closed>>

\* The packets a turn of the client makes.
Made == queue' \ queue

\* m carries the bytes of p, and its numbers.
Resends(m, p) == m.history = Names(p) /\ m.bytes = p.bytes

\* m carries bytes that were never sent.
Fresh(m) ==
  /\ m.history = {}
  /\ m.bytes \subseteq written
  /\ m.bytes \cap taken = {}

\* One handler of the client: it drops packets that arrived, sends packets
\* again, in place of the old ones, sends new ones, and closes when nothing is
\* left to do.
ClientTurn ==
  /\ ~closed
  /\ packet_counter' \in Nat
  /\ \A m \in Made :
       /\ m.number \in packet_counter .. packet_counter' - 1
       /\ Fresh(m) \/ \E p \in queue \ queue' : Resends(m, p)
  /\ \A m, n \in Made :
       m # n => /\ m.number # n.number
                /\ \A p \in queue : ~(Resends(m, p) /\ Resends(n, p))
  /\ \A p \in queue \ queue' :
       p.number \in arrived \/ \E m \in Made : Resends(m, p)
  /\ packet_counter <= packet_counter'
  /\ network' = network \cup Made
  /\ taken' = taken \cup BytesIn(Made)
  /\ closed' \in BOOLEAN
  /\ closed' => queue' = {} /\ taken' = written
  /\ UNCHANGED <<written, arrived, delivered>>

RetransmissionNext ==
  \/ HandOver
  \/ \E p \in network : Arrive(p) \/ Lose(p)
  \/ ClientTurn

RetransmissionSpec ==
  RetransmissionInit /\ [][RetransmissionNext]_retransmissionVars

-----------------------------------------------------------------------------
(***************************************************************************)
(* A byte is acknowledged when it left its stream and no packet of the     *)
(* queue has it.                                                           *)
(***************************************************************************)
Delivery == INSTANCE StreamDelivery WITH acked <- taken \ BytesIn(queue)

\* No two packets of the queue have a number in common: an ACK of any number
\* is an ACK of one packet (QuicSendQueue.cc:40, 95).
NamesDiffer ==
  \A p, q \in queue : p # q => Names(p) \cap Names(q) = {}

=============================================================================
