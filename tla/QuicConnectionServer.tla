------------------------ MODULE QuicConnectionServer ------------------------
(***************************************************************************)
(* One connection at the server (QuicConnectionServer.cc and               *)
(* QuicReceiveQueue.cc), with its ACK timer and the two handlers of the    *)
(* connection manager that drive it: the arrival of a data packet and the  *)
(* expiry of the ACK timer.                                                *)
(*                                                                         *)
(* A data packet is a record                                               *)
(*   number   its packet number                                            *)
(*   history  the numbers its frames were sent under before; empty unless  *)
(*            the packet is a retransmission (retransmission_info)         *)
(*   frames   a sequence of stream frames [stream, offset, length, fin]    *)
(*                                                                         *)
(* The list received_out_of_order is a set, because the code sorts it and  *)
(* removes its duplicates after every insertion.                           *)
(***************************************************************************)
EXTENDS Integers, FiniteSets, QuicAckRanges

CONSTANT Packets   \* the data packets that may arrive

ASSUME PacketsAssumption ==
  \A p \in Packets :
    /\ p.number \in Nat
    /\ p.history \in SUBSET Nat
    /\ IsFiniteSet(p.history)

VARIABLES
  rcv_next,               \* the next packet number expected in order
  received_out_of_order,  \* numbers waiting above rcv_next
  current_largest,        \* largest in order number already acknowledged
  ack_timer,              \* is the ACK timer scheduled?
  num_packets_recieved,   \* data packets that arrived
  receiver,               \* the streams, see EmptyReceiver
  arrived                 \* history variable: every number that arrived,
                          \* as a packet number or in a packet's history

serverVars == <<rcv_next, received_out_of_order, current_largest, ack_timer,
                num_packets_recieved, receiver, arrived>>

-----------------------------------------------------------------------------
(***************************************************************************)
(* Streams.                                                                *)
(*   known    the streams in stream_array                                  *)
(*   done     those closed                                                 *)
(*   status   the receive queue: the state of streams being received       *)
(*   num_streams_ended, ended   as in the code; num_streams is the         *)
(*            cardinality of known, which grows with it                    *)
(***************************************************************************)
EmptyReceiver ==
  [known |-> {}, done |-> {}, status |-> << >>,
   num_streams_ended |-> 0, ended |-> FALSE]

NewStatus == [final_size |-> -1, last_frame_received |-> FALSE,
              num_bytes_received |-> 0]

\* updateStreamStatus: the bytes of the frame are added, whatever its offset.
UpdateStreamStatus(status, f) ==
  LET old == IF f.stream \in DOMAIN status THEN status[f.stream] ELSE NewStatus
      new == [final_size |->
                IF f.fin THEN f.offset + f.length ELSE old.final_size,
              last_frame_received |-> f.fin \/ old.last_frame_received,
              num_bytes_received |-> old.num_bytes_received + f.length]
  IN  [s \in DOMAIN status \cup {f.stream} |->
         IF s = f.stream THEN new ELSE status[s]]

CheckIfEnded(state) ==
  state.last_frame_received /\ state.final_size = state.num_bytes_received

RemoveStreamStatus(status, stream) ==
  [s \in DOMAIN status \ {stream} |-> status[s]]

\* ProcessStreamDataFrame
ProcessStreamDataFrame(r, f) ==
  LET known  == r.known \cup {f.stream}
      status == UpdateStreamStatus(r.status, f)
      count  == r.num_streams_ended + 1
  IN  IF CheckIfEnded(status[f.stream])
      THEN [known  |-> known,
            done   |-> r.done \cup {f.stream},
            status |-> RemoveStreamStatus(status, f.stream),
            num_streams_ended |-> count,
            ended  |-> r.ended \/ count = Cardinality(known)]
      ELSE [r EXCEPT !.known = known, !.status = status]

-----------------------------------------------------------------------------
(***************************************************************************)
(* Packet numbers.                                                         *)
(***************************************************************************)

\* A retransmission brings new data when none of the numbers its frames were
\* sent under before is below rcv_next.
IsNewData(p) == \A h \in p.history : h >= rcv_next

\* Mutants: a retransmission only enters its new number; or it never enters
\* numbers already in order.
ListedSelfOnly(p) ==
  IF p.history # {} THEN {p.number} ELSE {p.number} \ {rcv_next}

ListedAbove(p) == {p.number} \ (0 .. rcv_next)

\* What the arrival of p adds to received_out_of_order, before the list is
\* popped.
Listed(p) ==
  IF p.history # {}
  THEN {p.number} \cup {h \in p.history : h >= rcv_next}
  ELSE {p.number} \ {rcv_next}

InOrder(p) == p.history = {} /\ p.number = rcv_next

(***************************************************************************)
(* The numbers the loop over the sorted list removes: the smallest is      *)
(* removed while it is not above rcv_next, and every removal increments    *)
(* rcv_next.  So x goes exactly when each y up to x is at most next plus   *)
(* the number of elements removed before y.                                *)
(***************************************************************************)
Below(waiting, x) == {z \in waiting : z < x}

\* Mutants: the loop stops at the number equal to rcv_next, or runs one ahead.
PoppedStrict(waiting, next) ==
  {x \in waiting : \A y \in waiting :
     y <= x => y < next + Cardinality(Below(waiting, y))}

PoppedAhead(waiting, next) ==
  {x \in waiting : \A y \in waiting :
     y <= x => y <= next + 1 + Cardinality(Below(waiting, y))}

Popped(waiting, next) ==
  {x \in waiting : \A y \in waiting :
     y <= x => y <= next + Cardinality(Below(waiting, y))}

\* ProcessServerReceivedPacket, setAckTimer and, for new data, the frames.
ReceivePacket(p) ==
  LET next    == IF InOrder(p) THEN rcv_next + 1 ELSE rcv_next
      waiting == received_out_of_order \cup Listed(p)
      popped  == Popped(waiting, next)
  IN  /\ rcv_next' = next + Cardinality(popped)
      /\ received_out_of_order' = waiting \ popped
      /\ num_packets_recieved' = num_packets_recieved + 1
      /\ ack_timer' = TRUE
      /\ receiver' = IF IsNewData(p)
                     THEN FoldLeft(ProcessStreamDataFrame, receiver, p.frames)
                     ELSE receiver
      /\ arrived' = arrived \cup {p.number} \cup p.history
      /\ UNCHANGED current_largest

\* The frame handleAckTimeout sends.
AckFrame ==
  IF received_out_of_order # {}
  THEN OutOfOrderAck(received_out_of_order, rcv_next)
  ELSE InOrderAck(rcv_next, current_largest)

\* Mutants: only an in order ACK records what it acknowledged; or one number
\* too few is recorded.
AckTimeoutForgets ==
  /\ ack_timer
  /\ ack_timer' = FALSE
  /\ current_largest' = IF received_out_of_order = {} THEN rcv_next - 1
                                                     ELSE current_largest
  /\ UNCHANGED <<rcv_next, received_out_of_order, num_packets_recieved,
                 receiver, arrived>>

AckTimeoutOneLess ==
  /\ ack_timer
  /\ ack_timer' = FALSE
  /\ current_largest' = rcv_next - 2
  /\ UNCHANGED <<rcv_next, received_out_of_order, num_packets_recieved,
                 receiver, arrived>>

\* handleAckTimeout: the frame leaves, and both of its branches record the
\* last number in order as acknowledged.
AckTimeout ==
  /\ ack_timer
  /\ ack_timer' = FALSE
  /\ current_largest' = rcv_next - 1
  /\ UNCHANGED <<rcv_next, received_out_of_order, num_packets_recieved,
                 receiver, arrived>>

-----------------------------------------------------------------------------
ServerInit ==
  /\ rcv_next = 0
  /\ received_out_of_order = {}
  /\ current_largest = -1
  /\ ack_timer = FALSE
  /\ num_packets_recieved = 0
  /\ receiver = EmptyReceiver
  /\ arrived = {}

ServerNext ==
  \/ \E p \in Packets : ReceivePacket(p)
  \/ AckTimeout

ServerSpec == ServerInit /\ [][ServerNext]_serverVars

-----------------------------------------------------------------------------
(***************************************************************************)
(* The type of the packet number state.                                    *)
(***************************************************************************)
ServerTypeOK ==
  /\ rcv_next \in Nat
  /\ received_out_of_order \in SUBSET Nat
  /\ IsFiniteSet(received_out_of_order)
  /\ current_largest \in Nat \cup {-1}
  /\ ack_timer \in BOOLEAN
  /\ num_packets_recieved \in Nat
  /\ arrived \in SUBSET Nat

\* Whatever arrives, in whatever order and however often, the numbers that
\* wait stay above rcv_next: a number at rcv_next would never be popped again
\* before another packet arrives, and createAckRange would describe a range
\* of length zero (ConnectionManager.cc:645-648).
WaitingAboveNext == \A n \in received_out_of_order : n > rcv_next

\* While no ACK is due, every number received in order has been counted as
\* acknowledged; no packet can arrive and be left without an ACK to come.
QuietMeansReported == ~ack_timer => current_largest = rcv_next - 1

\* An ACK that is due acknowledges at least one packet.  The client sizes an
\* array with this number and counts first_ACK_range down to zero
\* (ConnectionManager.cc:445-475), so a negative one would never end.
AckHasContent ==
  ack_timer /\ received_out_of_order = {} => AckFrame.first >= 0

\* A packet that arrived is never forgotten: its number, and the numbers its
\* frames were sent under before, are in order or wait in the list, so an
\* acknowledgment of each is still possible.
ArrivedIsKept ==
  \A n \in arrived : n < rcv_next \/ n \in received_out_of_order

\* An in order number is never taken back and an acknowledged one neither;
\* the ACK timer is only stopped by sending the ACK.
NeverTakenBack ==
  [][/\ rcv_next' >= rcv_next
     /\ current_largest' >= current_largest
     /\ (ack_timer /\ ~ack_timer') => current_largest' = rcv_next - 1]_serverVars

=============================================================================
