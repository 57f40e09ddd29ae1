---------------------------- MODULE QuicTransfer ----------------------------
(***************************************************************************)
(* A client connection, its server connection and the network between      *)
(* them.                                                                   *)
(*                                                                         *)
(* The code runs in a discrete event simulation: a handler is never        *)
(* interrupted, and the next one is the arrival of a packet or the expiry  *)
(* of a timer.  There is no clock here.  A timer that is scheduled may     *)
(* expire at any moment, before or after any packet on its way.            *)
(*                                                                         *)
(* The networks of the repository are links, drop tail queues and a cloud  *)
(* of constant delay: they lose packets, and never reorder or duplicate    *)
(* them.                                                                   *)
(***************************************************************************)
EXTENDS QuicConnectionClient

CONSTANTS
  MaxDataLosses,     \* bound: how many data packets the network loses
  MaxAckLosses,      \* bound: how many ACK packets the network loses
  MaxEarlyTimeouts,  \* bound: RTO expiries while something is on its way
  AddedSizes         \* sizes of the streams added once to the connection;
                     \* none when it is empty

ASSUME TransferAssumption ==
  /\ {MaxDataLosses, MaxAckLosses, MaxEarlyTimeouts} \subseteq Nat
  /\ AddedSizes \in Seq(Nat \ {0})

VARIABLES
  rcv_next, received_out_of_order, current_largest, ack_timer,
  num_packets_recieved, receiver, arrived,
  acks,        \* ACK frames on their way
  data_losses, ack_losses, early_timeouts,   \* what the bounds count
  delivered    \* history variable: the bytes <<stream, offset>> that arrived

\* Packets is the environment of the server when it is checked alone.
S == INSTANCE QuicConnectionServer WITH Packets <- {}

serverVars == <<rcv_next, received_out_of_order, current_largest, ack_timer,
                num_packets_recieved, receiver, arrived>>

bounds == <<data_losses, ack_losses, early_timeouts>>

vars == <<client, serverVars, data, acks, bounds, delivered>>

-----------------------------------------------------------------------------
Init ==
  /\ ClientInit
  /\ S!ServerInit
  /\ acks = << >>
  /\ data_losses = 0
  /\ ack_losses = 0
  /\ early_timeouts = 0
  /\ delivered = {}

BytesOf(packet) ==
  UNION {{<<packet.frames[k].stream, packet.frames[k].offset + b>> :
            b \in 0 .. packet.frames[k].length - 1} :
            k \in DOMAIN packet.frames}

-----------------------------------------------------------------------------
HandshakeResponse ==
  /\ ReceiveHandshakeResponse
  /\ UNCHANGED <<serverVars, acks, bounds, delivered>>

ServerReceives ==
  /\ data # << >>
  /\ S!ReceivePacket(Head(data))
  /\ data' = Tail(data)
  /\ delivered' = delivered \cup BytesOf(Head(data))
  /\ UNCHANGED <<client, acks, bounds>>

ServerAckTimeout ==
  /\ S!AckTimeout
  /\ acks' = Append(acks, S!AckFrame)
  /\ UNCHANGED <<client, data, bounds, delivered>>

ClientReceivesAck ==
  /\ acks # << >>
  /\ acks' = Tail(acks)
  /\ IF client.phase # "closed"
     THEN ReceiveAck(Head(acks))
     ELSE UNCHANGED <<client, data>>
  /\ UNCHANGED <<serverVars, bounds, delivered>>

\* Nothing is on its way that could still bring an ACK to the client.
Quiet == data = << >> /\ acks = << >> /\ ~ack_timer

ClientTimeout ==
  /\ Quiet \/ early_timeouts < MaxEarlyTimeouts
  /\ \E number \in client.timers : RetransmissionTimeout(number)
  /\ early_timeouts' = IF Quiet THEN early_timeouts ELSE early_timeouts + 1
  /\ UNCHANGED <<serverVars, acks, data_losses, ack_losses, delivered>>

ClientAddStreams ==
  /\ AddedSizes # << >>
  /\ Len(client.streams) = Len(StreamSizes)
  /\ AddStreams(AddedSizes)
  /\ UNCHANGED <<serverVars, acks, bounds, delivered>>

\* Losing the first packet of a channel is enough: a packet may be lost at any
\* moment before it would arrive.
LoseData ==
  /\ data_losses < MaxDataLosses
  /\ data # << >>
  /\ data' = Tail(data)
  /\ data_losses' = data_losses + 1
  /\ UNCHANGED <<client, serverVars, acks, ack_losses, early_timeouts, delivered>>

LoseAck ==
  /\ ack_losses < MaxAckLosses
  /\ acks # << >>
  /\ acks' = Tail(acks)
  /\ ack_losses' = ack_losses + 1
  /\ UNCHANGED <<client, serverVars, data, data_losses, early_timeouts, delivered>>

Next ==
  \/ HandshakeResponse
  \/ ServerReceives
  \/ ServerAckTimeout
  \/ ClientReceivesAck
  \/ ClientTimeout
  \/ ClientAddStreams
  \/ LoseData
  \/ LoseAck

Spec == Init /\ [][Next]_vars

(***************************************************************************)
(* The simulation executes every scheduled event: a packet that is not     *)
(* lost arrives, and a timer that stays scheduled expires.  The actions    *)
(* under WF name the effect only one action of Next has (losing an ACK has *)
(* the effect of receiving one, but happens finitely often), because TLC   *)
(* evaluates ENABLED of a whole handler too slowly.  The RTO timers need   *)
(* no WF: nothing but ClientTimeout ends a quiet period with a timer.      *)
(***************************************************************************)
Fairness ==
  /\ []<>(client.phase # "handshake")
  /\ WF_num_packets_recieved(
       data # << >> /\ num_packets_recieved' = num_packets_recieved + 1)
  /\ WF_ack_timer(ack_timer /\ ack_timer' = FALSE)
  /\ WF_acks(acks # << >> /\ acks' = Tail(acks))
  /\ []<>~(Quiet /\ client.timers # {})

FairSpec == Spec /\ Fairness
-----------------------------------------------------------------------------
\* Frames still in the send queue.
Outstanding(i) == StreamBytes(AllFrames(client.queue), i)

\* Every byte the client took from a stream is either acknowledged or in a
\* packet of the send queue: no retransmission, no late and no lost ACK loses
\* a frame or counts it twice.  The end of a stream is ACKed_bytes reaching
\* its size (QuicStreamArr.cc:106), so this is what makes it meaningful.
BytesConserved ==
  \A i \in DOMAIN client.streams :
    client.streams[i].offset = client.streams[i].ACKed_bytes + Outstanding(i)

\* Bytes_in_flight is the size of the send queue.
FlightMatchesQueue == client.Bytes_in_flight = TotalSize(client.queue)

\* Flow control credit is neither lost nor granted twice: a stream's window is
\* smaller than the initial one by what is in the send queue or acknowledged
\* out of order.
CreditConserved ==
  client.phase # "handshake" =>
    \A i \in DOMAIN client.streams :
      StreamWindow = client.streams[i].window + Outstanding(i)
                     + StreamBytes(AllFrames(ByNumber(client.ooo)), i)

\* The sequence number acknowledged never overtakes the one sent, less what is
\* in flight.  The difference of the two is the unsigned flight size of
\* receivedDataAck (QuicNewReno.cc:102), which would wrap to a huge one.
UnaBehindMax ==
  client.send_unacked + client.Bytes_in_flight <= client.cc.snd_max

\* An RTO timer only runs for a packet of the send queue: what was
\* acknowledged is not sent again later.
TimersAreQueued == client.timers \subseteq Numbers(client.queue)

(***************************************************************************)
(* The promise to the application.  A byte is written when its stream      *)
(* exists, and acknowledged when it left its stream and is in no packet of *)
(* the send queue.                                                         *)
(***************************************************************************)
Written ==
  UNION {{<<i, b>> : b \in 0 .. client.streams[i].size - 1} :
           i \in DOMAIN client.streams}

Taken ==
  UNION {{<<i, b>> : b \in 0 .. client.streams[i].offset - 1} :
           i \in DOMAIN client.streams}

Acked == Taken \ UNION {BytesOf(client.queue[k]) : k \in DOMAIN client.queue}

AllBytes ==
  LET sizes == StreamSizes \o AddedSizes
  IN  UNION {{<<i, b>> : b \in 0 .. sizes[i] - 1} : i \in DOMAIN sizes}

Delivery == INSTANCE StreamDelivery
  WITH Bytes <- AllBytes, written <- Written, acked <- Acked,
       closed <- client.phase = "closed"

\* Client, server and network together implement the promise: bytes are only
\* acknowledged after they arrived, an acknowledged byte is never taken back
\* into the send queue, and the connection closes when all are acknowledged.
ImplementsDelivery == Delivery!DeliverySpec

PacketSet(packets) ==
  {[number  |-> packets[k].number, history |-> packets[k].history,
    bytes   |-> BytesOf(packets[k])] : k \in DOMAIN packets}

Retransmission == INSTANCE QuicRetransmission
  WITH Bytes <- AllBytes, written <- Written, taken <- Taken,
       queue <- PacketSet(client.queue), network <- PacketSet(data),
       packet_counter <- client.packet_counter,
       closed <- client.phase = "closed"

\* Each handler of the client does to the send queue no more than it may: it
\* drops only packets whose number arrived, although an in order ACK names few
\* of them; what it sends again replaces a packet, with all its numbers; new
\* packets carry bytes that were never sent.
ImplementsRetransmission == Retransmission!RetransmissionSpec

\* A number the server counts as received in order did arrive, itself or the
\* frames sent under it in a retransmission.
InOrderArrived == \A n \in 0 .. rcv_next - 1 : n \in arrived

\* When the client deletes its connection, the server has every byte, and
\* no timer is left that would look for the deleted connection.
ClosedIsComplete ==
  client.phase = "closed" =>
    /\ \A i \in DOMAIN client.streams :
         \A b \in 0 .. client.streams[i].size - 1 : <<i, b>> \in delivered
    /\ client.queue = << >>
    /\ client.timers = {}

\* A connection with nothing in flight can send a full packet: no sequence of
\* losses, timeouts and recoveries shrinks the congestion window below one
\* packet (QuicConnectionClient.cc:175 would then never send again).
WindowNeverStarves ==
  client.phase # "handshake" => client.cc.snd_cwnd >= MaxPayload

\* The client never ends the simulation: the congestion window is not zero
\* when it divides (QuicNewReno.cc:121), no packet with a long header is read
\* as one with a short header (QuicConnectionClient.cc:156), and no null
\* pointer stands for the description of a packet found lost
\* (QuicConnectionClient.cc:463).
NeverFails == ~client.failed

\* A stream the server closed has all its bytes at the server.
StreamDoneIsComplete ==
  \A i \in receiver.done :
    \A b \in 0 .. client.streams[i].size - 1 : <<i, b>> \in delivered

\* The server takes the connection for ended only when every stream is done.
EndedIsComplete ==
  receiver.ended => receiver.done = DOMAIN client.streams

\* A packet number names one packet: the send queue is sorted by numbers given
\* out before, and no two of its packets share a number of their histories.
\* findPacketInSendQueue and removeFromSendQueueByNumber take the first match
\* (QuicSendQueue.cc:40, 95), and the server drops the frames of a packet when
\* any number of its history is known to it (QuicConnectionServer.cc:104).
NumbersNameOnePacket ==
  /\ \A i, j \in DOMAIN client.queue :
       i < j => /\ client.queue[i].number < client.queue[j].number
                /\ client.queue[i].history \cap client.queue[j].history = {}
  /\ \A i \in DOMAIN client.queue :
       /\ client.queue[i].number < client.packet_counter
       /\ \A h \in client.queue[i].history : h < client.queue[i].number

\* New data leaves only within the windows of the connection and of the
\* congestion control; retransmissions add nothing to the bytes in flight.
SendsWithinWindow ==
  [][client'.Bytes_in_flight > client.Bytes_in_flight =>
       client'.Bytes_in_flight <=
         Minimum(ConnectionWindow, client'.cc.snd_cwnd)]_vars

\* The client gets every byte acknowledged and deletes its connection.
EventuallyClosed == <>(client.phase = "closed")

=============================================================================
