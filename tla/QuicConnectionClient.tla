------------------------ MODULE QuicConnectionClient ------------------------
(***************************************************************************)
(* One connection at the client (QuicConnectionClient.cc), with its        *)
(* retransmission timers and the handlers of the connection manager that   *)
(* drive it: the handshake response, an ACK frame, the expiry of a         *)
(* retransmission timer and the addition of streams.                       *)
(*                                                                         *)
(* The handlers run many methods one after the other on the state of the   *)
(* connection, so the state is one record and a method is an operator from *)
(* records to records:                                                     *)
(*                                                                         *)
(*   streams, last     the stream array, last_stream_index_checked         *)
(*   queue             sent_not_Acked_packets                              *)
(*   timers            the numbers in queue whose RTO timer is scheduled   *)
(*   waiting           waiting_retransmission                              *)
(*   out               packets_to_send: what the handler sends at its end  *)
(*   ooo               ACKED_out_of_order                                  *)
(*   cc                the congestion control                              *)
(*   the counters      packet_counter, Bytes_in_flight, send_unacked,      *)
(*                     duplicate_Acks, recovery_start_packet,              *)
(*                     out_of_recovery_packet                              *)
(*   phase             "handshake" until the response of the server,       *)
(*                     "open", "closed" when the manager deleted it        *)
(*   failed            did the code do what ends the simulation?           *)
(*                                                                         *)
(* The queue of a connection that sends 0-RTT data also holds the copy of  *)
(* its Initial packet, under the number -1 and with no frames.  The other  *)
(* connections are modelled from the moment the response arrives, so their *)
(* queues never hold it here.                                              *)
(***************************************************************************)
EXTENDS QuicStreamArr, QuicSendQueue, QuicNewReno, QuicAckRanges

CONSTANTS
  StreamSizes,       \* the sizes of the first streams, a sequence
  StreamWindow,      \* initial flow control window of a stream
  ConnectionWindow,  \* flow control window of the connection
  MaxPayload,        \* bytes of a full packet, its header included
  HeaderSize,        \* bytes of a short header
  LongHeaderSize,    \* bytes of the long header of a 0-RTT packet
  MinPacketSize,     \* smaller packets are padded to this (QUIC_MIN_PACKET_SIZE)
  PoppedSize         \* what popAtFront takes off the getByteLength of a packet:
                     \* its header, or nothing, as the packet library defines it

ASSUME ClientAssumption ==
  /\ StreamSizes \in Seq(Nat \ {0}) /\ StreamSizes # << >>
  /\ {StreamWindow, ConnectionWindow, HeaderSize, LongHeaderSize, MinPacketSize}
       \subseteq Nat
  /\ MaxPayload \in Nat /\ MaxPayload > HeaderSize /\ MaxPayload > LongHeaderSize
  /\ MinPacketSize <= MaxPayload
  /\ PoppedSize \in {0, HeaderSize}

VARIABLES
  client,
  data      \* the data packets on their way to the server, oldest first

NewClient ==
  [streams |-> [i \in DOMAIN StreamSizes |-> NewStream(StreamSizes[i])],
   last |-> 1, queue |-> << >>, timers |-> {}, waiting |-> << >>,
   out |-> << >>, ooo |-> {}, cc |-> NewReno, packet_counter |-> 0,
   Bytes_in_flight |-> 0, send_unacked |-> 0, duplicate_Acks |-> 0,
   recovery_start_packet |-> 0, out_of_recovery_packet |-> 0,
   phase |-> "handshake", failed |-> FALSE]

InitialNumber == -1

-----------------------------------------------------------------------------
(***************************************************************************)
(* Making packets.                                                         *)
(***************************************************************************)

\* calcHeaderSize, and what popAtFront takes off a packet
HeaderBytes(long) == IF long THEN LongHeaderSize ELSE HeaderSize
PoppedBytes(p) == IF PoppedSize = 0 THEN 0 ELSE HeaderBytes(p.long)

\* createQuicDataPacket, with its padding
DataPacket(number, history, frames, long) ==
  [number |-> number, history |-> history, frames |-> frames, long |-> long,
   size |-> Maximum(MinPacketSize, HeaderBytes(long) + FrameBytes(frames))]

\* Mutants: a retransmission keeps the number of the packet; or it forgets the
\* numbers before the last one.
RetransmitSameNumber(c, p) ==
  DataPacket(p.number, p.history \cup {p.number}, p.frames, p.long)

RetransmitForgets(c, p) ==
  DataPacket(c.packet_counter, {p.number}, p.frames, p.long)

\* createRetransmitPacket: the frames of p move to a packet with a new number
\* and a header of the same form, and their streams are blocked.
\* Bytes_in_flight stays: the new packet takes the place of the old one.
RetransmitPacket(c, p) ==
  DataPacket(c.packet_counter, p.history \cup {p.number}, p.frames, p.long)

TakeForRetransmission(c, p) ==
  [c EXCEPT !.queue = WithoutNumbers(@, {p.number}),
            !.timers = @ \ {p.number},
            !.streams = SetValid(@, p.frames, FALSE),
            !.packet_counter = @ + 1]

\* The Initial packet has no retransmission_info, and the code reads it
\* through a null pointer.
CreateRetransmitPacket(c, p) ==
  [TakeForRetransmission(c, p) EXCEPT
     !.failed = @ \/ p.number = InitialNumber,
     !.waiting = Append(@, RetransmitPacket(c, p))]

-----------------------------------------------------------------------------
(***************************************************************************)
(* Sending: ProcessClientSend and sendReadyPackets.                        *)
(***************************************************************************)

\* The retransmissions go first and are not held back by a window.  The loop
\* that logs them peeks a short header; the packet library ends the simulation
\* when the packet has a long one.
SendWaiting(c) ==
  [c EXCEPT !.failed = @ \/ \E i \in DOMAIN c.waiting : c.waiting[i].long,
            !.queue = @ \o c.waiting, !.out = @ \o c.waiting,
            !.waiting = << >>]

\* Mutant: the bytes in flight are not taken off.
ActualWindowWhole(c) == Minimum(ConnectionWindow, c.cc.snd_cwnd)

ActualWindow(c) ==
  Minimum(ConnectionWindow, c.cc.snd_cwnd) - c.Bytes_in_flight

\* A packet of new data: its bytes leave their streams, and it is queued.
QueuePacket(c, fill, p) ==
  [c EXCEPT !.streams = fill.streams,
            !.last = fill.last,
            !.queue = Append(@, p),
            !.out = Append(@, p),
            !.packet_counter = @ + 1,
            !.Bytes_in_flight = @ + p.size,
            !.cc = SetSndMax(@, p.size)]

\* The body of the loops that make packets of new data: a packet that fills
\* space, or, when no stream has a byte to send, the end of the loop.
SendNewPacket(a, space, long) ==
  LET fill == FramesToSend(a.c.streams, a.c.last, space)
      p    == DataPacket(a.c.packet_counter, {}, fill.frames, long)
  IN  IF fill.frames = << >>
      THEN [a EXCEPT !.stop = TRUE, !.c.last = fill.last]
      ELSE [a EXCEPT !.window = @ - p.size, !.c = QueuePacket(@, fill, p)]

\* A loop starts with all of the window.  Every turn but the last one sends a
\* byte, which bounds the turns.
SendLoop(Turn(_, _), c) ==
  LET left == FoldLeft(LAMBDA sum, s : sum + BytesLeft(s), 0, c.streams)
  IN  FoldLeft(Turn,
               [c |-> c, window |-> ActualWindow(c), stop |-> FALSE],
               [k \in 1 .. left + 1 |-> k]).c

\* The loop of ProcessClientSend keeps a window smaller than a packet.
SendTurn(a, k) ==
  IF a.stop \/ a.window < MaxPayload THEN [a EXCEPT !.stop = TRUE]
  ELSE SendNewPacket(a, MaxPayload - HeaderSize, FALSE)

SendNewData(c) == SendLoop(SendTurn, c)

ProcessClientSend(c) == SendNewData(SendWaiting(c))

\* Every packet sent gets an RTO timer; a connection that has nothing to send
\* and whose streams are all done is deleted.
SendOut(sent) ==
  [sent EXCEPT
     !.timers = @ \cup Numbers(sent.out),
     !.phase = IF sent.out = << >> /\ GetAllStreamsDone(sent.streams)
               THEN "closed" ELSE @]

SendReadyPackets(c) == SendOut(ProcessClientSend(c))

-----------------------------------------------------------------------------
(***************************************************************************)
(* An ACK frame: the ACK case of processPacketFrames.  acked is the array  *)
(* of numbers of the frame, from the largest to the smallest.              *)
(***************************************************************************)
Smallest(frame) == Last(DecodeAck(frame))

\* Mutant: packets before an in order ACK keep their timers.
CancelRTOListed(c, frame) ==
  [c EXCEPT !.timers = @ \ ToSet(DecodeAck(frame))]

\* cancelRTOonPackets
CancelRTO(c, frame) ==
  [c EXCEPT !.timers =
     @ \ (ToSet(DecodeAck(frame)) \cup
          IF IsInOrder(frame)
          THEN Numbers(UpTo(c.queue, Smallest(frame) - 1)) ELSE {})]

AckedPackets(c, frame) == WithNumbers(c.queue, ToSet(DecodeAck(frame)))

\* Mutant: any ACK takes everything before its smallest number.
LostAcksAlways(c, frame) ==
  IF Smallest(frame) \in Numbers(c.queue)
  THEN UpTo(c.queue, Smallest(frame) - 1)
  ELSE << >>

\* getLostAcksPackets: an in order ACK takes everything before it out of the
\* queue too, but only when its smallest packet is still in the queue.
LostAcksPackets(c, frame) ==
  IF IsInOrder(frame) /\ Smallest(frame) \in Numbers(c.queue)
  THEN UpTo(c.queue, Smallest(frame) - 1)
  ELSE << >>

\* Mutants: the streams of an acknowledged retransmission stay blocked; or
\* the bytes of a retransmission are not counted as acknowledged.
UpdateStreamInfoBlocked(streams, packets) ==
  UpdateACKedBytes(streams, AllFrames(packets))

UpdateStreamInfoOnce(streams, packets) ==
  LET again == SelectSeq(packets, LAMBDA p : p.history # {})
      first == SelectSeq(packets, LAMBDA p : p.history = {})
  IN  UpdateACKedBytes(SetValid(streams, AllFrames(again), TRUE),
                       AllFrames(first))

\* updateStreamInfo of a sequence of packets.
UpdateStreamInfo(streams, packets) ==
  LET again == SelectSeq(packets, LAMBDA p : p.history # {})
  IN  UpdateACKedBytes(SetValid(streams, AllFrames(again), TRUE),
                       AllFrames(packets))

\* Mutant: packets taken out because their ACK was lost stay in
\* Bytes_in_flight.
RemoveAckedInFlight(c, frame) ==
  LET found   == AckedPackets(c, frame)
      removed == LostAcksPackets(c, frame) \o found
  IN  [c EXCEPT
         !.queue = WithoutNumbers(@, Numbers(removed)),
         !.Bytes_in_flight = @ - TotalSize(found),
         !.streams = UpdateStreamInfo(@, removed),
         !.ooo = IF IsInOrder(frame) THEN @ ELSE @ \cup ToSet(found)]

\* The first loop of ProcessClientACK: the acknowledged packets leave the
\* queue; flow control and send_unacked follow for an in order ACK, otherwise
\* the packets wait in ACKED_out_of_order.  send_unacked takes the sizes after
\* updateFlowControl popped the headers.
RemoveAcked(c, frame) ==
  LET found   == AckedPackets(c, frame)
      before  == LostAcksPackets(c, frame)
      removed == before \o found
      streams == UpdateStreamInfo(c.streams, removed)
      una     == IF c.ooo = {}
                 THEN c.send_unacked
                        + FoldLeft(LAMBDA sum, p : sum + p.size - PoppedBytes(p),
                                   0, found)
                 ELSE c.send_unacked
      base    == [c EXCEPT
                    !.queue = WithoutNumbers(@, Numbers(removed)),
                    !.Bytes_in_flight = @ - TotalSize(removed)]
  IN  IF IsInOrder(frame)
      THEN [base EXCEPT
              !.streams = UpdateStreamFlowWindow(streams, AllFrames(removed)),
              !.send_unacked = una,
              !.cc = SetSndUna(@, IF found # << >> /\ c.ooo = {}
                                  THEN una ELSE c.cc.snd_una)]
      ELSE [base EXCEPT !.streams = streams, !.ooo = @ \cup ToSet(found)]

\* The second loop: packets acknowledged out of order below a limit leave
\* ACKED_out_of_order and return their flow control credit.
RemoveLimit(frame) ==
  IF IsInOrder(frame) THEN frame.largest ELSE Smallest(frame)

\* Mutants: the credit is not returned, or the packets stay in the list.
RemoveOutOfOrderNoCredit(c, frame) ==
  [c EXCEPT !.ooo = {p \in @ : p.number >= RemoveLimit(frame)}]

RemoveOutOfOrderKeeps(c, frame) ==
  LET gone  == {p \in c.ooo : p.number < RemoveLimit(frame)}
      order == ByNumber(gone)
      una   == c.send_unacked + TotalSize(order)
  IN  [c EXCEPT
         !.send_unacked = una,
         !.streams = UpdateStreamFlowWindow(@, AllFrames(order)),
         !.cc = IF gone = {} THEN @ ELSE SetSndUna(@, una)]

RemoveOutOfOrder(c, frame) ==
  LET gone  == {p \in c.ooo : p.number < RemoveLimit(frame)}
      order == ByNumber(gone)
      una   == c.send_unacked + TotalSize(order)
  IN  [c EXCEPT
         !.ooo = @ \ gone,
         !.send_unacked = una,
         !.streams = UpdateStreamFlowWindow(@, AllFrames(order)),
         !.cc = IF gone = {} THEN @ ELSE SetSndUna(@, una)]

ProcessClientACK(c, frame) == RemoveOutOfOrder(RemoveAcked(c, frame), frame)

-----------------------------------------------------------------------------
\* updateCongestionAlgo, where lost holds the packets found lost by this ACK.
UpdateCongestionAlgo(c, lost, largest) ==
  LET fresh == lost # << >> /\ Min(Numbers(lost)) >= c.recovery_start_packet
      dup   == IF fresh THEN c.duplicate_Acks + 1 ELSE c.duplicate_Acks
  IN  IF c.cc.lossRecovery
      THEN IF largest >= c.out_of_recovery_packet
           THEN [c EXCEPT !.cc = ReceivedDataAck(@),
                          !.duplicate_Acks = 1,
                          !.recovery_start_packet = c.packet_counter]
           ELSE [c EXCEPT !.cc = InflateCwnd(@), !.duplicate_Acks = @ + 1]
      ELSE IF lost = << >>
      THEN IF DividesByZero(c.cc) THEN [c EXCEPT !.failed = TRUE]
           ELSE [c EXCEPT !.cc = ReceivedDataAck(@)]
      ELSE IF dup >= 3
      THEN [c EXCEPT !.cc = ReceivedDuplicateAck(@),
                     !.duplicate_Acks = dup,
                     !.out_of_recovery_packet = c.packet_counter]
      ELSE [c EXCEPT !.duplicate_Acks = dup]

\* updateLostPackets and getLostPackets: every packet far enough below the
\* largest acknowledged one is lost, and waits for its retransmission.
UpdateLostPackets(c, largest) ==
  LET lost == LostPackets(c.queue, largest)
  IN  FoldLeft(CreateRetransmitPacket,
               UpdateCongestionAlgo(c, lost, largest), lost)

-----------------------------------------------------------------------------
(***************************************************************************)
(* The handlers.  sendPacket hands what a handler sends to the network,    *)
(* and packets_to_send is cleared.                                         *)
(***************************************************************************)
Emit(c) ==
  /\ client' = [c EXCEPT !.out = << >>]
  /\ data' = data \o c.out

\* Mutants: the Initial packet stays in the queue; or the windows forget what
\* the streams sent before.
HandshakeResponseKeeps(c) ==
  LET streams == SetAllStreamsWindows(c.streams, StreamWindow)
      wnd     == Minimum(ConnectionWindow, SumStreamWindows(streams))
  IN  [c EXCEPT !.phase = "open", !.streams = streams,
                !.timers = @ \ {InitialNumber},
                !.cc = SetTransport(@, MaxPayload, wnd)]

HandshakeResponseFresh(c) ==
  LET streams == [i \in DOMAIN c.streams |->
                    [c.streams[i] EXCEPT !.window = StreamWindow]]
  IN  [c EXCEPT !.phase = "open", !.streams = streams,
                !.queue = WithoutNumbers(@, {InitialNumber}),
                !.timers = @ \ {InitialNumber},
                !.cc = SetTransport(@, MaxPayload, ConnectionWindow)]

\* ProcessClientHandshakeResponse, and the timer of the Initial packet, which
\* leaves the queue.
ProcessClientHandshakeResponse(c) ==
  LET streams == SetAllStreamsWindows(c.streams, StreamWindow)
      wnd     == Minimum(ConnectionWindow, SumStreamWindows(streams))
  IN  [c EXCEPT !.phase = "open", !.streams = streams,
                !.queue = WithoutNumbers(@, {InitialNumber}),
                !.timers = @ \ {InitialNumber},
                !.cc = SetTransport(@, MaxPayload, wnd)]

ReceiveHandshakeResponse ==
  /\ client.phase = "handshake"
  /\ Emit(SendReadyPackets(ProcessClientHandshakeResponse(client)))

\* A frame for a connection the manager deleted finds no connection.
ReceiveAck(frame) ==
  /\ client.phase # "closed"
  /\ Emit(SendReadyPackets(
       UpdateLostPackets(
         ProcessClientACK(CancelRTO(client, frame), frame),
         frame.largest)))

\* handleRetransmissionTimeout: the packet is sent again at once, whatever the
\* window.
ExpireRTO(c, number) ==
  LET p     == FindPacket(c.queue, number)
      again == RetransmitPacket(c, p)
  IN  [TakeForRetransmission(c, p) EXCEPT
         !.cc = ProcessRexmitTimer(@),
         !.queue = Append(@, again),
         !.out = Append(@, again),
         !.timers = @ \cup {again.number}]

RetransmissionTimeout(number) ==
  /\ number \in client.timers
  /\ Emit(ExpireRTO(client, number))

\* The ADDSTREAMS message of an application.  The new streams get the initial
\* window at once; nothing is sent before the next ACK.  Before the handshake
\* response the window added is not initialized yet, but the response sets
\* the windows of all streams before anything reads them.
AddStreams(sizes) ==
  /\ client.phase # "closed"
  /\ client' = [client EXCEPT
       !.streams = @ \o [i \in DOMAIN sizes |->
                           [NewStream(sizes[i]) EXCEPT !.window = StreamWindow]]]
  /\ UNCHANGED data

ClientInit == client = NewClient /\ data = << >>

=============================================================================
