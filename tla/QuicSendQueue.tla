--------------------------- MODULE QuicSendQueue ---------------------------
(***************************************************************************)
(* The packets a client sent and has no acknowledgment of                  *)
(* (QuicSendQueue.cc): a sequence of data packets [number, history,        *)
(* frames, size] in the order they were sent.                              *)
(***************************************************************************)
EXTENDS Integers, FiniteSets, SequencesExt

CONSTANT kPacketThreshold

Numbers(queue) == {queue[i].number : i \in DOMAIN queue}

FindPacket(queue, number) ==
  queue[CHOOSE i \in DOMAIN queue : queue[i].number = number]

WithNumbers(queue, numbers) ==
  FlattenSeq([i \in DOMAIN queue |->
                IF queue[i].number \in numbers THEN <<queue[i]>> ELSE << >>])

WithoutNumbers(queue, numbers) == WithNumbers(queue, Numbers(queue) \ numbers)

\* getPacketsToCancel, and what getLostAcksPackets takes out
UpTo(queue, number) ==
  WithNumbers(queue, {n \in Numbers(queue) : n <= number})

\* updateLostPackets: all packets under the threshold are lost
LostPackets(queue, largest) == UpTo(queue, largest - kPacketThreshold)

\* The bytes of a sequence of packets, and all their frames.
TotalSize(packets) == FoldLeft(LAMBDA sum, p : sum + p.size, 0, packets)

AllFrames(packets) ==
  FlattenSeq([i \in DOMAIN packets |-> packets[i].frames])

\* A set of packets as a sequence, by their numbers.
ByNumber(packets) ==
  [i \in 1 .. Cardinality(packets) |->
     CHOOSE p \in packets :
       Cardinality({q \in packets : q.number < p.number}) = i - 1]

=============================================================================
