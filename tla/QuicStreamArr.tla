--------------------------- MODULE QuicStreamArr ---------------------------
(***************************************************************************)
(* The streams of a connection at the client (QuicStreamArr.cc).  A stream *)
(* array is a sequence of records; the identifier of a stream is its       *)
(* position.  bytes_left_to_send_in_stream is not kept: the code changes   *)
(* it only together with current_offset_in_stream, see BytesLeft.          *)
(***************************************************************************)
EXTENDS Integers, SequencesExt

NewStream(size) ==
  [size |-> size, offset |-> 0, window |-> 0, ACKed_bytes |-> 0,
   valid |-> TRUE, stream_done |-> FALSE]

BytesLeft(s) == s.size - s.offset

SetAllStreamsWindows(streams, window) ==
  [i \in DOMAIN streams |->
     [streams[i] EXCEPT
       !.window = window - (streams[i].size - BytesLeft(streams[i]))]]

SumStreamWindows(streams) ==
  FoldLeft(LAMBDA sum, s : sum + s.window, 0, streams)

\* Mutant: one stream that is done is enough.
GetSomeStreamDone(streams) == \E i \in DOMAIN streams : streams[i].stream_done

GetAllStreamsDone(streams) == \A i \in DOMAIN streams : streams[i].stream_done

-----------------------------------------------------------------------------
(***************************************************************************)
(* Frames and the bytes they carry for one stream.                         *)
(***************************************************************************)
Frame(stream, s, length) ==
  [stream |-> stream, offset |-> s.offset, length |-> length,
   fin |-> s.offset + length = s.size]

FrameBytes(frames) == FoldLeft(LAMBDA sum, f : sum + f.length, 0, frames)

StreamBytes(frames, i) ==
  FoldLeft(LAMBDA sum, n : sum + n, 0,
           [k \in DOMAIN frames |->
              IF frames[k].stream = i THEN frames[k].length ELSE 0])

(***************************************************************************)
(* framesToSend fills space bytes of a packet.  It visits each stream at   *)
(* most once, starting where the previous packet stopped, and takes from a *)
(* stream what its window, its data and the packet allow.  A call that     *)
(* finds every stream blocked visits them all too, and so ends where it    *)
(* started.                                                                *)
(***************************************************************************)
Minimum(a, b) == IF a <= b THEN a ELSE b
Maximum(a, b) == IF a >= b THEN a ELSE b

BytesToSend(s, space) ==
  IF s.valid THEN Minimum(Minimum(s.window, space), BytesLeft(s)) ELSE 0

\* A sequence built anew, because TLC forgets an EXCEPT of a function
\* constructor when it concatenates the result.
WithStream(streams, i, s) ==
  [j \in DOMAIN streams |-> IF j = i THEN s ELSE streams[j]]

VisitStream(a, k) ==
  LET i == a.last
      s == a.streams[i]
      n == BytesToSend(s, a.space)
      moved == [a EXCEPT !.last = (i % Len(a.streams)) + 1]
  IN  IF a.space = 0 THEN a
      ELSE IF n = 0 THEN moved
      ELSE [moved EXCEPT
              !.space  = @ - n,
              !.frames = Append(@, Frame(i, s, n)),
              !.streams = WithStream(@, i, [s EXCEPT !.offset = @ + n,
                                                     !.window = @ - n])]

FramesToSend(streams, last, space) ==
  FoldLeft(VisitStream,
           [streams |-> streams, last |-> last, space |-> space,
            frames |-> << >>],
           [k \in 1 .. Len(streams) |-> k])

-----------------------------------------------------------------------------
(***************************************************************************)
(* What the frames of a packet do to the streams they belong to.           *)
(***************************************************************************)

\* blockStream, freeStream
SetValid(streams, frames, valid) ==
  [i \in DOMAIN streams |->
     IF \E k \in DOMAIN frames : frames[k].stream = i
     THEN [streams[i] EXCEPT !.valid = valid]
     ELSE streams[i]]

\* updateACKedBytes: a stream closes when its last byte is acknowledged.
UpdateACKedBytes(streams, frames) ==
  [i \in DOMAIN streams |->
     LET s     == streams[i]
         acked == s.ACKed_bytes + StreamBytes(frames, i)
     IN  [s EXCEPT !.ACKed_bytes = acked,
                   !.stream_done = @ \/ acked = s.size]]

\* updateStreamFlowWindow
UpdateStreamFlowWindow(streams, frames) ==
  [i \in DOMAIN streams |->
     [streams[i] EXCEPT !.window = @ + StreamBytes(frames, i)]]

=============================================================================
