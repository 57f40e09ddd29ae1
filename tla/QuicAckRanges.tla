--------------------------- MODULE QuicAckRanges ---------------------------
(***************************************************************************)
(* The ACK frame of the simulation: how the server packs its list of       *)
(* packets received out of order into ranges (createAckRange and           *)
(* handleAckTimeout in ConnectionManager.cc), and how the client unpacks   *)
(* the ranges again (the ACK case of processPacketFrames).                 *)
(*                                                                         *)
(* The list is a set of packet numbers here, because the server sorts it   *)
(* and removes its duplicates after every insertion.                       *)
(*                                                                         *)
(*   largest   largest packet number acknowledged                          *)
(*   first     first_ACK_range: how many numbers just below largest follow *)
(*   ranges    the ACK_ranges array: each skips gap numbers, then          *)
(*             acknowledges length numbers                                 *)
(***************************************************************************)
EXTENDS Integers, FiniteSets, SequencesExt

\* The elements of a finite set of numbers, in descending and ascending order.
Descending(S) ==
  [i \in 1 .. Cardinality(S) |->
     CHOOSE x \in S : Cardinality({y \in S : y > x}) = i - 1]

Ascending(S) ==
  [i \in 1 .. Cardinality(S) |->
     CHOOSE x \in S : Cardinality({y \in S : y < x}) = i - 1]

AckRange(gap, length) == [gap |-> gap, length |-> length]

(***************************************************************************)
(* The numbers createAckRange collects in "missing": the one just below    *)
(* the smallest element and every hole between two elements.               *)
(***************************************************************************)
Missing(list) ==
  {n \in (Min(list) - 1) .. Max(list) : n \notin list}

(***************************************************************************)
(* One range for every place where the descending list of missing numbers  *)
(* jumps over received ones.  The gap of the range is the number of        *)
(* consecutive missing numbers just above it.                              *)
(***************************************************************************)
HoleRanges(list) ==
  LET missing == Descending(Missing(list))
      jumps   == {i \in 1 .. Len(missing) - 1 : missing[i+1] # missing[i] - 1}
      jump    == Ascending(jumps)
  IN  [k \in 1 .. Len(jump) |->
         AckRange(jump[k] - (IF k = 1 THEN 0 ELSE jump[k-1]),
                missing[jump[k]] - missing[jump[k] + 1] - 1)]

\* The closing range: it acknowledges nothing and spans the numbers between
\* the smallest element and rcv_next.
LastRange(list, rcv_next) == AckRange(Min(list) - rcv_next, 0)

\* The frame handleAckTimeout builds when packets wait out of order.
OutOfOrderAck(list, rcv_next) ==
  [largest |-> Max(list),
   first   |-> Max(list) - Max(Missing(list)) - 1,
   ranges  |-> Append(HoleRanges(list), LastRange(list, rcv_next))]

\* The frame handleAckTimeout builds when none does: the numbers received in
\* order since the previous ACK, and no range.
InOrderAck(rcv_next, current_largest) ==
  [largest |-> rcv_next - 1,
   first   |-> (rcv_next - 1) - current_largest - 1,
   ranges  |-> << >>]

-----------------------------------------------------------------------------
(***************************************************************************)
(* The client rebuilds the array of acknowledged numbers, largest first.   *)
(***************************************************************************)
Downwards(from, count) == [i \in 1 .. count |-> from - i]

\* Mutant: the gap of a range is not skipped.
DecodeRangeNoGap(decoded, range) ==
  [current |-> decoded.current - range.length,
   acked   |-> decoded.acked \o Downwards(decoded.current, range.length)]

DecodeRange(decoded, range) ==
  LET from == decoded.current - range.gap
  IN  [current |-> from - range.length,
       acked   |-> decoded.acked \o Downwards(from, range.length)]

DecodeAck(frame) ==
  LET first == [current |-> frame.largest - frame.first,
                acked   |-> Downwards(frame.largest + 1, frame.first + 1)]
  IN  FoldLeft(DecodeRange, first, frame.ranges).acked

\* The in_order flag the client puts on every number of the frame.
IsInOrder(frame) == frame.ranges = << >>

\* Mutant: the largest number itself is not counted.
TotalAckedBelow(frame) ==
  FoldLeft(LAMBDA total, range : total + range.length,
           frame.first, frame.ranges)

\* The size of the array the client allocates for the numbers of the frame.
TotalAcked(frame) ==
  FoldLeft(LAMBDA total, range : total + range.length,
           frame.first + 1, frame.ranges)

=============================================================================
