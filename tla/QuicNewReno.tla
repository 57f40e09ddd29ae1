---------------------------- MODULE QuicNewReno ----------------------------
(***************************************************************************)
(* Congestion control at the client (QuicNewReno.cc).  The fields are      *)
(* uint32 in the code; here they are computed modulo Word.  The round trip *)
(* time estimate and the retransmission timeout computed from it are left  *)
(* out: the model has no clock.                                            *)
(***************************************************************************)
EXTENDS Integers

CONSTANT Word   \* 2^32 in the code

ASSUME WordAssumption == Word \in Nat \ {0, 1}

UInt(n) == n % Word

Lesser(a, b)  == IF a <= b THEN a ELSE b
Greater(a, b) == IF a >= b THEN a ELSE b

NewReno ==
  [snd_cwnd |-> 0, snd_wnd |-> 0, snd_mss |-> 0, ssthresh |-> 0,
   recover |-> 0, snd_max |-> 0, snd_una |-> 0, lossRecovery |-> FALSE]

\* Mutant: the segment size is not set.
SetTransportNoSize(cc, max_payload, snd_wnd) ==
  [cc EXCEPT !.snd_cwnd = max_payload * 2, !.ssthresh = Word - 1,
             !.snd_wnd = UInt(snd_wnd)]

\* The settings of ProcessClientHandshakeResponse; MAX_THRESHOLD is the
\* largest uint32.
SetTransport(cc, max_payload, snd_wnd) ==
  [cc EXCEPT !.snd_mss = max_payload, !.snd_cwnd = max_payload * 2,
             !.ssthresh = Word - 1, !.snd_wnd = UInt(snd_wnd)]

RecalculateSlowStartThreshold(cc) ==
  Greater(Lesser(cc.snd_cwnd, cc.snd_wnd) \div 2, 2 * cc.snd_mss)

\* Mutant: a timeout halves the window, with no floor of one packet.
RexmitHalves(cc) ==
  [cc EXCEPT !.recover = UInt(cc.snd_max - 1),
             !.lossRecovery = FALSE,
             !.ssthresh = RecalculateSlowStartThreshold(cc),
             !.snd_cwnd = @ \div 2]

ProcessRexmitTimer(cc) ==
  [cc EXCEPT !.recover = UInt(cc.snd_max - 1),
             !.lossRecovery = FALSE,
             !.ssthresh = RecalculateSlowStartThreshold(cc),
             !.snd_cwnd = cc.snd_mss]

\* The congestion avoidance increment; zero is made one.
Increment(cc) == Greater(UInt(cc.snd_mss * cc.snd_mss) \div cc.snd_cwnd, 1)

\* In congestion avoidance the increment is a quotient by the window.
DividesByZero(cc) ==
  ~cc.lossRecovery /\ cc.snd_cwnd >= cc.ssthresh /\ cc.snd_cwnd = 0

ReceivedDataAck(cc) ==
  IF cc.lossRecovery
  THEN [cc EXCEPT !.lossRecovery = FALSE,
                  !.snd_cwnd = Lesser(cc.ssthresh,
                    UInt(UInt(cc.snd_max - cc.snd_una) + cc.snd_mss))]
  ELSE [cc EXCEPT !.snd_cwnd = UInt(@ + (IF @ < cc.ssthresh
                                         THEN cc.snd_mss ELSE Increment(cc))),
                  !.recover  = UInt(cc.snd_una - 2)]

ReceivedDuplicateAck(cc) ==
  IF ~cc.lossRecovery /\ UInt(cc.snd_una - 1) > cc.recover
  THEN LET threshold == RecalculateSlowStartThreshold(cc)
       IN  [cc EXCEPT !.ssthresh = threshold,
                      !.recover = UInt(cc.snd_max - 1),
                      !.lossRecovery = TRUE,
                      !.snd_cwnd = threshold]
  ELSE cc

InflateCwnd(cc) == [cc EXCEPT !.snd_cwnd = UInt(@ + cc.snd_mss)]

SetSndMax(cc, bytes_sent) == [cc EXCEPT !.snd_max = UInt(@ + bytes_sent)]

SetSndUna(cc, snd_una) == [cc EXCEPT !.snd_una = UInt(snd_una)]

=============================================================================
