------------------------- MODULE QuicZeroRttProofs -------------------------
(***************************************************************************)
(* Proofs about a reconnection, as long as the network does not lose the   *)
(* response of the server.                                                 *)
(*                                                                         *)
(* Without the Initial packet, whose number is not one of packet_counter,  *)
(* and without the response, a reconnection is what QuicTransferProofs     *)
(* proves about: BehindInitial of the client goes through the same turns.  *)
(***************************************************************************)
EXTENDS QuicZeroRtt, QuicTransferProofs

ZeroTurns == INSTANCE FoldTheorems WITH op <- ZeroRttTurn
Expiries  == INSTANCE FoldTheorems WITH op <- ExpireRTO

-----------------------------------------------------------------------------
(***************************************************************************)
(* The Initial packet is the first of the send queue and of the network.   *)
(***************************************************************************)
WithInitial(q) == <<InitialPacket>> \o q

Behind(q) == IF q # << >> /\ Head(q) = InitialPacket THEN Tail(q) ELSE q

\* The connection without its Initial packet.
BehindInitial(c) ==
  [c EXCEPT !.queue = Behind(@), !.timers = @ \ {InitialNumber}]

\* The Initial packet waits in the queue for the response, and its timer runs.
Holding(c) ==
  /\ IsClient(c)
  /\ \E q \in Seq(Packet) : c.queue = WithInitial(q)
  /\ InitialNumber \in c.timers

View == BehindInitial(client)
Net == Behind(data)
Frames == IF acks # << >> /\ Head(acks) = Response THEN Tail(acks) ELSE acks

LEMMA InitialIs ==
  /\ InitialPacket \notin Packet /\ InitialPacket.number = InitialNumber
  /\ InitialNumber = -1 /\ InitialNumber \notin Nat /\ InitialNumber \in Int
  /\ \A p \in Packet : p.number \in Nat /\ p.number # InitialNumber
<1>1. \A p \in Packet : p.number \in Nat
  BY DEF Packet
<1>2. InitialPacket.number = InitialNumber /\ InitialNumber = -1
  BY DEF InitialPacket, InitialNumber
<1> QED
  BY <1>1, <1>2

LEMMA ResponseIs == Response \notin AckFrames
<1> SUFFICES ASSUME Response \in AckFrames PROVE FALSE
  OBVIOUS
<1>1. DOMAIN Response = {"response"}
  BY DEF Response
<1>2. "largest" \in DOMAIN Response
  BY DEF AckFrames
<1> QED
  BY <1>1, <1>2

LEMMA BehindIs ==
  ASSUME NEW q \in Seq(Packet)
  PROVE  /\ Behind(q) = q /\ Behind(WithInitial(q)) = q
         /\ WithInitial(q) # << >> /\ Head(WithInitial(q)) = InitialPacket
         /\ Tail(WithInitial(q)) = q
         /\ q # << >> => Head(q) # InitialPacket
<1> DEFINE All == Packet \cup {InitialPacket}
           i == InitialPacket
           w == <<i>> \o q
<1>1. i \in All /\ q \in Seq(All)
  OBVIOUS
<1>2. q # << >> => Head(q) \in Packet
  OBVIOUS
<1>3. i \notin Packet
  BY InitialIs
<1>4. w = WithInitial(q)
  BY DEF WithInitial
<1> HIDE DEF i, All
<1>5. w # << >> /\ Head(w) = i /\ Tail(w) = q
  <2>1. <<i>> \in Seq(All) /\ w \in Seq(All) /\ Len(w) = Len(q) + 1 /\ Len(q) \in Nat
    BY <1>1
  <2>2. w[1] = i /\ \A k \in 1 .. Len(q) : w[k + 1] = q[k]
    BY <1>1
  <2> HIDE DEF w
  <2>3. w # << >> /\ Head(w) = i
    BY <2>1, <2>2
  <2>4. Tail(w) \in Seq(All) /\ Len(Tail(w)) = Len(q)
        /\ \A k \in 1 .. Len(q) : Tail(w)[k] = w[k + 1]
    BY <2>1
  <2>5. Tail(w) = q
    BY <1>1, <2>2, <2>4, SeqEqual
  <2> QED
    BY <2>3, <2>5
<1> HIDE DEF w
<1> QED
  BY <1>2, <1>3, <1>4, <1>5 DEF Behind, i

-----------------------------------------------------------------------------
(***************************************************************************)
(* The send queue with the Initial packet in front.                        *)
(***************************************************************************)
LEMMA WithAgree ==
  ASSUME NEW q, NEW M, NEW N,
         \A i \in DOMAIN q : q[i].number \in M <=> q[i].number \in N
  PROVE  WithNumbers(q, M) = WithNumbers(q, N)
<1>1. [i \in DOMAIN q |-> IF q[i].number \in M THEN <<q[i]>> ELSE << >>]
        = [i \in DOMAIN q |-> IF q[i].number \in N THEN <<q[i]>> ELSE << >>]
  OBVIOUS
<1> QED
  BY <1>1 DEF WithNumbers

LEMMA FrontType ==
  ASSUME NEW q \in Seq(Packet)
  PROVE  /\ q \in Seq(Packet \cup {InitialPacket})
         /\ WithInitial(q) \in Seq(Packet \cup {InitialPacket})
         /\ ToSet(WithInitial(q)) = ToSet(q) \cup {InitialPacket}
<1> DEFINE All == Packet \cup {InitialPacket}
           i == InitialPacket
           one == <<i>>
<1>1. i \in All /\ q \in Seq(All)
  OBVIOUS
<1> HIDE DEF All, i
<1>2. one \in Seq(All) /\ ToSet(one) = {i}
  <2>1. one \in Seq(All) /\ DOMAIN one = {1} /\ one[1] = i
    BY <1>1
  <2> QED
    BY <2>1 DEF ToSet
<1> HIDE DEF one
<1>3. one \o q \in Seq(All)
  BY <1>1, <1>2
<1>4. ToSet(one \o q) = ToSet(one) \cup ToSet(q)
  BY <1>1, <1>2, ToSetConcat
<1>5. WithInitial(q) = one \o q
  BY DEF WithInitial, one, i
<1> QED
  BY <1>1, <1>2, <1>3, <1>4, <1>5 DEF All, i

LEMMA FrontAppend ==
  ASSUME NEW q \in Seq(Packet), NEW p \in Packet
  PROVE  WithInitial(Append(q, p)) = Append(WithInitial(q), p)
BY DEF WithInitial

LEMMA FrontConcat ==
  ASSUME NEW q \in Seq(Packet), NEW r \in Seq(Packet)
  PROVE  WithInitial(q) \o r = WithInitial(q \o r)
BY DEF WithInitial

LEMMA WithFront ==
  ASSUME NEW N
  PROVE  \A q \in Seq(Packet) :
           WithNumbers(WithInitial(q), N) =
             IF InitialNumber \in N THEN WithInitial(WithNumbers(q, N))
             ELSE WithNumbers(q, N)
<1> DEFINE All == Packet \cup {InitialPacket}
           T == {q \in Seq(Packet) :
                   WithNumbers(WithInitial(q), N) =
                     IF InitialNumber \in N THEN WithInitial(WithNumbers(q, N))
                     ELSE WithNumbers(q, N)}
           none == << >>
<1>1. none \in T
  <2>1. none \in Seq(Packet) /\ none \in Seq(All)
    OBVIOUS
  <2>2. WithNumbers(none, N) = none
    BY WithEmpty
  <2>3. WithInitial(none) = Append(none, InitialPacket)
    BY DEF WithInitial
  <2> HIDE DEF none, All
  <2>4. InitialPacket \in All /\ InitialPacket.number = InitialNumber
    BY InitialIs DEF All
  <2>5. WithNumbers(Append(none, InitialPacket), N) =
          IF InitialPacket.number \in N THEN Append(WithNumbers(none, N), InitialPacket)
          ELSE WithNumbers(none, N)
    BY <2>1, <2>4, WithAppend
  <2> QED
    BY <2>1, <2>2, <2>3, <2>4, <2>5
<1>2. ASSUME NEW q \in Seq(Packet), NEW p \in Packet, q \in T
      PROVE  Append(q, p) \in T
  <2> DEFINE w == WithInitial(q)
             a == Append(q, p)
             r == WithNumbers(q, N)
  <2>1. w \in Seq(All) /\ p \in All /\ a \in Seq(Packet)
    BY FrontType
  <2>2. WithInitial(a) = Append(w, p)
    BY FrontAppend
  <2>3. WithNumbers(w, N) = IF InitialNumber \in N THEN WithInitial(r) ELSE r
    BY <1>2
  <2>4. /\ r \in Seq(Packet)
        /\ WithNumbers(a, N) = IF p.number \in N THEN Append(r, p) ELSE r
    BY WithAppend
  <2> HIDE DEF w, All
  <2>5. WithNumbers(Append(w, p), N) =
          IF p.number \in N THEN Append(WithNumbers(w, N), p) ELSE WithNumbers(w, N)
    BY <2>1, WithAppend
  <2> HIDE DEF a, r
  <2>6. WithInitial(Append(r, p)) = Append(WithInitial(r), p)
    BY <2>4, FrontAppend
  <2>7. WithNumbers(WithInitial(a), N) =
          IF InitialNumber \in N THEN WithInitial(WithNumbers(a, N)) ELSE WithNumbers(a, N)
    BY <2>2, <2>3, <2>4, <2>5, <2>6
  <2> QED
    BY <2>1, <2>7 DEF a
<1>3. Seq(Packet) \subseteq T
  <2> HIDE DEF T
  <2> QED
    BY <1>1, <1>2, SeqInduction DEF none
<1> QED
  BY <1>3

LEMMA NumbersFront ==
  ASSUME NEW q \in Seq(Packet)
  PROVE  /\ Numbers(WithInitial(q)) = Numbers(q) \cup {InitialNumber}
         /\ InitialNumber \notin Numbers(q)
<1>1. ToSet(WithInitial(q)) = ToSet(q) \cup {InitialPacket}
  BY FrontType
<1>2. /\ Numbers(WithInitial(q)) = {p.number : p \in ToSet(WithInitial(q))}
      /\ Numbers(q) = {p.number : p \in ToSet(q)}
  BY NumbersIs
<1>3. InitialPacket.number = InitialNumber
  BY InitialIs
<1>4. \A p \in ToSet(q) : p.number # InitialNumber
  BY ToSetType, InitialIs
<1> QED
  BY <1>1, <1>2, <1>3, <1>4

LEMMA WithoutFront ==
  ASSUME NEW q \in Seq(Packet), NEW N
  PROVE  WithoutNumbers(WithInitial(q), N) =
           IF InitialNumber \in N THEN WithoutNumbers(q, N)
           ELSE WithInitial(WithoutNumbers(q, N))
<1> DEFINE M == (Numbers(q) \cup {InitialNumber}) \ N
           L == Numbers(q) \ N
<1>1. Numbers(WithInitial(q)) = Numbers(q) \cup {InitialNumber}
  BY NumbersFront
<1>2. WithoutNumbers(WithInitial(q), N) = WithNumbers(WithInitial(q), M)
  BY <1>1 DEF WithoutNumbers
<1>3. WithoutNumbers(q, N) = WithNumbers(q, L)
  BY DEF WithoutNumbers
<1>4. \A i \in DOMAIN q : q[i].number \in M <=> q[i].number \in L
  <2>1. \A i \in DOMAIN q : q[i].number \in Numbers(q)
    BY DEF Numbers
  <2> QED
    BY <2>1
<1>5. InitialNumber \in M <=> InitialNumber \notin N
  OBVIOUS
<1> HIDE DEF M, L
<1>6. WithNumbers(q, M) = WithNumbers(q, L)
  BY <1>4, WithAgree
<1>7. WithNumbers(WithInitial(q), M) =
        IF InitialNumber \in M THEN WithInitial(WithNumbers(q, M)) ELSE WithNumbers(q, M)
  BY WithFront
<1> QED
  BY <1>2, <1>3, <1>5, <1>6, <1>7

\* Nothing but the Initial packet has its number.
LEMMA WithoutInitial ==
  ASSUME NEW q \in Seq(Packet)
  PROVE  /\ WithoutNumbers(q, {InitialNumber}) = q
         /\ WithoutNumbers(WithInitial(q), {InitialNumber}) = q
<1> DEFINE N == {InitialNumber}
<1>1. Numbers(q) \ N = Numbers(q)
  BY NumbersFront
<1>2. \A p \in ToSet(q) : p.number \in Numbers(q)
  BY NumbersIs
<1>3. WithNumbers(q, Numbers(q)) = q
  BY <1>2, WithAll
<1>4. WithoutNumbers(q, N) = q
  BY <1>1, <1>3 DEF WithoutNumbers
<1>5. InitialNumber \in N
  OBVIOUS
<1> HIDE DEF N
<1>6. WithoutNumbers(WithInitial(q), N) = WithoutNumbers(q, N)
  BY <1>5, WithoutFront
<1> QED
  BY <1>4, <1>6 DEF N

LEMMA FindFront ==
  ASSUME NEW q \in Seq(Packet), Sorted(q), NEW n \in Numbers(q)
  PROVE  FindPacket(WithInitial(q), n) = FindPacket(q, n)
<1> DEFINE w == WithInitial(q)
           i == CHOOSE i \in DOMAIN w : w[i].number = n
           p == FindPacket(q, n)
<1>1. p \in ToSet(q) /\ p.number = n
  BY FindPacketIs
<1>2. ToSet(w) = ToSet(q) \cup {InitialPacket} /\ InitialPacket.number = InitialNumber
      /\ InitialNumber \notin Numbers(q)
  BY FrontType, InitialIs, NumbersFront
<1>3. FindPacket(w, n) = w[i]
  BY DEF FindPacket
<1> HIDE DEF w, p
<1>4. \E k \in DOMAIN w : w[k].number = n
  <2>1. p \in ToSet(w)
    BY <1>1, <1>2
  <2> QED
    BY <1>1, <2>1 DEF ToSet
<1>5. i \in DOMAIN w /\ w[i].number = n
  BY <1>4
<1> HIDE DEF i
<1>6. w[i] \in ToSet(w) /\ w[i] # InitialPacket
  BY <1>2, <1>5 DEF ToSet
<1>7. w[i] = p
  BY <1>1, <1>2, <1>5, <1>6, SortedDistinct DEF Distinct
<1> QED
  BY <1>3, <1>7 DEF w, p

-----------------------------------------------------------------------------
(***************************************************************************)
(* The connection without its Initial packet.                              *)
(***************************************************************************)
LEMMA ClientEqual ==
  ASSUME NEW c, NEW d, IsClient(c), IsClient(d), \A x \in ClientFields : c[x] = d[x]
  PROVE  c = d
<1>1. [x \in ClientFields |-> c[x]] = [x \in ClientFields |-> d[x]]
  OBVIOUS
<1> QED
  BY <1>1 DEF IsClient

LEMMA BehindFields ==
  ASSUME NEW c, IsClient(c)
  PROVE  LET v == BehindInitial(c)
         IN  /\ IsClient(v)
             /\ v.queue = Behind(c.queue) /\ v.timers = c.timers \ {InitialNumber}
             /\ v.streams = c.streams /\ v.last = c.last
             /\ v.waiting = c.waiting /\ v.out = c.out /\ v.ooo = c.ooo
             /\ v.cc = c.cc /\ v.packet_counter = c.packet_counter
             /\ v.Bytes_in_flight = c.Bytes_in_flight
             /\ v.send_unacked = c.send_unacked
             /\ v.duplicate_Acks = c.duplicate_Acks
             /\ v.recovery_start_packet = c.recovery_start_packet
             /\ v.out_of_recovery_packet = c.out_of_recovery_packet
             /\ v.phase = c.phase /\ v.failed = c.failed
BY DEF BehindInitial, IsClient, ClientFields

LEMMA HoldingIs ==
  ASSUME NEW c, Holding(c)
  PROVE  LET v == BehindInitial(c)
         IN  /\ IsClient(c) /\ IsClient(v)
             /\ v.queue \in Seq(Packet) /\ c.queue = WithInitial(v.queue)
             /\ v.timers = c.timers \ {InitialNumber}
             /\ c.timers = v.timers \cup {InitialNumber}
             /\ v.streams = c.streams /\ v.last = c.last
             /\ v.waiting = c.waiting /\ v.out = c.out /\ v.ooo = c.ooo
             /\ v.cc = c.cc /\ v.packet_counter = c.packet_counter
             /\ v.Bytes_in_flight = c.Bytes_in_flight
             /\ v.send_unacked = c.send_unacked
             /\ v.duplicate_Acks = c.duplicate_Acks
             /\ v.recovery_start_packet = c.recovery_start_packet
             /\ v.out_of_recovery_packet = c.out_of_recovery_packet
             /\ v.phase = c.phase /\ v.failed = c.failed
<1>1. IsClient(c) /\ InitialNumber \in c.timers
  BY DEF Holding
<1>2. PICK q \in Seq(Packet) : c.queue = WithInitial(q)
  BY DEF Holding
<1>3. Behind(c.queue) = q
  BY <1>2, BehindIs
<1> QED
  BY <1>1, <1>2, <1>3, BehindFields

LEMMA HoldingMake ==
  ASSUME NEW c, IsClient(c), NEW q \in Seq(Packet), c.queue = WithInitial(q),
         InitialNumber \in c.timers
  PROVE  Holding(c) /\ BehindInitial(c).queue = q
<1>1. Holding(c)
  BY DEF Holding
<1>2. Behind(c.queue) = q
  BY BehindIs
<1> QED
  BY <1>1, <1>2, BehindFields

LEMMA PlainIs ==
  ASSUME NEW c, IsClient(c), c.queue \in Seq(Packet), InitialNumber \notin c.timers
  PROVE  BehindInitial(c) = c
<1> DEFINE v == BehindInitial(c)
<1>1. Behind(c.queue) = c.queue /\ c.timers \ {InitialNumber} = c.timers
  BY BehindIs
<1>2. IsClient(v)
  BY BehindFields
<1>3. /\ v.queue = c.queue /\ v.timers = c.timers
      /\ v.streams = c.streams /\ v.last = c.last
      /\ v.waiting = c.waiting /\ v.out = c.out /\ v.ooo = c.ooo
      /\ v.cc = c.cc /\ v.packet_counter = c.packet_counter
      /\ v.Bytes_in_flight = c.Bytes_in_flight
      /\ v.send_unacked = c.send_unacked
      /\ v.duplicate_Acks = c.duplicate_Acks
      /\ v.recovery_start_packet = c.recovery_start_packet
      /\ v.out_of_recovery_packet = c.out_of_recovery_packet
      /\ v.phase = c.phase /\ v.failed = c.failed
  BY <1>1, BehindFields
<1> HIDE DEF v
<1>4. \A x \in ClientFields : v[x] = c[x]
  BY <1>3 DEF ClientFields
<1>5. v = c
  BY <1>2, <1>4, ClientEqual
<1> QED
  BY <1>5 DEF v

-----------------------------------------------------------------------------
(***************************************************************************)
(* The packets of 0-RTT data are made as those of an open connection are.  *)
(***************************************************************************)
\* What holds while the client waits for the response.
Started(c0, c, A) ==
  /\ Holding(c) /\ c.waiting = << >> /\ c.phase = "handshake"
  /\ Going(c0, BehindInitial(c), A) /\ Unanswered(BehindInitial(c))

LEMMA UnansweredSame ==
  ASSUME NEW c, NEW d, Unanswered(c), d.ooo = c.ooo, DOMAIN d.streams = DOMAIN c.streams,
         \A i \in DOMAIN c.streams : d.streams[i].ACKed_bytes = c.streams[i].ACKed_bytes
  PROVE  Unanswered(d)
BY DEF Unanswered

LEMMA ZeroRttTurnStarted ==
  ASSUME NEW c0, NEW a, NEW A, ClientInv(c0), IsLoop(a), Started(c0, a.c, A), NEW k
  PROVE  LET e == ZeroRttTurn(a, k)
         IN  IsLoop(e) /\ Started(c0, e.c, A)
<1> DEFINE space == MaxPayload - LongHeaderSize
           long == TRUE
           fill == FramesToSend(a.c.streams, a.c.last, space)
           e == ZeroRttTurn(a, k)
           v == BehindInitial(a.c)
           w == BehindInitial(e.c)
<1>1. space \in Nat /\ long \in BOOLEAN
  BY ClientAssumption
<1>2. e = IF a.stop \/ a.window = 0 THEN [a EXCEPT !.stop = TRUE]
          ELSE SendNewPacket(a, space, long)
  BY DEF ZeroRttTurn
<1> HIDE DEF space, long
<1>3. /\ IsClient(a.c) /\ IsClient(v)
      /\ v.queue \in Seq(Packet) /\ a.c.queue = WithInitial(v.queue)
      /\ v.timers = a.c.timers \ {InitialNumber} /\ InitialNumber \in a.c.timers
      /\ v.streams = a.c.streams /\ v.last = a.c.last
      /\ v.waiting = a.c.waiting /\ v.out = a.c.out /\ v.ooo = a.c.ooo
      /\ v.packet_counter = a.c.packet_counter
      /\ v.Bytes_in_flight = a.c.Bytes_in_flight /\ v.phase = a.c.phase
  BY HoldingIs DEF Started, Holding
<1>4. Going(c0, v, A) /\ Unanswered(v) /\ a.c.waiting = << >> /\ a.c.phase = "handshake"
  BY DEF Started
<1> HIDE DEF v
<1>5. Streams(a.c.streams) /\ a.c.last \in DOMAIN a.c.streams
      /\ v.packet_counter \in Nat /\ v.out \in Seq(Packet)
  BY <1>3, <1>4 DEF Going, ClientInv, ClientType
<1>6. FillInv(a.c.streams, space, fill)
  BY <1>1, <1>5, FramesToSendIs
<1> HIDE DEF fill, e
<1>7. CASE e = [a EXCEPT !.stop = TRUE]
  <2>1. IsLoop(e) /\ e.c = a.c
    BY <1>7 DEF IsLoop, LoopFields
  <2> QED
    BY <2>1 DEF e
<1>8. CASE e = SendNewPacket(a, space, long)
  <2>1. /\ IsLoop(e)
        /\ \/ NoPacket(a.c, e.c, fill.last)
           \/ /\ fill.frames # << >>
              /\ NewPacket(a.c, e.c, fill.streams, fill.last, fill.frames, long)
    BY <1>3, <1>8, NewPacketFields DEF fill
  <2>2. CASE NoPacket(a.c, e.c, fill.last)
    <3>1. Same(a.c, e.c) /\ e.c.last = fill.last /\ e.c.timers = a.c.timers
      BY <2>2 DEF NoPacket
    <3>2. IsClient(e.c) /\ e.c.queue = WithInitial(v.queue) /\ InitialNumber \in e.c.timers
      BY <1>3, <3>1 DEF Same
    <3>3. Holding(e.c) /\ w.queue = v.queue
      BY <1>3, <3>2, HoldingMake
    <3>4. Same(v, w) /\ w.last = fill.last /\ w.timers = v.timers
      BY <1>3, <3>1, <3>2, <3>3, BehindFields DEF Same
    <3> HIDE DEF w
    <3>5. w.last \in DOMAIN w.streams /\ Timed(w)
      BY <1>3, <1>4, <1>6, <3>4 DEF FillInv, Same, Going, Timed
    <3>6. Going(c0, w, A)
      BY <1>4, <3>4, <3>5, SameGoing
    <3>7. Unanswered(w)
      BY <1>4, <3>4 DEF Unanswered, Same
    <3>8. e.c.waiting = << >> /\ e.c.phase = "handshake"
      BY <1>4, <3>1 DEF Same
    <3> QED
      BY <2>1, <3>3, <3>6, <3>7, <3>8 DEF Started, w, e
  <2>3. CASE /\ fill.frames # << >>
             /\ NewPacket(a.c, e.c, fill.streams, fill.last, fill.frames, long)
    <3> DEFINE p == DataPacket(a.c.packet_counter, {}, fill.frames, long)
               q == Append(v.queue, p)
    <3>1. /\ IsClient(e.c)
          /\ e.c.streams = fill.streams /\ e.c.last = fill.last
          /\ e.c.queue = Append(a.c.queue, p) /\ e.c.out = Append(a.c.out, p)
          /\ e.c.packet_counter = a.c.packet_counter + 1
          /\ e.c.Bytes_in_flight = a.c.Bytes_in_flight + p.size
          /\ e.c.timers = a.c.timers /\ e.c.waiting = a.c.waiting /\ e.c.ooo = a.c.ooo
          /\ e.c.phase = a.c.phase
      BY <2>3 DEF NewPacket
    <3>2. p \in Packet
      <4> DEFINE frames == fill.frames
      <4>1. frames \in Seq(StreamFrame) /\ frames # << >>
        BY <1>6, <2>3 DEF FillInv, FillType
      <4>2. PacketSize(frames, long) \in Nat
        BY <1>1, <4>1, PacketSizeType
      <4>3. p = [number |-> a.c.packet_counter, history |-> {}, frames |-> frames,
                 long |-> long, size |-> PacketSize(frames, long)]
        BY DEF DataPacket, PacketSize
      <4> HIDE DEF p, frames
      <4> QED
        BY <1>1, <1>3, <1>5, <4>1, <4>2, <4>3 DEF Packet
    <3>3. NewPacket(v, w, fill.streams, fill.last, fill.frames, long) <=>
            /\ IsClient(w)
            /\ w.streams = fill.streams /\ w.last = fill.last
            /\ w.queue = Append(v.queue, p) /\ w.out = Append(v.out, p)
            /\ w.packet_counter = v.packet_counter + 1
            /\ w.Bytes_in_flight = v.Bytes_in_flight + p.size
            /\ w.timers = v.timers /\ w.waiting = v.waiting /\ w.ooo = v.ooo
            /\ w.phase = v.phase
      BY <1>3 DEF NewPacket
    <3> HIDE DEF p
    <3>4. q \in Seq(Packet) /\ e.c.queue = WithInitial(q) /\ InitialNumber \in e.c.timers
      BY <1>3, <3>1, <3>2, FrontAppend
    <3>5. Holding(e.c) /\ w.queue = q
      BY <3>1, <3>4, HoldingMake
    <3>6. NewPacket(v, w, fill.streams, fill.last, fill.frames, long)
      BY <1>3, <3>1, <3>3, <3>5, BehindFields
    <3>7. w.streams = fill.streams /\ w.ooo = v.ooo
      BY <1>3, <3>1, BehindFields
    <3> HIDE DEF w, q
    <3>8. FillInv(v.streams, space, fill) /\ v.waiting = << >>
      BY <1>3, <1>4, <1>6
    <3>9. Going(c0, w, A)
      BY <1>1, <1>4, <2>3, <3>6, <3>8, NewPacketGoing
    <3>10. Unanswered(w)
      <4>1. /\ Moved(v.streams, fill.frames, fill.streams)
            /\ DOMAIN fill.streams = DOMAIN v.streams
        <5>1. /\ fill.streams \in Seq(Stream) /\ Len(fill.streams) = Len(v.streams)
              /\ v.streams \in Seq(Stream)
          BY <1>3, <1>5, <3>8 DEF FillInv, FillType, Streams
        <5> QED
          BY <3>8, <5>1 DEF FillInv
      <4> QED
        BY <1>4, <3>7, <4>1 DEF Unanswered, Moved
    <3>11. e.c.waiting = << >> /\ e.c.phase = "handshake"
      BY <1>4, <3>1
    <3> QED
      BY <2>1, <3>5, <3>9, <3>10, <3>11 DEF Started, w, e
  <2> QED
    BY <2>1, <2>2, <2>3
<1> QED
  BY <1>2, <1>7, <1>8

\* The loop of ProcessClientZeroRtt.
LEMMA ZeroRttDataStarted ==
  ASSUME NEW c0, NEW c, NEW A, ClientInv(c0), Started(c0, c, A)
  PROVE  Started(c0, SendLoop(ZeroRttTurn, c), A)
<1> DEFINE left == FoldLeft(LAMBDA sum, s : sum + BytesLeft(s), 0, c.streams)
           base == [c |-> c, window |-> ActualWindow(c), stop |-> FALSE]
           n == left + 1
           f == [k \in 1 .. n |-> k]
<1>1. SendLoop(ZeroRttTurn, c) = FoldLeft(ZeroRttTurn, base, f).c
  BY DEF SendLoop
<1>2. FoldLeft(ZeroRttTurn, base, f) = ZeroTurns!Fold(base, f)
  BY DEF ZeroTurns!Fold, FoldLeft, MapThenFoldSet, Max,
     ZeroTurns!MapThenFoldSet, ZeroTurns!Largest
<1>3. n \in Nat /\ DOMAIN f = 1 .. n
  <2>1. Streams(c.streams)
    BY HoldingIs DEF Started, Going, ClientInv, ClientType
  <2>2. left \in Nat
    BY <2>1, LeftType
  <2> HIDE DEF left
  <2> QED
    BY <2>2
<1>4. IsLoop(base) /\ base.c = c
  BY DEF IsLoop, LoopFields
<1> HIDE DEF n, f, base, left
<1>5. PICK a : /\ a[0] = base
               /\ \A k \in 1 .. n : a[k] = ZeroRttTurn(a[k - 1], f[k])
               /\ a[n] = ZeroTurns!Fold(base, f)
  BY <1>3, ZeroTurns!FoldTrace
<1> DEFINE K == {k \in Nat : k <= n => IsLoop(a[k]) /\ Started(c0, a[k].c, A)}
<1>6. 0 \in K
  BY <1>4, <1>5
<1>7. ASSUME NEW k \in Nat, k \in K PROVE k + 1 \in K
  <2> SUFFICES ASSUME k + 1 <= n PROVE IsLoop(a[k + 1]) /\ Started(c0, a[k + 1].c, A)
    OBVIOUS
  <2>1. k + 1 \in 1 .. n /\ (k + 1) - 1 = k /\ k <= n
    BY <1>3
  <2>2. a[k + 1] = ZeroRttTurn(a[k], f[k + 1])
    BY <1>5, <2>1
  <2> DEFINE b == a[k]
             j == f[k + 1]
  <2>3. IsLoop(b) /\ Started(c0, b.c, A)
    BY <1>7, <2>1
  <2> HIDE DEF b, j
  <2>4. IsLoop(ZeroRttTurn(b, j)) /\ Started(c0, ZeroRttTurn(b, j).c, A)
    BY <2>3, ZeroRttTurnStarted
  <2> QED
    BY <2>2, <2>4 DEF b, j
<1>8. n \in K
  <2> HIDE DEF K
  <2> QED
    BY <1>3, <1>6, <1>7, Addition!NatSetInduction
<1> QED
  BY <1>1, <1>2, <1>3, <1>5, <1>8

\* The packets leave, and their timers start.
LEMMA SendOutStarted ==
  ASSUME NEW c0, NEW c, NEW A, Started(c0, c, A)
  PROVE  Started(c0, SendOut(c), A) /\ SendOut(c).out = c.out
<1> DEFINE v == BehindInitial(c)
           d == SendOut(c)
           w == BehindInitial(d)
           e == SendOut(v)
<1>1. Holding(c) /\ Going(c0, v, A) /\ Unanswered(v) /\ v.waiting = << >>
      /\ c.phase = "handshake" /\ v.phase = "handshake" /\ c.waiting = << >>
  BY HoldingIs DEF Started
<1>2. /\ IsClient(c) /\ IsClient(v)
      /\ v.queue \in Seq(Packet) /\ c.queue = WithInitial(v.queue)
      /\ v.timers = c.timers \ {InitialNumber} /\ InitialNumber \in c.timers
      /\ v.streams = c.streams /\ v.last = c.last
      /\ v.out = c.out /\ v.ooo = c.ooo /\ v.cc = c.cc
      /\ v.packet_counter = c.packet_counter
      /\ v.Bytes_in_flight = c.Bytes_in_flight
  BY <1>1, HoldingIs DEF Holding
<1>3. ClientInv(v) /\ ClientType(v) /\ Accounted(v) /\ v.out \in Seq(Packet)
  BY <1>1 DEF Going, ClientInv, ClientType
<1> HIDE DEF v
<1>4. ~GetAllStreamsDone(c.streams)
  <2>1. v.last \in DOMAIN v.streams
    BY <1>3 DEF ClientType
  <2>2. v.streams[v.last].ACKed_bytes = 0 /\ v.streams[v.last].size \in Nat \ {0}
    BY <1>1, <1>3, <2>1, StreamFields DEF Unanswered
  <2>3. ~v.streams[v.last].stream_done
    BY <1>3, <2>1, <2>2 DEF Accounted
  <2> QED
    BY <1>2, <2>1, <2>3 DEF GetAllStreamsDone
<1>5. /\ IsClient(d) /\ d.streams = c.streams /\ d.last = c.last
      /\ d.queue = c.queue /\ d.timers = c.timers \cup Numbers(c.out)
      /\ d.waiting = c.waiting /\ d.out = c.out /\ d.ooo = c.ooo
      /\ d.packet_counter = c.packet_counter
      /\ d.Bytes_in_flight = c.Bytes_in_flight /\ d.phase = c.phase
  BY <1>2, <1>4 DEF SendOut, IsClient, ClientFields
<1>6. /\ IsClient(e) /\ e.streams = v.streams /\ e.last = v.last
      /\ e.queue = v.queue /\ e.timers = v.timers \cup Numbers(v.out)
      /\ e.waiting = v.waiting /\ e.out = v.out /\ e.ooo = v.ooo
      /\ e.packet_counter = v.packet_counter
      /\ e.Bytes_in_flight = v.Bytes_in_flight /\ e.phase = v.phase
  BY <1>2, <1>4 DEF SendOut, IsClient, ClientFields
<1>7. Going(c0, e, A)
  BY <1>1, SendOutGoing
<1> HIDE DEF d, e
<1>8. Holding(d) /\ w.queue = v.queue
  BY <1>2, <1>5, HoldingMake
<1>9. w.timers = v.timers \cup Numbers(v.out)
  <2>1. InitialNumber \notin Numbers(v.out)
    BY <1>3, NumbersFront
  <2>2. w.timers = d.timers \ {InitialNumber}
    BY <1>8, HoldingIs
  <2> QED
    BY <1>2, <1>5, <2>1, <2>2
<1>10. Same(e, w) /\ w.last = e.last /\ w.timers = e.timers
  BY <1>1, <1>2, <1>5, <1>6, <1>8, <1>9, HoldingIs DEF Same
<1> HIDE DEF w
<1>11. w.last \in DOMAIN w.streams /\ Timed(w)
  BY <1>7, <1>10 DEF Going, ClientInv, ClientType, Same, Timed
<1>12. Going(c0, w, A)
  BY <1>7, <1>10, <1>11, SameGoing
<1>13. Unanswered(w)
  BY <1>1, <1>6, <1>10 DEF Unanswered, Same
<1> QED
  BY <1>1, <1>5, <1>8, <1>12, <1>13 DEF Started, d, w

\* handleHandshakeInit of a reconnection.
LEMMA HandshakeStarted ==
  ASSUME NEW A
  PROVE  LET c == [NewClient EXCEPT !.queue = <<InitialPacket>>,
                                    !.timers = {InitialNumber}]
         IN  Started(NewClient, SendOut(ProcessClientZeroRtt(c)), A)
<1> DEFINE none == << >>
           c == [NewClient EXCEPT !.queue = <<InitialPacket>>, !.timers = {InitialNumber}]
           new == SetAllStreamsWindows(NewClient.streams, StreamWindow)
           b == [c EXCEPT !.cc.snd_cwnd = MaxPayload * 2,
                          !.streams = SetAllStreamsWindows(@, StreamWindow)]
           v == BehindInitial(b)
           e == SendLoop(ZeroRttTurn, b)
<1>1. /\ Resting(NewClient) /\ Idle(NewClient) /\ NewClient.phase = "handshake"
      /\ NewClient.waiting = none /\ NewClient.queue = none
  BY InitResting DEF Idle, Resting
<1>2. IsClient(NewClient) /\ ClientInv(NewClient)
  BY <1>1 DEF Resting, ClientInv, ClientType
<1>3. WithInitial(none) = <<InitialPacket>> /\ none \in Seq(Packet)
  BY DEF WithInitial
<1>4. /\ IsClient(c) /\ c.queue = WithInitial(none) /\ c.timers = {InitialNumber}
      /\ c.streams = NewClient.streams /\ c.last = NewClient.last
      /\ c.waiting = NewClient.waiting /\ c.out = NewClient.out
      /\ c.ooo = NewClient.ooo /\ c.packet_counter = NewClient.packet_counter
      /\ c.Bytes_in_flight = NewClient.Bytes_in_flight /\ c.phase = NewClient.phase
  <2> DEFINE n == NewClient
             one == <<InitialPacket>>
  <2>1. IsClient(n) /\ c = [n EXCEPT !.queue = one, !.timers = {InitialNumber}]
    BY <1>2
  <2> HIDE DEF n, one, c
  <2>2. /\ IsClient(c) /\ c.queue = one /\ c.timers = {InitialNumber}
        /\ c.streams = n.streams /\ c.last = n.last
        /\ c.waiting = n.waiting /\ c.out = n.out
        /\ c.ooo = n.ooo /\ c.packet_counter = n.packet_counter
        /\ c.Bytes_in_flight = n.Bytes_in_flight /\ c.phase = n.phase
    BY <2>1 DEF IsClient, ClientFields
  <2> QED
    BY <1>3, <2>2 DEF n, one
<1> HIDE DEF c
<1>5. /\ IsClient(b) /\ b.queue = WithInitial(none) /\ b.timers = {InitialNumber}
      /\ b.streams = new /\ b.last = NewClient.last
      /\ b.waiting = NewClient.waiting /\ b.out = NewClient.out
      /\ b.ooo = NewClient.ooo /\ b.packet_counter = NewClient.packet_counter
      /\ b.Bytes_in_flight = NewClient.Bytes_in_flight /\ b.phase = NewClient.phase
  BY <1>4 DEF IsClient, ClientFields
<1>6. ProcessClientZeroRtt(c) = e
  BY DEF ProcessClientZeroRtt
<1> HIDE DEF b
<1>7. Holding(b) /\ v.queue = none
  BY <1>3, <1>5, HoldingMake
<1>8. /\ IsClient(v) /\ v.streams = new /\ v.queue = NewClient.queue
      /\ v.timers \subseteq NewClient.timers
      /\ v.waiting = NewClient.waiting /\ v.out = NewClient.out
      /\ v.ooo = NewClient.ooo /\ v.packet_counter = NewClient.packet_counter
      /\ v.last = NewClient.last
      /\ v.Bytes_in_flight = NewClient.Bytes_in_flight /\ v.phase = NewClient.phase
  <2>1. v.timers = {}
    BY <1>5, <1>7, HoldingIs
  <2> QED
    BY <1>1, <1>5, <1>7, <2>1, HoldingIs
<1> HIDE DEF v
<1> DEFINE n == NewClient
<1>9. /\ Unanswered(n)
      /\ \A i \in DOMAIN n.streams : n.streams[i].offset <= StreamWindow
  BY <1>1, IdleUnanswered
<1>10. Resting(n) /\ v.streams = SetAllStreamsWindows(n.streams, StreamWindow)
  BY <1>1, <1>8
<1>11. /\ IsClient(v) /\ v.queue = n.queue
       /\ v.timers \subseteq n.timers
       /\ v.waiting = n.waiting /\ v.out = n.out
       /\ v.ooo = n.ooo /\ v.packet_counter = n.packet_counter
       /\ v.last = n.last /\ v.Bytes_in_flight = n.Bytes_in_flight
  BY <1>8
<1> HIDE DEF n, new
<1>12. Fresh(v)
  BY <1>9, <1>10, <1>11, WindowsGoing
<1>13. Going(n, v, A)
  <2>1. /\ DOMAIN v.streams = DOMAIN n.streams
        /\ \A i \in DOMAIN n.streams : /\ v.streams[i].size = n.streams[i].size
                                       /\ v.streams[i].offset = n.streams[i].offset
                                       /\ v.streams[i].ACKed_bytes = n.streams[i].ACKed_bytes
    <3>1. n.streams \in Seq(Stream)
      BY <1>10 DEF Resting, ClientInv, ClientType, Streams
    <3> QED
      BY <1>9, <1>10, <3>1, SetWindowsIs
  <2>2. ClientType(n) /\ Ordered(n)
    BY <1>10 DEF Resting, ClientInv
  <2>3. /\ ToSet(v.queue) \subseteq ToSet(n.queue)
        /\ \A p \in ToSet(n.queue) \ ToSet(v.queue) : p.number \in A
    BY <1>11
  <2> QED
    BY <1>11, <1>12, <2>1, <2>2, <2>3, Shrinks
<1>14. Unanswered(v)
  <2>1. n.streams \in Seq(Stream)
    BY <1>10 DEF Resting, ClientInv, ClientType, Streams
  <2>2. /\ DOMAIN v.streams = DOMAIN n.streams
        /\ \A i \in DOMAIN n.streams : v.streams[i].ACKed_bytes = n.streams[i].ACKed_bytes
    BY <1>9, <1>10, <2>1, SetWindowsIs
  <2> QED
    BY <1>9, <1>11, <2>2, UnansweredSame
<1>15. Started(n, b, A)
  BY <1>1, <1>5, <1>7, <1>13, <1>14 DEF Started, v, none
<1>16. Started(n, e, A)
  BY <1>2, <1>15, ZeroRttDataStarted DEF n
<1> HIDE DEF e
<1>17. Started(n, SendOut(e), A)
  BY <1>16, SendOutStarted
<1> QED
  BY <1>6, <1>17 DEF n, c

\* What the expiry of the timer of p does, when again is its retransmission.
Expired(c, d, p, again) ==
  /\ IsClient(d)
  /\ d.queue = Append(WithoutNumbers(c.queue, {p.number}), again)
  /\ d.timers = (c.timers \ {p.number}) \cup {again.number}
  /\ d.streams = SetValid(c.streams, p.frames, FALSE)
  /\ d.packet_counter = c.packet_counter + 1
  /\ d.waiting = c.waiting /\ d.out = Append(c.out, again)
  /\ d.ooo = c.ooo /\ d.last = c.last
  /\ d.Bytes_in_flight = c.Bytes_in_flight /\ d.phase = c.phase

LEMMA ExpireFields ==
  ASSUME NEW c, IsClient(c), NEW number
  PROVE  LET p == FindPacket(c.queue, number)
         IN  Expired(c, ExpireRTO(c, number), p, RetransmitPacket(c, p))
<1> DEFINE p == FindPacket(c.queue, number)
           again == RetransmitPacket(c, p)
           b == TakeForRetransmission(c, p)
           d == ExpireRTO(c, number)
<1>1. d = [b EXCEPT !.cc = ProcessRexmitTimer(@),
                    !.queue = Append(@, again),
                    !.out = Append(@, again),
                    !.timers = @ \cup {again.number}]
  BY DEF ExpireRTO
<1> HIDE DEF p, again, d
<1>2. /\ IsClient(b)
      /\ b.queue = WithoutNumbers(c.queue, {p.number})
      /\ b.timers = c.timers \ {p.number}
      /\ b.streams = SetValid(c.streams, p.frames, FALSE)
      /\ b.packet_counter = c.packet_counter + 1
      /\ b.waiting = c.waiting /\ b.out = c.out /\ b.ooo = c.ooo
      /\ b.last = c.last /\ b.Bytes_in_flight = c.Bytes_in_flight
      /\ b.phase = c.phase
  BY TakeFields
<1> HIDE DEF b
<1>3. /\ IsClient(d)
      /\ d.queue = Append(b.queue, again) /\ d.out = Append(b.out, again)
      /\ d.timers = b.timers \cup {again.number}
      /\ d.streams = b.streams /\ d.packet_counter = b.packet_counter
      /\ d.waiting = b.waiting /\ d.ooo = b.ooo /\ d.last = b.last
      /\ d.Bytes_in_flight = b.Bytes_in_flight /\ d.phase = b.phase
  BY <1>1, <1>2 DEF IsClient, ClientFields
<1> QED
  BY <1>2, <1>3 DEF p, again, d, Expired

LEMMA ExpireStarted ==
  ASSUME NEW c0, NEW c, NEW A, NEW number, ClientType(c0), Started(c0, c, A),
         number \in c.timers \ {InitialNumber}, number < c0.packet_counter
  PROVE  LET d == ExpireRTO(c, number)
         IN  Started(c0, d, A) /\ c.timers \ {number} \subseteq d.timers
<1> DEFINE v == BehindInitial(c)
           d == ExpireRTO(c, number)
           w == BehindInitial(d)
           e == ExpireRTO(v, number)
           p == FindPacket(v.queue, number)
           again == RetransmitPacket(v, p)
           N == {number}
           r == WithoutNumbers(v.queue, N)
<1>1. Holding(c) /\ Going(c0, v, A) /\ Unanswered(v) /\ v.waiting = << >>
      /\ c.phase = "handshake" /\ v.phase = "handshake" /\ c.waiting = << >>
  BY HoldingIs DEF Started
<1>2. /\ IsClient(c) /\ IsClient(v)
      /\ v.queue \in Seq(Packet) /\ c.queue = WithInitial(v.queue)
      /\ v.timers = c.timers \ {InitialNumber} /\ InitialNumber \in c.timers
      /\ v.streams = c.streams /\ v.last = c.last
      /\ v.out = c.out /\ v.ooo = c.ooo
      /\ v.packet_counter = c.packet_counter
      /\ v.Bytes_in_flight = c.Bytes_in_flight
  BY <1>1, HoldingIs DEF Holding
<1>3. number \in v.timers
  BY <1>2
<1>4. Going(c0, e, A) /\ Expires(v, e, number)
  BY <1>1, <1>3, ExpireNext
<1> HIDE DEF v
<1>5. /\ ClientType(v) /\ Sorted(v.queue) /\ v.packet_counter \in Nat
      /\ number \in Numbers(v.queue) /\ Streams(v.streams)
  BY <1>1, <1>3 DEF Going, ClientInv, ClientType, Ordered, Timed
<1>6. p \in ToSet(v.queue) /\ p.number = number /\ FindPacket(c.queue, number) = p
  <2>1. p \in ToSet(v.queue) /\ p.number = number
    BY <1>2, <1>5, FindPacketIs
  <2>2. FindPacket(WithInitial(v.queue), number) = p
    BY <1>2, <1>5, FindFront
  <2> QED
    BY <1>2, <2>1, <2>2
<1>7. RetransmitPacket(c, p) = again
  BY <1>2 DEF RetransmitPacket
<1>8. again \in Packet /\ again.number = v.packet_counter
  <2>1. p.number < v.packet_counter
    BY <1>1, <1>6 DEF Going, ClientInv, Ordered, Known, Pending
  <2> HIDE DEF p, again
  <2> QED
    BY <1>1, <1>6, <2>1, CreateSets DEF again, Going, ClientInv
<1>9. r \in Seq(Packet) /\ WithoutNumbers(c.queue, N) = WithInitial(r)
  <2>1. InitialNumber \notin N
    BY <1>2, <1>3
  <2>2. r \in Seq(Packet)
    BY <1>2, WithoutIs
  <2> HIDE DEF N
  <2> QED
    BY <1>2, <2>1, <2>2, WithoutFront DEF r
<1>20. Expired(v, e, p, again) /\ Expired(c, d, p, again)
  <2>1. Expired(v, e, p, again)
    BY <1>2, ExpireFields
  <2> DEFINE x == FindPacket(c.queue, number)
             y == RetransmitPacket(c, x)
  <2>2. Expired(c, d, x, y)
    BY <1>2, ExpireFields
  <2>3. x = p /\ y = again
    BY <1>6, <1>7
  <2> HIDE DEF d, p, again, x, y
  <2> QED
    BY <2>1, <2>2, <2>3
<1>22. N = {p.number} /\ r = WithoutNumbers(v.queue, N)
  BY <1>6
<1> HIDE DEF d, e, p, again, N, r
<1>10. /\ IsClient(e) /\ e.queue = Append(r, again)
       /\ e.timers = (v.timers \ N) \cup {again.number}
       /\ e.streams = SetValid(v.streams, p.frames, FALSE)
       /\ e.packet_counter = v.packet_counter + 1
       /\ e.waiting = v.waiting /\ e.out = Append(v.out, again)
       /\ e.ooo = v.ooo /\ e.last = v.last
       /\ e.Bytes_in_flight = v.Bytes_in_flight /\ e.phase = v.phase
  BY <1>20, <1>22 DEF Expired
<1>11. /\ IsClient(d) /\ d.queue = Append(WithInitial(r), again)
       /\ d.timers = (c.timers \ N) \cup {again.number}
       /\ d.streams = SetValid(c.streams, p.frames, FALSE)
       /\ d.packet_counter = c.packet_counter + 1
       /\ d.waiting = c.waiting /\ d.out = Append(c.out, again)
       /\ d.ooo = c.ooo /\ d.last = c.last
       /\ d.Bytes_in_flight = c.Bytes_in_flight /\ d.phase = c.phase
  BY <1>9, <1>20, <1>22 DEF Expired
<1> DEFINE q == Append(r, again)
<1>12. q \in Seq(Packet) /\ d.queue = WithInitial(q) /\ InitialNumber \in d.timers
  <2>1. InitialNumber \notin N
    BY <1>2, <1>3 DEF N
  <2> QED
    BY <1>2, <1>8, <1>9, <1>11, <2>1, FrontAppend
<1>13. e.queue = q
  BY <1>10
<1> HIDE DEF q
<1>14. Holding(d) /\ w.queue = q
  BY <1>11, <1>12, HoldingMake
<1>15. w.timers = e.timers
  <2>1. w.timers = d.timers \ {InitialNumber}
    BY <1>14, HoldingIs
  <2>2. again.number # InitialNumber
    BY <1>5, <1>8, InitialIs
  <2> QED
    BY <1>2, <1>10, <1>11, <2>1, <2>2
<1>16. Same(e, w) /\ w.last = e.last
  <2>1. /\ IsClient(w) /\ w.streams = d.streams /\ w.last = d.last
        /\ w.waiting = d.waiting /\ w.out = d.out /\ w.ooo = d.ooo
        /\ w.packet_counter = d.packet_counter
        /\ w.Bytes_in_flight = d.Bytes_in_flight /\ w.phase = d.phase
    BY <1>14, HoldingIs
  <2> HIDE DEF w
  <2>2. w.streams = e.streams /\ w.waiting = e.waiting /\ w.out = e.out
    BY <1>2, <1>1, <1>10, <1>11, <2>1
  <2> QED
    BY <1>1, <1>2, <1>10, <1>11, <1>13, <1>14, <2>1, <2>2 DEF Same
<1> HIDE DEF w
<1>17. w.last \in DOMAIN w.streams /\ Timed(w)
  BY <1>4, <1>15, <1>16 DEF Going, ClientInv, ClientType, Same, Timed
<1>18. Going(c0, w, A)
  BY <1>4, <1>16, <1>17, SameGoing
<1>19. Unanswered(w)
  <2>1. /\ DOMAIN e.streams = DOMAIN v.streams
        /\ \A i \in DOMAIN v.streams : e.streams[i].ACKed_bytes = v.streams[i].ACKed_bytes
    <3>1. v.streams \in Seq(Stream) /\ p.frames \in Seq(StreamFrame)
      <4>1. p \in Packet
        BY <1>2, <1>6, ToSetType
      <4> QED
        BY <1>5, <4>1 DEF Streams, Packet
    <3> DEFINE st == v.streams
               frames == p.frames
               valid == FALSE
               new == SetValid(st, frames, valid)
    <3>2. st \in Seq(Stream) /\ valid \in BOOLEAN /\ e.streams = new
      BY <1>10, <3>1
    <3> HIDE DEF st, frames, valid
    <3>3. /\ DOMAIN new = DOMAIN st
          /\ \A i \in DOMAIN st : new[i].ACKed_bytes = st[i].ACKed_bytes
      BY <3>2, SetValidIs
    <3> QED
      BY <3>2, <3>3 DEF st
  <2>2. w.ooo = v.ooo /\ w.streams = e.streams
    BY <1>10, <1>16 DEF Same
  <2> QED
    BY <1>1, <2>1, <2>2, UnansweredSame
<1>21. d.waiting = << >> /\ d.phase = "handshake" /\ c.timers \ N \subseteq d.timers
  BY <1>1, <1>11
<1> QED
  BY <1>14, <1>18, <1>19, <1>21 DEF Started, d, w, N

LEMMA TimersFinite ==
  ASSUME NEW c, Fresh(c)
  PROVE  /\ c.timers \in SUBSET Int /\ IsFiniteSet(c.timers)
         /\ \A n \in c.timers : n \in Nat /\ n < c.packet_counter
<1> DEFINE m == c.packet_counter
<1>1. m \in Nat /\ c.queue \in Seq(Packet)
  BY DEF Fresh, ClientInv, ClientType
<1>2. \A n \in c.timers : n \in Nat /\ n < m
  <2> SUFFICES ASSUME NEW n \in c.timers PROVE n \in Nat /\ n < m
    OBVIOUS
  <2>1. PICK p \in ToSet(c.queue) : p.number = n
    BY NumbersIs DEF Fresh, Timed
  <2>2. p.number < c.packet_counter
    BY <2>1 DEF Fresh, ClientInv, Ordered, Known, Pending
  <2>3. p.number \in Nat
    BY <1>1, <2>1, ToSetType DEF Packet
  <2> QED
    BY <2>1, <2>2, <2>3
<1> HIDE DEF m
<1>3. c.timers \in SUBSET (0 .. m)
  BY <1>1, <1>2
<1>4. IsFiniteSet(0 .. m)
  BY <1>1, FS_Interval
<1>5. IsFiniteSet(c.timers)
  BY <1>3, <1>4, FS_Subset
<1> QED
  BY <1>1, <1>2, <1>5 DEF m

\* What holds of the client while it waits for the response, between handlers.
Waiting(c) ==
  /\ Holding(c) /\ c.phase = "handshake"
  /\ Fresh(BehindInitial(c)) /\ Unanswered(BehindInitial(c))

\* The 0-RTT packets are all sent again with the Initial packet.
LEMMA TimeoutStarted ==
  ASSUME NEW c, Waiting(c), NEW A
  PROVE  Started(BehindInitial(c),
                 FoldLeft(ExpireRTO, c, Ascending(c.timers \ {InitialNumber})), A)
<1> DEFINE v == BehindInitial(c)
           T == c.timers \ {InitialNumber}
           f == Ascending(T)
           n == Cardinality(T)
<1>1. Holding(c) /\ c.phase = "handshake" /\ Fresh(v) /\ Unanswered(v)
  BY DEF Waiting
<1>2. v.timers = T /\ v.waiting = c.waiting /\ InitialNumber \in c.timers
  BY <1>1, HoldingIs DEF Holding
<1>3. /\ T \in SUBSET Int /\ IsFiniteSet(T)
      /\ \A x \in T : x < v.packet_counter
  BY <1>1, <1>2, TimersFinite
<1>4. Started(v, c, A) /\ ClientType(v)
  BY <1>1, <1>2, FreshGoing DEF Started, Fresh, ClientInv
<1> HIDE DEF v, T
<1>5. /\ n \in Nat /\ f \in Seq(T) /\ Len(f) = n
      /\ \A i, j \in 1 .. n : i < j => f[i] < f[j]
  <2> DEFINE d == SP!Ascending(T)
             m == SP!Cardinality(T)
  <2>1. SP!IsFiniteSet(T)
    BY <1>3 DEF IsFiniteSet, SP!IsFiniteSet
  <2>2. /\ m \in Nat /\ d \in Seq(T) /\ Len(d) = m
        /\ \A i, j \in 1 .. m : i < j => d[i] < d[j]
    BY <1>3, <2>1, SP!AscendingIs
  <2>3. d = f /\ m = n
    BY DEF Ascending, SP!Ascending, Cardinality, SP!Cardinality
  <2> HIDE DEF d, m, f, n
  <2> QED
    BY <2>2, <2>3
<1> HIDE DEF f, n
<1>6. DOMAIN f = 1 .. n /\ \A i \in 1 .. n : f[i] \in T
  BY <1>5
<1>7. FoldLeft(ExpireRTO, c, f) = Expiries!Fold(c, f)
  BY DEF Expiries!Fold, FoldLeft, MapThenFoldSet, Max,
     Expiries!MapThenFoldSet, Expiries!Largest
<1>8. PICK a : /\ a[0] = c
               /\ \A k \in 1 .. n : a[k] = ExpireRTO(a[k - 1], f[k])
               /\ a[n] = Expiries!Fold(c, f)
  BY <1>5, <1>6, Expiries!FoldTrace
<1> DEFINE K == {k \in Nat : k <= n =>
                   /\ Started(v, a[k], A)
                   /\ \A i \in 1 .. n : k < i => f[i] \in a[k].timers}
<1>9. 0 \in K
  <2>1. T \subseteq c.timers
    BY DEF T
  <2> QED
    BY <1>4, <1>6, <1>8, <2>1
<1>10. ASSUME NEW k \in Nat, k \in K PROVE k + 1 \in K
  <2> SUFFICES ASSUME k + 1 <= n
               PROVE  /\ Started(v, a[k + 1], A)
                      /\ \A i \in 1 .. n : k + 1 < i => f[i] \in a[k + 1].timers
    OBVIOUS
  <2>1. k + 1 \in 1 .. n /\ (k + 1) - 1 = k /\ k <= n
    BY <1>5
  <2>2. a[k + 1] = ExpireRTO(a[k], f[k + 1])
    BY <1>8, <2>1
  <2> DEFINE b == a[k]
             x == f[k + 1]
  <2>3. Started(v, b, A) /\ \A i \in 1 .. n : k < i => f[i] \in b.timers
    BY <1>10, <2>1
  <2>4. x \in T /\ x \in b.timers
    BY <1>6, <2>1, <2>3
  <2>5. x # InitialNumber /\ x < v.packet_counter
    BY <1>3, <2>4 DEF T
  <2>6. \A i \in 1 .. n : k + 1 < i => f[i] # x /\ f[i] \in b.timers
    <3> SUFFICES ASSUME NEW i \in 1 .. n, k + 1 < i PROVE f[i] # x /\ f[i] \in b.timers
      OBVIOUS
    <3>1. x < f[i] /\ f[i] \in Int /\ x \in Int
      BY <1>3, <1>5, <1>6, <2>1
    <3>2. k < i
      BY <1>5
    <3> QED
      BY <2>3, <3>1, <3>2
  <2> HIDE DEF b, x
  <2>7. Started(v, ExpireRTO(b, x), A) /\ b.timers \ {x} \subseteq ExpireRTO(b, x).timers
    BY <1>4, <2>3, <2>4, <2>5, ExpireStarted
  <2>8. a[k + 1] = ExpireRTO(b, x)
    BY <2>2 DEF b, x
  <2> HIDE DEF K
  <2> QED
    BY <2>6, <2>7, <2>8
<1>11. n \in K
  <2> HIDE DEF K
  <2> QED
    BY <1>5, <1>9, <1>10, Addition!NatSetInduction
<1> QED
  BY <1>5, <1>7, <1>8, <1>11 DEF f, T, v

\* The response takes the Initial packet out, and more data is sent.
LEMMA ResponseHolding ==
  ASSUME NEW c, Waiting(c)
  PROVE  LET d == SendReadyPackets(ProcessClientHandshakeResponse(c))
         IN  /\ Going(BehindInitial(c), d, {}) /\ d.waiting = << >>
             /\ d.phase \in {"open", "closed"}
             /\ d.phase = "closed" => Done(d)
<1> DEFINE v == BehindInitial(c)
           new == SetAllStreamsWindows(c.streams, StreamWindow)
           wnd == Minimum(ConnectionWindow, SumStreamWindows(new))
           e == ProcessClientHandshakeResponse(c)
           d == SendReadyPackets(e)
           A == {}
<1>1. Holding(c) /\ Fresh(v) /\ Unanswered(v)
  BY DEF Waiting
<1>2. /\ IsClient(c) /\ v.queue \in Seq(Packet) /\ c.queue = WithInitial(v.queue)
      /\ v.timers = c.timers \ {InitialNumber}
      /\ v.streams = c.streams /\ v.last = c.last
      /\ v.waiting = c.waiting /\ v.out = c.out /\ v.ooo = c.ooo
      /\ v.packet_counter = c.packet_counter
      /\ v.Bytes_in_flight = c.Bytes_in_flight
  BY <1>1, HoldingIs DEF Holding
<1>3. e = [c EXCEPT !.phase = "open", !.streams = new,
                !.queue = WithoutNumbers(@, {InitialNumber}),
                !.timers = @ \ {InitialNumber},
                !.cc = SetTransport(@, MaxPayload, wnd)]
  BY DEF ProcessClientHandshakeResponse
<1> HIDE DEF v, new, wnd, e
<1>4. /\ IsClient(e)
      /\ e.streams = new
      /\ e.queue = WithoutNumbers(c.queue, {InitialNumber})
      /\ e.timers = c.timers \ {InitialNumber}
      /\ e.waiting = c.waiting /\ e.out = c.out /\ e.ooo = c.ooo
      /\ e.packet_counter = c.packet_counter /\ e.last = c.last
      /\ e.Bytes_in_flight = c.Bytes_in_flight
      /\ e.phase = "open"
  BY <1>2, <1>3 DEF IsClient, ClientFields
<1>5. e.queue = v.queue
  BY <1>2, <1>4, WithoutInitial
<1>6. \A i \in DOMAIN v.streams : v.streams[i].offset <= StreamWindow
  <2> SUFFICES ASSUME NEW i \in DOMAIN v.streams
               PROVE  v.streams[i].offset <= StreamWindow
    OBVIOUS
  <2>1. ClientInv(v) /\ Credited(v) /\ v.waiting = << >> /\ v.ooo = {} /\ ClientType(v)
    BY <1>1 DEF Fresh, Unanswered, ClientInv
  <2>2. v.streams[i].offset = v.streams[i].ACKed_bytes
                              + Carried(v.queue, i) + Carried(v.waiting, i)
    BY <2>1 DEF ClientInv, Accounted
  <2>3. StreamWindow = v.streams[i].window + Carried(v.queue, i)
                       + Carried(v.waiting, i) + Carried(ByNumber(v.ooo), i)
    BY <2>1 DEF Credited
  <2>4. v.streams[i].ACKed_bytes = 0 /\ v.streams[i].window \in Nat
        /\ v.streams[i].offset \in Nat
    BY <1>1, <2>1, StreamFields DEF Unanswered
  <2>5. Carried(v.queue, i) \in Nat /\ Carried(v.waiting, i) = 0
    BY <1>2, <2>1, CarriedFacts
  <2>6. Carried(ByNumber(v.ooo), i) \in Nat
    <3>1. v.ooo \in SUBSET Packet /\ IsFiniteSet(v.ooo) /\ Distinct(v.ooo)
      BY <2>1, FS_EmptySet DEF Distinct
    <3>2. ByNumber(v.ooo) \in Seq(Packet)
      BY <3>1, ByNumberType
    <3> QED
      BY <3>2, CarriedFacts
  <2> QED
    BY <2>2, <2>3, <2>4, <2>5, <2>6
<1>7. Resting(v)
  BY <1>1 DEF Resting, Fresh
<1>8. Fresh(e) /\ Going(v, e, A)
  <2>1. /\ IsClient(e) /\ e.streams = SetAllStreamsWindows(v.streams, StreamWindow)
        /\ e.queue = v.queue /\ e.timers \subseteq v.timers
        /\ e.waiting = v.waiting /\ e.out = v.out /\ e.ooo = v.ooo
        /\ e.packet_counter = v.packet_counter /\ e.last = v.last
        /\ e.Bytes_in_flight = v.Bytes_in_flight
    BY <1>2, <1>4, <1>5 DEF new
  <2> QED
    BY <1>1, <1>6, <1>7, <2>1, WindowsGoing
<1> HIDE DEF A
<1>9. ClientInv(v) /\ e.phase # "closed"
  BY <1>1, <1>4 DEF Fresh
<1>10. /\ Going(v, d, A) /\ d.waiting = << >>
       /\ d.phase \in {e.phase, "closed"}
       /\ d.phase = "closed" => Done(d)
  BY <1>8, <1>9, SendReadyGoing
<1> HIDE DEF d
<1>11. /\ Going(v, d, A) /\ d.waiting = << >>
       /\ d.phase \in {"open", "closed"}
       /\ d.phase = "closed" => Done(d)
  BY <1>4, <1>10
<1> QED
  BY <1>11 DEF d, e, A, v

-----------------------------------------------------------------------------
(***************************************************************************)
(* The inductive invariant.  Before the response the client is new or      *)
(* waits; the server acknowledges nothing before it sent the response, and *)
(* the response is in front of every frame.                                *)
(***************************************************************************)
ViewPart ==
  \/ client = NewClient
  \/ Waiting(client)
  \/ /\ client.phase \in {"open", "closed"}
     /\ Fresh(client)
     /\ client.phase = "closed" => Done(client)

OrderPart ==
  /\ InTransit(Net, client.packet_counter, arrived)
  /\ data = Net \/ data = WithInitial(Net)
  /\ connected => data = Net
  /\ client = NewClient => data = << >>

AnswerPart ==
  /\ Frames \in Seq(AckFrames)
  /\ \A f \in ToSet(Frames) : Truthful(f)
  /\ acks = Frames \/ acks = <<Response>> \o Frames
  /\ ~connected => acks = << >> /\ ~ack_timer /\ client.phase = "handshake"
  /\ connected => client # NewClient
  /\ client.phase = "handshake" /\ connected => acks = <<Response>> \o Frames
  /\ client.phase # "handshake" => acks = Frames

ZeroRttInv ==
  ViewPart /\ ServerPart /\ OrderPart /\ AnswerPart /\ SizesPart

LEMMA FreshIs ==
  ASSUME NEW c, Fresh(c)
  PROVE  /\ BehindInitial(c) = c /\ IsClient(c) /\ Resting(c) /\ Credited(c)
         /\ InitialNumber \notin c.timers
<1>1. IsClient(c) /\ c.queue \in Seq(Packet)
  BY DEF Fresh, ClientInv, ClientType
<1>2. InitialNumber \notin c.timers
  BY TimersFinite, InitialIs
<1>3. BehindInitial(c) = c
  BY <1>1, <1>2, PlainIs
<1> QED
  BY <1>1, <1>2, <1>3 DEF Fresh, Resting

LEMMA NewIs ==
  /\ BehindInitial(NewClient) = NewClient /\ IsClient(NewClient) /\ Resting(NewClient)
  /\ NewClient.phase = "handshake" /\ Idle(NewClient) /\ ~Holding(NewClient)
  /\ NewClient.Bytes_in_flight = 0 /\ NewClient.queue = << >>
<1> DEFINE n == NewClient
           none == << >>
<1>1. Resting(n) /\ Idle(n) /\ n.phase = "handshake"
  BY InitResting
<1>2. n.queue = none /\ n.Bytes_in_flight = 0 /\ n.timers = {}
  BY DEF NewClient
<1>3. IsClient(n) /\ none \in Seq(Packet)
  BY <1>1 DEF Resting, ClientInv, ClientType
<1> HIDE DEF n, none
<1>4. BehindInitial(n) = n
  BY <1>2, <1>3, PlainIs
<1>5. ~Holding(n)
  BY <1>2 DEF Holding
<1> QED
  BY <1>1, <1>2, <1>3, <1>4, <1>5 DEF n, none

LEMMA ViewIs ==
  ASSUME ViewPart
  PROVE  /\ IsClient(client) /\ Resting(View) /\ ClientInv(View)
         /\ View.streams = client.streams /\ View.phase = client.phase
         /\ View.packet_counter = client.packet_counter
         /\ View.Bytes_in_flight = client.Bytes_in_flight /\ View.cc = client.cc
         /\ View.ooo = client.ooo
         /\ client.phase \in {"handshake", "open", "closed"}
         /\ client = NewClient => View = NewClient
         /\ client.phase # "handshake" => View = client /\ Fresh(client)
         /\ client.phase = "handshake" => client = NewClient \/ Waiting(client)
         /\ InitialNumber \in client.timers => Waiting(client)
<1>1. CASE client = NewClient
  <2>1. NewClient.timers = {}
    BY DEF NewClient
  <2>2. View = NewClient
    BY <1>1, NewIs DEF View
  <2> QED
    BY <1>1, <2>1, <2>2, NewIs DEF Resting
<1>2. CASE Waiting(client)
  <2>1. /\ Holding(client) /\ client.phase = "handshake"
        /\ Fresh(View) /\ client # NewClient
    BY <1>2, NewIs DEF Waiting, View
  <2>2. IsClient(client) /\ Resting(View) /\ ClientInv(View)
    BY <2>1, FreshIs DEF Holding, Resting
  <2> QED
    BY <1>2, <2>1, <2>2, HoldingIs DEF View
<1>3. CASE /\ client.phase \in {"open", "closed"}
           /\ Fresh(client)
  <2>1. IsClient(client) /\ View = client /\ Resting(View) /\ InitialNumber \notin client.timers
    BY <1>3, FreshIs DEF View
  <2>2. client # NewClient
    BY <1>3, NewIs
  <2> QED
    BY <1>3, <2>1, <2>2 DEF Resting
<1> QED
  BY <1>1, <1>2, <1>3 DEF ViewPart

\* The end of a handler of the client that waits.
LEMMA EmitStarted ==
  ASSUME NEW c0, NEW c, NEW A, Started(c0, c, A)
  PROVE  LET d == [c EXCEPT !.out = << >>]
             v == BehindInitial(c)
             w == BehindInitial(d)
         IN  /\ Waiting(d) /\ Going(c0, v, A) /\ v.waiting = << >> /\ v.out = c.out
             /\ w = [v EXCEPT !.out = << >>]
             /\ d.streams = c.streams /\ d.packet_counter = c.packet_counter
             /\ v.streams = c.streams /\ v.packet_counter = c.packet_counter
<1> DEFINE none == << >>
           d == [c EXCEPT !.out = none]
           v == BehindInitial(c)
           w == BehindInitial(d)
           e == [v EXCEPT !.out = none]
<1>1. Holding(c) /\ Going(c0, v, A) /\ Unanswered(v) /\ c.phase = "handshake"
      /\ v.waiting = << >>
  BY HoldingIs DEF Started
<1>2. /\ IsClient(c) /\ IsClient(v)
      /\ v.queue \in Seq(Packet) /\ c.queue = WithInitial(v.queue)
      /\ v.timers = c.timers \ {InitialNumber} /\ InitialNumber \in c.timers
      /\ v.streams = c.streams /\ v.last = c.last
      /\ v.waiting = c.waiting /\ v.out = c.out /\ v.ooo = c.ooo /\ v.cc = c.cc
      /\ v.packet_counter = c.packet_counter
      /\ v.Bytes_in_flight = c.Bytes_in_flight
      /\ v.send_unacked = c.send_unacked
      /\ v.duplicate_Acks = c.duplicate_Acks
      /\ v.recovery_start_packet = c.recovery_start_packet
      /\ v.out_of_recovery_packet = c.out_of_recovery_packet
      /\ v.phase = c.phase /\ v.failed = c.failed
  BY <1>1, HoldingIs DEF Holding
<1>3. Resting(e) /\ Credited(e)
  BY <1>1, EmitResting DEF none
<1> HIDE DEF v, none
<1>4. /\ IsClient(d) /\ d.queue = c.queue /\ d.timers = c.timers
      /\ d.streams = c.streams /\ d.last = c.last
      /\ d.waiting = c.waiting /\ d.out = none /\ d.ooo = c.ooo /\ d.cc = c.cc
      /\ d.packet_counter = c.packet_counter
      /\ d.Bytes_in_flight = c.Bytes_in_flight
      /\ d.send_unacked = c.send_unacked
      /\ d.duplicate_Acks = c.duplicate_Acks
      /\ d.recovery_start_packet = c.recovery_start_packet
      /\ d.out_of_recovery_packet = c.out_of_recovery_packet
      /\ d.phase = c.phase /\ d.failed = c.failed
  BY <1>2 DEF IsClient, ClientFields
<1>5. /\ IsClient(e) /\ e.queue = v.queue /\ e.timers = v.timers
      /\ e.streams = v.streams /\ e.last = v.last
      /\ e.waiting = v.waiting /\ e.out = none /\ e.ooo = v.ooo /\ e.cc = v.cc
      /\ e.packet_counter = v.packet_counter
      /\ e.Bytes_in_flight = v.Bytes_in_flight
      /\ e.send_unacked = v.send_unacked
      /\ e.duplicate_Acks = v.duplicate_Acks
      /\ e.recovery_start_packet = v.recovery_start_packet
      /\ e.out_of_recovery_packet = v.out_of_recovery_packet
      /\ e.phase = v.phase /\ e.failed = v.failed
  BY <1>2 DEF IsClient, ClientFields
<1> HIDE DEF d, e
<1>6. Holding(d) /\ w.queue = v.queue
  <2>1. d.queue = WithInitial(v.queue) /\ InitialNumber \in d.timers
    BY <1>2, <1>4
  <2> QED
    BY <1>2, <1>4, <2>1, HoldingMake
<1>7. /\ IsClient(w) /\ w.timers = d.timers \ {InitialNumber}
      /\ w.streams = d.streams /\ w.last = d.last
      /\ w.waiting = d.waiting /\ w.out = d.out /\ w.ooo = d.ooo /\ w.cc = d.cc
      /\ w.packet_counter = d.packet_counter
      /\ w.Bytes_in_flight = d.Bytes_in_flight
      /\ w.send_unacked = d.send_unacked
      /\ w.duplicate_Acks = d.duplicate_Acks
      /\ w.recovery_start_packet = d.recovery_start_packet
      /\ w.out_of_recovery_packet = d.out_of_recovery_packet
      /\ w.phase = d.phase /\ w.failed = d.failed
  BY <1>6, HoldingIs
<1> HIDE DEF w
<1>8. \A x \in ClientFields : w[x] = e[x]
  <2>1. w.queue = e.queue /\ w.timers = e.timers /\ w.streams = e.streams /\ w.last = e.last
        /\ w.waiting = e.waiting /\ w.out = e.out /\ w.ooo = e.ooo /\ w.cc = e.cc
    BY <1>2, <1>4, <1>5, <1>6, <1>7
  <2>2. /\ w.packet_counter = e.packet_counter
        /\ w.Bytes_in_flight = e.Bytes_in_flight
        /\ w.send_unacked = e.send_unacked
        /\ w.duplicate_Acks = e.duplicate_Acks
        /\ w.recovery_start_packet = e.recovery_start_packet
        /\ w.out_of_recovery_packet = e.out_of_recovery_packet
        /\ w.phase = e.phase /\ w.failed = e.failed
    BY <1>2, <1>4, <1>5, <1>7
  <2> QED
    BY <2>1, <2>2 DEF ClientFields
<1>9. w = e
  BY <1>5, <1>7, <1>8, ClientEqual
<1>10. Fresh(w) /\ Unanswered(w)
  BY <1>1, <1>3, <1>5, <1>9 DEF Resting, Fresh, Unanswered
<1>11. Waiting(d)
  BY <1>1, <1>4, <1>6, <1>10 DEF Waiting, w
<1> QED
  BY <1>1, <1>2, <1>4, <1>9, <1>11 DEF d, e, v, w, none

-----------------------------------------------------------------------------
(***************************************************************************)
(* What a handler of the client does, seen from View.                      *)
(***************************************************************************)
ViewTurn(v) ==
  /\ \E A \in SUBSET arrived : Going(View, v, A)
  /\ v.waiting = << >> /\ client.phase # "closed"
  /\ v.phase = "closed" => Done(v)
  /\ View' = [v EXCEPT !.out = << >>] /\ Net' = Net \o v.out
  /\ client'.streams = v.streams /\ client'.packet_counter = v.packet_counter
  /\ client'.phase = v.phase
  /\ ViewPart' /\ client' # NewClient
  /\ data' = Net' \/ data' = WithInitial(Net')
  /\ connected => data' = Net'
  /\ UNCHANGED <<serverVars, delivered, connected>>

\* The end of a handler of an open connection.
LEMMA EmitPlain ==
  ASSUME NEW c0, NEW c, NEW A, Going(c0, c, A), c.waiting = << >>,
         c.phase \in {"open", "closed"}, c.phase = "closed" => Done(c)
  PROVE  LET d == [c EXCEPT !.out = << >>]
         IN  /\ Fresh(d) /\ BehindInitial(d) = d /\ d # NewClient
             /\ d.phase = c.phase /\ (d.phase = "closed" => Done(d))
             /\ d.streams = c.streams /\ d.packet_counter = c.packet_counter
<1> DEFINE none == << >>
           d == [c EXCEPT !.out = none]
<1>1. /\ Resting(d) /\ Credited(d) /\ d.phase = c.phase /\ d.streams = c.streams
      /\ d.packet_counter = c.packet_counter /\ Done(c) => Done(d)
  BY EmitResting DEF none
<1> HIDE DEF d
<1>2. Fresh(d)
  BY <1>1 DEF Fresh, Resting
<1>3. BehindInitial(d) = d
  BY <1>2, FreshIs
<1>4. d # NewClient
  BY <1>1, NewIs
<1> QED
  BY <1>1, <1>2, <1>3, <1>4 DEF d, none

LEMMA NetIs ==
  ASSUME OrderPart, ViewPart, NEW v, NEW A, Going(View, v, A)
  PROVE  /\ Net \in Seq(Packet) /\ v.out \in Seq(Packet) /\ Net \o v.out \in Seq(Packet)
         /\ Behind(Net \o v.out) = Net \o v.out
         /\ Behind(WithInitial(Net \o v.out)) = Net \o v.out
         /\ WithInitial(Net) \o v.out = WithInitial(Net \o v.out)
<1>1. Net \in Seq(Packet) /\ v.out \in Seq(Packet)
  BY DEF OrderPart, InTransit, Going, ClientInv, ClientType
<1>2. Net \o v.out \in Seq(Packet)
  BY <1>1
<1> QED
  BY <1>1, <1>2, BehindIs, FrontConcat

\* The response and the frames behind it.
LEMMA FramesIs ==
  ASSUME NEW q \in Seq(AckFrames)
  PROVE  LET w == <<Response>> \o q
         IN  /\ w # << >> /\ Head(w) = Response /\ Tail(w) = q
             /\ q # << >> => Head(q) # Response
             /\ \A f \in AckFrames : Append(w, f) = <<Response>> \o Append(q, f)
<1> DEFINE All == AckFrames \cup {Response}
           i == Response
           w == <<i>> \o q
<1>1. i \in All /\ q \in Seq(All) /\ i \notin AckFrames
  BY ResponseIs
<1>2. q # << >> => Head(q) \in AckFrames
  OBVIOUS
<1>3. \A f \in AckFrames : Append(w, f) = <<i>> \o Append(q, f)
  OBVIOUS
<1> HIDE DEF i, All
<1>4. <<i>> \in Seq(All) /\ w \in Seq(All) /\ Len(w) = Len(q) + 1 /\ Len(q) \in Nat
  BY <1>1
<1>5. w[1] = i /\ \A k \in 1 .. Len(q) : w[k + 1] = q[k]
  BY <1>1
<1> HIDE DEF w
<1>6. w # << >> /\ Head(w) = i
  BY <1>4, <1>5
<1>7. Tail(w) \in Seq(All) /\ Len(Tail(w)) = Len(q)
      /\ \A k \in 1 .. Len(q) : Tail(w)[k] = w[k + 1]
  BY <1>4
<1>8. Tail(w) = q
  BY <1>1, <1>5, <1>7, SeqEqual
<1>9. w # << >> /\ Head(w) = i /\ Tail(w) = q /\ (q # << >> => Head(q) # i)
      /\ \A f \in AckFrames : Append(w, f) = <<i>> \o Append(q, f)
  BY <1>1, <1>2, <1>3, <1>6, <1>8
<1> QED
  BY <1>9 DEF w, i

LEMMA HandshakeInitTurn ==
  ASSUME ZeroRttInv, HandshakeInit
  PROVE  /\ \E v : ViewTurn(v)
         /\ Waiting(client') /\ client = NewClient /\ acks' = acks /\ UNCHANGED serverVars
<1> DEFINE new == [client EXCEPT !.queue = <<InitialPacket>>, !.timers = {InitialNumber}]
           c == SendOut(ProcessClientZeroRtt(new))
           v == BehindInitial(c)
           A == {}
<1>1. /\ client = NewClient
      /\ client' = [c EXCEPT !.out = << >>]
      /\ data' = <<InitialPacket>> \o c.out
      /\ UNCHANGED <<serverVars, acks, delivered, connected>>
  BY DEF HandshakeInit
<1>2. Started(NewClient, c, A)
  BY <1>1, HandshakeStarted
<1>3. View = NewClient /\ client.phase = "handshake"
  BY <1>1, NewIs DEF View
<1>4. data = << >> /\ Net = << >> /\ ~connected
  BY <1>1 DEF ZeroRttInv, OrderPart, AnswerPart, Net, Behind
<1> HIDE DEF c, new, A
<1>5. /\ Waiting(client') /\ Going(View, v, A) /\ v.waiting = << >> /\ v.out = c.out
      /\ View' = [v EXCEPT !.out = << >>]
      /\ client'.streams = c.streams /\ client'.packet_counter = c.packet_counter
      /\ v.streams = c.streams /\ v.packet_counter = c.packet_counter
  BY <1>1, <1>2, <1>3, EmitStarted DEF View
<1>6. client'.phase = "handshake" /\ v.phase = "handshake"
  BY <1>2, <1>5, HoldingIs DEF Waiting, Started
<1> HIDE DEF v
<1>7. /\ Net \o v.out \in Seq(Packet)
      /\ Behind(WithInitial(Net \o v.out)) = Net \o v.out
      /\ WithInitial(Net) \o v.out = WithInitial(Net \o v.out)
  BY <1>5, NetIs DEF ZeroRttInv
<1>8. data' = WithInitial(Net \o v.out)
  <2>1. Net \o v.out = c.out
    <3>1. v.out \in Seq(Packet)
      BY <1>5 DEF Going, ClientInv, ClientType
    <3> QED
      BY <1>4, <1>5, <3>1
  <2> QED
    BY <1>1, <2>1 DEF WithInitial
<1>9. Net' = Net \o v.out
  BY <1>7, <1>8 DEF Net
<1>10. client' # NewClient
  BY <1>5, NewIs DEF Waiting
<1>11. A \in SUBSET arrived
  BY DEF A
<1>12. ViewTurn(v)
  BY <1>1, <1>3, <1>4, <1>5, <1>6, <1>8, <1>9, <1>10, <1>11 DEF ViewTurn, ViewPart
<1> QED
  BY <1>1, <1>5, <1>12

\* The timer of the Initial packet expires before any answer came: the server
\* does not have the connection.
LEMMA HandshakeTimeoutTurn ==
  ASSUME ZeroRttInv, HandshakeTimeout
  PROVE  /\ \E v : ViewTurn(v)
         /\ Waiting(client') /\ ~connected /\ acks' = acks /\ UNCHANGED serverVars
<1> DEFINE c == FoldLeft(ExpireRTO, client, Ascending(client.timers \ {InitialNumber}))
           v == BehindInitial(c)
           A == {}
<1>1. /\ Quiet /\ client.phase = "handshake" /\ InitialNumber \in client.timers
      /\ client' = [c EXCEPT !.out = << >>]
      /\ data' = <<InitialPacket>> \o c.out
      /\ UNCHANGED <<serverVars, acks, delivered, connected>>
  BY DEF HandshakeTimeout
<1>2. Waiting(client)
  BY <1>1, ViewIs DEF ZeroRttInv
<1>3. data = << >> /\ acks = << >> /\ Net = << >>
  BY <1>1 DEF Quiet, Net, Behind
<1>4. ~connected
  <2>1. acks # <<Response>> \o Frames
    BY <1>3, FramesIs DEF ZeroRttInv, AnswerPart
  <2> QED
    BY <1>1, <2>1 DEF ZeroRttInv, AnswerPart
<1>5. Started(View, c, A)
  BY <1>2, TimeoutStarted DEF View
<1> HIDE DEF c, A
<1>6. /\ Waiting(client') /\ Going(View, v, A) /\ v.waiting = << >> /\ v.out = c.out
      /\ View' = [v EXCEPT !.out = << >>]
      /\ client'.streams = c.streams /\ client'.packet_counter = c.packet_counter
      /\ v.streams = c.streams /\ v.packet_counter = c.packet_counter
  BY <1>1, <1>5, EmitStarted DEF View
<1>7. client'.phase = "handshake" /\ v.phase = "handshake"
  BY <1>5, <1>6, HoldingIs DEF Waiting, Started
<1> HIDE DEF v
<1>8. /\ Net \o v.out \in Seq(Packet)
      /\ Behind(WithInitial(Net \o v.out)) = Net \o v.out
      /\ WithInitial(Net) \o v.out = WithInitial(Net \o v.out)
  BY <1>6, NetIs DEF ZeroRttInv
<1>9. data' = WithInitial(Net \o v.out)
  <2>1. Net \o v.out = c.out
    <3>1. v.out \in Seq(Packet)
      BY <1>6 DEF Going, ClientInv, ClientType
    <3> QED
      BY <1>3, <1>6, <3>1
  <2> QED
    BY <1>1, <2>1 DEF WithInitial
<1>10. Net' = Net \o v.out
  BY <1>8, <1>9 DEF Net
<1>11. client' # NewClient
  BY <1>6, NewIs DEF Waiting
<1>12. A \in SUBSET arrived
  BY DEF A
<1>13. ViewTurn(v)
  BY <1>1, <1>4, <1>6, <1>7, <1>9, <1>10, <1>11, <1>12 DEF ViewTurn, ViewPart
<1> QED
  BY <1>1, <1>4, <1>6, <1>13

LEMMA ResponseTurn ==
  ASSUME ZeroRttInv, ClientReceivesResponse
  PROVE  /\ \E v : ViewTurn(v)
         /\ client'.phase # "handshake" /\ connected /\ acks' = Frames
         /\ UNCHANGED serverVars
<1> DEFINE c == SendReadyPackets(ProcessClientHandshakeResponse(client))
           A == {}
<1>1. /\ acks # << >> /\ Head(acks) = Response /\ acks' = Tail(acks)
      /\ client.phase = "handshake" => ReceiveHandshakeResponse
      /\ UNCHANGED <<serverVars, delivered, connected>>
  BY DEF ClientReceivesResponse
<1>2. acks' = Frames
  BY <1>1 DEF Frames
<1>3. client.phase = "handshake" /\ connected
  BY <1>1, FramesIs DEF ZeroRttInv, AnswerPart
<1>4. Waiting(client) /\ data = Net
  BY <1>3, ViewIs DEF ZeroRttInv, AnswerPart, OrderPart
<1>5. client' = [c EXCEPT !.out = << >>] /\ data' = data \o c.out
  BY <1>1, <1>3 DEF ReceiveHandshakeResponse, Emit
<1>6. /\ Going(View, c, A) /\ c.waiting = << >>
      /\ c.phase \in {"open", "closed"}
      /\ c.phase = "closed" => Done(c)
  BY <1>4, ResponseHolding DEF View
<1> HIDE DEF c, A
<1>7. /\ Fresh(client') /\ View' = client' /\ client' # NewClient
      /\ client'.phase = c.phase /\ (client'.phase = "closed" => Done(client'))
      /\ client'.streams = c.streams /\ client'.packet_counter = c.packet_counter
  BY <1>5, <1>6, EmitPlain DEF View
<1>8. Net' = Net \o c.out
  BY <1>4, <1>5, <1>6, NetIs DEF ZeroRttInv, Net
<1>9. A \in SUBSET arrived
  BY DEF A
<1>10. ViewPart'
  BY <1>6, <1>7 DEF ViewPart
<1>11. ViewTurn(c)
  BY <1>1, <1>3, <1>4, <1>5, <1>6, <1>7, <1>8, <1>9, <1>10 DEF ViewTurn
<1> QED
  BY <1>1, <1>2, <1>3, <1>6, <1>7, <1>11

\* A frame only reaches a client that has the response.
LEMMA FrameTurn ==
  ASSUME ZeroRttInv, ClientReceivesFrame
  PROVE  /\ client.phase # "handshake" /\ connected /\ acks' = Tail(Frames)
         /\ Frames # << >> /\ acks = Frames
         /\ UNCHANGED serverVars
         /\ client.phase = "closed" => UNCHANGED <<client, data, delivered, connected>>
         /\ client.phase # "closed" =>
              (\E v : ViewTurn(v)) /\ client'.phase # "handshake"
<1> DEFINE f == Head(acks)
<1>1. /\ acks # << >> /\ f # Response /\ acks' = Tail(acks)
      /\ UNCHANGED <<serverVars, delivered, connected>>
      /\ client.phase # "closed" => ReceiveAck(f)
      /\ client.phase = "closed" => UNCHANGED <<client, data>>
  BY DEF ClientReceivesFrame, ClientReceivesAck
<1>2. acks = Frames /\ Frames # << >>
  BY <1>1 DEF Frames
<1>3. connected /\ client.phase # "handshake"
  BY <1>1, <1>2, FramesIs DEF ZeroRttInv, AnswerPart
<1>4. /\ View = client /\ Fresh(client) /\ data = Net
      /\ client.phase \in {"open", "closed"}
  BY <1>3, ViewIs DEF ZeroRttInv, OrderPart
<1>5. f \in AckFrames /\ Truthful(f)
  BY <1>2, TailIs DEF ZeroRttInv, AnswerPart
<1> HIDE DEF f
<1>6. ASSUME client.phase # "closed"
      PROVE  (\E v : ViewTurn(v)) /\ client'.phase # "handshake"
  <2> DEFINE c == SendReadyPackets(
                    UpdateLostPackets(
                      ProcessClientACK(CancelRTO(client, f), f), f.largest))
             A == Numbers(RemovedPackets(client, f))
  <2>1. client' = [c EXCEPT !.out = << >>] /\ data' = data \o c.out
    BY <1>1, <1>6 DEF ReceiveAck, Emit
  <2>2. AckFrame(f)
    BY <1>5 DEF AckFrame, AckFrames
  <2>3. /\ Going(client, c, A) /\ c.waiting = << >>
        /\ c.phase \in {client.phase, "closed"}
        /\ c.phase = "closed" => Done(c)
    BY <1>4, <1>6, <2>2, ReceiveAckGoing
  <2>4. A \subseteq arrived
    <3>1. Resting(client)
      BY <1>4, FreshIs
    <3> QED
      BY <1>5, <3>1, RemovedArrived
  <2> HIDE DEF c, A
  <2>5. c.phase \in {"open", "closed"}
    BY <1>4, <2>3
  <2>6. /\ Fresh(client') /\ View' = client' /\ client' # NewClient
        /\ client'.phase = c.phase /\ (client'.phase = "closed" => Done(client'))
        /\ client'.streams = c.streams /\ client'.packet_counter = c.packet_counter
    BY <2>1, <2>3, <2>5, EmitPlain DEF View
  <2>7. Going(View, c, A)
    BY <1>4, <2>3
  <2>8. Net' = Net \o c.out
    BY <1>4, <2>1, <2>7, NetIs DEF ZeroRttInv, Net
  <2>9. ViewPart'
    BY <2>5, <2>6 DEF ViewPart
  <2>10. ViewTurn(c)
    BY <1>1, <1>4, <1>6, <2>1, <2>3, <2>4, <2>6, <2>7, <2>8, <2>9 DEF ViewTurn
  <2> QED
    BY <2>5, <2>6, <2>10
<1> QED
  BY <1>1, <1>2, <1>3, <1>6

LEMMA DataTimeoutTurn ==
  ASSUME ZeroRttInv, DataTimeout
  PROVE  /\ \E v : ViewTurn(v)
         /\ client.phase # "handshake" /\ client'.phase # "handshake"
         /\ acks' = acks /\ UNCHANGED serverVars
<1>1. PICK number \in client.timers : RetransmissionTimeout(number)
  BY DEF DataTimeout, ClientTimeout
<1> DEFINE c == ExpireRTO(client, number)
           A == {}
<1>2. /\ client' = [c EXCEPT !.out = << >>] /\ data' = data \o c.out
      /\ InitialNumber \notin client.timers
      /\ UNCHANGED <<serverVars, acks, delivered, connected>>
  BY <1>1 DEF DataTimeout, ClientTimeout, RetransmissionTimeout, Emit
<1>3. client.phase = "open" /\ View = client /\ Fresh(client)
  <2>1. ~Waiting(client)
    BY <1>2 DEF Waiting, Holding
  <2>2. client # NewClient
    BY <1>1 DEF NewClient
  <2>3. client.phase # "handshake" /\ View = client /\ Fresh(client)
    BY <2>1, <2>2, ViewIs DEF ZeroRttInv
  <2>4. client.phase # "closed"
    <3> SUFFICES ASSUME client.phase = "closed" PROVE FALSE
      OBVIOUS
    <3>1. client.queue = << >>
      BY <2>1, <2>2, <2>3 DEF ZeroRttInv, ViewPart, Done
    <3>2. client.timers \subseteq Numbers(client.queue)
      BY <2>3 DEF Fresh, Timed
    <3> QED
      BY <1>1, <3>1, <3>2 DEF Numbers
  <2> QED
    BY <2>3, <2>4, ViewIs DEF ZeroRttInv
<1>4. Going(client, c, A) /\ c.waiting = << >> /\ c.phase = client.phase
  BY <1>3, ExpireGoing
<1>5. connected /\ data = Net
  BY <1>3 DEF ZeroRttInv, AnswerPart, OrderPart
<1> HIDE DEF c, A
<1>6. /\ Fresh(client') /\ View' = client' /\ client' # NewClient
      /\ client'.phase = "open"
      /\ client'.streams = c.streams /\ client'.packet_counter = c.packet_counter
  BY <1>2, <1>3, <1>4, EmitPlain DEF View
<1>7. Going(View, c, A)
  BY <1>3, <1>4
<1>8. Net' = Net \o c.out
  BY <1>2, <1>5, <1>7, NetIs DEF ZeroRttInv, Net
<1>9. A \in SUBSET arrived
  BY DEF A
<1>10. ViewPart'
  BY <1>6 DEF ViewPart
<1>11. ViewTurn(c)
  BY <1>2, <1>3, <1>4, <1>5, <1>6, <1>7, <1>8, <1>9, <1>10 DEF ViewTurn
<1> QED
  BY <1>2, <1>3, <1>6, <1>11

\* What the turns of the client keep.
LEMMA TurnParts ==
  ASSUME ZeroRttInv, NEW v, ViewTurn(v)
  PROVE  ViewPart' /\ ServerPart' /\ OrderPart' /\ SizesPart'
<1>1. PICK A \in SUBSET arrived : Going(View, v, A)
  BY DEF ViewTurn
<1>2. arrived' = arrived /\ arrived \in SUBSET Nat /\ connected' = connected
  BY DEF ViewTurn, serverVars, ZeroRttInv, ServerPart, SP!ServerInv, SP!ServerTypeOK
<1>3. /\ ClientInv(View) /\ View.packet_counter = client.packet_counter
      /\ View.streams = client.streams
  BY ViewIs DEF ZeroRttInv
<1>4. InTransit(Net', client'.packet_counter, arrived')
  <2>1. InTransit(Net, View.packet_counter, arrived)
    BY <1>3 DEF ZeroRttInv, OrderPart
  <2>2. InTransit(Net \o v.out, v.packet_counter, arrived)
    BY <1>1, <1>2, <1>3, <2>1, NetGrows
  <2> QED
    BY <1>2, <2>2 DEF ViewTurn
<1>5. OrderPart'
  <2>1. InTransit(Net, client.packet_counter, arrived)'
    BY <1>4 DEF InTransit
  <2>2. client' # NewClient /\ (data' = Net' \/ data' = WithInitial(Net'))
        /\ (connected => data' = Net')
    BY DEF ViewTurn
  <2> QED
    BY <1>2, <2>1, <2>2 DEF OrderPart, WithInitial, InitialPacket, NewClient
<1>6. SizesPart'
  <2>1. /\ DOMAIN v.streams = DOMAIN client.streams
        /\ \A i \in DOMAIN client.streams : v.streams[i].size = client.streams[i].size
    BY <1>1, <1>3 DEF Going, Turn, TurnStreams
  <2>2. client'.streams = v.streams
    BY DEF ViewTurn
  <2> QED
    BY <2>1, <2>2 DEF ZeroRttInv, SizesPart
<1>7. ServerPart'
  BY DEF ViewTurn, ZeroRttInv, ServerPart, serverVars, SP!ServerInv, SP!ServerTypeOK,
     SP!WaitingAboveNext, SP!QuietMeansReported, SP!ReportedBelowNext,
     SP!ArrivedIsKept, SP!NumbersArrived
<1> QED
  BY <1>5, <1>6, <1>7 DEF ViewTurn

-----------------------------------------------------------------------------
(***************************************************************************)
(* The answers after a step.                                               *)
(***************************************************************************)
LEMMA AnswerMake ==
  ASSUME NEW q \in Seq(AckFrames), \A f \in ToSet(q) : Truthful(f)',
         connected', client' # NewClient,
         acks' = IF client'.phase = "handshake" THEN <<Response>> \o q ELSE q
  PROVE  AnswerPart' /\ Frames' = q
<1> DEFINE w == <<Response>> \o q
<1>1. w # << >> /\ Head(w) = Response /\ Tail(w) = q /\ (q # << >> => Head(q) # Response)
  BY FramesIs
<1>2. Frames' = IF acks' # << >> /\ Head(acks') = Response THEN Tail(acks') ELSE acks'
  BY DEF Frames, Response
<1>3. acks' = IF client'.phase = "handshake" THEN w ELSE q
  OBVIOUS
<1>4. w = <<Response>> \o q
  OBVIOUS
<1> HIDE DEF w
<1>5. Frames' = q
  BY <1>1, <1>2, <1>3
<1>6. Response' = Response /\ NewClient' = NewClient
  BY DEF Response, NewClient, NewStream
<1>7. acks' = q \/ acks' = w
  BY <1>3
<1>8. acks' = Frames' \/ acks' = <<Response>>' \o Frames'
  BY <1>4, <1>5, <1>6, <1>7
<1> QED
  BY <1>3, <1>4, <1>5, <1>6, <1>8 DEF AnswerPart, AckFrames

LEMMA AnswerQuiet ==
  ASSUME ~connected', acks' = << >>, ~ack_timer', client'.phase = "handshake"
  PROVE  AnswerPart'
<1> DEFINE none == << >>
<1>1. none \in Seq(AckFrames) /\ ToSet(none) = {}
  BY ToSetEmpty
<1>2. Frames' = none /\ acks' = none
  BY DEF Frames
<1>3. none = << >>
  OBVIOUS
<1> HIDE DEF none
<1> QED
  BY <1>1, <1>2, <1>3 DEF AnswerPart, AckFrames

LEMMA ServerStays ==
  ASSUME ServerPart, UNCHANGED serverVars
  PROVE  ServerPart' /\ arrived' = arrived /\ ack_timer' = ack_timer
BY DEF ServerPart, serverVars, SP!ServerInv, SP!ServerTypeOK, SP!WaitingAboveNext,
   SP!QuietMeansReported, SP!ReportedBelowNext, SP!ArrivedIsKept, SP!NumbersArrived

\* Frames told the truth when they left, and what arrived stays arrived.
LEMMA TruthStays ==
  ASSUME arrived \subseteq arrived', NEW f, Truthful(f)
  PROVE  Truthful(f)'
BY DEF Truthful, IsInOrder

LEMMA ViewStays == ViewPart /\ UNCHANGED client => ViewPart' /\ View' = View
BY DEF ViewPart, NewClient, NewStream, Waiting, Holding, View

-----------------------------------------------------------------------------
(***************************************************************************)
(* The actions of the client.                                              *)
(***************************************************************************)
LEMMA HandshakeInitInv ==
  ASSUME ZeroRttInv, HandshakeInit PROVE ZeroRttInv'
<1>1. /\ \E v : ViewTurn(v)
      /\ Waiting(client') /\ client = NewClient /\ acks' = acks /\ UNCHANGED serverVars
  BY HandshakeInitTurn
<1>2. ViewPart' /\ ServerPart' /\ OrderPart' /\ SizesPart'
  BY <1>1, TurnParts
<1>3. ~connected' /\ ack_timer' = ack_timer
  BY <1>1 DEF ViewTurn, ZeroRttInv, AnswerPart, serverVars
<1>4. acks = << >> /\ ~ack_timer /\ client'.phase = "handshake"
  BY <1>1 DEF ViewTurn, ZeroRttInv, AnswerPart, Waiting
<1>5. AnswerPart'
  BY <1>1, <1>3, <1>4, AnswerQuiet
<1> QED
  BY <1>2, <1>5 DEF ZeroRttInv

LEMMA HandshakeTimeoutInv ==
  ASSUME ZeroRttInv, HandshakeTimeout PROVE ZeroRttInv'
<1>1. /\ \E v : ViewTurn(v)
      /\ Waiting(client') /\ ~connected /\ acks' = acks /\ UNCHANGED serverVars
  BY HandshakeTimeoutTurn
<1>2. ViewPart' /\ ServerPart' /\ OrderPart' /\ SizesPart'
  BY <1>1, TurnParts
<1>3. ~connected' /\ ack_timer' = ack_timer
  BY <1>1 DEF ViewTurn, serverVars
<1>4. acks = << >> /\ ~ack_timer /\ client'.phase = "handshake"
  BY <1>1 DEF ZeroRttInv, AnswerPart, Waiting
<1>5. AnswerPart'
  BY <1>1, <1>3, <1>4, AnswerQuiet
<1> QED
  BY <1>2, <1>5 DEF ZeroRttInv

LEMMA ClientReceivesResponseInv ==
  ASSUME ZeroRttInv, ClientReceivesResponse PROVE ZeroRttInv'
<1>1. /\ \E v : ViewTurn(v)
      /\ client'.phase # "handshake" /\ connected /\ acks' = Frames
      /\ UNCHANGED serverVars
  BY ResponseTurn
<1>2. ViewPart' /\ ServerPart' /\ OrderPart' /\ SizesPart'
  BY <1>1, TurnParts
<1>3. connected' /\ client' # NewClient /\ arrived' = arrived
  BY <1>1 DEF ViewTurn, serverVars
<1>4. Frames \in Seq(AckFrames) /\ \A f \in ToSet(Frames) : Truthful(f)'
  BY <1>3, TruthStays DEF ZeroRttInv, AnswerPart
<1>5. AnswerPart'
  BY <1>1, <1>3, <1>4, AnswerMake
<1> QED
  BY <1>2, <1>5 DEF ZeroRttInv

LEMMA ClientReceivesFrameInv ==
  ASSUME ZeroRttInv, ClientReceivesFrame PROVE ZeroRttInv'
<1> DEFINE q == Tail(Frames)
<1>1. /\ client.phase # "handshake" /\ connected /\ acks' = q
      /\ Frames # << >> /\ UNCHANGED serverVars
      /\ client.phase = "closed" => UNCHANGED <<client, data, delivered, connected>>
      /\ client.phase # "closed" =>
           (\E v : ViewTurn(v)) /\ client'.phase # "handshake"
  BY FrameTurn
<1>2. q \in Seq(AckFrames) /\ \A f \in ToSet(q) : Truthful(f)
  BY <1>1, TailIs DEF ZeroRttInv, AnswerPart
<1> HIDE DEF q
<1>3. ServerPart' /\ arrived' = arrived
  BY <1>1, ServerStays DEF ZeroRttInv
<1>4. \A f \in ToSet(q) : Truthful(f)'
  BY <1>2, <1>3, TruthStays
<1>5. CASE client.phase = "closed"
  <2>1. UNCHANGED <<client, data, connected>>
    BY <1>1, <1>5
  <2>2. ViewPart' /\ connected' /\ client' # NewClient /\ client'.phase # "handshake"
    BY <1>1, <2>1, ViewStays DEF ZeroRttInv, AnswerPart
  <2>3. AnswerPart'
    BY <1>1, <1>2, <1>4, <2>2, AnswerMake
  <2>4. OrderPart' /\ SizesPart'
    BY <1>3, <2>1 DEF ZeroRttInv, OrderPart, InTransit, SizesPart, Net, Behind,
       WithInitial, InitialPacket, NewClient, NewStream
  <2> QED
    BY <1>3, <2>2, <2>3, <2>4 DEF ZeroRttInv
<1>6. CASE client.phase # "closed"
  <2>1. (\E v : ViewTurn(v)) /\ client'.phase # "handshake"
    BY <1>1, <1>6
  <2>2. ViewPart' /\ ServerPart' /\ OrderPart' /\ SizesPart'
    BY <2>1, TurnParts
  <2>3. connected' /\ client' # NewClient
    BY <1>1, <2>1 DEF ViewTurn
  <2>4. AnswerPart'
    BY <1>1, <1>2, <1>4, <2>1, <2>3, AnswerMake
  <2> QED
    BY <2>2, <2>4 DEF ZeroRttInv
<1> QED
  BY <1>5, <1>6

LEMMA DataTimeoutInv ==
  ASSUME ZeroRttInv, DataTimeout PROVE ZeroRttInv'
<1>1. /\ \E v : ViewTurn(v)
      /\ client.phase # "handshake" /\ client'.phase # "handshake"
      /\ acks' = acks /\ UNCHANGED serverVars
  BY DataTimeoutTurn
<1>2. ViewPart' /\ ServerPart' /\ OrderPart' /\ SizesPart'
  BY <1>1, TurnParts
<1>3. connected /\ acks = Frames
  BY <1>1 DEF ZeroRttInv, AnswerPart
<1>4. connected' /\ client' # NewClient /\ arrived' = arrived
  BY <1>1, <1>3 DEF ViewTurn, serverVars
<1>5. Frames \in Seq(AckFrames) /\ \A f \in ToSet(Frames) : Truthful(f)'
  BY <1>4, TruthStays DEF ZeroRttInv, AnswerPart
<1>6. AnswerPart'
  BY <1>1, <1>3, <1>4, <1>5, AnswerMake
<1> QED
  BY <1>2, <1>6 DEF ZeroRttInv

-----------------------------------------------------------------------------
(***************************************************************************)
(* The actions of the server and of the network.                           *)
(***************************************************************************)
LEMMA NetDrop ==
  ASSUME OrderPart, data # << >>, data' = Tail(data)
  PROVE  /\ data' = Net' /\ client # NewClient
         /\ Head(data) = InitialPacket => Net' = Net /\ data = WithInitial(Net)
         /\ Head(data) # InitialPacket =>
              data = Net /\ Net # << >> /\ Net' = Tail(Net)
<1>1. Net \in Seq(Packet) /\ client # NewClient /\ (data = Net \/ data = WithInitial(Net))
  BY DEF OrderPart, InTransit
<1>2. Net' = Behind(data')
  BY DEF Net, Behind, InitialPacket
<1>3. CASE Head(data) = InitialPacket
  <2>1. data = WithInitial(Net)
    BY <1>1, <1>3, BehindIs
  <2>2. data' = Net
    BY <1>1, <2>1, BehindIs
  <2>3. Behind(Net) = Net
    BY <1>1, BehindIs
  <2> QED
    BY <1>1, <1>2, <1>3, <2>1, <2>2, <2>3
<1>4. CASE Head(data) # InitialPacket
  <2>1. data = Net
    BY <1>1, <1>4, BehindIs
  <2>2. Tail(Net) \in Seq(Packet)
    BY <1>1, <2>1, TailIs
  <2>3. Behind(Tail(Net)) = Tail(Net)
    BY <2>2, BehindIs
  <2> QED
    BY <1>1, <1>2, <1>4, <2>1, <2>3
<1> QED
  BY <1>3, <1>4

LEMMA DropOrder ==
  ASSUME OrderPart, data # << >>, data' = Tail(data), UNCHANGED <<client, arrived>>
  PROVE  OrderPart'
<1>1. /\ Net' = Net \/ (Net # << >> /\ Net' = Tail(Net))
      /\ data' = Net' /\ client # NewClient
  BY NetDrop
<1>2. InTransit(Net, client.packet_counter, arrived)
  BY DEF OrderPart
<1>3. InTransit(Net, client.packet_counter, arrived)'
  <2>1. CASE Net' = Net
    BY <1>2, <2>1 DEF InTransit
  <2>2. CASE Net # << >> /\ Net' = Tail(Net)
    <3>1. /\ Net' \in Seq(Packet) /\ ToSet(Net') \subseteq ToSet(Net) /\ Sorted(Net')
      BY <1>2, <2>2, TailIs DEF InTransit
    <3> QED
      BY <1>2, <3>1 DEF InTransit
  <2> QED
    BY <1>1, <2>1, <2>2
<1>4. client' # NewClient' /\ data' = Net'
  BY <1>1 DEF NewClient, NewStream
<1> QED
  BY <1>3, <1>4 DEF OrderPart

LEMMA ServerReceivesInitialInv ==
  ASSUME ZeroRttInv, ServerReceivesInitial PROVE ZeroRttInv'
<1>1. /\ data # << >> /\ data' = Tail(data) /\ UNCHANGED <<client, serverVars>>
      /\ connected' /\ ~connected /\ acks' = Append(acks, Response)
  BY DEF ServerReceivesInitial
<1>2. ServerPart' /\ arrived' = arrived /\ ViewPart'
  BY <1>1, ServerStays, ViewStays DEF ZeroRttInv
<1>3. OrderPart' /\ client' # NewClient
  BY <1>1, <1>2, DropOrder, NetDrop DEF ZeroRttInv
<1> DEFINE none == << >>
<1>4. acks = none /\ client'.phase = "handshake"
  BY <1>1 DEF ZeroRttInv, AnswerPart
<1>5. none \in Seq(AckFrames) /\ ToSet(none) = {} /\ Append(none, Response) = <<Response>> \o none
  BY ToSetEmpty
<1> HIDE DEF none
<1>6. AnswerPart'
  <2>1. acks' = <<Response>> \o none
    BY <1>1, <1>4, <1>5
  <2>2. \A f \in ToSet(none) : Truthful(f)'
    BY <1>5
  <2> QED
    BY <1>1, <1>3, <1>4, <1>5, <2>1, <2>2, AnswerMake
<1>7. SizesPart'
  BY <1>1 DEF ZeroRttInv, SizesPart
<1> QED
  BY <1>2, <1>3, <1>6, <1>7 DEF ZeroRttInv

LEMMA ServerIgnoresInv ==
  ASSUME ZeroRttInv, ServerIgnores PROVE ZeroRttInv'
<1>1. /\ data # << >> /\ data' = Tail(data) /\ UNCHANGED <<client, serverVars>>
      /\ ~connected /\ connected' = connected /\ acks' = acks
  BY DEF ServerIgnores
<1>2. ServerPart' /\ arrived' = arrived /\ ack_timer' = ack_timer /\ ViewPart'
  BY <1>1, ServerStays, ViewStays DEF ZeroRttInv
<1>3. OrderPart'
  BY <1>1, <1>2, DropOrder DEF ZeroRttInv
<1>4. AnswerPart'
  BY <1>1, <1>2, AnswerQuiet DEF ZeroRttInv, AnswerPart
<1>5. SizesPart'
  BY <1>1 DEF ZeroRttInv, SizesPart
<1> QED
  BY <1>2, <1>3, <1>4, <1>5 DEF ZeroRttInv

LEMMA ServerReceivesDataInv ==
  ASSUME ZeroRttInv, ServerReceivesData
  PROVE  /\ ZeroRttInv'
         /\ Net # << >> /\ Net' = Tail(Net)
         /\ arrived' = arrived \cup Names(Head(Net))
         /\ delivered' = delivered \cup BytesOf(Head(Net))
         /\ UNCHANGED client
<1> DEFINE p == Head(Net)
<1>1. /\ connected /\ connected' = connected /\ data = Net
      /\ InTransit(Net, client.packet_counter, arrived) /\ Net \in Seq(Packet)
  BY DEF ServerReceivesData, ZeroRttInv, OrderPart, InTransit
<1>2. /\ Net # << >> /\ S!ReceivePacket(p) /\ data' = Tail(Net)
      /\ UNCHANGED <<client, acks>>
      /\ delivered' = delivered \cup BytesOf(p)
  BY <1>1 DEF ServerReceivesData, ServerReceives
<1>3. Head(data) # InitialPacket
  BY <1>1, <1>2, BehindIs
<1>4. data' = Net' /\ client # NewClient /\ Net' = Tail(Net)
  BY <1>1, <1>2, <1>3, NetDrop DEF ZeroRttInv
<1>5. /\ p \in Packet /\ Net' \in Seq(Packet)
      /\ ToSet(Net) = {p} \cup ToSet(Net')
      /\ Sorted(Net') /\ \A r \in ToSet(Net') : p.number < r.number
  BY <1>1, <1>2, <1>4, TailIs DEF InTransit
<1> HIDE DEF p
<1>6. /\ \A n \in arrived : n < p.number /\ n < client.packet_counter
      /\ p.number < client.packet_counter /\ client.packet_counter \in Nat
      /\ p.number \in Nat /\ \A h \in p.history : h < p.number /\ h \in Nat
      /\ \A r \in ToSet(Net') : r.number \in Nat
  <2>1. \A r \in Packet : r.number \in Nat
    BY DEF Packet
  <2>2. client.packet_counter \in Nat
    BY ViewIs DEF ZeroRttInv, IsClient, ClientInv, ClientType
  <2> QED
    BY <1>1, <1>5, <2>1, <2>2, ToSetType, PacketHistory DEF InTransit
<1>7. /\ ServerPart' /\ arrived' = arrived \cup Names(p) /\ ack_timer' = TRUE
  BY <1>2, <1>5, <1>6, ServerArrival DEF ZeroRttInv
<1>8. OrderPart'
  <2>1. \A n \in arrived' : n <= p.number /\ n \in Int
    <3>1. \A n \in arrived : n \in Nat
      BY DEF ZeroRttInv, ServerPart, SP!ServerInv, SP!ServerTypeOK
    <3> QED
      BY <1>6, <1>7, <3>1 DEF Names
  <2>2. \A n \in arrived' : /\ n < client.packet_counter
                            /\ \A r \in ToSet(Net') : n < r.number
    BY <1>5, <1>6, <2>1
  <2>3. \A r \in ToSet(Net') : r.number < client.packet_counter
    BY <1>1, <1>5 DEF InTransit
  <2>4. InTransit(Net, client.packet_counter, arrived)'
    BY <1>2, <1>5, <2>2, <2>3 DEF InTransit
  <2>5. client' # NewClient'
    BY <1>2, <1>4 DEF NewClient, NewStream
  <2> QED
    BY <1>4, <2>4, <2>5 DEF OrderPart
<1>9. arrived \subseteq arrived'
  BY <1>7
<1>10. Frames \in Seq(AckFrames) /\ \A f \in ToSet(Frames) : Truthful(f)'
  BY <1>9, TruthStays DEF ZeroRttInv, AnswerPart
<1>11. AnswerPart'
  <2>1. acks' = IF client'.phase = "handshake" THEN <<Response>> \o Frames ELSE Frames
    BY <1>1, <1>2 DEF ZeroRttInv, AnswerPart
  <2>2. connected' /\ client' # NewClient
    BY <1>1, <1>2, <1>4
  <2> QED
    BY <1>10, <2>1, <2>2, AnswerMake
<1>12. ViewPart' /\ SizesPart'
  BY <1>2, ViewStays DEF ZeroRttInv, SizesPart
<1> QED
  BY <1>2, <1>4, <1>7, <1>8, <1>11, <1>12 DEF ZeroRttInv, p

LEMMA ServerSendsAckInv ==
  ASSUME ZeroRttInv, ServerSendsAck PROVE ZeroRttInv'
<1> DEFINE f == S!AckFrame
           q == Append(Frames, f)
<1>1. /\ S!AckTimeout /\ acks' = Append(acks, f) /\ ack_timer
      /\ UNCHANGED <<client, data, connected>>
  BY DEF ServerSendsAck, ServerAckTimeout, S!AckTimeout
<1>2. /\ ServerPart' /\ arrived' = arrived /\ f \in AckFrames /\ Truthful(f)
  BY <1>1, ServerTimeout DEF ZeroRttInv
<1> HIDE DEF f
<1>3. /\ connected /\ Frames \in Seq(AckFrames) /\ \A g \in ToSet(Frames) : Truthful(g)
      /\ client # NewClient
      /\ acks = IF client.phase = "handshake" THEN <<Response>> \o Frames ELSE Frames
  BY <1>1 DEF ZeroRttInv, AnswerPart
<1>4. q \in Seq(AckFrames) /\ ToSet(q) = ToSet(Frames) \cup {f}
  BY <1>2, <1>3, ToSetAppend
<1>5. \A g \in ToSet(q) : Truthful(g)'
  BY <1>2, <1>3, <1>4, TruthStays
<1>6. acks' = IF client'.phase = "handshake" THEN <<Response>> \o q ELSE q
  <2>1. Append(<<Response>> \o Frames, f) = <<Response>> \o q
    BY <1>2, <1>3, FramesIs
  <2> QED
    BY <1>1, <1>3, <2>1
<1> HIDE DEF q
<1>7. AnswerPart'
  <2>1. connected' /\ client' # NewClient
    BY <1>1, <1>3
  <2> QED
    BY <1>4, <1>5, <1>6, <2>1, AnswerMake
<1>8. ViewPart' /\ SizesPart'
  BY <1>1, ViewStays DEF ZeroRttInv, SizesPart
<1>9. OrderPart'
  BY <1>1, <1>2 DEF ZeroRttInv, OrderPart, InTransit, Net, Behind, WithInitial,
     InitialPacket, NewClient, NewStream
<1> QED
  BY <1>2, <1>7, <1>8, <1>9 DEF ZeroRttInv

LEMMA LosePacketInv ==
  ASSUME ZeroRttInv, LosePacket PROVE ZeroRttInv'
<1>1. /\ data # << >> /\ data' = Tail(data) /\ UNCHANGED <<client, serverVars>>
      /\ connected' = connected /\ acks' = acks
  BY DEF LosePacket, LoseData
<1>2. ServerPart' /\ arrived' = arrived /\ ack_timer' = ack_timer /\ ViewPart'
  BY <1>1, ServerStays, ViewStays DEF ZeroRttInv
<1>3. OrderPart'
  BY <1>1, <1>2, DropOrder DEF ZeroRttInv
<1>4. AnswerPart'
  <2>1. CASE connected
    <3>1. Frames \in Seq(AckFrames) /\ \A f \in ToSet(Frames) : Truthful(f)'
      BY <1>2, TruthStays DEF ZeroRttInv, AnswerPart
    <3>2. /\ connected' /\ client' # NewClient
          /\ acks' = IF client'.phase = "handshake" THEN <<Response>> \o Frames ELSE Frames
      BY <1>1, <2>1 DEF ZeroRttInv, AnswerPart
    <3> QED
      BY <3>1, <3>2, AnswerMake
  <2>2. CASE ~connected
    BY <1>1, <1>2, <2>2, AnswerQuiet DEF ZeroRttInv, AnswerPart
  <2> QED
    BY <2>1, <2>2
<1>5. SizesPart'
  BY <1>1 DEF ZeroRttInv, SizesPart
<1> QED
  BY <1>2, <1>3, <1>4, <1>5 DEF ZeroRttInv

LEMMA LoseAnswerInv ==
  ASSUME ZeroRttInv, LoseAnswer, "response" \notin Losable
  PROVE  ZeroRttInv' /\ UNCHANGED <<client, serverVars, data, connected, delivered>>
<1> DEFINE q == Tail(Frames)
<1>1. /\ acks # << >> /\ acks' = Tail(acks) /\ Head(acks) # Response
      /\ UNCHANGED <<client, serverVars, data, connected, delivered>>
  BY DEF LoseAnswer, LoseAck
<1>2. connected /\ acks = Frames /\ Frames \in Seq(AckFrames)
      /\ \A f \in ToSet(Frames) : Truthful(f)
  BY <1>1 DEF ZeroRttInv, AnswerPart, Frames
<1>3. client.phase # "handshake"
  <2>1. acks # <<Response>> \o Frames
    BY <1>1, <1>2, FramesIs
  <2> QED
    BY <1>2, <2>1 DEF ZeroRttInv, AnswerPart
<1>4. q \in Seq(AckFrames) /\ ToSet(q) \subseteq ToSet(Frames)
  BY <1>1, <1>2, TailIs
<1>5. acks' = q
  BY <1>1, <1>2
<1> HIDE DEF q
<1>6. ServerPart' /\ arrived' = arrived /\ ViewPart'
  BY <1>1, ServerStays, ViewStays DEF ZeroRttInv
<1>7. \A f \in ToSet(q) : Truthful(f)'
  BY <1>2, <1>4, <1>6, TruthStays
<1>8. AnswerPart'
  <2>1. connected' /\ client' # NewClient /\ client'.phase # "handshake"
    BY <1>1, <1>2, <1>3 DEF ZeroRttInv, AnswerPart
  <2> QED
    BY <1>4, <1>5, <1>7, <2>1, AnswerMake
<1>9. OrderPart' /\ SizesPart'
  BY <1>1, <1>6 DEF ZeroRttInv, OrderPart, InTransit, Net, Behind, WithInitial,
     InitialPacket, NewClient, NewStream, SizesPart
<1> QED
  BY <1>1, <1>6, <1>8, <1>9 DEF ZeroRttInv

LEMMA ZeroRttStart == ZeroRttInit => ZeroRttInv
<1> SUFFICES ASSUME ZeroRttInit PROVE ZeroRttInv
  OBVIOUS
<1> DEFINE none == << >>
<1>1. /\ client = NewClient /\ data = none /\ acks = none /\ S!ServerInit /\ ~connected
  BY DEF ZeroRttInit, Init, ClientInit
<1>2. /\ ServerPart /\ arrived = {} /\ ~ack_timer
  BY <1>1, ServerStart DEF S!ServerInit
<1>3. none \in Seq(Packet) /\ none \in Seq(AckFrames) /\ ToSet(none) = {} /\ Sorted(none)
      /\ none = << >>
  BY ToSetEmpty DEF Sorted
<1> HIDE DEF none
<1>4. /\ client.phase = "handshake"
      /\ client.streams = [i \in DOMAIN StreamSizes |-> NewStream(StreamSizes[i])]
  BY <1>1, InitResting
<1>5. ViewPart
  BY <1>1 DEF ViewPart
<1>6. Net = none /\ Frames = none
  BY <1>1, <1>3 DEF Net, Behind, Frames
<1>7. OrderPart /\ AnswerPart
  BY <1>1, <1>2, <1>3, <1>4, <1>6 DEF OrderPart, InTransit, AnswerPart
<1>8. SizesPart
  BY <1>4 DEF SizesPart, NewStream
<1> QED
  BY <1>2, <1>5, <1>7, <1>8 DEF ZeroRttInv

-----------------------------------------------------------------------------
(***************************************************************************)
(* The safety properties, while no response is lost.                       *)
(***************************************************************************)
LEMMA ZeroRttStep ==
  ASSUME "response" \notin Losable, ZeroRttInv, [ZeroRttNext]_zeroRttVars
  PROVE  ZeroRttInv'
<1>1. CASE UNCHANGED zeroRttVars
  <2>1. /\ UNCHANGED <<client, serverVars, data, acks, connected>>
    BY <1>1 DEF zeroRttVars, vars
  <2>2. ServerPart' /\ arrived' = arrived /\ ack_timer' = ack_timer /\ ViewPart'
    BY <2>1, ServerStays, ViewStays DEF ZeroRttInv
  <2>3. Frames' = Frames /\ Net' = Net /\ Response' = Response /\ NewClient' = NewClient
    BY <2>1 DEF Frames, Net, Behind, Response, InitialPacket, NewClient, NewStream
  <2>4. \A f \in ToSet(Frames) : Truthful(f)'
    BY <2>2, TruthStays DEF ZeroRttInv, AnswerPart
  <2>5. AnswerPart'
    BY <2>1, <2>2, <2>3, <2>4 DEF ZeroRttInv, AnswerPart, AckFrames
  <2>6. OrderPart'
    BY <2>1, <2>2, <2>3 DEF ZeroRttInv, OrderPart, InTransit, WithInitial, InitialPacket
  <2>7. SizesPart'
    BY <2>1 DEF ZeroRttInv, SizesPart
  <2> QED
    BY <2>2, <2>5, <2>6, <2>7 DEF ZeroRttInv
<1> QED
  BY <1>1, HandshakeInitInv, HandshakeTimeoutInv, ServerReceivesInitialInv,
     ServerIgnoresInv, ServerReceivesDataInv, ServerSendsAckInv,
     ClientReceivesResponseInv, ClientReceivesFrameInv, DataTimeoutInv,
     LosePacketInv, LoseAnswerInv
  DEF ZeroRttNext

LEMMA ZeroRttAlways ==
  ASSUME "response" \notin Losable PROVE ZeroRttSpec => []ZeroRttInv
<1>1. ZeroRttInv /\ [ZeroRttNext]_zeroRttVars => ZeroRttInv'
  BY ZeroRttStep
<1> QED
  BY <1>1, ZeroRttStart, PTL DEF ZeroRttSpec

\* In a reconnection Bytes_in_flight is the size of the data packets of the
\* send queue after every handler: the Initial packet, which waits there for
\* the response, is in the queue without being counted, and is taken out of it
\* without being taken off (QuicConnectionClient.cc:66-108).
THEOREM FlightMatchesEarlyData ==
  ASSUME "response" \notin Losable PROVE ZeroRttSpec => []FlightMatchesData
<1>1. ZeroRttInv => FlightMatchesData
  <2> SUFFICES ASSUME ZeroRttInv PROVE FlightMatchesData
    OBVIOUS
  <2> DEFINE q == View.queue
  <2>1. /\ Resting(View) /\ View.Bytes_in_flight = client.Bytes_in_flight
        /\ client = NewClient => View = NewClient
        /\ client.phase # "handshake" => View = client
        /\ client.phase = "handshake" => client = NewClient \/ Waiting(client)
    BY ViewIs DEF ZeroRttInv
  <2>2. ClientInv(View) /\ View.waiting = << >> /\ q \in Seq(Packet)
    BY <2>1 DEF Resting, ClientInv, ClientType
  <2>3. View.Bytes_in_flight = TotalSize(q) + TotalSize(View.waiting)
    BY <2>2 DEF ClientInv, Accounted
  <2>4. TotalSize(View.waiting) = 0 /\ TotalSize(q) \in Nat
    BY <2>2, TotalSizeFacts DEF ClientInv, ClientType
  <2>5. client.queue = q \/ client.queue = WithInitial(q)
    <3>1. CASE Waiting(client)
      BY <3>1, HoldingIs DEF Waiting, View
    <3>2. CASE ~Waiting(client)
      BY <2>1, <3>2
    <3> QED
      BY <3>1, <3>2
  <2> HIDE DEF q
  <2>6. WithoutNumbers(client.queue, {InitialNumber}) = q
    BY <2>2, <2>5, WithoutInitial
  <2> QED
    BY <2>1, <2>3, <2>4, <2>6 DEF FlightMatchesData
<1> QED
  BY <1>1, ZeroRttAlways, PTL

\* A reconnection loses no credit of a stream and grants none twice: what the
\* 0-RTT packets took before the response is counted like any other.
THEOREM EarlyCreditConserved ==
  ASSUME "response" \notin Losable PROVE ZeroRttSpec => []CreditConserved
<1>1. ZeroRttInv => CreditConserved
  <2> SUFFICES ASSUME ZeroRttInv, client.phase # "handshake",
                      NEW i \in DOMAIN client.streams
               PROVE  StreamWindow = client.streams[i].window + Outstanding(i)
                        + StreamBytes(AllFrames(ByNumber(client.ooo)), i)
    BY DEF CreditConserved
  <2>1. ClientInv(client) /\ client.waiting = << >> /\ Credited(client)
    BY ViewIs DEF ZeroRttInv, Fresh, Resting
  <2>2. StreamWindow = client.streams[i].window + Carried(client.queue, i)
          + Carried(client.waiting, i) + Carried(ByNumber(client.ooo), i)
    BY <2>1 DEF Credited
  <2>3. /\ Carried(client.waiting, i) = 0 /\ Carried(client.queue, i) \in Nat
        /\ client.streams[i].window \in Nat
    BY <2>1, CarriedFacts, StreamFields DEF ClientInv, ClientType
  <2>4. Outstanding(i) = Carried(client.queue, i)
    BY DEF Outstanding, Carried
  <2>5. StreamBytes(AllFrames(ByNumber(client.ooo)), i) = Carried(ByNumber(client.ooo), i)
    BY DEF Carried
  <2> QED
    BY <2>2, <2>3, <2>4, <2>5
<1> QED
  BY <1>1, ZeroRttAlways, PTL

\* While no response is lost the Initial packet is sent again until the
\* response is there: its timer runs from the handshake to the response, over
\* every repetition (ConnectionManager.cc:278, "cancel timeout on initial
\* packet").
THEOREM HandshakeStaysRetried ==
  ASSUME "response" \notin Losable PROVE ZeroRttSpec => []HandshakeIsRetried
<1>1. ZeroRttInv => HandshakeIsRetried
  BY ViewIs DEF ZeroRttInv, HandshakeIsRetried, Waiting, Holding
<1> QED
  BY <1>1, ZeroRttAlways, PTL

-----------------------------------------------------------------------------
(***************************************************************************)
(* The promise.  What waits behind the Initial packet, at the client and   *)
(* in the network, follows QuicRetransmission; the Initial packet itself   *)
(* carries no byte.                                                        *)
(***************************************************************************)
RZ == INSTANCE QuicRetransmissionProofs
  WITH Bytes <- AllBytes, written <- Written, taken <- Taken,
       queue <- PacketSet(View.queue), network <- PacketSet(Net),
       packet_counter <- client.packet_counter,
       closed <- client.phase = "closed"

LEMMA TurnRetransmits ==
  ASSUME ZeroRttInv, NEW v, ViewTurn(v) PROVE RZ!ClientTurn
<1> DEFINE Q == PacketSet(View.queue)
           R == PacketSet(v.queue)
           made == R \ Q
<1>1. PICK A \in SUBSET arrived : Going(View, v, A)
  BY DEF ViewTurn
<1>2. /\ ClientInv(View) /\ View.packet_counter = client.packet_counter
      /\ View.streams = client.streams
  BY ViewIs DEF ZeroRttInv
<1>3. TurnAllowed(View, v, Net, arrived)
  BY <1>1, <1>2, TurnIsAllowed DEF ZeroRttInv, OrderPart, InTransit, ViewTurn
<1>4. /\ View'.queue = v.queue /\ client'.streams = v.streams
      /\ client'.phase = v.phase /\ client'.packet_counter = v.packet_counter
      /\ Net' = Net \o v.out /\ client.phase # "closed"
      /\ arrived' = arrived /\ delivered' = delivered
  <2>1. v.waiting = << >> /\ View' = [v EXCEPT !.out = << >>]
    BY DEF ViewTurn
  <2>2. View'.queue = v.queue
    BY <1>1, <2>1, EmitResting
  <2> QED
    BY <2>2 DEF ViewTurn, serverVars
<1>5. /\ Written = WrittenOf(View.streams) /\ Taken = TakenOf(View.streams)
      /\ Written' = WrittenOf(v.streams) /\ Taken' = TakenOf(v.streams)
  BY <1>2, <1>4 DEF Written, Taken, WrittenOf, TakenOf
<1>6. PacketSet(View.queue)' = R /\ PacketSet(Net)' = PacketSet(Net \o v.out)
  BY <1>4 DEF PacketSet, BytesOf
<1>7. /\ v.packet_counter \in Nat /\ client.packet_counter <= v.packet_counter
      /\ \A m \in made :
           /\ m.number \in client.packet_counter .. v.packet_counter - 1
           /\ \/ /\ m.history = {} /\ m.bytes \subseteq Written
                 /\ m.bytes \cap Taken = {}
              \/ \E p \in Q \ R : Repeats(m, p)
      /\ \A m, n \in made : m # n =>
           /\ m.number # n.number
           /\ \A p \in Q : ~(Repeats(m, p) /\ Repeats(n, p))
      /\ \A p \in Q \ R : p.number \in arrived \/ \E m \in made : Repeats(m, p)
      /\ PacketSet(Net)' = PacketSet(Net) \cup made
      /\ Taken' = Taken \cup UNION {p.bytes : p \in made}
      /\ Written' = Written
      /\ v.phase = "closed" => R = {} /\ Taken' = Written
  BY <1>2, <1>3, <1>5, <1>6 DEF TurnAllowed
<1> HIDE DEF Q, R
<1>8. \A m, p : RZ!Resends(m, p) <=> Repeats(m, p)
  BY DEF RZ!Resends, RZ!Names, Repeats
<1>9. RZ!Made = made
  BY <1>6 DEF RZ!Made, Q
<1>10. \A m : RZ!Fresh(m) <=>
          m.history = {} /\ m.bytes \subseteq Written /\ m.bytes \cap Taken = {}
  BY DEF RZ!Fresh
<1>11. RZ!BytesIn(made) = UNION {p.bytes : p \in made}
  BY DEF RZ!BytesIn
<1> HIDE DEF made
<1>12. (client.phase = "closed")' \in BOOLEAN
  OBVIOUS
<1> QED
  BY <1>4, <1>6, <1>7, <1>8, <1>9, <1>10, <1>11, <1>12 DEF RZ!ClientTurn, Q

\* A step of server or network leaves the rest.
LEMMA ViewKept ==
  ASSUME UNCHANGED client
  PROVE  /\ Written' = Written /\ Taken' = Taken
         /\ PacketSet(View.queue)' = PacketSet(View.queue)
         /\ client.packet_counter' = client.packet_counter
         /\ (client.phase = "closed")' = (client.phase = "closed")
<1>1. View' = View
  BY DEF View, BehindInitial, Behind, InitialPacket
<1>2. PacketSet(View.queue)' = PacketSet(View'.queue)
  BY DEF PacketSet, BytesOf
<1> QED
  BY <1>1, <1>2, ClientStays

LEMMA NetSet == PacketSet(Net)' = PacketSet(Net')
BY DEF PacketSet, BytesOf

LEMMA DataArrives ==
  ASSUME ZeroRttInv, ServerReceivesData
  PROVE  \E p \in PacketSet(Net) : RZ!Arrive(p)
<1> DEFINE h == Head(Net)
           p == Abs(h)
<1>1. /\ Net # << >> /\ Net' = Tail(Net) /\ UNCHANGED client
      /\ arrived' = arrived \cup Names(h) /\ delivered' = delivered \cup BytesOf(h)
  BY ServerReceivesDataInv
<1>2. p \in PacketSet(Net) /\ PacketSet(Net)' = PacketSet(Net) \ {p}
  BY <1>1, NetSet, HeadLeaves DEF ZeroRttInv, OrderPart, InTransit
<1> HIDE DEF h
<1>3. p.number = h.number /\ p.history = h.history /\ p.bytes = BytesOf(h)
  BY AbsIs
<1> HIDE DEF p
<1>4. arrived' = arrived \cup RZ!Names(p)
  BY <1>1, <1>3 DEF RZ!Names, Names
<1>5. RZ!Arrive(p)
  BY <1>1, <1>2, <1>3, <1>4, ViewKept DEF RZ!Arrive
<1> QED
  BY <1>2, <1>5

\* A packet that leaves the network without an effect: the Initial packet, a
\* packet the server ignores, or a lost one.
LEMMA DataDrops ==
  ASSUME ZeroRttInv, data # << >>, data' = Tail(data),
         UNCHANGED <<client, arrived, delivered>>
  PROVE  \/ UNCHANGED RZ!retransmissionVars
         \/ \E p \in PacketSet(Net) : RZ!Lose(p)
<1> DEFINE p == Abs(Head(Net))
<1>1. Net' = Net \/ (Net # << >> /\ Net' = Tail(Net))
  BY NetDrop DEF ZeroRttInv
<1>2. CASE Net' = Net
  <2>1. PacketSet(Net)' = PacketSet(Net)
    BY <1>2, NetSet
  <2> QED
    BY <2>1, ViewKept DEF RZ!retransmissionVars
<1>3. CASE Net # << >> /\ Net' = Tail(Net)
  <2>1. p \in PacketSet(Net) /\ PacketSet(Net)' = PacketSet(Net) \ {p}
    BY <1>3, NetSet, HeadLeaves DEF ZeroRttInv, OrderPart, InTransit
  <2> HIDE DEF p
  <2>2. RZ!Lose(p)
    BY <2>1, ViewKept DEF RZ!Lose
  <2> QED
    BY <2>1, <2>2
<1> QED
  BY <1>1, <1>2, <1>3

LEMMA ZeroRttRetransmissionStart ==
  ASSUME ZeroRttInit PROVE RZ!RetransmissionInit
<1>1. Written \in SUBSET AllBytes
  BY ZeroRttStart, WrittenBounded DEF ZeroRttInv
<1>2. /\ client = NewClient /\ data = << >> /\ arrived = {} /\ delivered = {}
  BY DEF ZeroRttInit, Init, ClientInit, S!ServerInit
<1>3. /\ client.phase = "handshake" /\ client.packet_counter = 0
      /\ client.streams = [i \in DOMAIN StreamSizes |-> NewStream(StreamSizes[i])]
      /\ client.queue = << >>
  BY <1>2, InitResting DEF Idle
<1>4. View = client /\ Net = << >>
  BY <1>2, NewIs DEF View, Net, Behind
<1>5. PacketSet(View.queue) = {} /\ PacketSet(Net) = {}
  BY <1>3, <1>4 DEF PacketSet
<1>6. Taken = {}
  <2>1. \A i \in DOMAIN client.streams : client.streams[i].offset = 0
    BY <1>3 DEF NewStream
  <2>2. 0 .. 0 - 1 = {}
    OBVIOUS
  <2> QED
    BY <2>1, <2>2 DEF Taken
<1>7. (client.phase = "closed") = FALSE
  BY <1>3
<1> QED
  BY <1>1, <1>2, <1>3, <1>5, <1>6, <1>7 DEF RZ!RetransmissionInit

LEMMA ZeroRttRetransmissionStep ==
  ASSUME ZeroRttInv, [ZeroRttNext]_zeroRttVars
  PROVE  [RZ!RetransmissionNext]_(RZ!retransmissionVars)
<1> DEFINE Stays == UNCHANGED RZ!retransmissionVars
<1>1. ASSUME UNCHANGED <<client, data, arrived, delivered>> PROVE Stays
  <2>1. Net' = Net
    BY <1>1 DEF Net, Behind, InitialPacket
  <2>2. PacketSet(Net)' = PacketSet(Net)
    BY <2>1, NetSet
  <2> QED
    BY <1>1, <2>2, ViewKept DEF RZ!retransmissionVars
<1> HIDE DEF Stays
<1>2. CASE HandshakeInit
  BY <1>2, HandshakeInitTurn, TurnRetransmits DEF RZ!RetransmissionNext
<1>3. CASE HandshakeTimeout
  BY <1>3, HandshakeTimeoutTurn, TurnRetransmits DEF RZ!RetransmissionNext
<1>4. CASE ClientReceivesResponse
  BY <1>4, ResponseTurn, TurnRetransmits DEF RZ!RetransmissionNext
<1>5. CASE ClientReceivesFrame
  <2>1. /\ UNCHANGED serverVars
        /\ client.phase = "closed" => UNCHANGED <<client, data, delivered>>
        /\ client.phase # "closed" => \E v : ViewTurn(v)
    BY <1>5, FrameTurn
  <2>2. CASE client.phase = "closed"
    BY <1>1, <2>1, <2>2 DEF Stays, serverVars
  <2>3. CASE client.phase # "closed"
    BY <2>1, <2>3, TurnRetransmits DEF RZ!RetransmissionNext
  <2> QED
    BY <2>2, <2>3
<1>6. CASE DataTimeout
  BY <1>6, DataTimeoutTurn, TurnRetransmits DEF RZ!RetransmissionNext
<1>7. CASE ServerReceivesData
  BY <1>7, DataArrives DEF RZ!RetransmissionNext
<1>8. CASE ServerReceivesInitial \/ ServerIgnores \/ LosePacket
  <2>1. data # << >> /\ data' = Tail(data) /\ UNCHANGED <<client, arrived, delivered>>
    BY <1>8 DEF ServerReceivesInitial, ServerIgnores, LosePacket, LoseData, serverVars
  <2> QED
    BY <2>1, DataDrops DEF RZ!RetransmissionNext
<1>9. CASE ServerSendsAck \/ LoseAnswer \/ UNCHANGED zeroRttVars
  <2>1. UNCHANGED <<client, data, arrived, delivered>>
    BY <1>9 DEF ServerSendsAck, ServerAckTimeout, S!AckTimeout, LoseAnswer, LoseAck,
       zeroRttVars, vars, serverVars
  <2> QED
    BY <1>1, <2>1 DEF Stays
<1> QED
  BY <1>2, <1>3, <1>4, <1>5, <1>6, <1>7, <1>8, <1>9 DEF ZeroRttNext

LEMMA ZeroRttRetransmits ==
  ASSUME "response" \notin Losable PROVE ZeroRttSpec => RZ!RetransmissionSpec
<1>1. ZeroRttInit => RZ!RetransmissionInit
  BY ZeroRttRetransmissionStart
<1>2. ZeroRttInv /\ [ZeroRttNext]_zeroRttVars
        => [RZ!RetransmissionNext]_(RZ!retransmissionVars)
  BY ZeroRttRetransmissionStep
<1> QED
  BY <1>1, <1>2, ZeroRttAlways, PTL DEF ZeroRttSpec, RZ!RetransmissionSpec

\* A byte is acknowledged when it left its stream and is in no packet of the
\* send queue, in both specifications.
EarlyAcked == Taken \ RZ!BytesIn(PacketSet(View.queue))

EarlyAgrees == Acked = EarlyAcked

LEMMA InitialIsEmpty == BytesOf(InitialPacket) = {}
<1> DEFINE none == << >>
<1>1. InitialPacket.frames = none /\ DOMAIN none = {}
  BY DEF InitialPacket
<1> QED
  BY <1>1 DEF BytesOf

LEMMA QueueIs ==
  ASSUME ZeroRttInv
  PROVE  /\ View.queue \in Seq(Packet)
         /\ client.queue = View.queue \/ client.queue = WithInitial(View.queue)
<1>1. /\ Resting(View)
      /\ client = NewClient => View = NewClient
      /\ client.phase # "handshake" => View = client
      /\ client.phase = "handshake" => client = NewClient \/ Waiting(client)
  BY ViewIs DEF ZeroRttInv
<1>2. View.queue \in Seq(Packet)
  BY <1>1 DEF Resting, ClientInv, ClientType
<1>3. CASE Waiting(client)
  BY <1>2, <1>3, HoldingIs DEF Waiting, View
<1>4. CASE ~Waiting(client)
  BY <1>1, <1>2, <1>4
<1> QED
  BY <1>3, <1>4

LEMMA EarlyAckedIs == ZeroRttInv => EarlyAgrees
<1> SUFFICES ASSUME ZeroRttInv PROVE Acked = EarlyAcked
  BY DEF EarlyAgrees
<1> DEFINE q == View.queue
           r == client.queue
           Q == PacketSet(q)
<1>1. q \in Seq(Packet) /\ (r = q \/ r = WithInitial(q))
  BY QueueIs
<1>2. ToSet(r) = ToSet(q) \/ ToSet(r) = ToSet(q) \cup {InitialPacket}
  BY <1>1, FrontType
<1>3. Q = {Abs(p) : p \in ToSet(q)}
  BY PacketSetIs
<1> HIDE DEF q
<1>4. ASSUME NEW k \in DOMAIN r, NEW x \in BytesOf(r[k])
      PROVE  \E p \in Q : x \in p.bytes
  <2>1. r[k] \in ToSet(r)
    BY DEF ToSet
  <2>2. r[k] \in ToSet(q)
    BY <1>2, <1>4, <2>1, InitialIsEmpty
  <2>3. Abs(r[k]) \in Q
    BY <1>3, <2>2
  <2>4. x \in Abs(r[k]).bytes
    BY <1>4, AbsIs
  <2> QED
    BY <2>3, <2>4
<1>5. ASSUME NEW p \in Q, NEW x \in p.bytes
      PROVE  \E k \in DOMAIN r : x \in BytesOf(r[k])
  <2>1. PICK m \in ToSet(q) : p = Abs(m)
    BY <1>3
  <2>2. x \in BytesOf(m)
    BY <1>5, <2>1, AbsIs
  <2>3. m \in ToSet(r)
    BY <1>2
  <2> QED
    BY <2>2, <2>3 DEF ToSet
<1> HIDE DEF Q, r
<1>6. UNION {BytesOf(r[k]) : k \in DOMAIN r} = UNION {p.bytes : p \in Q}
  BY <1>4, <1>5
<1> QED
  BY <1>6 DEF Acked, EarlyAcked, RZ!BytesIn, Q, q, r

LEMMA EarlyAckedStaysIs == ZeroRttInv' => EarlyAgrees'
BY EarlyAckedIs, PTL

LEMMA EarlyDeliveryIs ==
  ASSUME ZeroRttInv, ZeroRttInv'
  PROVE  /\ RZ!Delivery!DeliveryInit => Delivery!DeliveryInit
         /\ [RZ!Delivery!DeliveryNext]_(RZ!Delivery!deliveryVars)
              => [Delivery!DeliveryNext]_(Delivery!deliveryVars)
<1>1. Acked = Taken \ RZ!BytesIn(PacketSet(View.queue))
  BY EarlyAckedIs DEF EarlyAgrees, EarlyAcked
<1>2. Acked' = (Taken \ RZ!BytesIn(PacketSet(View.queue)))'
  BY EarlyAckedStaysIs DEF EarlyAgrees, EarlyAcked
<1>3. RZ!Delivery!DeliveryInit => Delivery!DeliveryInit
  BY <1>1 DEF RZ!Delivery!DeliveryInit, Delivery!DeliveryInit
<1>4. RZ!Delivery!Write => Delivery!Write
  BY <1>1, <1>2 DEF RZ!Delivery!Write, Delivery!Write
<1>5. RZ!Delivery!Deliver => Delivery!Deliver
  BY <1>1, <1>2 DEF RZ!Delivery!Deliver, Delivery!Deliver
<1>6. RZ!Delivery!Acknowledge => Delivery!Acknowledge
  BY <1>1, <1>2 DEF RZ!Delivery!Acknowledge, Delivery!Acknowledge
<1>7. UNCHANGED RZ!Delivery!deliveryVars => UNCHANGED Delivery!deliveryVars
  BY <1>1, <1>2 DEF RZ!Delivery!deliveryVars, Delivery!deliveryVars
<1> QED
  BY <1>3, <1>4, <1>5, <1>6, <1>7
  DEF RZ!Delivery!DeliveryNext, Delivery!DeliveryNext

\* A reconnection keeps the promise to the application, also for bytes that
\* left before the server knew of the connection and that it ignored: they are
\* acknowledged only after they arrived, an acknowledged byte is never taken
\* back into the send queue, and the connection is deleted when every byte of
\* its streams arrived.
THEOREM ZeroRttDelivers ==
  ASSUME "response" \notin Losable PROVE ZeroRttSpec => ImplementsDelivery
<1>1. ZeroRttSpec => RZ!RetransmissionSpec
  BY ZeroRttRetransmits
<1>2. RZ!RetransmissionSpec => RZ!Delivery!DeliverySpec
  BY RZ!RetransmissionDelivers
<1>3. ZeroRttInv /\ RZ!Delivery!DeliveryInit => Delivery!DeliveryInit
  <2> SUFFICES ASSUME ZeroRttInv, RZ!Delivery!DeliveryInit PROVE Delivery!DeliveryInit
    OBVIOUS
  <2>1. Acked = Taken \ RZ!BytesIn(PacketSet(View.queue))
    BY EarlyAckedIs DEF EarlyAgrees, EarlyAcked
  <2> QED
    BY <2>1 DEF RZ!Delivery!DeliveryInit, Delivery!DeliveryInit
<1>4. ZeroRttInv /\ ZeroRttInv' /\ [RZ!Delivery!DeliveryNext]_(RZ!Delivery!deliveryVars)
        => [Delivery!DeliveryNext]_(Delivery!deliveryVars)
  BY EarlyDeliveryIs
<1>5. ZeroRttSpec => []ZeroRttInv
  BY ZeroRttAlways
<1>6. []ZeroRttInv /\ RZ!Delivery!DeliverySpec => Delivery!DeliverySpec
  BY <1>3, <1>4, PTL DEF RZ!Delivery!DeliverySpec, Delivery!DeliverySpec
<1> QED
  BY <1>1, <1>2, <1>5, <1>6 DEF ImplementsDelivery

\* A reconnection that the client deleted is complete: the server has every
\* byte of every stream, and neither a packet nor a timer, not even that of the
\* Initial packet, is left.
THEOREM EarlyClosedMeansComplete ==
  ASSUME "response" \notin Losable PROVE ZeroRttSpec => []ClosedIsComplete
<1>1. ZeroRttInv /\ RZ!Delivery!DeliveredBeforeClosed => ClosedIsComplete
  <2> SUFFICES ASSUME ZeroRttInv, RZ!Delivery!DeliveredBeforeClosed,
                      client.phase = "closed"
               PROVE  ClosedIsComplete
    BY DEF ClosedIsComplete
  <2>1. delivered = Written
    BY DEF RZ!Delivery!DeliveredBeforeClosed
  <2>2. \A i \in DOMAIN client.streams :
          \A b \in 0 .. client.streams[i].size - 1 : <<i, b>> \in delivered
    BY <2>1 DEF Written
  <2>3. Fresh(client) /\ Done(client)
    <3>1. client # NewClient
      BY NewIs
    <3> QED
      BY <3>1 DEF ZeroRttInv, ViewPart, Waiting
  <2>4. client.queue = << >> /\ client.timers \subseteq Numbers(client.queue)
    BY <2>3 DEF Done, Fresh, Timed
  <2>5. client.timers = {}
    BY <2>4 DEF Numbers
  <2> QED
    BY <2>2, <2>4, <2>5 DEF ClosedIsComplete
<1>2. ZeroRttSpec => RZ!RetransmissionSpec
  BY ZeroRttRetransmits
<1>3. RZ!RetransmissionSpec => []RZ!Delivery!DeliveredBeforeClosed
  BY RZ!RetransmissionSafe
<1>4. ZeroRttSpec => []ZeroRttInv
  BY ZeroRttAlways
<1> QED
  BY <1>1, <1>2, <1>3, <1>4, PTL

=============================================================================
