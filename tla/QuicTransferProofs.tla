------------------------- MODULE QuicTransferProofs -------------------------
(***************************************************************************)
(* Proofs about client, server and network together, for every size of the *)
(* streams, of the windows and of the packets, and for every number of     *)
(* losses, late timeouts and added streams.                                *)
(***************************************************************************)
EXTENDS QuicTransfer, QuicConnectionClientProofs

SP == INSTANCE QuicConnectionServerProofs WITH Packets <- {}

AckFrames ==
  [largest : Int, first : Int, ranges : Seq([gap : Int, length : Int])]

-----------------------------------------------------------------------------
(***************************************************************************)
(* The inductive invariant.                                                *)
(***************************************************************************)
ClientPart ==
  /\ Resting(client)
  /\ client.phase \in {"handshake", "open", "closed"}
  /\ client.phase # "handshake" => Credited(client)
  /\ client.phase = "handshake" => Idle(client)
  /\ client.phase = "closed" => Done(client)

ServerPart == SP!ServerInv /\ SP!NumbersArrived

\* The network keeps the order, and what arrived, the numbers N, was sent
\* before.
InTransit(packets, counter, N) ==
  /\ packets \in Seq(Packet)
  /\ Sorted(packets)
  /\ \A p \in ToSet(packets) : p.number < counter
  /\ \A n \in N : n < counter /\ \A p \in ToSet(packets) : n < p.number

NetPart == InTransit(data, client.packet_counter, arrived)

\* A frame only acknowledges what arrived, and an in order one everything up
\* to its largest number: it may take more out of the queue than it names.
Truthful(f) ==
  IF IsInOrder(f) THEN f.first \in Nat /\ 0 .. f.largest \subseteq arrived
  ELSE ToSet(DecodeAck(f)) \subseteq arrived

AckPart ==
  /\ acks \in Seq(AckFrames)
  /\ \A f \in ToSet(acks) : Truthful(f)

\* Before the handshake response nothing is on its way.
StartPart ==
  client.phase = "handshake" => data = << >> /\ acks = << >> /\ ~ack_timer

SizesPart ==
  \E sizes \in {StreamSizes, StreamSizes \o AddedSizes} :
    /\ DOMAIN client.streams = DOMAIN sizes
    /\ \A i \in DOMAIN sizes : client.streams[i].size = sizes[i]

TransferInv ==
  ClientPart /\ ServerPart /\ NetPart /\ AckPart /\ StartPart /\ SizesPart

-----------------------------------------------------------------------------
(***************************************************************************)
(* The server: QuicConnectionServerProofs, for the packets of data.        *)
(***************************************************************************)
LEMMA PacketHistory ==
  ASSUME NEW p \in Packet
  PROVE  /\ p.number \in Nat /\ p.history \in SUBSET Nat /\ IsFiniteSet(p.history)
         /\ \A h \in p.history : h < p.number
<1>1. p.number \in Nat /\ p.history \in SUBSET Nat /\ \A h \in p.history : h < p.number
  BY DEF Packet
<1>2. p.history \subseteq 0 .. p.number
  BY <1>1
<1>3. IsFiniteSet(0 .. p.number)
  BY <1>1, FS_Interval
<1> QED
  BY <1>1, <1>2, <1>3, FS_Subset

LEMMA ServerStart == S!ServerInit => ServerPart
<1> SUFFICES ASSUME S!ServerInit PROVE ServerPart
  OBVIOUS
<1>1. SP!PacketsAssumption
  BY DEF SP!PacketsAssumption
<1>2. SP!ServerInit
  BY DEF S!ServerInit, SP!ServerInit, S!EmptyReceiver, SP!EmptyReceiver
<1>3. SP!ServerInv
  BY <1>1, <1>2, SP!InitInv
<1>4. SP!NumbersArrived
  BY DEF SP!NumbersArrived, S!ServerInit
<1> QED
  BY <1>3, <1>4 DEF ServerPart

LEMMA ServerArrival ==
  ASSUME ServerPart, NEW p \in Packet, \A n \in arrived : n < p.number,
         S!ReceivePacket(p)
  PROVE  /\ ServerPart'
         /\ arrived' = arrived \cup Names(p)
         /\ ack_timer' = TRUE
<1>1. SP!PacketsAssumption
  BY DEF SP!PacketsAssumption
<1>2. p.number \in Nat /\ p.history \in SUBSET Nat /\ SP!IsFiniteSet(p.history)
  BY PacketHistory DEF IsFiniteSet, SP!IsFiniteSet
<1>3. SP!ReceiveNumbers(p)
  BY DEF S!ReceivePacket, SP!ReceiveNumbers, S!InOrder, SP!InOrder,
     S!Listed, SP!Listed, S!Popped, SP!Popped, S!Below, SP!Below,
     S!Cardinality, SP!Cardinality, Cardinality
<1>4. SP!ServerInv'
  BY <1>1, <1>2, <1>3, SP!ReceiveInv DEF ServerPart
<1>5. p.number >= rcv_next
  <2>1. rcv_next \in Nat
    BY DEF ServerPart, SP!ServerInv, SP!ServerTypeOK
  <2>2. rcv_next # 0 => rcv_next - 1 \in arrived
    BY <2>1 DEF ServerPart, SP!NumbersArrived
  <2>3. rcv_next # 0 => rcv_next - 1 < p.number
    BY <2>2
  <2> QED
    BY <1>2, <2>1, <2>3
<1>6. SP!NumbersArrived'
  BY <1>1, <1>2, <1>3, <1>5, SP!ReceiveArrived DEF ServerPart
<1>7. arrived' = arrived \cup Names(p) /\ ack_timer' = TRUE
  BY DEF S!ReceivePacket, Names
<1> QED
  BY <1>4, <1>6, <1>7 DEF ServerPart

\* What the server reports: it counted every number it names.
LEMMA ServerTimeout ==
  ASSUME ServerPart, S!AckTimeout
  PROVE  /\ ServerPart' /\ arrived' = arrived
         /\ S!AckFrame \in AckFrames /\ Truthful(S!AckFrame)
<1>1. SP!PacketsAssumption
  BY DEF SP!PacketsAssumption
<1>2. SP!AckTimeout
  BY DEF S!AckTimeout, SP!AckTimeout
<1>3. SP!ServerInv'
  BY <1>1, <1>2, SP!AckTimeoutInv DEF ServerPart
<1>4. SP!NumbersArrived' /\ arrived' = arrived
  BY DEF ServerPart, SP!NumbersArrived, S!AckTimeout
<1>5. /\ rcv_next \in Nat /\ current_largest \in Int /\ ack_timer
      /\ received_out_of_order \in SUBSET Nat
      /\ IsFiniteSet(received_out_of_order)
      /\ received_out_of_order = {} => current_largest < rcv_next - 1
      /\ received_out_of_order \subseteq arrived
      /\ \A n \in 0 .. rcv_next - 1 : n \in arrived
  <2>1. IsFiniteSet(received_out_of_order)
    BY DEF ServerPart, SP!ServerInv, SP!ServerTypeOK, IsFiniteSet, SP!IsFiniteSet
  <2> QED
    BY <2>1 DEF ServerPart, SP!ServerInv, SP!ServerTypeOK, SP!ReportedBelowNext,
       SP!NumbersArrived, S!AckTimeout
<1> DEFINE list == received_out_of_order
           next == rcv_next
           out == OutOfOrderAck(list, next)
           in == InOrderAck(next, current_largest)
<1>6. S!AckFrame = IF list # {} THEN out ELSE in
  BY DEF S!AckFrame, S!OutOfOrderAck, OutOfOrderAck, S!InOrderAck, InOrderAck,
     S!HoleRanges, HoleRanges, S!LastRange, LastRange, S!AckRange, AckRange,
     S!Missing, Missing, S!Descending, Descending, S!Ascending, Ascending,
     S!Max, Max, S!Min, Min, S!Cardinality, Cardinality
<1>7. CASE list # {}
  <2>1. list \in SUBSET Int /\ next \in Int /\ list \subseteq arrived /\ IsFiniteSet(list)
    BY <1>5
  <2> HIDE DEF list, next
  <2>2. /\ out \in AckFrames /\ out.ranges # << >>
        /\ ToSet(DecodeAck(out)) = list
    <3>1. SP!IsFiniteSet(list)
      BY <2>1 DEF IsFiniteSet, SP!IsFiniteSet
    <3>2. LET f == SP!OutOfOrderAck(list, next)
          IN  /\ f \in SP!AckFrames /\ f.ranges # << >>
              /\ SP!ToSet(SP!DecodeAck(f)) = list
      BY <1>7, <2>1, <3>1, SP!AckRangesRoundTrip
    <3>3. out = SP!OutOfOrderAck(list, next)
      BY DEF OutOfOrderAck, SP!OutOfOrderAck, HoleRanges, SP!HoleRanges,
         LastRange, SP!LastRange, AckRange, SP!AckRange, Missing, SP!Missing,
         Descending, SP!Descending, Ascending, SP!Ascending, Max, SP!Max,
         Min, SP!Min, Cardinality, SP!Cardinality
    <3> HIDE DEF out
    <3>4. DecodeAck(out) = SP!DecodeAck(out)
      BY DEF DecodeAck, SP!DecodeAck, DecodeRange, SP!DecodeRange, Downwards,
         SP!Downwards, FoldLeft, SP!FoldLeft, MapThenFoldSet, SP!MapThenFoldSet,
         Max, SP!Max
    <3>5. ToSet(DecodeAck(out)) = SP!ToSet(DecodeAck(out))
      BY DEF ToSet, SP!ToSet
    <3> QED
      BY <3>2, <3>3, <3>4, <3>5 DEF AckFrames, SP!AckFrames
  <2>3. S!AckFrame = out
    BY <1>6, <1>7
  <2> HIDE DEF out
  <2>4. Truthful(out)
    BY <2>1, <2>2 DEF Truthful, IsInOrder
  <2> QED
    BY <1>3, <1>4, <2>2, <2>3, <2>4 DEF ServerPart
<1>8. CASE list = {}
  <2>1. S!AckFrame = in
    BY <1>6, <1>8
  <2> DEFINE none == << >>
             largest == next - 1
             first == (next - 1) - current_largest - 1
  <2>2. in = [largest |-> largest, first |-> first, ranges |-> none]
    BY DEF InOrderAck
  <2>3. largest \in Int /\ first \in Nat /\ none \in Seq([gap : Int, length : Int])
    BY <1>5, <1>8
  <2>4. 0 .. largest \subseteq arrived
    BY <1>5
  <2>5. none = << >>
    OBVIOUS
  <2> HIDE DEF in, largest, first, none
  <2>6. in \in AckFrames /\ IsInOrder(in) /\ in.first = first /\ in.largest = largest
    BY <2>2, <2>3, <2>5 DEF AckFrames, IsInOrder
  <2>7. Truthful(in)
    BY <2>3, <2>4, <2>6 DEF Truthful
  <2> QED
    BY <1>3, <1>4, <2>1, <2>6, <2>7 DEF ServerPart
<1> QED
  BY <1>7, <1>8

-----------------------------------------------------------------------------
(***************************************************************************)
(* The client.  What a turn of it leaves and sends.                        *)
(***************************************************************************)
LEMMA NetGrows ==
  ASSUME NEW c0, NEW c, NEW A, ClientInv(c0), Going(c0, c, A),
         NEW q, NEW N \in SUBSET Nat, InTransit(q, c0.packet_counter, N)
  PROVE  InTransit(q \o c.out, c.packet_counter, N)
<1> DEFINE r == q \o c.out
<1>1. /\ q \in Seq(Packet) /\ c.out \in Seq(Packet) /\ Sorted(q) /\ Sorted(c.out)
      /\ ToSet(c.out) \subseteq Known(c)
      /\ \A m \in ToSet(c.out) : m.number >= c0.packet_counter
      /\ \A m \in Known(c) : m.number < c.packet_counter /\ m.number \in Nat
      /\ c0.packet_counter \in Nat /\ c.packet_counter \in Nat
      /\ c0.packet_counter <= c.packet_counter
  <2>1. ClientInv(c) /\ Turn(c0, c, A)
    BY DEF Going
  <2>2. \A m \in Known(c) : m \in Packet
    BY <2>1, ToSetType DEF Known, Pending, ClientInv, ClientType
  <2>3. \A m \in Packet : m.number \in Nat
    BY DEF Packet
  <2>4. ToSet(c.out) \subseteq Known(c)
    BY <2>1 DEF Turn, TurnSends, Known, Pending
  <2> QED
    BY <2>1, <2>2, <2>3, <2>4
    DEF InTransit, ClientInv, ClientType, Ordered, Turn, TurnSends, TurnPackets
<1>2. \A p \in ToSet(q) : p.number < c0.packet_counter /\ p.number \in Nat
  <2>1. \A p \in ToSet(q) : p \in Packet
    BY <1>1, ToSetType
  <2> QED
    BY <2>1 DEF InTransit, Packet
<1>3. \A p \in ToSet(q), m \in ToSet(c.out) : p.number < m.number
  BY <1>1, <1>2
<1>4. r \in Seq(Packet) /\ ToSet(r) = ToSet(q) \cup ToSet(c.out) /\ Sorted(r)
  BY <1>1, <1>3, ToSetConcat, SortedConcat
<1> HIDE DEF r
<1>5. \A p \in ToSet(r) : p.number < c.packet_counter
  BY <1>1, <1>2, <1>4
<1>6. \A n \in N : n < c.packet_counter /\ \A p \in ToSet(r) : n < p.number
  BY <1>1, <1>4 DEF InTransit
<1> QED
  BY <1>4, <1>5, <1>6 DEF InTransit, r

LEMMA EmitParts ==
  ASSUME TransferInv, NEW c, NEW A, Going(client, c, A), c.waiting = << >>,
         c.phase \in {"open", "closed"}, c.phase = "closed" => Done(c),
         Emit(c), UNCHANGED arrived
  PROVE  /\ ClientPart' /\ NetPart' /\ SizesPart'
         /\ client'.phase = c.phase
<1>1. /\ Resting(client') /\ Credited(client')
      /\ client'.streams = c.streams /\ client'.queue = c.queue
      /\ client'.phase = c.phase /\ client'.packet_counter = c.packet_counter
      /\ Done(c) => Done(client')
  BY EmitResting DEF Emit
<1>2. ClientPart'
  BY <1>1 DEF ClientPart
<1>3. NetPart'
  <2>1. ClientInv(client) /\ arrived \in SUBSET Nat
        /\ InTransit(data, client.packet_counter, arrived)
    BY DEF TransferInv, ClientPart, Resting, NetPart, ServerPart, SP!ServerInv,
       SP!ServerTypeOK
  <2>2. InTransit(data \o c.out, c.packet_counter, arrived)
    BY <2>1, NetGrows
  <2> QED
    BY <1>1, <2>2 DEF NetPart, InTransit, Emit
<1>4. SizesPart'
  <2>1. /\ DOMAIN c.streams = DOMAIN client.streams
        /\ \A i \in DOMAIN client.streams : c.streams[i].size = client.streams[i].size
    BY DEF Going, Turn, TurnStreams
  <2> QED
    BY <1>1, <2>1 DEF TransferInv, SizesPart
<1> QED
  BY <1>1, <1>2, <1>3, <1>4

-----------------------------------------------------------------------------
(***************************************************************************)
(* The actions.                                                            *)
(***************************************************************************)
LEMMA TailIs ==
  ASSUME NEW T, NEW s \in Seq(T), s # << >>
  PROVE  /\ Head(s) \in T /\ Tail(s) \in Seq(T)
         /\ ToSet(s) = {Head(s)} \cup ToSet(Tail(s))
         /\ Sorted(s) => /\ Sorted(Tail(s))
                         /\ \A p \in ToSet(Tail(s)) : Head(s).number < p.number
<1> DEFINE t == Tail(s)
           n == Len(s)
<1>1. /\ n \in Nat \ {0} /\ DOMAIN s = 1 .. n /\ Head(s) = s[1] /\ Head(s) \in T
      /\ t \in Seq(T) /\ DOMAIN t = 1 .. n - 1
      /\ \A i \in 1 .. n - 1 : t[i] = s[i + 1]
  OBVIOUS
<1> HIDE DEF t, n
<1>2. \A i \in 1 .. n - 1 : i \in Nat /\ i + 1 \in 1 .. n /\ 1 < i + 1 /\ 1 \in 1 .. n
  BY <1>1
<1>3. \A i \in 1 .. n : i = 1 \/ \E j \in 1 .. n - 1 : i = j + 1
  <2> TAKE i \in 1 .. n
  <2>1. i = 1 \/ (i - 1 \in 1 .. n - 1 /\ i = (i - 1) + 1)
    BY <1>1
  <2> QED
    BY <2>1
<1>4. ToSet(s) = {Head(s)} \cup ToSet(t)
  <2>0. 1 \in 1 .. n
    BY <1>1
  <2>1. \A x \in ToSet(t) : x \in ToSet(s)
    BY <1>1, <1>2 DEF ToSet
  <2>2. Head(s) \in ToSet(s)
    BY <1>1, <2>0 DEF ToSet
  <2>3. ASSUME NEW i \in 1 .. n PROVE s[i] = Head(s) \/ s[i] \in ToSet(t)
    <3>1. CASE i = 1
      BY <1>1, <3>1
    <3>2. CASE i # 1
      <4>1. PICK j \in 1 .. n - 1 : i = j + 1
        BY <1>3, <3>2
      <4>2. s[i] = t[j] /\ j \in DOMAIN t
        BY <1>1, <4>1
      <4> QED
        BY <4>2 DEF ToSet
    <3> QED
      BY <3>1, <3>2
  <2>4. \A x \in ToSet(s) : x = Head(s) \/ x \in ToSet(t)
    BY <1>1, <2>3 DEF ToSet
  <2> QED
    BY <2>1, <2>2, <2>4
<1>5. ASSUME Sorted(s)
      PROVE  Sorted(t) /\ \A p \in ToSet(t) : Head(s).number < p.number
  <2>1. \A i, j \in 1 .. n - 1 : i < j => i + 1 < j + 1
    BY <1>2
  <2>2. Sorted(t)
    BY <1>1, <1>2, <1>5, <2>1 DEF Sorted
  <2>3. \A p \in ToSet(t) : Head(s).number < p.number
    <3> SUFFICES ASSUME NEW j \in DOMAIN t PROVE Head(s).number < t[j].number
      BY DEF ToSet
    <3>1. /\ t[j] = s[j + 1] /\ 1 \in DOMAIN s /\ j + 1 \in DOMAIN s /\ 1 < j + 1
      BY <1>1, <1>2
    <3> QED
      BY <1>1, <1>5, <3>1 DEF Sorted
  <2> QED
    BY <2>2, <2>3
<1> QED
  BY <1>1, <1>4, <1>5 DEF t

LEMMA HandshakeResponseInv ==
  ASSUME TransferInv, HandshakeResponse PROVE TransferInv'
<1> DEFINE c == SendReadyPackets(ProcessClientHandshakeResponse(client))
           A == {}
<1>1. /\ client.phase = "handshake" /\ Emit(c)
      /\ UNCHANGED <<serverVars, acks>>
  BY DEF HandshakeResponse, ReceiveHandshakeResponse
<1>2. Resting(client) /\ Idle(client)
  BY <1>1 DEF TransferInv, ClientPart
<1>3. /\ Going(client, c, A) /\ c.waiting = << >>
      /\ c.phase \in {"open", "closed"}
      /\ c.phase = "closed" => Done(c)
  BY <1>2, HandshakeGoing
<1> HIDE DEF c, A
<1>4. UNCHANGED arrived
  BY <1>1 DEF serverVars
<1>5. ClientPart' /\ NetPart' /\ SizesPart' /\ client'.phase = c.phase
  BY <1>1, <1>3, <1>4, EmitParts
<1>6. ServerPart' /\ AckPart'
  BY <1>1 DEF TransferInv, ServerPart, AckPart, Truthful, serverVars,
     SP!ServerInv, SP!ServerTypeOK, SP!WaitingAboveNext, SP!QuietMeansReported,
     SP!ReportedBelowNext, SP!ArrivedIsKept, SP!NumbersArrived
<1>7. StartPart'
  BY <1>3, <1>5 DEF StartPart
<1> QED
  BY <1>5, <1>6, <1>7 DEF TransferInv

LEMMA ServerReceivesInv ==
  ASSUME TransferInv, ServerReceives PROVE TransferInv'
<1> DEFINE p == Head(data)
<1>1. /\ data # << >> /\ S!ReceivePacket(p) /\ data' = Tail(data)
      /\ UNCHANGED <<client, acks>>
  BY DEF ServerReceives
<1>2. /\ p \in Packet /\ data' \in Seq(Packet)
      /\ ToSet(data) = {p} \cup ToSet(data')
      /\ Sorted(data') /\ \A r \in ToSet(data') : p.number < r.number
  BY <1>1, TailIs DEF TransferInv, NetPart, InTransit
<1> HIDE DEF p
<1>3. /\ \A n \in arrived : n < p.number /\ n < client.packet_counter
      /\ p.number < client.packet_counter /\ client.packet_counter \in Nat
      /\ p.number \in Nat /\ \A h \in p.history : h < p.number /\ h \in Nat
      /\ \A r \in ToSet(data') : r.number \in Nat
  <2>1. \A r \in Packet : r.number \in Nat
    BY DEF Packet
  <2> QED
    BY <1>2, <2>1, ToSetType, PacketHistory
    DEF TransferInv, NetPart, InTransit, ClientPart, Resting, ClientInv, ClientType
<1>4. /\ ServerPart' /\ arrived' = arrived \cup Names(p) /\ ack_timer' = TRUE
  BY <1>1, <1>2, <1>3, ServerArrival DEF TransferInv
<1>5. NetPart'
  <2>1. \A n \in arrived' : n <= p.number /\ n \in Int
    <3>1. \A n \in arrived : n \in Nat
      BY DEF TransferInv, ServerPart, SP!ServerInv, SP!ServerTypeOK
    <3> QED
      BY <1>3, <1>4, <3>1 DEF Names
  <2>2. \A n \in arrived' : /\ n < client.packet_counter
                            /\ \A r \in ToSet(data') : n < r.number
    BY <1>2, <1>3, <2>1
  <2>3. \A r \in ToSet(data') : r.number < client.packet_counter
    BY <1>2 DEF TransferInv, NetPart, InTransit
  <2> QED
    BY <1>1, <1>2, <2>2, <2>3 DEF NetPart, InTransit
<1>6. AckPart'
  <2>1. \A f \in ToSet(acks) : Truthful(f)'
    <3>1. arrived \subseteq arrived'
      BY <1>4
    <3> QED
      BY <3>1 DEF TransferInv, AckPart, Truthful
  <2> QED
    BY <1>1, <2>1 DEF TransferInv, AckPart
<1>7. client.phase # "handshake"
  BY <1>1 DEF TransferInv, StartPart
<1> QED
  BY <1>1, <1>4, <1>5, <1>6, <1>7
  DEF TransferInv, ClientPart, StartPart, SizesPart

LEMMA ServerAckTimeoutInv ==
  ASSUME TransferInv, ServerAckTimeout PROVE TransferInv'
<1> DEFINE f == S!AckFrame
<1>1. /\ S!AckTimeout /\ acks' = Append(acks, f) /\ ack_timer
      /\ UNCHANGED <<client, data>>
  BY DEF ServerAckTimeout, S!AckTimeout
<1>2. /\ ServerPart' /\ arrived' = arrived /\ f \in AckFrames /\ Truthful(f)
  BY <1>1, ServerTimeout DEF TransferInv
<1> HIDE DEF f
<1>3. AckPart'
  <2>1. /\ acks' \in Seq(AckFrames) /\ ToSet(acks') = ToSet(acks) \cup {f}
    BY <1>1, <1>2, ToSetAppend DEF TransferInv, AckPart
  <2> QED
    BY <1>2, <2>1 DEF TransferInv, AckPart, Truthful
<1>4. client.phase # "handshake"
  BY <1>1 DEF TransferInv, StartPart
<1> QED
  BY <1>1, <1>2, <1>3, <1>4 DEF TransferInv, ClientPart, NetPart, InTransit, StartPart, SizesPart

LEMMA ClientReceivesAckInv ==
  ASSUME TransferInv, ClientReceivesAck PROVE TransferInv'
<1> DEFINE f == Head(acks)
<1>1. /\ acks # << >> /\ acks' = Tail(acks)
      /\ UNCHANGED serverVars
      /\ client.phase # "closed" => ReceiveAck(f)
      /\ client.phase = "closed" => UNCHANGED <<client, data>>
  BY DEF ClientReceivesAck
<1>2. /\ f \in AckFrames /\ acks' \in Seq(AckFrames)
      /\ ToSet(acks') \subseteq ToSet(acks)
  BY <1>1, TailIs DEF TransferInv, AckPart
<1> HIDE DEF f
<1>3. ServerPart' /\ AckPart'
  BY <1>1, <1>2 DEF TransferInv, ServerPart, AckPart, Truthful, serverVars,
     SP!ServerInv, SP!ServerTypeOK, SP!WaitingAboveNext, SP!QuietMeansReported,
     SP!ReportedBelowNext, SP!ArrivedIsKept, SP!NumbersArrived
<1>4. client.phase # "handshake" /\ client.phase \in {"open", "closed"}
  BY <1>1 DEF TransferInv, StartPart, ClientPart
<1>5. UNCHANGED arrived
  BY <1>1 DEF serverVars
<1>6. CASE client.phase = "closed"
  BY <1>1, <1>3, <1>4, <1>5, <1>6
  DEF TransferInv, ClientPart, NetPart, InTransit, StartPart, SizesPart
<1>7. CASE client.phase # "closed"
  <2> DEFINE c == SendReadyPackets(
                    UpdateLostPackets(
                      ProcessClientACK(CancelRTO(client, f), f), f.largest))
             A == Numbers(RemovedPackets(client, f))
  <2>1. Emit(c)
    BY <1>1, <1>7 DEF ReceiveAck
  <2>2. Fresh(client)
    BY <1>4 DEF TransferInv, ClientPart, Resting, Fresh
  <2>3. AckFrame(f)
    BY <1>2 DEF AckFrame, AckFrames
  <2>4. /\ Going(client, c, A) /\ c.waiting = << >>
        /\ c.phase \in {client.phase, "closed"}
        /\ c.phase = "closed" => Done(c)
    BY <1>7, <2>2, <2>3, ReceiveAckGoing
  <2> HIDE DEF c, A
  <2>5. c.phase \in {"open", "closed"}
    BY <1>4, <2>4
  <2>6. ClientPart' /\ NetPart' /\ SizesPart' /\ client'.phase = c.phase
    BY <1>5, <2>1, <2>4, <2>5, EmitParts
  <2>7. StartPart'
    BY <2>5, <2>6 DEF StartPart
  <2> QED
    BY <1>3, <2>6, <2>7 DEF TransferInv
<1> QED
  BY <1>6, <1>7

\* A timer runs for a packet of the queue, which an open connection alone has.
LEMMA OpenTimers ==
  ASSUME TransferInv, NEW number \in client.timers
  PROVE  client.phase = "open" /\ Fresh(client)
<1>1. client.phase \in {"handshake", "closed"} => client.queue = << >>
  BY DEF TransferInv, ClientPart, Idle, Done
<1>2. client.queue # << >>
  <2>1. number \in Numbers(client.queue)
    BY DEF TransferInv, ClientPart, Resting, Timed
  <2> QED
    BY <2>1 DEF Numbers
<1> QED
  BY <1>1, <1>2 DEF TransferInv, ClientPart, Resting, Fresh

LEMMA ClientTimeoutInv ==
  ASSUME TransferInv, ClientTimeout PROVE TransferInv'
<1>1. PICK number \in client.timers : RetransmissionTimeout(number)
  BY DEF ClientTimeout
<1> DEFINE c == ExpireRTO(client, number)
           A == {}
<1>2. Emit(c) /\ UNCHANGED <<serverVars, acks>>
  BY <1>1 DEF ClientTimeout, RetransmissionTimeout
<1>3. client.phase = "open" /\ Fresh(client)
  BY OpenTimers
<1>4. Going(client, c, A) /\ c.waiting = << >> /\ c.phase = client.phase
  BY <1>3, ExpireGoing
<1> HIDE DEF c, A
<1>5. UNCHANGED arrived
  BY <1>2 DEF serverVars
<1>6. ClientPart' /\ NetPart' /\ SizesPart' /\ client'.phase = "open"
  BY <1>2, <1>3, <1>4, <1>5, EmitParts
<1>7. ServerPart' /\ AckPart'
  BY <1>2 DEF TransferInv, ServerPart, AckPart, Truthful, serverVars,
     SP!ServerInv, SP!ServerTypeOK, SP!WaitingAboveNext, SP!QuietMeansReported,
     SP!ReportedBelowNext, SP!ArrivedIsKept, SP!NumbersArrived
<1>8. StartPart'
  BY <1>6 DEF StartPart
<1> QED
  BY <1>6, <1>7, <1>8 DEF TransferInv

LEMMA ClientAddStreamsInv ==
  ASSUME TransferInv, ClientAddStreams PROVE TransferInv'
<1> DEFINE d == WithStreams(client, AddedSizes)
<1>1. /\ client' = d /\ AddedSizes # << >>
      /\ Len(client.streams) = Len(StreamSizes)
      /\ client.phase # "closed"
      /\ UNCHANGED <<serverVars, data, acks>>
  BY DEF ClientAddStreams, AddStreams, WithStreams
<1>2. AddedSizes \in Seq(Nat \ {0})
  BY TransferAssumption
<1>3. Resting(client)
  BY DEF TransferInv, ClientPart
<1>4. /\ Resting(d) /\ (Credited(client) => Credited(d)) /\ (Idle(client) => Idle(d))
      /\ d.phase = client.phase /\ d.queue = client.queue
      /\ d.packet_counter = client.packet_counter
      /\ Len(d.streams) = Len(client.streams) + Len(AddedSizes)
      /\ \A i \in DOMAIN client.streams :
           i \in DOMAIN d.streams /\ d.streams[i] = client.streams[i]
      /\ \A i \in DOMAIN AddedSizes :
           /\ d.streams[Len(client.streams) + i].size = AddedSizes[i]
           /\ d.streams[Len(client.streams) + i].offset = 0
  BY <1>2, <1>3, AddResting
<1> HIDE DEF d
<1>5. ClientPart'
  BY <1>1, <1>4 DEF TransferInv, ClientPart
<1>6. ServerPart' /\ AckPart' /\ NetPart' /\ StartPart'
  BY <1>1, <1>4 DEF TransferInv, ServerPart, AckPart, NetPart, InTransit, StartPart, Truthful,
     serverVars, SP!ServerInv, SP!ServerTypeOK, SP!WaitingAboveNext,
     SP!QuietMeansReported, SP!ReportedBelowNext, SP!ArrivedIsKept, SP!NumbersArrived
<1>7. SizesPart'
  <2> DEFINE sizes == StreamSizes \o AddedSizes
             n == Len(StreamSizes)
             m == Len(AddedSizes)
  <2>1. /\ n \in Nat /\ m \in Nat \ {0} /\ DOMAIN StreamSizes = 1 .. n
        /\ DOMAIN AddedSizes = 1 .. m /\ DOMAIN sizes = 1 .. n + m
        /\ \A i \in 1 .. n : sizes[i] = StreamSizes[i]
        /\ \A i \in 1 .. m : sizes[n + i] = AddedSizes[i]
    <3>1. StreamSizes \in Seq(Nat \ {0})
      BY ClientAssumption
    <3>2. Len(AddedSizes) # 0
      BY <1>1, <1>2
    <3> QED
      BY <1>2, <3>1, <3>2, ConcatIs
  <2>2. /\ client.streams \in Seq(Stream) /\ d.streams \in Seq(Stream)
    BY <1>3, <1>4 DEF Resting, ClientInv, ClientType, Streams
  <2> HIDE DEF sizes, n, m
  <2>3. DOMAIN client.streams = 1 .. n /\ DOMAIN d.streams = 1 .. n + m
    BY <1>1, <1>4, <2>2 DEF n, m
  <2>4. \A i \in 1 .. n : client.streams[i].size = StreamSizes[i]
    BY <2>1, <2>3 DEF TransferInv, SizesPart, sizes
  <2>5. ASSUME NEW i \in 1 .. n + m PROVE d.streams[i].size = sizes[i]
    <3>1. CASE i <= n
      <4>1. i \in 1 .. n
        BY <2>1, <3>1
      <4> QED
        BY <1>4, <2>1, <2>3, <2>4, <4>1
    <3>2. CASE i > n
      <4> DEFINE k == i - n
      <4>1. k \in 1 .. m /\ i = n + k
        BY <2>1, <3>2
      <4> HIDE DEF k
      <4> QED
        BY <1>1, <1>4, <2>1, <4>1 DEF n
    <3> QED
      BY <2>1, <3>1, <3>2
  <2> QED
    BY <1>1, <2>1, <2>3, <2>5 DEF SizesPart, sizes
<1> QED
  BY <1>5, <1>6, <1>7 DEF TransferInv

LEMMA LoseDataInv ==
  ASSUME TransferInv, LoseData PROVE TransferInv'
<1>1. /\ data # << >> /\ data' = Tail(data)
      /\ UNCHANGED <<client, serverVars, acks>>
  BY DEF LoseData
<1>2. /\ data' \in Seq(Packet) /\ ToSet(data') \subseteq ToSet(data) /\ Sorted(data')
  BY <1>1, TailIs DEF TransferInv, NetPart, InTransit
<1>3. NetPart'
  BY <1>1, <1>2 DEF TransferInv, NetPart, InTransit, serverVars
<1>4. client.phase # "handshake"
  BY <1>1 DEF TransferInv, StartPart
<1> QED
  BY <1>1, <1>3, <1>4
  DEF TransferInv, ClientPart, ServerPart, AckPart, StartPart, SizesPart, Truthful,
      serverVars, SP!ServerInv, SP!ServerTypeOK, SP!WaitingAboveNext,
      SP!QuietMeansReported, SP!ReportedBelowNext, SP!ArrivedIsKept, SP!NumbersArrived

LEMMA LoseAckInv ==
  ASSUME TransferInv, LoseAck PROVE TransferInv'
<1>1. /\ acks # << >> /\ acks' = Tail(acks)
      /\ UNCHANGED <<client, serverVars, data>>
  BY DEF LoseAck
<1>2. /\ acks' \in Seq(AckFrames) /\ ToSet(acks') \subseteq ToSet(acks)
  BY <1>1, TailIs DEF TransferInv, AckPart
<1>3. AckPart'
  BY <1>1, <1>2 DEF TransferInv, AckPart, Truthful, serverVars
<1>4. client.phase # "handshake"
  BY <1>1 DEF TransferInv, StartPart
<1> QED
  BY <1>1, <1>3, <1>4
  DEF TransferInv, ClientPart, ServerPart, NetPart, InTransit, StartPart, SizesPart,
      serverVars, SP!ServerInv, SP!ServerTypeOK, SP!WaitingAboveNext,
      SP!QuietMeansReported, SP!ReportedBelowNext, SP!ArrivedIsKept, SP!NumbersArrived

LEMMA TransferInit == Init => TransferInv
<1> SUFFICES ASSUME Init PROVE TransferInv
  OBVIOUS
<1> DEFINE none == << >>
<1>1. /\ client = NewClient /\ data = none /\ acks = none /\ S!ServerInit
  BY DEF Init, ClientInit
<1>2. /\ ServerPart /\ arrived = {} /\ ~ack_timer
  BY <1>1, ServerStart DEF S!ServerInit
<1>3. none \in Seq(Packet) /\ none \in Seq(AckFrames) /\ ToSet(none) = {} /\ Sorted(none)
      /\ none = << >>
  BY ToSetEmpty DEF Sorted
<1> HIDE DEF none
<1>4. /\ Resting(client) /\ Idle(client) /\ client.phase = "handshake"
      /\ client.streams = [i \in DOMAIN StreamSizes |-> NewStream(StreamSizes[i])]
  BY <1>1, InitResting
<1>5. ClientPart
  BY <1>4 DEF ClientPart
<1>6. NetPart /\ AckPart /\ StartPart
  BY <1>1, <1>2, <1>3 DEF NetPart, InTransit, AckPart, StartPart
<1>7. SizesPart
  BY <1>4 DEF SizesPart, NewStream
<1> QED
  BY <1>2, <1>5, <1>6, <1>7 DEF TransferInv

LEMMA TransferStep ==
  ASSUME TransferInv, [Next]_vars PROVE TransferInv'
<1>1. CASE UNCHANGED vars
  BY <1>1
  DEF vars, TransferInv, ClientPart, ServerPart, NetPart, InTransit, AckPart, StartPart, SizesPart,
      Truthful, serverVars, SP!ServerInv, SP!ServerTypeOK, SP!WaitingAboveNext,
      SP!QuietMeansReported, SP!ReportedBelowNext, SP!ArrivedIsKept, SP!NumbersArrived
<1> QED
  BY <1>1, HandshakeResponseInv, ServerReceivesInv, ServerAckTimeoutInv,
     ClientReceivesAckInv, ClientTimeoutInv, ClientAddStreamsInv, LoseDataInv, LoseAckInv
  DEF Next

LEMMA TransferAlways == Spec => []TransferInv
BY TransferInit, TransferStep, PTL DEF Spec

-----------------------------------------------------------------------------
(***************************************************************************)
(* The safety properties of the runs.                                      *)
(***************************************************************************)

\* Every byte a stream handed out is acknowledged or in exactly one packet of
\* the send queue, whatever was lost, late or sent again (QuicStreamArr.cc:106
\* ends a stream by this count).
THEOREM BytesAreConserved == Spec => []BytesConserved
<1>1. TransferInv => BytesConserved
  <2> SUFFICES ASSUME TransferInv, NEW i \in DOMAIN client.streams
               PROVE  client.streams[i].offset
                        = client.streams[i].ACKed_bytes + Outstanding(i)
    BY DEF BytesConserved
  <2>1. ClientInv(client) /\ client.waiting = << >>
    BY DEF TransferInv, ClientPart, Resting
  <2>2. client.streams[i].offset = client.streams[i].ACKed_bytes
          + Carried(client.queue, i) + Carried(client.waiting, i)
    BY <2>1 DEF ClientInv, Accounted
  <2>3. /\ Carried(client.waiting, i) = 0 /\ Carried(client.queue, i) \in Nat
        /\ client.streams[i].ACKed_bytes \in Nat
    BY <2>1, CarriedFacts, StreamFields DEF ClientInv, ClientType
  <2>4. Outstanding(i) = Carried(client.queue, i)
    BY DEF Outstanding, Carried
  <2> QED
    BY <2>2, <2>3, <2>4
<1> QED
  BY <1>1, TransferAlways, PTL

\* Bytes_in_flight is the size of the send queue after every handler, so the
\* window it is taken off (QuicConnectionClient.cc:159) is the real one.
THEOREM FlightAlwaysMatches == Spec => []FlightMatchesQueue
<1>1. TransferInv => FlightMatchesQueue
  <2> SUFFICES ASSUME TransferInv PROVE FlightMatchesQueue
    OBVIOUS
  <2>1. ClientInv(client) /\ client.waiting = << >>
    BY DEF TransferInv, ClientPart, Resting
  <2>2. client.Bytes_in_flight = TotalSize(client.queue) + TotalSize(client.waiting)
    BY <2>1 DEF ClientInv, Accounted
  <2>3. TotalSize(client.waiting) = 0 /\ TotalSize(client.queue) \in Nat
    BY <2>1, TotalSizeFacts DEF ClientInv, ClientType
  <2> QED
    BY <2>2, <2>3 DEF FlightMatchesQueue
<1> QED
  BY <1>1, TransferAlways, PTL

\* The credit of a stream is never lost or granted twice: an ACK out of order
\* holds it back, and exactly the ACK that closes the gap returns it
\* (updateFlowControl, QuicConnectionClient.cc).
THEOREM CreditIsConserved == Spec => []CreditConserved
<1>1. TransferInv => CreditConserved
  <2> SUFFICES ASSUME TransferInv, client.phase # "handshake",
                      NEW i \in DOMAIN client.streams
               PROVE  StreamWindow = client.streams[i].window + Outstanding(i)
                        + StreamBytes(AllFrames(ByNumber(client.ooo)), i)
    BY DEF CreditConserved
  <2>1. ClientInv(client) /\ client.waiting = << >> /\ Credited(client)
    BY DEF TransferInv, ClientPart, Resting
  <2>2. StreamWindow = client.streams[i].window + Carried(client.queue, i)
          + Carried(client.waiting, i) + Carried(ByNumber(client.ooo), i)
    BY <2>1 DEF Credited
  <2>3. /\ Carried(client.waiting, i) = 0 /\ Carried(client.queue, i) \in Nat
        /\ client.streams[i].window \in Nat
    BY <2>1, CarriedFacts, StreamFields DEF ClientInv, ClientType
  <2>4. Outstanding(i) = Carried(client.queue, i)
    BY DEF Outstanding, Carried
  <2>5. StreamBytes(AllFrames(ByNumber(client.ooo)), i) = Carried(ByNumber(client.ooo), i)
    BY DEF Carried
  <2> QED
    BY <2>2, <2>3, <2>4, <2>5
<1> QED
  BY <1>1, TransferAlways, PTL

\* No RTO timer runs for a packet that left the send queue, so handling its
\* expiry finds the packet (handleRetransmissionTimeout).
THEOREM TimersStayQueued == Spec => []TimersAreQueued
<1>1. TransferInv => TimersAreQueued
  BY DEF TransferInv, ClientPart, Resting, Timed, TimersAreQueued
<1> QED
  BY <1>1, TransferAlways, PTL

\* No number, current or of a history, names two packets of the send queue
\* (QuicSendQueue.cc:40, 95 take the first match).
THEOREM NumbersAlwaysNameOne == Spec => []NumbersNameOnePacket
<1>1. TransferInv => NumbersNameOnePacket
  <2> SUFFICES ASSUME TransferInv PROVE NumbersNameOnePacket
    OBVIOUS
  <2> DEFINE q == client.queue
  <2>1. /\ Ordered(client) /\ q \in Seq(Packet)
    BY DEF TransferInv, ClientPart, Resting, ClientInv, ClientType
  <2>2. \A i \in DOMAIN q : q[i] \in Known(client) /\ q[i] \in Packet
    BY <2>1 DEF Known, Pending, ToSet
  <2>3. ASSUME NEW i \in DOMAIN q, NEW j \in DOMAIN q, i < j
        PROVE  /\ q[i].number < q[j].number
               /\ q[i].history \cap q[j].history = {}
    <3>1. q[i].number < q[j].number
      BY <2>1, <2>3 DEF Ordered, Sorted
    <3>2. q[i].number \in Nat
      BY <2>2 DEF Packet
    <3>3. q[i] # q[j]
      BY <3>1, <3>2
    <3>4. Names(q[i]) \cap Names(q[j]) = {}
      BY <2>1, <2>2, <3>3 DEF Ordered
    <3> QED
      BY <3>1, <3>4 DEF Names
  <2>4. \A i \in DOMAIN q :
          /\ q[i].number < client.packet_counter
          /\ \A h \in q[i].history : h < q[i].number
    BY <2>1, <2>2 DEF Ordered, Packet
  <2> QED
    BY <2>3, <2>4 DEF NumbersNameOnePacket
<1> QED
  BY <1>1, TransferAlways, PTL

\* An in order number is never counted before it arrived: what an ACK up to
\* rcv_next - 1 says is true (QuicConnectionServer.cc:104-140).
THEOREM InOrderHasArrived == Spec => []InOrderArrived
<1>1. TransferInv => InOrderArrived
  BY DEF TransferInv, ServerPart, SP!NumbersArrived, InOrderArrived
<1> QED
  BY <1>1, TransferAlways, PTL

-----------------------------------------------------------------------------
(***************************************************************************)
(* The refinement.  Every handler of the client does to the packets what   *)
(* QuicRetransmission allows.                                              *)
(***************************************************************************)
Abs(p) == [number |-> p.number, history |-> p.history, bytes |-> BytesOf(p)]

TakenOf(streams) ==
  UNION {{<<i, b>> : b \in 0 .. streams[i].offset - 1} : i \in DOMAIN streams}

WrittenOf(streams) ==
  UNION {{<<i, b>> : b \in 0 .. streams[i].size - 1} : i \in DOMAIN streams}

LEMMA PacketSetIs ==
  ASSUME NEW q PROVE PacketSet(q) = {Abs(p) : p \in ToSet(q)}
BY DEF PacketSet, ToSet, Abs

LEMMA AbsIs ==
  ASSUME NEW p
  PROVE  /\ Abs(p).number = p.number /\ Abs(p).history = p.history
         /\ Abs(p).bytes = BytesOf(p)
BY DEF Abs

LEMMA BytesOfIs ==
  ASSUME NEW p \in Packet
  PROVE  \A x : x \in BytesOf(p) <=>
                  \E i, b \in Nat : x = <<i, b>> /\ Covers(p.frames, i, b)
<1> TAKE x
<1>1. p.frames \in Seq(StreamFrame)
  BY DEF Packet
<1>2. \A k \in DOMAIN p.frames : /\ p.frames[k].stream \in Nat /\ p.frames[k].offset \in Nat
                                 /\ p.frames[k].length \in Nat
  <2> TAKE k \in DOMAIN p.frames
  <2>1. p.frames[k] \in StreamFrame
    BY <1>1
  <2> QED
    BY <2>1 DEF StreamFrame
<1>3. ASSUME x \in BytesOf(p)
      PROVE  \E i, b \in Nat : x = <<i, b>> /\ Covers(p.frames, i, b)
  <2>1. PICK k \in DOMAIN p.frames :
          x \in {<<p.frames[k].stream, p.frames[k].offset + j>> :
                   j \in 0 .. p.frames[k].length - 1}
    BY <1>3 DEF BytesOf
  <2>2. PICK j \in 0 .. p.frames[k].length - 1 :
          x = <<p.frames[k].stream, p.frames[k].offset + j>>
    BY <2>1
  <2> DEFINE i == p.frames[k].stream
             b == p.frames[k].offset + j
  <2>3. i \in Nat /\ b \in Nat /\ p.frames[k].offset <= b
        /\ b < p.frames[k].offset + p.frames[k].length
    BY <1>2, <2>2
  <2>4. Covers(p.frames, i, b)
    BY <2>3 DEF Covers
  <2> QED
    BY <2>2, <2>3, <2>4
<1>4. ASSUME NEW i \in Nat, NEW b \in Nat, x = <<i, b>>, Covers(p.frames, i, b)
      PROVE  x \in BytesOf(p)
  <2>1. PICK k \in DOMAIN p.frames :
          /\ p.frames[k].stream = i /\ p.frames[k].offset <= b
          /\ b < p.frames[k].offset + p.frames[k].length
    BY <1>4 DEF Covers
  <2> DEFINE j == b - p.frames[k].offset
  <2>2. j \in 0 .. p.frames[k].length - 1 /\ p.frames[k].offset + j = b
    BY <1>2, <2>1
  <2> HIDE DEF j
  <2>3. x \in {<<p.frames[k].stream, p.frames[k].offset + h>> :
                 h \in 0 .. p.frames[k].length - 1}
    BY <1>4, <2>1, <2>2
  <2> QED
    BY <2>3 DEF BytesOf
<1> QED
  BY <1>3, <1>4

LEMMA StreamBytesOf ==
  ASSUME NEW streams, Streams(streams)
  PROVE  /\ \A x : x \in TakenOf(streams) <=>
              \E i \in DOMAIN streams, b \in Nat : x = <<i, b>> /\ b < streams[i].offset
         /\ \A x : x \in WrittenOf(streams) <=>
              \E i \in DOMAIN streams, b \in Nat : x = <<i, b>> /\ b < streams[i].size
<1>1. \A i \in DOMAIN streams : streams[i].offset \in Nat /\ streams[i].size \in Nat
  <2> TAKE i \in DOMAIN streams
  <2>1. streams[i] \in Stream
    BY DEF Streams
  <2> QED
    BY <2>1 DEF Stream
<1>2. \A i \in DOMAIN streams :
        /\ \A b : b \in 0 .. streams[i].offset - 1 <=> b \in Nat /\ b < streams[i].offset
        /\ \A b : b \in 0 .. streams[i].size - 1 <=> b \in Nat /\ b < streams[i].size
  BY <1>1
<1>3. \A x : x \in TakenOf(streams) <=>
        \E i \in DOMAIN streams : \E b \in 0 .. streams[i].offset - 1 : x = <<i, b>>
  BY DEF TakenOf
<1>4. \A x : x \in WrittenOf(streams) <=>
        \E i \in DOMAIN streams : \E b \in 0 .. streams[i].size - 1 : x = <<i, b>>
  BY DEF WrittenOf
<1> QED
  BY <1>2, <1>3, <1>4

\* The packets a turn makes and takes out, seen from QuicRetransmission.
LEMMA TurnSets ==
  ASSUME NEW c0, NEW c, NEW A, ClientInv(c0), ClientInv(c), Turn(c0, c, A),
         c.waiting = << >>
  PROVE  LET Q == PacketSet(c0.queue)
             R == PacketSet(c.queue)
             Gone == ToSet(c0.queue) \ ToSet(c.queue)
         IN  /\ R \ Q = {Abs(m) : m \in MadePackets(c0, c)}
             /\ Q \ R = {Abs(p) : p \in Gone}
             /\ Pending(c) = ToSet(c.queue)
             /\ MadePackets(c0, c) = ToSet(c.out)
             /\ c0.packet_counter \in Nat /\ c.packet_counter \in Nat
             /\ \A m \in MadePackets(c0, c) :
                  /\ m \in Packet /\ m \in Known(c) /\ m.number \in Nat
                  /\ c0.packet_counter <= m.number /\ m.number < c.packet_counter
             /\ \A p \in ToSet(c0.queue) :
                  p \in Packet /\ p.number \in Nat /\ p.number < c0.packet_counter
<1> DEFINE Q == PacketSet(c0.queue)
           R == PacketSet(c.queue)
           Gone == ToSet(c0.queue) \ ToSet(c.queue)
           M == MadePackets(c0, c)
<1>1. /\ c0.queue \in Seq(Packet) /\ c.queue \in Seq(Packet)
      /\ Sorted(c0.queue) /\ Ordered(c0) /\ Ordered(c)
      /\ c0.packet_counter \in Nat /\ c.packet_counter \in Nat
  BY DEF ClientInv, ClientType, Ordered
<1>2. Pending(c) = ToSet(c.queue)
  BY ToSetEmpty DEF Pending
<1>3. \A p \in Packet : p.number \in Nat
  BY DEF Packet
<1>4. \A p \in ToSet(c0.queue) :
        p \in Packet /\ p.number \in Nat /\ p.number < c0.packet_counter
  BY <1>1, <1>3, ToSetType DEF Ordered, Known, Pending
<1>5. \A p \in ToSet(c.queue) :
        p \in Packet /\ p.number \in Nat /\ p.number < c.packet_counter /\ p \in Known(c)
  BY <1>1, <1>3, ToSetType DEF Ordered, Known, Pending
<1>6. M = {m \in ToSet(c.queue) : m.number >= c0.packet_counter}
  BY <1>2 DEF MadePackets
<1>7. \A p \in ToSet(c.queue) : p.number < c0.packet_counter => p \in ToSet(c0.queue)
  BY <1>2 DEF Turn, TurnPackets
<1>8. M = ToSet(c.out)
  BY <1>6 DEF Turn, TurnSends
<1>9. \A p, r \in ToSet(c0.queue) : p.number = r.number => p = r
  BY <1>1, SortedDistinct DEF Distinct
<1> HIDE DEF M
<1>10. Q = {Abs(p) : p \in ToSet(c0.queue)} /\ R = {Abs(p) : p \in ToSet(c.queue)}
  BY PacketSetIs
<1> HIDE DEF Q, R
<1>11. \A m \in M : m \in ToSet(c.queue) /\ c0.packet_counter <= m.number
  BY <1>1, <1>5, <1>6
<1>12. R \ Q = {Abs(m) : m \in M}
  <2>1. ASSUME NEW m \in M PROVE Abs(m) \in R /\ Abs(m) \notin Q
    <3>1. Abs(m) \in R
      BY <1>10, <1>11
    <3>2. ASSUME Abs(m) \in Q PROVE FALSE
      <4>1. PICK p \in ToSet(c0.queue) : Abs(m) = Abs(p)
        BY <1>10, <3>2
      <4>2. m.number = p.number
        BY <4>1, AbsIs
      <4> QED
        BY <1>1, <1>4, <1>11, <4>2
    <3> QED
      BY <3>1, <3>2
  <2>2. ASSUME NEW x \in R, x \notin Q PROVE \E m \in M : x = Abs(m)
    <3>1. PICK m \in ToSet(c.queue) : x = Abs(m)
      BY <1>10
    <3>2. m \notin ToSet(c0.queue)
      BY <1>10, <2>2, <3>1
    <3>3. ~(m.number < c0.packet_counter)
      BY <1>7, <3>2
    <3>4. m \in M
      BY <1>1, <1>5, <1>6, <3>3
    <3> QED
      BY <3>1, <3>4
  <2> QED
    BY <2>1, <2>2
<1>13. Q \ R = {Abs(p) : p \in Gone}
  <2>1. ASSUME NEW p \in Gone PROVE Abs(p) \in Q /\ Abs(p) \notin R
    <3>1. Abs(p) \in Q
      BY <1>10
    <3>2. ASSUME Abs(p) \in R PROVE FALSE
      <4>1. PICK r \in ToSet(c.queue) : Abs(p) = Abs(r)
        BY <1>10, <3>2
      <4>2. p.number = r.number
        BY <4>1, AbsIs
      <4>3. r \in ToSet(c0.queue)
        BY <1>4, <1>7, <4>2
      <4> QED
        BY <1>9, <4>2, <4>3
    <3> QED
      BY <3>1, <3>2
  <2>2. ASSUME NEW x \in Q, x \notin R PROVE \E p \in Gone : x = Abs(p)
    BY <1>10, <2>2
  <2> QED
    BY <2>1, <2>2
<1>14. \A m \in M : /\ m \in Packet /\ m \in Known(c) /\ m.number \in Nat
                    /\ c0.packet_counter <= m.number /\ m.number < c.packet_counter
  BY <1>5, <1>11
<1> QED
  BY <1>1, <1>2, <1>4, <1>8, <1>12, <1>13, <1>14 DEF M, Q, R

\* What a turn makes, in the words of QuicRetransmission.
Repeats(m, p) == m.history = {p.number} \cup p.history /\ m.bytes = p.bytes

LEMMA ResentRepeats ==
  ASSUME NEW m, NEW p, Resent(m, p) PROVE Repeats(Abs(m), Abs(p))
BY DEF Resent, Repeats, Abs, Names, BytesOf

LEMMA TurnMakes ==
  ASSUME NEW c0, NEW c, NEW A, ClientInv(c0), ClientInv(c), Turn(c0, c, A),
         c.waiting = << >>
  PROVE  LET Q == PacketSet(c0.queue)
             R == PacketSet(c.queue)
         IN  /\ \A m \in R \ Q :
                  \/ /\ m.history = {}
                     /\ m.bytes \subseteq WrittenOf(c0.streams)
                     /\ m.bytes \cap TakenOf(c0.streams) = {}
                  \/ \E p \in Q \ R : Repeats(m, p)
             /\ \A m, n \in R \ Q : m # n =>
                  /\ m.number # n.number
                  /\ \A p \in Q : ~(Repeats(m, p) /\ Repeats(n, p))
             /\ \A p \in Q \ R : p.number \in A \/ \E m \in R \ Q : Repeats(m, p)
<1> DEFINE Q == PacketSet(c0.queue)
           R == PacketSet(c.queue)
           Gone == ToSet(c0.queue) \ ToSet(c.queue)
           M == MadePackets(c0, c)
<1>1. /\ R \ Q = {Abs(m) : m \in M}
      /\ Q \ R = {Abs(p) : p \in Gone}
      /\ Pending(c) = ToSet(c.queue)
      /\ \A m \in M : m \in Packet /\ m \in Known(c) /\ m.number \in Nat
  BY TurnSets
<1>2. /\ \A p \in Gone : p.number \in A \/ \E m \in M : Resent(m, p)
      /\ \A m \in M :
           \/ \E p \in Gone : Resent(m, p)
           \/ /\ m.history = {}
              /\ \A i, b \in Nat : Covers(m.frames, i, b) => ~(b < c0.streams[i].offset)
  BY <1>1 DEF Turn, TurnPackets
<1>3. /\ Ordered(c) /\ Sent(c) /\ Streams(c0.streams) /\ Streams(c.streams)
      /\ DOMAIN c.streams = DOMAIN c0.streams
      /\ \A i \in DOMAIN c0.streams : c.streams[i].size = c0.streams[i].size
  BY DEF ClientInv, ClientType, Turn, TurnStreams
<1> HIDE DEF Q, R, M, Gone
<1>4. ASSUME NEW m \in M, m.history = {},
             \A i, b \in Nat : Covers(m.frames, i, b) => ~(b < c0.streams[i].offset)
      PROVE  /\ BytesOf(m) \subseteq WrittenOf(c0.streams)
             /\ BytesOf(m) \cap TakenOf(c0.streams) = {}
  <2>1. ASSUME NEW x \in BytesOf(m)
        PROVE  x \in WrittenOf(c0.streams) /\ x \notin TakenOf(c0.streams)
    <3>1. PICK i \in Nat, b \in Nat : x = <<i, b>> /\ Covers(m.frames, i, b)
      BY <1>1, <2>1, BytesOfIs
    <3>2. i \in DOMAIN c.streams /\ b < c.streams[i].offset /\ ~(b < c0.streams[i].offset)
      BY <1>1, <1>3, <1>4, <3>1 DEF Sent
    <3>3. b < c.streams[i].size
      <4>1. c.streams[i] \in Stream /\ c.streams[i].offset <= c.streams[i].size
        BY <1>3, <3>2 DEF Streams
      <4> QED
        BY <3>2, <4>1 DEF Stream
    <3>4. x \in WrittenOf(c0.streams)
      BY <1>3, <3>1, <3>2, <3>3, StreamBytesOf
    <3>5. x \notin TakenOf(c0.streams)
      BY <1>3, <3>1, <3>2, StreamBytesOf
    <3> QED
      BY <3>4, <3>5
  <2> QED
    BY <2>1
<1>5. ASSUME NEW x \in R \ Q
      PROVE  \/ /\ x.history = {}
                /\ x.bytes \subseteq WrittenOf(c0.streams)
                /\ x.bytes \cap TakenOf(c0.streams) = {}
             \/ \E p \in Q \ R : Repeats(x, p)
  <2>1. PICK m \in M : x = Abs(m)
    BY <1>1
  <2>2. CASE \E p \in Gone : Resent(m, p)
    BY <1>1, <2>1, <2>2, ResentRepeats
  <2>3. CASE /\ m.history = {}
             /\ \A i, b \in Nat : Covers(m.frames, i, b) => ~(b < c0.streams[i].offset)
    BY <1>4, <2>1, <2>3, AbsIs
  <2> QED
    BY <1>2, <2>2, <2>3
<1>6. ASSUME NEW x \in R \ Q, NEW y \in R \ Q, x # y
      PROVE  /\ x.number # y.number
             /\ \A p \in Q : ~(Repeats(x, p) /\ Repeats(y, p))
  <2>1. PICK m \in M : x = Abs(m)
    BY <1>1
  <2>2. PICK n \in M : y = Abs(n)
    BY <1>1
  <2>3. Names(m) \cap Names(n) = {}
    <3>1. m # n
      BY <1>6, <2>1, <2>2
    <3> QED
      BY <1>1, <1>3, <3>1 DEF Ordered
  <2>4. x.number # y.number
    BY <2>1, <2>2, <2>3, AbsIs DEF Names
  <2>5. x.history \cap y.history = {}
    BY <2>1, <2>2, <2>3, AbsIs DEF Names
  <2> QED
    BY <2>4, <2>5 DEF Repeats
<1>7. ASSUME NEW x \in Q \ R
      PROVE  x.number \in A \/ \E m \in R \ Q : Repeats(m, x)
  <2>1. PICK p \in Gone : x = Abs(p)
    BY <1>1
  <2>2. CASE p.number \in A
    BY <2>1, <2>2, AbsIs
  <2>3. CASE \E m \in M : Resent(m, p)
    BY <1>1, <2>1, <2>3, ResentRepeats
  <2> QED
    BY <1>2, <2>2, <2>3
<1> QED
  BY <1>5, <1>6, <1>7 DEF Q, R

LEMMA TurnTakes ==
  ASSUME NEW c0, NEW c, NEW A, ClientInv(c0), ClientInv(c), Turn(c0, c, A),
         c.waiting = << >>
  PROVE  LET made == PacketSet(c.queue) \ PacketSet(c0.queue)
         IN  /\ TakenOf(c.streams) = TakenOf(c0.streams) \cup UNION {p.bytes : p \in made}
             /\ WrittenOf(c.streams) = WrittenOf(c0.streams)
<1> DEFINE made == PacketSet(c.queue) \ PacketSet(c0.queue)
           M == MadePackets(c0, c)
<1>1. /\ made = {Abs(m) : m \in M}
      /\ \A m \in M : m \in Packet /\ m \in Known(c)
  BY TurnSets
<1>2. /\ Sent(c) /\ Streams(c0.streams) /\ Streams(c.streams)
      /\ DOMAIN c.streams = DOMAIN c0.streams
      /\ \A i \in DOMAIN c0.streams :
           /\ c.streams[i].size = c0.streams[i].size
           /\ c0.streams[i].offset <= c.streams[i].offset
           /\ c0.streams[i].offset \in Nat /\ c.streams[i].offset \in Nat
           /\ \A b \in Nat :
                c0.streams[i].offset <= b /\ b < c.streams[i].offset =>
                  \E m \in M : Covers(m.frames, i, b)
  BY StreamFields DEF ClientInv, ClientType, Turn, TurnStreams
<1>3. \A i \in DOMAIN c.streams : i \in Nat
  BY <1>2 DEF Streams
<1> HIDE DEF made, M
<1>4. ASSUME NEW x \in TakenOf(c.streams), x \notin TakenOf(c0.streams)
      PROVE  \E p \in made : x \in p.bytes
  <2>1. PICK i \in DOMAIN c.streams, b \in Nat : x = <<i, b>> /\ b < c.streams[i].offset
    BY <1>2, <1>4, StreamBytesOf
  <2>2. ~(b < c0.streams[i].offset)
    BY <1>2, <1>4, <2>1, StreamBytesOf
  <2>3. c0.streams[i].offset <= b
    BY <1>2, <2>1, <2>2
  <2>4. PICK m \in M : Covers(m.frames, i, b)
    BY <1>2, <2>1, <2>3
  <2>5. x \in BytesOf(m)
    BY <1>1, <1>3, <2>1, <2>4, BytesOfIs
  <2> QED
    BY <1>1, <2>5, AbsIs
<1>5. ASSUME NEW p \in made, NEW x \in p.bytes
      PROVE  x \in TakenOf(c.streams)
  <2>1. PICK m \in M : p = Abs(m)
    BY <1>1
  <2>2. x \in BytesOf(m)
    BY <1>5, <2>1, AbsIs
  <2>3. PICK i \in Nat, b \in Nat : x = <<i, b>> /\ Covers(m.frames, i, b)
    BY <1>1, <2>2, BytesOfIs
  <2>4. i \in DOMAIN c.streams /\ b < c.streams[i].offset
    BY <1>1, <1>2, <2>3 DEF Sent
  <2> QED
    BY <1>2, <2>3, <2>4, StreamBytesOf
<1>6. ASSUME NEW x \in TakenOf(c0.streams) PROVE x \in TakenOf(c.streams)
  <2>1. PICK i \in DOMAIN c0.streams, b \in Nat : x = <<i, b>> /\ b < c0.streams[i].offset
    BY <1>2, StreamBytesOf
  <2>2. b < c.streams[i].offset
    BY <1>2, <2>1
  <2> QED
    BY <1>2, <2>1, <2>2, StreamBytesOf
<1>7. TakenOf(c.streams) = TakenOf(c0.streams) \cup UNION {p.bytes : p \in made}
  BY <1>4, <1>5, <1>6
<1>8. WrittenOf(c.streams) = WrittenOf(c0.streams)
  <2>1. \A x : x \in WrittenOf(c.streams) <=>
          \E i \in DOMAIN c0.streams, b \in Nat : x = <<i, b>> /\ b < c0.streams[i].size
    <3>1. \A x : x \in WrittenOf(c.streams) <=>
            \E i \in DOMAIN c.streams, b \in Nat : x = <<i, b>> /\ b < c.streams[i].size
      BY <1>2, StreamBytesOf
    <3> QED
      BY <1>2, <3>1
  <2>2. \A x : x \in WrittenOf(c0.streams) <=>
          \E i \in DOMAIN c0.streams, b \in Nat : x = <<i, b>> /\ b < c0.streams[i].size
    BY <1>2, StreamBytesOf
  <2> QED
    BY <2>1, <2>2
<1> QED
  BY <1>7, <1>8 DEF made

\* An ACK takes only packets out of the queue whose number arrived, although
\* an in order one takes packets it does not name.
LEMMA RemovedArrived ==
  ASSUME NEW c, Resting(c), NEW f \in AckFrames, Truthful(f)
  PROVE  Numbers(RemovedPackets(c, f)) \subseteq arrived
<1> DEFINE q == c.queue
           F == ToSet(DecodeAck(f))
<1>1. q \in Seq(Packet) /\ Sorted(q)
  BY DEF Resting, ClientInv, ClientType, Ordered
<1>3. f.largest \in Int /\ f.first \in Int /\ AckFrame(f)
  BY DEF AckFrames, AckFrame
<1>4. PICK B : /\ LostAcksPackets(c, f) = WithNumbers(q, B)
               /\ AckedPackets(c, f) = WithNumbers(q, F)
               /\ \A p \in ToSet(q) : ~(p.number \in B /\ p.number \in F)
               /\ ~IsInOrder(f) => B = {}
               /\ IsInOrder(f) =>
                    B = {} \/ B = {n \in Numbers(q) : n <= Smallest(f) - 1}
  BY <1>1, <1>3, AckParts
<1>5. Numbers(q) \subseteq Nat
  <2>1. \A p \in ToSet(q) : p \in Packet
    BY <1>1, ToSetType
  <2>2. \A p \in Packet : p.number \in Nat
    BY DEF Packet
  <2> QED
    BY <2>1, <2>2, NumbersIs
<1> HIDE DEF q
<1>6. Numbers(RemovedPackets(c, f)) = Numbers(q) \cap (B \cup F)
  BY <1>1, <1>4, RemovedIs DEF RemovedPackets
<1>7. CASE ~IsInOrder(f)
  BY <1>4, <1>6, <1>7 DEF Truthful
<1>8. CASE IsInOrder(f)
  <2>1. f.first \in Nat /\ 0 .. f.largest \subseteq arrived
    BY <1>8 DEF Truthful
  <2> SUFFICES ASSUME NEW n \in Numbers(q), n \in B \/ n \in F PROVE n \in arrived
    BY <1>6
  <2>2. n \in Nat
    BY <1>5
  <2>3. CASE n \in F
    <3>1. n <= f.largest
      BY <1>3, <1>8, <2>3, DecodeInOrder
    <3> QED
      BY <1>3, <2>1, <2>2, <3>1
  <2>4. CASE n \in B
    <3>1. n <= Smallest(f) - 1
      BY <1>4, <1>8, <2>4
    <3>2. Smallest(f) = f.largest - f.first
      <4>1. f.largest \in ToSet(DecodeAck(f))
        <5>1. f.largest - f.first <= f.largest /\ f.largest <= f.largest
          BY <1>3, <2>1
        <5> QED
          BY <1>3, <1>8, <5>1, DecodeInOrder
      <4> QED
        BY <1>3, <1>8, <4>1, DecodeInOrder
    <3> QED
      BY <1>3, <2>1, <2>2, <3>1, <3>2
  <2> QED
    BY <2>3, <2>4
<1> QED
  BY <1>7, <1>8

\* What QuicRetransmission allows in a turn from c0 to c, while q is on its way
\* and the numbers in N arrived.
TurnAllowed(c0, c, q, N) ==
  LET Q == PacketSet(c0.queue)
      R == PacketSet(c.queue)
      made == R \ Q
  IN  /\ c.packet_counter \in Nat /\ c0.packet_counter <= c.packet_counter
      /\ \A m \in made :
           /\ m.number \in c0.packet_counter .. c.packet_counter - 1
           /\ \/ /\ m.history = {} /\ m.bytes \subseteq WrittenOf(c0.streams)
                 /\ m.bytes \cap TakenOf(c0.streams) = {}
              \/ \E p \in Q \ R : Repeats(m, p)
      /\ \A m, n \in made : m # n =>
           /\ m.number # n.number
           /\ \A p \in Q : ~(Repeats(m, p) /\ Repeats(n, p))
      /\ \A p \in Q \ R : p.number \in N \/ \E m \in made : Repeats(m, p)
      /\ PacketSet(q \o c.out) = PacketSet(q) \cup made
      /\ TakenOf(c.streams) = TakenOf(c0.streams) \cup UNION {p.bytes : p \in made}
      /\ WrittenOf(c.streams) = WrittenOf(c0.streams)
      /\ c.phase = "closed" => R = {} /\ TakenOf(c.streams) = WrittenOf(c.streams)

LEMMA TurnIsAllowed ==
  ASSUME NEW c0, NEW c, NEW A, ClientInv(c0), Going(c0, c, A), c.waiting = << >>,
         c.phase = "closed" => Done(c), NEW q \in Seq(Packet), NEW N, A \subseteq N
  PROVE  TurnAllowed(c0, c, q, N)
<1> DEFINE Q == PacketSet(c0.queue)
           R == PacketSet(c.queue)
           made == R \ Q
           r == q \o c.out
<1>1. /\ ClientInv(c) /\ Turn(c0, c, A)
      /\ c0.packet_counter \in Nat /\ c.packet_counter \in Nat
      /\ c0.packet_counter <= c.packet_counter
  BY DEF Going, ClientInv, ClientType, Turn, TurnPackets
<1>2. /\ \A m \in made : m.number \in c0.packet_counter .. c.packet_counter - 1
      /\ PacketSet(r) = PacketSet(q) \cup made
  <2>1. /\ made = {Abs(m) : m \in MadePackets(c0, c)}
        /\ MadePackets(c0, c) = ToSet(c.out)
        /\ \A m \in MadePackets(c0, c) :
             /\ m.number \in Nat
             /\ c0.packet_counter <= m.number /\ m.number < c.packet_counter
    BY <1>1, TurnSets
  <2> HIDE DEF made
  <2>2. \A m \in made : m.number \in c0.packet_counter .. c.packet_counter - 1
    BY <1>1, <2>1, AbsIs
  <2>3. ToSet(r) = ToSet(q) \cup ToSet(c.out)
    <3>1. c.out \in Seq(Packet)
      BY <1>1 DEF ClientInv, ClientType
    <3> QED
      BY <3>1, ToSetConcat
  <2> HIDE DEF r
  <2>4. PacketSet(r) = {Abs(p) : p \in ToSet(r)}
        /\ PacketSet(q) = {Abs(p) : p \in ToSet(q)}
    BY PacketSetIs
  <2>5. PacketSet(r) = PacketSet(q) \cup made
    BY <2>1, <2>3, <2>4
  <2> QED
    BY <2>2, <2>5
<1>3. /\ \A m \in made :
           \/ /\ m.history = {}
              /\ m.bytes \subseteq WrittenOf(c0.streams)
              /\ m.bytes \cap TakenOf(c0.streams) = {}
           \/ \E p \in Q \ R : Repeats(m, p)
      /\ \A m, n \in made : m # n =>
           /\ m.number # n.number
           /\ \A p \in Q : ~(Repeats(m, p) /\ Repeats(n, p))
      /\ \A p \in Q \ R : p.number \in A \/ \E m \in made : Repeats(m, p)
  BY <1>1, TurnMakes
<1>4. /\ TakenOf(c.streams) = TakenOf(c0.streams) \cup UNION {p.bytes : p \in made}
      /\ WrittenOf(c.streams) = WrittenOf(c0.streams)
  BY <1>1, TurnTakes
<1>5. c.phase = "closed" => R = {} /\ TakenOf(c.streams) = WrittenOf(c.streams)
  <2> SUFFICES ASSUME c.phase = "closed"
               PROVE  R = {} /\ TakenOf(c.streams) = WrittenOf(c.streams)
    OBVIOUS
  <2>1. Done(c)
    OBVIOUS
  <2>2. R = {}
    BY <2>1 DEF Done, PacketSet
  <2>3. \A i \in DOMAIN c.streams : c.streams[i].offset = c.streams[i].size
    <3> TAKE i \in DOMAIN c.streams
    <3>3. c.streams[i].offset = c.streams[i].ACKed_bytes
             + Carried(c.queue, i) + Carried(c.waiting, i)
      BY <1>1 DEF ClientInv, Accounted
    <3>4. Carried(c.queue, i) = 0 /\ Carried(c.waiting, i) = 0
      BY <2>1, CarriedFacts DEF Done
    <3>5. c.streams[i].ACKed_bytes \in Nat /\ c.streams[i].ACKed_bytes = c.streams[i].size
      BY <1>1, <2>1, StreamFields DEF Done, ClientInv
    <3> QED
      BY <3>3, <3>4, <3>5
  <2>4. TakenOf(c.streams) = WrittenOf(c.streams)
    BY <2>3 DEF TakenOf, WrittenOf
  <2> QED
    BY <2>2, <2>4
<1> HIDE DEF Q, R
<1> QED
  BY <1>1, <1>2, <1>3, <1>4, <1>5 DEF TurnAllowed, Q, R

\* A turn of the client, in the terms of QuicRetransmission.
LEMMA ClientStep ==
  ASSUME TransferInv, NEW c, NEW A, Going(client, c, A), c.waiting = << >>,
         client.phase # "closed", c.phase = "closed" => Done(c), Emit(c),
         A \subseteq arrived, UNCHANGED <<arrived, delivered>>
  PROVE  Retransmission!ClientTurn
<1> DEFINE Q == PacketSet(client.queue)
           R == PacketSet(c.queue)
           made == R \ Q
<1>1. TurnAllowed(client, c, data, arrived)
  BY TurnIsAllowed DEF TransferInv, ClientPart, Resting, NetPart, InTransit
<1>2. /\ client'.queue = c.queue /\ client'.streams = c.streams
      /\ client'.phase = c.phase /\ client'.packet_counter = c.packet_counter
      /\ data' = data \o c.out
  BY EmitResting DEF Emit
<1>3. /\ Written = WrittenOf(client.streams) /\ Taken = TakenOf(client.streams)
      /\ Written' = WrittenOf(c.streams) /\ Taken' = TakenOf(c.streams)
  BY <1>2 DEF Written, Taken, WrittenOf, TakenOf
<1>4. PacketSet(client.queue)' = R /\ PacketSet(data)' = PacketSet(data \o c.out)
  BY <1>2 DEF PacketSet, BytesOf
<1>5. /\ c.packet_counter \in Nat /\ client.packet_counter <= c.packet_counter
      /\ \A m \in made :
           /\ m.number \in client.packet_counter .. c.packet_counter - 1
           /\ \/ /\ m.history = {} /\ m.bytes \subseteq Written
                 /\ m.bytes \cap Taken = {}
              \/ \E p \in Q \ R : Repeats(m, p)
      /\ \A m, n \in made : m # n =>
           /\ m.number # n.number
           /\ \A p \in Q : ~(Repeats(m, p) /\ Repeats(n, p))
      /\ \A p \in Q \ R : p.number \in arrived \/ \E m \in made : Repeats(m, p)
      /\ PacketSet(data)' = PacketSet(data) \cup made
      /\ Taken' = Taken \cup UNION {p.bytes : p \in made}
      /\ Written' = Written
      /\ c.phase = "closed" => R = {} /\ Taken' = Written
  BY <1>1, <1>3, <1>4 DEF TurnAllowed
<1> HIDE DEF Q, R
<1>6. \A m, p : Retransmission!Resends(m, p) <=> Repeats(m, p)
  BY DEF Retransmission!Resends, Retransmission!Names, Repeats
<1>7. Retransmission!Made = made
  BY <1>4 DEF Retransmission!Made, Q
<1>8. \A m : Retransmission!Fresh(m) <=>
         m.history = {} /\ m.bytes \subseteq Written /\ m.bytes \cap Taken = {}
  BY DEF Retransmission!Fresh
<1>9. Retransmission!BytesIn(made) = UNION {p.bytes : p \in made}
  BY DEF Retransmission!BytesIn
<1> HIDE DEF made
<1>10. (client.phase = "closed")' \in BOOLEAN
  OBVIOUS
<1> QED
  BY <1>2, <1>4, <1>5, <1>6, <1>7, <1>8, <1>9, <1>10
  DEF Retransmission!ClientTurn, Q

LEMMA WrittenBounded ==
  ASSUME SizesPart PROVE Written \subseteq AllBytes
<1> DEFINE all == StreamSizes \o AddedSizes
<1>1. StreamSizes \in Seq(Nat \ {0}) /\ AddedSizes \in Seq(Nat \ {0})
  BY ClientAssumption, TransferAssumption
<1>2. \A i \in DOMAIN StreamSizes : i \in DOMAIN all /\ all[i] = StreamSizes[i]
  BY <1>1, ConcatIs
<1>3. AllBytes = UNION {{<<i, b>> : b \in 0 .. all[i] - 1} : i \in DOMAIN all}
  BY DEF AllBytes
<1> HIDE DEF all
<1>4. \A i \in DOMAIN client.streams :
        i \in DOMAIN all /\ client.streams[i].size = all[i]
  BY <1>2 DEF SizesPart, all
<1>5. ASSUME NEW x \in Written PROVE x \in AllBytes
  <2>1. PICK i \in DOMAIN client.streams :
          x \in {<<i, b>> : b \in 0 .. client.streams[i].size - 1}
    BY <1>5 DEF Written
  <2> QED
    BY <1>3, <1>4, <2>1
<1> QED
  BY <1>5

Bounded == Written \subseteq AllBytes

LEMMA WrittenStaysBounded == SizesPart' => Written' \subseteq AllBytes
<1>1. SizesPart => Bounded
  BY WrittenBounded DEF Bounded
<1>2. SizesPart' => Bounded'
  BY <1>1, PTL
<1> QED
  BY <1>2 DEF Bounded, AllBytes

LEMMA HeadLeaves ==
  ASSUME NEW q \in Seq(Packet), Sorted(q), q # << >>
  PROVE  /\ Abs(Head(q)) \in PacketSet(q)
         /\ PacketSet(Tail(q)) = PacketSet(q) \ {Abs(Head(q))}
<1> DEFINE h == Head(q)
           t == Tail(q)
<1>1. /\ ToSet(q) = {h} \cup ToSet(t) /\ t \in Seq(Packet) /\ h \in Packet
      /\ \A p \in ToSet(t) : h.number < p.number
  BY TailIs
<1>2. PacketSet(q) = {Abs(p) : p \in ToSet(q)} /\ PacketSet(t) = {Abs(p) : p \in ToSet(t)}
  BY PacketSetIs
<1> HIDE DEF h, t
<1>3. \A p \in ToSet(t) : Abs(p) # Abs(h)
  <2> TAKE p \in ToSet(t)
  <2>1. h.number < p.number /\ h.number \in Nat
    BY <1>1 DEF Packet
  <2>2. h.number # p.number
    BY <2>1
  <2> QED
    BY <2>2, AbsIs
<1>4. /\ Abs(h) \in PacketSet(q) /\ PacketSet(t) = PacketSet(q) \ {Abs(h)}
  BY <1>1, <1>2, <1>3
<1> QED
  BY <1>4 DEF h, t

\* The variables of QuicRetransmission that a step of server or network leaves.
LEMMA ClientStays ==
  ASSUME UNCHANGED client
  PROVE  /\ Written' = Written /\ Taken' = Taken
         /\ PacketSet(client.queue)' = PacketSet(client.queue)
         /\ client.packet_counter' = client.packet_counter
         /\ (client.phase = "closed")' = (client.phase = "closed")
BY DEF Written, Taken, PacketSet, BytesOf

LEMMA ServerReceivesArrive ==
  ASSUME TransferInv, ServerReceives
  PROVE  \E p \in PacketSet(data) : Retransmission!Arrive(p)
<1> DEFINE h == Head(data)
           p == Abs(h)
<1>1. /\ data # << >> /\ S!ReceivePacket(h) /\ data' = Tail(data)
      /\ delivered' = delivered \cup BytesOf(h) /\ UNCHANGED client
  BY DEF ServerReceives
<1>2. p \in PacketSet(data) /\ PacketSet(data)' = PacketSet(data) \ {p}
  <2>1. PacketSet(data)' = PacketSet(data')
    BY DEF PacketSet, BytesOf
  <2> QED
    BY <1>1, <2>1, HeadLeaves DEF TransferInv, NetPart, InTransit
<1>3. arrived' = arrived \cup {h.number} \cup h.history
  BY <1>1 DEF S!ReceivePacket
<1> HIDE DEF h
<1>4. p.number = h.number /\ p.history = h.history /\ p.bytes = BytesOf(h)
  BY AbsIs
<1> HIDE DEF p
<1>5. arrived' = arrived \cup Retransmission!Names(p)
  BY <1>3, <1>4 DEF Retransmission!Names
<1>6. Retransmission!Arrive(p)
  BY <1>1, <1>2, <1>4, <1>5, ClientStays DEF Retransmission!Arrive
<1> QED
  BY <1>2, <1>6

LEMMA LoseDataLoses ==
  ASSUME TransferInv, LoseData
  PROVE  \E p \in PacketSet(data) : Retransmission!Lose(p)
<1> DEFINE p == Abs(Head(data))
<1>1. /\ data # << >> /\ data' = Tail(data)
      /\ UNCHANGED <<client, serverVars, delivered>>
  BY DEF LoseData
<1>2. p \in PacketSet(data) /\ PacketSet(data)' = PacketSet(data) \ {p}
  <2>1. PacketSet(data)' = PacketSet(data')
    BY DEF PacketSet, BytesOf
  <2> QED
    BY <1>1, <2>1, HeadLeaves DEF TransferInv, NetPart, InTransit
<1> HIDE DEF p
<1>3. Retransmission!Lose(p)
  BY <1>1, <1>2, ClientStays DEF Retransmission!Lose, serverVars
<1> QED
  BY <1>2, <1>3

LEMMA AddStreamsHandsOver ==
  ASSUME TransferInv, TransferInv', ClientAddStreams
  PROVE  Retransmission!HandOver
<1> DEFINE d == WithStreams(client, AddedSizes)
<1>1. /\ client' = d
      /\ client.phase # "closed"
      /\ UNCHANGED <<serverVars, data, delivered>>
  BY DEF ClientAddStreams, AddStreams, WithStreams
<1>2. AddedSizes \in Seq(Nat \ {0})
  BY TransferAssumption
<1>3. Resting(client)
  BY DEF TransferInv, ClientPart
<1>4. /\ Resting(d)
      /\ d.phase = client.phase /\ d.queue = client.queue
      /\ d.packet_counter = client.packet_counter
      /\ Len(d.streams) = Len(client.streams) + Len(AddedSizes)
      /\ \A i \in DOMAIN client.streams :
           i \in DOMAIN d.streams /\ d.streams[i] = client.streams[i]
      /\ \A i \in DOMAIN AddedSizes :
           /\ d.streams[Len(client.streams) + i].size = AddedSizes[i]
           /\ d.streams[Len(client.streams) + i].offset = 0
  BY <1>2, <1>3, AddResting
<1> HIDE DEF d
<1>5. Streams(client.streams) /\ Streams(d.streams)
  BY <1>3, <1>4 DEF Resting, ClientInv, ClientType
<1>6. ASSUME NEW i \in DOMAIN d.streams, i \notin DOMAIN client.streams
      PROVE  d.streams[i].offset = 0
  <2> DEFINE n == Len(client.streams)
             m == Len(AddedSizes)
             k == i - n
  <2>1. /\ n \in Nat /\ m \in Nat /\ DOMAIN client.streams = 1 .. n
        /\ DOMAIN AddedSizes = 1 .. m /\ DOMAIN d.streams = 1 .. n + m
    <3>1. Len(d.streams) = n + m
      BY <1>4
    <3> QED
      BY <1>2, <1>5, <3>1 DEF Streams
  <2> HIDE DEF n, m
  <2>2. k \in 1 .. m /\ i = n + k
    BY <1>6, <2>1
  <2> HIDE DEF k
  <2> QED
    BY <1>4, <2>1, <2>2 DEF n
<1>7. Taken' = Taken
  <2>1. Taken' = TakenOf(d.streams) /\ Taken = TakenOf(client.streams)
    BY <1>1 DEF Taken, TakenOf
  <2>2. \A b \in Nat : ~(b < 0)
    OBVIOUS
  <2>3. \A x : x \in TakenOf(d.streams) <=>
          \E i \in DOMAIN d.streams, b \in Nat : x = <<i, b>> /\ b < d.streams[i].offset
    BY <1>5, StreamBytesOf
  <2>4. \A x : x \in TakenOf(client.streams) <=>
          \E i \in DOMAIN client.streams, b \in Nat :
            x = <<i, b>> /\ b < client.streams[i].offset
    BY <1>5, StreamBytesOf
  <2>5. \A i \in DOMAIN d.streams, b \in Nat :
          b < d.streams[i].offset =>
            i \in DOMAIN client.streams /\ b < client.streams[i].offset
    BY <1>4, <1>6, <2>2
  <2>6. \A i \in DOMAIN client.streams, b \in Nat :
          b < client.streams[i].offset =>
            i \in DOMAIN d.streams /\ b < d.streams[i].offset
    BY <1>4
  <2>7. ASSUME NEW x PROVE x \in TakenOf(d.streams) <=> x \in TakenOf(client.streams)
    BY <2>3, <2>4, <2>5, <2>6
  <2>8. TakenOf(d.streams) = TakenOf(client.streams)
    BY <2>7
  <2> QED
    BY <2>1, <2>8
<1>8. Written \subseteq Written'
  <2>1. Written' = UNION {{<<i, b>> : b \in 0 .. d.streams[i].size - 1} : i \in DOMAIN d.streams}
    BY <1>1 DEF Written
  <2>2. ASSUME NEW x \in Written PROVE x \in Written'
    <3>1. PICK i \in DOMAIN client.streams :
            x \in {<<i, b>> : b \in 0 .. client.streams[i].size - 1}
      BY <2>2 DEF Written
    <3> QED
      BY <1>4, <2>1, <3>1
  <2> QED
    BY <2>2
<1>9. Written' \in SUBSET AllBytes
  BY WrittenStaysBounded DEF TransferInv
<1>10. /\ PacketSet(client.queue)' = PacketSet(client.queue)
       /\ PacketSet(data)' = PacketSet(data)
  BY <1>1, <1>4 DEF PacketSet, BytesOf
<1>11. (client.phase = "closed")' = (client.phase = "closed")
  BY <1>1, <1>4
<1> QED
  BY <1>1, <1>4, <1>7, <1>8, <1>9, <1>10, <1>11 DEF Retransmission!HandOver, serverVars

LEMMA RetransmissionStart ==
  ASSUME Init PROVE Retransmission!RetransmissionInit
<1>1. TransferInv
  BY TransferInit
<1>2. Written \in SUBSET AllBytes
  BY <1>1, WrittenBounded DEF TransferInv
<1>3. /\ client = NewClient /\ data = << >> /\ arrived = {} /\ delivered = {}
  BY DEF Init, ClientInit, S!ServerInit
<1>4. /\ client.phase = "handshake" /\ client.packet_counter = 0
      /\ client.streams = [i \in DOMAIN StreamSizes |-> NewStream(StreamSizes[i])]
      /\ client.queue = << >>
  BY <1>3, InitResting DEF Idle
<1>5. PacketSet(client.queue) = {} /\ PacketSet(data) = {}
  BY <1>3, <1>4 DEF PacketSet
<1>6. Taken = {}
  <2>1. \A i \in DOMAIN client.streams : client.streams[i].offset = 0
    BY <1>4 DEF NewStream
  <2>2. 0 .. 0 - 1 = {}
    OBVIOUS
  <2> QED
    BY <2>1, <2>2 DEF Taken
<1>7. (client.phase = "closed") = FALSE
  BY <1>4
<1> QED
  BY <1>2, <1>3, <1>4, <1>5, <1>6, <1>7 DEF Retransmission!RetransmissionInit

LEMMA RetransmissionStep ==
  ASSUME TransferInv, TransferInv', [Next]_vars
  PROVE  [Retransmission!RetransmissionNext]_(Retransmission!retransmissionVars)
<1> DEFINE none == {}
           Stays == UNCHANGED Retransmission!retransmissionVars
<1>1. ASSUME UNCHANGED <<client, data, arrived, delivered>> PROVE Stays
  <2>1. PacketSet(data)' = PacketSet(data)
    BY <1>1 DEF PacketSet, BytesOf
  <2> QED
    BY <1>1, <2>1, ClientStays DEF Retransmission!retransmissionVars
<1>2. none \subseteq arrived
  OBVIOUS
<1>3. none = {}
  OBVIOUS
<1> HIDE DEF none, Stays
<1>4. CASE HandshakeResponse
  <2> DEFINE c == SendReadyPackets(ProcessClientHandshakeResponse(client))
  <2>1. /\ client.phase = "handshake" /\ Emit(c)
        /\ UNCHANGED <<arrived, delivered>>
    BY <1>4 DEF HandshakeResponse, ReceiveHandshakeResponse, serverVars
  <2>2. Resting(client) /\ Idle(client)
    BY <2>1 DEF TransferInv, ClientPart
  <2>3. /\ Going(client, c, none) /\ c.waiting = << >>
        /\ c.phase = "closed" => Done(c)
    BY <1>3, <2>2, HandshakeGoing
  <2> HIDE DEF c
  <2>4. client.phase # "closed"
    BY <2>1
  <2>5. Retransmission!ClientTurn
    BY <1>2, <2>1, <2>3, <2>4, ClientStep
  <2> QED
    BY <2>5 DEF Retransmission!RetransmissionNext
<1>5. CASE ServerReceives
  BY <1>5, ServerReceivesArrive DEF Retransmission!RetransmissionNext
<1>6. CASE ServerAckTimeout
  <2>1. UNCHANGED <<client, data, arrived, delivered>>
    BY <1>6 DEF ServerAckTimeout, S!AckTimeout
  <2> QED
    BY <1>1, <2>1 DEF Stays
<1>7. CASE ClientReceivesAck
  <2> DEFINE f == Head(acks)
  <2>1. /\ acks # << >>
        /\ UNCHANGED <<arrived, delivered>>
        /\ client.phase # "closed" => ReceiveAck(f)
        /\ client.phase = "closed" => UNCHANGED <<client, data>>
    BY <1>7 DEF ClientReceivesAck, serverVars
  <2>2. CASE client.phase = "closed"
    BY <1>1, <2>1, <2>2 DEF Stays
  <2>3. CASE client.phase # "closed"
    <3>1. f \in AckFrames /\ f \in ToSet(acks)
      BY <2>1, TailIs DEF TransferInv, AckPart
    <3> HIDE DEF f
    <3> DEFINE c == SendReadyPackets(
                      UpdateLostPackets(
                        ProcessClientACK(CancelRTO(client, f), f), f.largest))
               A == Numbers(RemovedPackets(client, f))
    <3>2. Emit(c)
      BY <2>1, <2>3 DEF ReceiveAck
    <3>3. Fresh(client)
      <4>1. client.phase # "handshake"
        BY <2>1 DEF TransferInv, StartPart
      <4> QED
        BY <4>1 DEF TransferInv, ClientPart, Resting, Fresh
    <3>4. AckFrame(f)
      BY <3>1 DEF AckFrame, AckFrames
    <3>5. /\ Going(client, c, A) /\ c.waiting = << >>
          /\ c.phase = "closed" => Done(c)
      BY <2>3, <3>3, <3>4, ReceiveAckGoing
    <3>6. A \subseteq arrived
      <4>1. Resting(client) /\ Truthful(f)
        BY <3>1 DEF TransferInv, ClientPart, AckPart
      <4> QED
        BY <3>1, <4>1, RemovedArrived
    <3> HIDE DEF c, A
    <3>7. Retransmission!ClientTurn
      BY <2>1, <2>3, <3>2, <3>5, <3>6, ClientStep
    <3> QED
      BY <3>7 DEF Retransmission!RetransmissionNext
  <2> QED
    BY <2>2, <2>3
<1>8. CASE ClientTimeout
  <2>1. PICK number \in client.timers : RetransmissionTimeout(number)
    BY <1>8 DEF ClientTimeout
  <2> DEFINE c == ExpireRTO(client, number)
  <2>2. Emit(c) /\ UNCHANGED <<arrived, delivered>>
    BY <1>8, <2>1 DEF ClientTimeout, RetransmissionTimeout, serverVars
  <2>3. client.phase = "open" /\ Fresh(client)
    BY OpenTimers
  <2>4. Going(client, c, none) /\ c.waiting = << >> /\ c.phase = client.phase
    BY <1>3, <2>3, ExpireGoing
  <2> HIDE DEF c
  <2>5. Retransmission!ClientTurn
    BY <1>2, <2>2, <2>3, <2>4, ClientStep
  <2> QED
    BY <2>5 DEF Retransmission!RetransmissionNext
<1>9. CASE ClientAddStreams
  BY <1>9, AddStreamsHandsOver DEF Retransmission!RetransmissionNext
<1>10. CASE LoseData
  BY <1>10, LoseDataLoses DEF Retransmission!RetransmissionNext
<1>11. CASE LoseAck
  <2>1. UNCHANGED <<client, data, arrived, delivered>>
    BY <1>11 DEF LoseAck, serverVars
  <2> QED
    BY <1>1, <2>1 DEF Stays
<1>12. CASE UNCHANGED vars
  <2>1. UNCHANGED <<client, data, arrived, delivered>>
    BY <1>12 DEF vars, serverVars
  <2> QED
    BY <1>1, <2>1 DEF Stays
<1> QED
  BY <1>4, <1>5, <1>6, <1>7, <1>8, <1>9, <1>10, <1>11, <1>12 DEF Next

\* The code implements QuicRetransmission: a handler of the client drops only
\* packets whose number arrived, although an in order ACK names few of them,
\* what it sends again replaces a packet with all its numbers, and new packets
\* carry bytes that were never sent.
THEOREM TransferRetransmits == Spec => ImplementsRetransmission
<1>1. Init => Retransmission!RetransmissionInit
  BY RetransmissionStart
<1>2. TransferInv /\ TransferInv' /\ [Next]_vars
        => [Retransmission!RetransmissionNext]_(Retransmission!retransmissionVars)
  BY RetransmissionStep
<1>3. Spec => Retransmission!RetransmissionSpec
  BY <1>1, <1>2, TransferAlways, PTL DEF Spec, Retransmission!RetransmissionSpec
<1> QED
  BY <1>3 DEF ImplementsRetransmission

-----------------------------------------------------------------------------
(***************************************************************************)
(* What QuicRetransmission keeps, the code keeps.                          *)
(***************************************************************************)
RP == INSTANCE QuicRetransmissionProofs
  WITH Bytes <- AllBytes, written <- Written, taken <- Taken,
       queue <- PacketSet(client.queue), network <- PacketSet(data),
       packet_counter <- client.packet_counter,
       closed <- client.phase = "closed"

LEMMA RetransmissionIs ==
  /\ Retransmission!RetransmissionInit => RP!RetransmissionInit
  /\ [Retransmission!RetransmissionNext]_(Retransmission!retransmissionVars)
       => [RP!RetransmissionNext]_(RP!retransmissionVars)
<1>1. Retransmission!RetransmissionInit => RP!RetransmissionInit
  BY DEF Retransmission!RetransmissionInit, RP!RetransmissionInit
<1>2. Retransmission!HandOver => RP!HandOver
  BY DEF Retransmission!HandOver, RP!HandOver
<1>3. ASSUME NEW p \in PacketSet(data), Retransmission!Arrive(p)
      PROVE  RP!Arrive(p)
  BY <1>3 DEF Retransmission!Arrive, RP!Arrive, Retransmission!Names, RP!Names
<1>4. ASSUME NEW p \in PacketSet(data), Retransmission!Lose(p) PROVE RP!Lose(p)
  BY <1>4 DEF Retransmission!Lose, RP!Lose
<1>5. Retransmission!ClientTurn => RP!ClientTurn
  <2>1. \A m, p : Retransmission!Resends(m, p) <=> RP!Resends(m, p)
    BY DEF Retransmission!Resends, RP!Resends, Retransmission!Names, RP!Names
  <2>2. \A m : Retransmission!Fresh(m) <=> RP!Fresh(m)
    BY DEF Retransmission!Fresh, RP!Fresh
  <2>3. Retransmission!Made = RP!Made
    BY DEF Retransmission!Made, RP!Made
  <2>4. Retransmission!BytesIn(Retransmission!Made) = RP!BytesIn(RP!Made)
    BY <2>3 DEF Retransmission!BytesIn, RP!BytesIn
  <2> QED
    BY <2>1, <2>2, <2>3, <2>4 DEF Retransmission!ClientTurn, RP!ClientTurn
<1>6. Retransmission!RetransmissionNext => RP!RetransmissionNext
  BY <1>2, <1>3, <1>4, <1>5
  DEF Retransmission!RetransmissionNext, RP!RetransmissionNext
<1>7. UNCHANGED Retransmission!retransmissionVars => UNCHANGED RP!retransmissionVars
  BY DEF Retransmission!retransmissionVars, RP!retransmissionVars
<1> QED
  BY <1>1, <1>6, <1>7

\* A byte is acknowledged when it left its stream and is in no packet of the
\* send queue, in both specifications.
AckedBytes == Taken \ RP!BytesIn(PacketSet(client.queue))

LEMMA AckedIs == Acked = AckedBytes
<1> DEFINE q == client.queue
           Q == PacketSet(q)
<1>1. Q = {Abs(p) : p \in ToSet(q)}
  BY PacketSetIs
<1>2. ASSUME NEW k \in DOMAIN q, NEW x \in BytesOf(q[k])
      PROVE  \E p \in Q : x \in p.bytes
  <2>1. Abs(q[k]) \in Q
    BY <1>1 DEF ToSet
  <2>2. x \in Abs(q[k]).bytes
    BY <1>2, AbsIs
  <2> QED
    BY <2>1, <2>2
<1>3. ASSUME NEW p \in Q, NEW x \in p.bytes
      PROVE  \E k \in DOMAIN q : x \in BytesOf(q[k])
  <2>1. PICK r \in ToSet(q) : p = Abs(r)
    BY <1>1
  <2>2. x \in BytesOf(r)
    BY <1>3, <2>1, AbsIs
  <2> QED
    BY <2>1, <2>2 DEF ToSet
<1> HIDE DEF Q
<1>4. UNION {BytesOf(q[k]) : k \in DOMAIN q} = UNION {p.bytes : p \in Q}
  BY <1>2, <1>3
<1> QED
  BY <1>4 DEF Acked, AckedBytes, RP!BytesIn, Q

AckedAgrees == Acked = AckedBytes

LEMMA AckedStaysIs == Acked' = AckedBytes'
<1>1. AckedAgrees
  BY AckedIs DEF AckedAgrees
<1>2. AckedAgrees'
  BY <1>1, PTL
<1> QED
  BY <1>2 DEF AckedAgrees

LEMMA DeliveryIs ==
  /\ RP!Delivery!DeliveryInit => Delivery!DeliveryInit
  /\ [RP!Delivery!DeliveryNext]_(RP!Delivery!deliveryVars)
       => [Delivery!DeliveryNext]_(Delivery!deliveryVars)
<1>1. Acked = Taken \ RP!BytesIn(PacketSet(client.queue))
  BY AckedIs DEF AckedBytes
<1>2. Acked' = (Taken \ RP!BytesIn(PacketSet(client.queue)))'
  BY AckedStaysIs DEF AckedBytes
<1>3. RP!Delivery!DeliveryInit => Delivery!DeliveryInit
  BY <1>1 DEF RP!Delivery!DeliveryInit, Delivery!DeliveryInit
<1>4. RP!Delivery!Write => Delivery!Write
  BY <1>1, <1>2 DEF RP!Delivery!Write, Delivery!Write
<1>5. RP!Delivery!Deliver => Delivery!Deliver
  BY <1>1, <1>2 DEF RP!Delivery!Deliver, Delivery!Deliver
<1>6. RP!Delivery!Acknowledge => Delivery!Acknowledge
  BY <1>1, <1>2 DEF RP!Delivery!Acknowledge, Delivery!Acknowledge
<1>7. UNCHANGED RP!Delivery!deliveryVars => UNCHANGED Delivery!deliveryVars
  BY <1>1, <1>2 DEF RP!Delivery!deliveryVars, Delivery!deliveryVars
<1> QED
  BY <1>3, <1>4, <1>5, <1>6, <1>7
  DEF RP!Delivery!DeliveryNext, Delivery!DeliveryNext

\* Client, server and network keep the promise to the application: bytes are
\* acknowledged only after they arrived, an acknowledged byte is never taken
\* back into the send queue, and the connection is deleted when every byte of
\* its streams arrived.
THEOREM TransferDelivers == Spec => ImplementsDelivery
<1>1. Spec => RP!RetransmissionSpec
  BY TransferRetransmits, RetransmissionIs, PTL
  DEF ImplementsRetransmission, Retransmission!RetransmissionSpec, RP!RetransmissionSpec
<1>2. RP!RetransmissionSpec => RP!Delivery!DeliverySpec
  BY RP!RetransmissionDelivers
<1>3. RP!Delivery!DeliverySpec => Delivery!DeliverySpec
  BY DeliveryIs, PTL DEF RP!Delivery!DeliverySpec, Delivery!DeliverySpec
<1> QED
  BY <1>1, <1>2, <1>3 DEF ImplementsDelivery

\* When the client deletes its connection the server has every byte of every
\* stream, and nothing is left that would look for the deleted connection: no
\* packet waits for an ACK and no RTO timer runs (sendReadyPackets,
\* ConnectionManager.cc:536-544).
THEOREM ClosedMeansComplete == Spec => []ClosedIsComplete
<1>1. TransferInv /\ RP!Delivery!DeliveredBeforeClosed => ClosedIsComplete
  <2> SUFFICES ASSUME TransferInv, RP!Delivery!DeliveredBeforeClosed,
                      client.phase = "closed"
               PROVE  ClosedIsComplete
    BY DEF ClosedIsComplete
  <2>1. delivered = Written
    BY DEF RP!Delivery!DeliveredBeforeClosed
  <2>2. \A i \in DOMAIN client.streams :
          \A b \in 0 .. client.streams[i].size - 1 : <<i, b>> \in delivered
    BY <2>1 DEF Written
  <2>3. client.queue = << >>
    BY DEF TransferInv, ClientPart, Done
  <2>4. client.timers \subseteq Numbers(client.queue)
    BY DEF TransferInv, ClientPart, Resting, Timed
  <2>5. client.timers = {}
    BY <2>3, <2>4 DEF Numbers
  <2> QED
    BY <2>2, <2>3, <2>5 DEF ClosedIsComplete
<1>2. Spec => RP!RetransmissionSpec
  BY TransferRetransmits, RetransmissionIs, PTL
  DEF ImplementsRetransmission, Retransmission!RetransmissionSpec, RP!RetransmissionSpec
<1>3. RP!RetransmissionSpec => []RP!Delivery!DeliveredBeforeClosed
  BY RP!RetransmissionSafe
<1> QED
  BY <1>1, <1>2, <1>3, TransferAlways, PTL

-----------------------------------------------------------------------------
(***************************************************************************)
(* The counters and the window of the congestion control, as long as they  *)
(* do not wrap: every ACK that reached the client was caused by a packet   *)
(* of its own, so the window did not grow more often than packets left     *)
(* the network.                                                            *)
(***************************************************************************)
Underway == Len(data) + Len(acks) + (IF ack_timer THEN 1 ELSE 0)

\* The packets sent so far stay below Word, with room for four more.
NoWrap == (client.packet_counter + 4) * MaxPayload < Word

Growth == client.packet_counter + 2 - Underway

SequencePart ==
  /\ InSequence(client)
  /\ client.phase = "handshake" => ~client.cc.lossRecovery

GrowthPart ==
  /\ Underway <= client.packet_counter
  /\ client.phase # "handshake" /\ NoWrap => WindowAt(client.cc, Growth)

SteadyInv == SequencePart /\ GrowthPart

LEMMA SortedLength ==
  ASSUME NEW q \in Seq(Packet), Sorted(q), NEW a \in Nat, NEW b \in Nat, a <= b,
         \A p \in ToSet(q) : a <= p.number /\ p.number < b
  PROVE  Len(q) <= b - a
<1> DEFINE n == Len(q)
           K == {k \in Nat : k + 1 <= n => a + k <= q[k + 1].number}
<1>1. n \in Nat /\ DOMAIN q = 1 .. n
  OBVIOUS
<1>2. \A i \in 1 .. n : q[i].number \in Nat /\ a <= q[i].number /\ q[i].number < b
  <2>1. \A i \in 1 .. n : q[i] \in Packet /\ q[i] \in ToSet(q)
    BY <1>1 DEF ToSet
  <2>2. \A p \in Packet : p.number \in Nat
    BY DEF Packet
  <2> QED
    BY <2>1, <2>2
<1> HIDE DEF n
<1>3. 0 \in K
  BY <1>1, <1>2
<1>4. ASSUME NEW k \in Nat, k \in K PROVE k + 1 \in K
  <2> SUFFICES ASSUME (k + 1) + 1 <= n PROVE a + (k + 1) <= q[(k + 1) + 1].number
    OBVIOUS
  <2>1. k + 1 \in 1 .. n /\ (k + 1) + 1 \in 1 .. n /\ k + 1 < (k + 1) + 1
    BY <1>1
  <2> DEFINE i == k + 1
             j == (k + 1) + 1
  <2>2. q[i].number < q[j].number
    BY <1>1, <2>1 DEF Sorted
  <2>3. a + k <= q[i].number
    BY <1>1, <1>4, <2>1
  <2>4. q[i].number \in Nat /\ q[j].number \in Nat
    BY <1>2, <2>1
  <2> QED
    BY <2>2, <2>3, <2>4
<1>5. Nat \subseteq K
  <2>1. \A k \in Nat : k \in K
    <3> HIDE DEF K
    <3> QED
      BY <1>3, <1>4, Addition!NatSetInduction
  <2> QED
    BY <2>1
<1>6. CASE n = 0
  BY <1>6 DEF n
<1>7. CASE n # 0
  <2> DEFINE k == n - 1
  <2>1. k \in Nat /\ k + 1 = n /\ n \in 1 .. n
    BY <1>1, <1>7
  <2>2. k \in K
    BY <1>5, <2>1
  <2>3. a + k <= q[n].number
    BY <2>1, <2>2
  <2>4. q[n].number \in Nat /\ q[n].number < b
    BY <1>2, <2>1
  <2>5. n <= b - a
    BY <1>1, <2>1, <2>3, <2>4
  <2> QED
    BY <2>5 DEF n
<1> QED
  BY <1>6, <1>7

LEMMA UnderwayType ==
  ASSUME TransferInv
  PROVE  /\ Len(data) \in Nat /\ Len(acks) \in Nat /\ ack_timer \in BOOLEAN
         /\ client.packet_counter \in Nat /\ Underway \in Nat
<1>1. Len(data) \in Nat /\ Len(acks) \in Nat
  BY DEF TransferInv, NetPart, InTransit, AckPart
<1>2. ack_timer \in BOOLEAN
  BY DEF TransferInv, ServerPart, SP!ServerInv, SP!ServerTypeOK
<1>3. client.packet_counter \in Nat
  BY DEF TransferInv, ClientPart, Resting, ClientInv, ClientType
<1> QED
  BY <1>1, <1>2, <1>3 DEF Underway

\* What the client sends in a turn is no more than the numbers it gave out.
LEMMA EmitUnderway ==
  ASSUME TransferInv, NEW c, NEW A, Going(client, c, A), Emit(c)
  PROVE  /\ client'.cc = c.cc /\ client'.send_unacked = c.send_unacked
         /\ client'.ooo = c.ooo /\ client'.Bytes_in_flight = c.Bytes_in_flight
         /\ client'.packet_counter = c.packet_counter /\ client'.phase = c.phase
         /\ c.packet_counter \in Nat
         /\ client.packet_counter <= c.packet_counter
         /\ Len(data') \in Nat
         /\ Len(data') <= Len(data) + (c.packet_counter - client.packet_counter)
<1>1. /\ ClientInv(client) /\ ClientInv(c) /\ Turn(client, c, A) /\ IsClient(c)
      /\ c.out \in Seq(Packet) /\ data \in Seq(Packet)
      /\ client.packet_counter \in Nat /\ c.packet_counter \in Nat
  BY DEF TransferInv, ClientPart, NetPart, InTransit, Resting, Going, ClientInv, ClientType
<1>2. /\ client' = [c EXCEPT !.out = << >>] /\ data' = data \o c.out
  BY DEF Emit
<1>3. /\ client'.cc = c.cc /\ client'.send_unacked = c.send_unacked
      /\ client'.ooo = c.ooo /\ client'.Bytes_in_flight = c.Bytes_in_flight
      /\ client'.packet_counter = c.packet_counter /\ client'.phase = c.phase
  BY <1>1, <1>2 DEF IsClient, ClientFields
<1>4. client.packet_counter <= c.packet_counter
  BY <1>1 DEF Turn, TurnPackets
<1>5. \A p \in ToSet(c.out) : client.packet_counter <= p.number /\ p.number < c.packet_counter
  <2>1. \A p \in ToSet(c.out) : p \in ToSet(c.queue) /\ p.number >= client.packet_counter
    BY <1>1 DEF Turn, TurnSends
  <2>2. \A p \in ToSet(c.queue) : p.number < c.packet_counter /\ p \in Packet
    BY <1>1, ToSetType DEF ClientInv, ClientType, Ordered, Known, Pending
  <2> QED
    BY <1>1, <2>1, <2>2 DEF Packet
<1>6. Sorted(c.out)
  BY <1>1 DEF Turn, TurnSends
<1>7. Len(c.out) <= c.packet_counter - client.packet_counter
  <2> DEFINE q == c.out
             m == client.packet_counter
             n == c.packet_counter
  <2>1. /\ q \in Seq(Packet) /\ m \in Nat /\ n \in Nat /\ m <= n
        /\ Sorted(q) /\ \A p \in ToSet(q) : m <= p.number /\ p.number < n
    BY <1>1, <1>4, <1>5, <1>6
  <2> HIDE DEF q, m, n
  <2>2. Len(q) <= n - m
    BY <2>1, SortedLength
  <2> QED
    BY <2>2 DEF q, m, n
<1>8. /\ Len(data') = Len(data) + Len(c.out)
      /\ Len(data) \in Nat /\ Len(c.out) \in Nat
  <2> DEFINE q == c.out
  <2>1. q \in Seq(Packet) /\ data' = data \o q
    BY <1>1, <1>2
  <2> HIDE DEF q
  <2>2. Len(data') = Len(data) + Len(q) /\ Len(data) \in Nat /\ Len(q) \in Nat
    BY <1>1, <2>1
  <2> QED
    BY <2>2 DEF q
<1> QED
  BY <1>1, <1>3, <1>4, <1>7, <1>8

LEMMA NoWrapSmall ==
  ASSUME NEW n \in Nat, NEW m \in Nat, n <= m, (m + 4) * MaxPayload < Word
  PROVE  /\ (n + 4) * MaxPayload < Word
         /\ n * MaxPayload \in Nat
         /\ n * MaxPayload + MaxPayload < Word
         /\ MaxPayload < Word
         /\ \A k \in Nat : k <= n + 4 => k * MaxPayload < Word
<1>1. MaxPayload \in Nat /\ Word \in Nat
  BY ClientAssumption, WordAssumption
<1>2. \A k \in Nat : k <= m + 4 => k * MaxPayload \in Nat /\ k * MaxPayload < Word
  <2> SUFFICES ASSUME NEW k \in Nat, k <= m + 4
               PROVE  k * MaxPayload \in Nat /\ k * MaxPayload < Word
    OBVIOUS
  <2>1. m + 4 \in Nat
    OBVIOUS
  <2>2. k * MaxPayload \in Nat /\ (m + 4) * MaxPayload \in Nat
        /\ k * MaxPayload <= (m + 4) * MaxPayload
    BY <2>1, SentGrows
  <2> QED
    BY <1>1, <2>2
<1>3. n + 4 <= m + 4 /\ n <= m + 4 /\ n + 1 <= m + 4 /\ 1 <= m + 4
      /\ n + 4 \in Nat /\ n + 1 \in Nat /\ 1 \in Nat
  OBVIOUS
<1>4. (n + 4) * MaxPayload < Word /\ n * MaxPayload \in Nat
  BY <1>2, <1>3
<1>5. (n + 1) * MaxPayload = n * MaxPayload + MaxPayload
  BY SentGrows
<1>6. n * MaxPayload + MaxPayload < Word
  BY <1>2, <1>3, <1>5
<1>7. MaxPayload < Word
  BY <1>1, <1>4, <1>6
<1>8. \A k \in Nat : k <= n + 4 => k * MaxPayload < Word
  BY <1>2
<1> QED
  BY <1>4, <1>6, <1>7, <1>8

LEMMA UnderwayTypeNext ==
  ASSUME TransferInv'
  PROVE  /\ Len(data') \in Nat /\ Len(acks') \in Nat /\ ack_timer' \in BOOLEAN
         /\ client'.packet_counter \in Nat /\ Underway' \in Nat
<1>1. Len(data') \in Nat /\ Len(acks') \in Nat
  BY DEF TransferInv, NetPart, InTransit, AckPart
<1>2. ack_timer' \in BOOLEAN
  BY DEF TransferInv, ServerPart, SP!ServerInv, SP!ServerTypeOK
<1>3. client'.packet_counter \in Nat
  BY DEF TransferInv, ClientPart, Resting, ClientInv, ClientType
<1> QED
  BY <1>1, <1>2, <1>3 DEF Underway

\* A window of at most j packets is one of at most Growth of them.
LEMMA GrowthFrom ==
  ASSUME TransferInv', InSequence(client'), NEW j \in Nat,
         Underway' <= client'.packet_counter,
         j <= client'.packet_counter + 2 - Underway',
         client'.phase # "handshake" /\ NoWrap' => WindowAt(client'.cc, j)
  PROVE  GrowthPart'
<1> DEFINE k == client'.packet_counter + 2 - Underway'
           w == client'.cc
<1>1. Underway' \in Nat /\ client'.packet_counter \in Nat
  BY UnderwayTypeNext
<1>2. k \in Nat /\ w \in RenoType /\ j <= k
  BY <1>1 DEF InSequence
<1>3. k = Growth' /\ w = client.cc'
  BY DEF Growth
<1>4. ASSUME client'.phase # "handshake", NoWrap' PROVE WindowAt(w, k)
  <2>1. WindowAt(w, j)
    BY <1>4
  <2> HIDE DEF w, k
  <2> QED
    BY <1>2, <2>1, WindowGrows
<1> HIDE DEF w, k
<1>5. client'.phase # "handshake" /\ NoWrap' => WindowAt(client.cc, Growth)'
  BY <1>3, <1>4
<1> QED
  BY <1>5 DEF GrowthPart

\* A step that leaves the client alone.
LEMMA ClientRests ==
  ASSUME TransferInv, TransferInv', SteadyInv, UNCHANGED client, Underway' <= Underway
  PROVE  SteadyInv'
<1> DEFINE j == client.packet_counter + 2 - Underway
<1>1. Underway \in Nat /\ client.packet_counter \in Nat
  BY UnderwayType
<1>2. Underway' \in Nat /\ client'.packet_counter \in Nat
  BY UnderwayTypeNext
<1>3. SequencePart'
  BY DEF SteadyInv, SequencePart, InSequence, SentAtMost
<1>4. Underway <= client.packet_counter
  BY DEF SteadyInv, GrowthPart
<1>5. j \in Nat /\ j = Growth
  BY <1>1, <1>4 DEF Growth
<1>6. j <= client'.packet_counter + 2 - Underway'
  BY <1>1, <1>2
<1>7. client'.phase # "handshake" /\ NoWrap' => WindowAt(client'.cc, j)
  BY <1>5 DEF SteadyInv, GrowthPart, NoWrap
<1>8. InSequence(client')
  BY DEF SteadyInv, SequencePart
<1>9. Underway' <= client'.packet_counter
  BY <1>1, <1>2, <1>4
<1> HIDE DEF j
<1>10. GrowthPart'
  BY <1>5, <1>6, <1>7, <1>8, <1>9, GrowthFrom
<1> QED
  BY <1>3, <1>10 DEF SteadyInv

LEMMA TailShorter ==
  ASSUME NEW T, NEW s \in Seq(T), s # << >>
  PROVE  Len(s) \in Nat /\ Len(Tail(s)) = Len(s) - 1 /\ Len(s) >= 1
OBVIOUS

LEMMA ServerReceivesSteady ==
  ASSUME TransferInv, TransferInv', SteadyInv, ServerReceives PROVE SteadyInv'
<1>1. data # << >> /\ data' = Tail(data) /\ UNCHANGED <<client, acks>>
  BY DEF ServerReceives
<1>2. Len(data') = Len(data) - 1
  BY <1>1, TailShorter DEF TransferInv, NetPart, InTransit
<1>3. Underway' <= Underway
  BY <1>1, <1>2, UnderwayType, UnderwayTypeNext DEF Underway
<1> QED
  BY <1>1, <1>3, ClientRests

LEMMA ServerAckTimeoutSteady ==
  ASSUME TransferInv, TransferInv', SteadyInv, ServerAckTimeout PROVE SteadyInv'
<1> DEFINE f == S!AckFrame
<1>1. /\ acks' = Append(acks, f) /\ ack_timer /\ ~ack_timer'
      /\ UNCHANGED <<client, data>>
  BY DEF ServerAckTimeout, S!AckTimeout
<1> HIDE DEF f
<1>2. Len(acks') = Len(acks) + 1
  BY <1>1 DEF TransferInv, AckPart
<1>3. Underway' <= Underway
  BY <1>1, <1>2, UnderwayType, UnderwayTypeNext DEF Underway
<1> QED
  BY <1>1, <1>3, ClientRests

LEMMA LosesSteady ==
  ASSUME TransferInv, TransferInv', SteadyInv, LoseData \/ LoseAck PROVE SteadyInv'
<1>1. CASE LoseData
  <2>1. /\ data # << >> /\ data' = Tail(data) /\ UNCHANGED <<client, acks, ack_timer>>
    BY <1>1 DEF LoseData, serverVars
  <2>2. Len(data') = Len(data) - 1
    BY <2>1, TailShorter DEF TransferInv, NetPart, InTransit
  <2>3. Underway' <= Underway
    BY <2>1, <2>2, UnderwayType, UnderwayTypeNext DEF Underway
  <2> QED
    BY <2>1, <2>3, ClientRests
<1>2. CASE LoseAck
  <2>1. /\ acks # << >> /\ acks' = Tail(acks) /\ UNCHANGED <<client, data, ack_timer>>
    BY <1>2 DEF LoseAck, serverVars
  <2>2. Len(acks') = Len(acks) - 1
    BY <2>1, TailShorter DEF TransferInv, AckPart
  <2>3. Underway' <= Underway
    BY <2>1, <2>2, UnderwayType, UnderwayTypeNext DEF Underway
  <2> QED
    BY <2>1, <2>3, ClientRests
<1> QED
  BY <1>1, <1>2

LEMMA AddStreamsSteady ==
  ASSUME TransferInv, TransferInv', SteadyInv, ClientAddStreams PROVE SteadyInv'
<1>1. /\ client' = WithStreams(client, AddedSizes)
      /\ UNCHANGED <<data, acks, ack_timer>>
  BY DEF ClientAddStreams, AddStreams, WithStreams, serverVars
<1>2. IsClient(client)
  BY DEF TransferInv, ClientPart, Resting, ClientInv, ClientType
<1>3. /\ client'.cc = client.cc /\ client'.send_unacked = client.send_unacked
      /\ client'.ooo = client.ooo /\ client'.Bytes_in_flight = client.Bytes_in_flight
      /\ client'.packet_counter = client.packet_counter /\ client'.phase = client.phase
  BY <1>1, <1>2 DEF WithStreams, IsClient, ClientFields
<1>4. SequencePart'
  BY <1>3 DEF SteadyInv, SequencePart, InSequence, SentAtMost
<1>5. Underway' = Underway
  BY <1>1 DEF Underway
<1>6. GrowthPart'
  BY <1>3, <1>5 DEF SteadyInv, GrowthPart, Growth, NoWrap, WindowAt
<1> QED
  BY <1>4, <1>6 DEF SteadyInv

LEMMA HandshakeResponseSteady ==
  ASSUME TransferInv, TransferInv', SteadyInv, HandshakeResponse PROVE SteadyInv'
<1> DEFINE c == SendReadyPackets(ProcessClientHandshakeResponse(client))
           A == {}
<1>1. /\ client.phase = "handshake" /\ Emit(c)
      /\ UNCHANGED <<acks, ack_timer>>
  BY DEF HandshakeResponse, ReceiveHandshakeResponse, serverVars
<1>2. /\ Resting(client) /\ Idle(client) /\ InSequence(client) /\ ~client.cc.lossRecovery
  BY <1>1 DEF TransferInv, ClientPart, SteadyInv, SequencePart
<1>3. /\ Going(client, c, A) /\ c.phase \in {"open", "closed"}
  BY <1>2, HandshakeGoing
<1>4. /\ InSequence(c)
      /\ c.cc.snd_mss = MaxPayload /\ c.cc.snd_cwnd = MaxPayload * 2
      /\ c.cc.ssthresh = Word - 1 /\ ~c.cc.lossRecovery
  BY <1>2, HandshakeSteady
<1> HIDE DEF c, A
<1>5. /\ client'.cc = c.cc /\ client'.send_unacked = c.send_unacked
      /\ client'.ooo = c.ooo /\ client'.Bytes_in_flight = c.Bytes_in_flight
      /\ client'.packet_counter = c.packet_counter /\ client'.phase = c.phase
      /\ c.packet_counter \in Nat
      /\ client.packet_counter <= c.packet_counter
      /\ Len(data') \in Nat
      /\ Len(data') <= Len(data) + (c.packet_counter - client.packet_counter)
  BY <1>1, <1>3, EmitUnderway
<1>6. InSequence(client')
  BY <1>4, <1>5 DEF InSequence, SentAtMost
<1>7. SequencePart'
  BY <1>3, <1>5, <1>6 DEF SequencePart
<1>8. Underway' <= client'.packet_counter
  <2>1. /\ Len(data) = 0 /\ Len(acks) = 0 /\ ack_timer = FALSE
        /\ client.packet_counter \in Nat
    BY <1>1, UnderwayType DEF TransferInv, StartPart
  <2> QED
    BY <1>1, <1>5, <2>1 DEF Underway
<1> DEFINE j == 2
<1>9. j \in Nat /\ j <= client'.packet_counter + 2 - Underway'
  BY <1>8, UnderwayTypeNext
<1>10. client'.phase # "handshake" /\ NoWrap' => WindowAt(client'.cc, j)
  <2> SUFFICES ASSUME NoWrap' PROVE WindowAt(c.cc, j)
    BY <1>5
  <2> DEFINE n == client'.packet_counter
  <2>1. n \in Nat /\ (n + 4) * MaxPayload < Word
    BY UnderwayTypeNext DEF NoWrap
  <2> HIDE DEF n
  <2>2. MaxPayload < Word
    BY <2>1, NoWrapSmall
  <2>3. MaxPayload \in Nat /\ Word \in Nat
    BY ClientAssumption, WordAssumption
  <2> QED
    BY <1>4, <2>2, <2>3 DEF WindowAt
<1> HIDE DEF j
<1>11. GrowthPart'
  BY <1>6, <1>8, <1>9, <1>10, GrowthFrom
<1> QED
  BY <1>7, <1>11 DEF SteadyInv

LEMMA ClientTimeoutSteady ==
  ASSUME TransferInv, TransferInv', SteadyInv, ClientTimeout PROVE SteadyInv'
<1>1. PICK number \in client.timers : RetransmissionTimeout(number)
  BY DEF ClientTimeout
<1> DEFINE c == ExpireRTO(client, number)
           A == {}
<1>2. Emit(c) /\ UNCHANGED <<acks, ack_timer>>
  BY <1>1 DEF ClientTimeout, RetransmissionTimeout, serverVars
<1>3. client.phase = "open" /\ Fresh(client)
  BY OpenTimers
<1>4. Going(client, c, A) /\ c.phase = client.phase
  BY <1>3, ExpireGoing
<1>5. InSequence(client)
  BY DEF SteadyInv, SequencePart
<1>6. InSequence(c) /\ c.cc = ProcessRexmitTimer(client.cc)
  BY <1>3, <1>5, ExpireSteady
<1> HIDE DEF c, A
<1>7. /\ client'.cc = c.cc /\ client'.send_unacked = c.send_unacked
      /\ client'.ooo = c.ooo /\ client'.Bytes_in_flight = c.Bytes_in_flight
      /\ client'.packet_counter = c.packet_counter /\ client'.phase = c.phase
      /\ c.packet_counter \in Nat
      /\ client.packet_counter <= c.packet_counter
      /\ Len(data') \in Nat
      /\ Len(data') <= Len(data) + (c.packet_counter - client.packet_counter)
  BY <1>2, <1>4, EmitUnderway
<1>8. InSequence(client')
  BY <1>6, <1>7 DEF InSequence, SentAtMost
<1>9. SequencePart'
  BY <1>3, <1>4, <1>7, <1>8 DEF SequencePart
<1>10. Underway <= client.packet_counter
  BY DEF SteadyInv, GrowthPart
<1>11. /\ Underway' <= Underway + (client'.packet_counter - client.packet_counter)
       /\ Underway' <= client'.packet_counter
       /\ Underway' \in Nat /\ Underway \in Nat
       /\ client.packet_counter \in Nat /\ client'.packet_counter \in Nat
  <2>1. Underway' <= Underway + (client'.packet_counter - client.packet_counter)
    BY <1>2, <1>7, UnderwayType, UnderwayTypeNext DEF Underway
  <2> QED
    BY <1>10, <2>1, UnderwayType, UnderwayTypeNext
<1> DEFINE j == client.packet_counter + 2 - Underway
<1>12. j \in Nat /\ j >= 2 /\ j <= client'.packet_counter + 2 - Underway' /\ j = Growth
  BY <1>10, <1>11 DEF Growth
<1> HIDE DEF j
<1>13. client'.phase # "handshake" /\ NoWrap' => WindowAt(client'.cc, j)
  <2> SUFFICES ASSUME NoWrap' PROVE WindowAt(c.cc, j)
    BY <1>7
  <2> DEFINE n == client.packet_counter
             m == client'.packet_counter
             w == client.cc
  <2>1. n \in Nat /\ m \in Nat /\ n <= m /\ (m + 4) * MaxPayload < Word
    BY <1>7, <1>11 DEF NoWrap
  <2>2. w \in RenoType
    BY <1>5 DEF InSequence
  <2> HIDE DEF n, m
  <2>3. (n + 4) * MaxPayload < Word
    BY <2>1, NoWrapSmall
  <2>4. WindowAt(w, j)
    BY <1>3, <1>12, <2>3 DEF SteadyInv, GrowthPart, NoWrap, n
  <2> HIDE DEF w
  <2>5. WindowAt(ProcessRexmitTimer(w), j)
    BY <1>12, <2>2, <2>4, TimerWindow
  <2> QED
    BY <1>6, <2>5 DEF w
<1>14. GrowthPart'
  BY <1>8, <1>11, <1>12, <1>13, GrowthFrom
<1> QED
  BY <1>9, <1>14 DEF SteadyInv

LEMMA ClientReceivesAckSteady ==
  ASSUME TransferInv, TransferInv', SteadyInv, ClientReceivesAck PROVE SteadyInv'
<1> DEFINE f == Head(acks)
<1>1. /\ acks # << >> /\ acks' = Tail(acks) /\ UNCHANGED ack_timer
      /\ client.phase # "closed" => ReceiveAck(f)
      /\ client.phase = "closed" => UNCHANGED <<client, data>>
  BY DEF ClientReceivesAck, serverVars
<1>2. f \in AckFrames
  BY <1>1, TailIs DEF TransferInv, AckPart
<1> HIDE DEF f
<1>3. Len(acks') = Len(acks) - 1 /\ Len(acks) \in Nat /\ Len(acks) >= 1
  BY <1>1, TailShorter DEF TransferInv, AckPart
<1>4. client.phase # "handshake"
  BY <1>1 DEF TransferInv, StartPart
<1>5. CASE client.phase = "closed"
  <2>1. Underway' <= Underway
    BY <1>1, <1>3, <1>5, UnderwayType, UnderwayTypeNext DEF Underway
  <2> QED
    BY <1>1, <1>5, <2>1, ClientRests
<1>6. CASE client.phase # "closed"
  <2> DEFINE c == SendReadyPackets(
                    UpdateLostPackets(
                      ProcessClientACK(CancelRTO(client, f), f), f.largest))
             A == Numbers(RemovedPackets(client, f))
  <2>1. Emit(c)
    BY <1>1, <1>6 DEF ReceiveAck
  <2>2. Fresh(client) /\ InSequence(client)
    BY <1>4 DEF TransferInv, ClientPart, Resting, Fresh, SteadyInv, SequencePart
  <2>3. AckFrame(f)
    BY <1>2 DEF AckFrame, AckFrames
  <2>4. Going(client, c, A) /\ c.phase \in {client.phase, "closed"}
    BY <1>6, <2>2, <2>3, ReceiveAckGoing
  <2>5. InSequence(c) /\ Reacts(client, c)
    BY <1>6, <2>2, <2>3, ReceiveAckSteady
  <2> HIDE DEF c, A
  <2>6. /\ client'.cc = c.cc /\ client'.send_unacked = c.send_unacked
        /\ client'.ooo = c.ooo /\ client'.Bytes_in_flight = c.Bytes_in_flight
        /\ client'.packet_counter = c.packet_counter /\ client'.phase = c.phase
        /\ c.packet_counter \in Nat
        /\ client.packet_counter <= c.packet_counter
        /\ Len(data') \in Nat
        /\ Len(data') <= Len(data) + (c.packet_counter - client.packet_counter)
    BY <2>1, <2>4, EmitUnderway
  <2>7. InSequence(client')
    BY <2>5, <2>6 DEF InSequence, SentAtMost
  <2>8. SequencePart'
    BY <1>4, <2>4, <2>6, <2>7 DEF SequencePart
  <2>9. Underway <= client.packet_counter
    BY DEF SteadyInv, GrowthPart
  <2>10. /\ Underway' + 1 <= Underway + (client'.packet_counter - client.packet_counter)
         /\ Underway' <= client'.packet_counter
         /\ Underway' \in Nat /\ Underway \in Nat /\ Underway >= 1
         /\ client.packet_counter \in Nat /\ client'.packet_counter \in Nat
    <3>1. /\ Underway' + 1 <= Underway + (client'.packet_counter - client.packet_counter)
          /\ Underway >= 1
      BY <1>1, <1>3, <2>6, UnderwayType, UnderwayTypeNext DEF Underway
    <3> QED
      BY <2>9, <3>1, UnderwayType, UnderwayTypeNext
  <2> DEFINE k == client.packet_counter + 2 - Underway
             j == k + 1
  <2>11. /\ k \in Nat /\ k >= 2 /\ k = Growth /\ k + 1 <= client.packet_counter + 2
         /\ j \in Nat /\ j <= client'.packet_counter + 2 - Underway'
    BY <2>9, <2>10 DEF Growth
  <2> HIDE DEF k
  <2>12. client'.phase # "handshake" /\ NoWrap' => WindowAt(client'.cc, j)
    <3> SUFFICES ASSUME NoWrap' PROVE WindowAt(c.cc, j)
      BY <2>6
    <3> DEFINE n == client.packet_counter
               m == client'.packet_counter
               v == client.cc
               w == c.cc
    <3>1. n \in Nat /\ m \in Nat /\ n <= m /\ (m + 4) * MaxPayload < Word
      BY <2>6, <2>10 DEF NoWrap
    <3>2. k + 1 <= n + 4 /\ k + 1 \in Nat
      BY <2>10, <2>11
    <3> HIDE DEF n, m
    <3>3. /\ (n + 4) * MaxPayload < Word /\ n * MaxPayload \in Nat
          /\ n * MaxPayload + MaxPayload < Word
          /\ \A i \in Nat : i <= n + 4 => i * MaxPayload < Word
      BY <3>1, NoWrapSmall
    <3>4. WindowAt(v, k)
      BY <1>4, <2>11, <3>3 DEF SteadyInv, GrowthPart, NoWrap, n
    <3>5. (k + 1) * MaxPayload < Word
      BY <3>2, <3>3
    <3>6. PICK x \in RenoType, y \in RenoType :
            /\ SameWindow(v, x) /\ Reaction(x, y) /\ SameWindow(y, w)
            /\ SentAtMost(client) < Word =>
                 x.snd_una <= x.snd_max /\ x.snd_max <= SentAtMost(client)
      BY <2>5 DEF Reacts
    <3>7. SentAtMost(client) = n * MaxPayload
      BY DEF SentAtMost, n
    <3>8. MaxPayload \in Nat /\ Word \in Nat /\ x.snd_max \in Nat
      BY ClientAssumption, WordAssumption DEF RenoType
    <3> DEFINE s == n * MaxPayload
    <3>9. s \in Nat /\ s + MaxPayload < Word /\ s < Word
      BY <3>3, <3>8
    <3> HIDE DEF s
    <3>10. x.snd_una <= x.snd_max /\ x.snd_max <= s
      BY <3>6, <3>7, <3>9 DEF s
    <3>11. x.snd_max + MaxPayload < Word
      BY <3>8, <3>9, <3>10
    <3> HIDE DEF v, w
    <3>12. WindowAt(x, k)
      BY <3>4, <3>6, SameWindowAt
    <3>13. WindowAt(y, k + 1)
      BY <2>11, <3>5, <3>6, <3>10, <3>11, <3>12, ReactionWindow
    <3>14. WindowAt(w, k + 1)
      BY <3>6, <3>13, SameWindowAt
    <3> QED
      BY <3>14 DEF w
  <2> HIDE DEF j
  <2>13. GrowthPart'
    BY <2>7, <2>10, <2>11, <2>12, GrowthFrom
  <2> QED
    BY <2>8, <2>13 DEF SteadyInv
<1> QED
  BY <1>5, <1>6

LEMMA SteadyInit == Init => SteadyInv
<1> SUFFICES ASSUME Init PROVE SteadyInv
  OBVIOUS
<1> DEFINE none == << >>
           gone == {}
<1>1. client = NewClient /\ data = none /\ acks = none /\ ack_timer = FALSE
  BY DEF Init, ClientInit, S!ServerInit
<1>2. /\ client.cc = NewReno /\ client.packet_counter = 0 /\ client.Bytes_in_flight = 0
      /\ client.send_unacked = 0 /\ client.ooo = gone /\ client.phase = "handshake"
  BY <1>1 DEF NewClient
<1>3. /\ NewReno \in RenoType /\ NewReno.snd_una = 0 /\ NewReno.snd_max = 0
      /\ ~NewReno.lossRecovery
  BY DEF NewReno, RenoType
<1>4. Len(none) = 0 /\ TotalSize(none) = 0
  BY TotalSizeFacts
<1>5. ByNumber(gone) = none
  BY FS_EmptySet DEF ByNumber
<1>6. SentAtMost(client) = 0
  BY <1>2, ClientAssumption DEF SentAtMost
<1> HIDE DEF none, gone
<1>7. SequencePart
  BY <1>2, <1>3, <1>4, <1>5, <1>6 DEF SequencePart, InSequence
<1>8. GrowthPart
  BY <1>1, <1>2, <1>4 DEF GrowthPart, Underway
<1> QED
  BY <1>7, <1>8 DEF SteadyInv

LEMMA SteadyStep ==
  ASSUME TransferInv, TransferInv', SteadyInv, [Next]_vars PROVE SteadyInv'
<1>1. CASE UNCHANGED vars
  <2>1. UNCHANGED <<client, data, acks, ack_timer>>
    BY <1>1 DEF vars, serverVars
  <2>2. Underway' <= Underway
    BY <2>1, UnderwayType DEF Underway
  <2> QED
    BY <2>1, <2>2, ClientRests
<1> QED
  BY <1>1, HandshakeResponseSteady, ServerReceivesSteady, ServerAckTimeoutSteady,
     ClientReceivesAckSteady, ClientTimeoutSteady, AddStreamsSteady, LosesSteady
  DEF Next

LEMMA SteadyAlways == Spec => []SteadyInv
<1>1. TransferInv /\ TransferInv' /\ SteadyInv /\ [Next]_vars => SteadyInv'
  BY SteadyStep
<1> QED
  BY <1>1, SteadyInit, TransferAlways, PTL DEF Spec

\* The flight size of receivedDataAck (QuicNewReno.cc:102) is a difference of
\* two unsigned counters: it cannot wrap before the counters themselves do,
\* which takes 2^32 bytes sent.
THEOREM UnaStaysBehindMax == Spec => [](SentAtMost(client) < Word => UnaBehindMax)
<1>1. TransferInv /\ SteadyInv => (SentAtMost(client) < Word => UnaBehindMax)
  <2> SUFFICES ASSUME TransferInv, SteadyInv, SentAtMost(client) < Word
               PROVE  UnaBehindMax
    OBVIOUS
  <2>1. ClientInv(client)
    BY DEF TransferInv, ClientPart, Resting
  <2>2. /\ client.send_unacked \in Nat /\ client.cc.snd_max \in Nat
        /\ client.send_unacked + client.Bytes_in_flight + TotalSize(ByNumber(client.ooo))
             <= client.cc.snd_max
    BY DEF SteadyInv, SequencePart, InSequence, RenoType
  <2>3. client.Bytes_in_flight \in Nat /\ TotalSize(ByNumber(client.ooo)) \in Nat
    BY <2>1, FlightType
  <2> QED
    BY <2>2, <2>3 DEF UnaBehindMax
<1> QED
  BY <1>1, TransferAlways, SteadyAlways, PTL

\* No step starves the connection: whatever was lost, timed out or recovered
\* from, a packet fits into the congestion window (QuicConnectionClient.cc:175
\* would never send again), as long as the bytes sent fit into a uint32.
THEOREM WindowStaysOpen == Spec => [](NoWrap => WindowNeverStarves)
<1>1. SteadyInv => (NoWrap => WindowNeverStarves)
  BY DEF SteadyInv, GrowthPart, WindowAt, WindowNeverStarves
<1> QED
  BY <1>1, SteadyAlways, PTL

Within ==
  client'.Bytes_in_flight > client.Bytes_in_flight =>
    client'.Bytes_in_flight <= Minimum(ConnectionWindow, client'.cc.snd_cwnd)

LEMMA EmitWithin ==
  ASSUME TransferInv, NEW c, NEW A, Going(client, c, A), Emit(c), InWindow(client, c)
  PROVE  Within
<1>1. client'.cc = c.cc /\ client'.Bytes_in_flight = c.Bytes_in_flight
  BY EmitUnderway
<1> QED
  BY <1>1 DEF Within, InWindow

LEMMA SameWithin ==
  ASSUME TransferInv, client'.Bytes_in_flight = client.Bytes_in_flight PROVE Within
<1>1. client.Bytes_in_flight \in Nat
  BY FlightType DEF TransferInv, ClientPart, Resting
<1> QED
  BY <1>1 DEF Within

LEMMA WithinStep ==
  ASSUME TransferInv, SteadyInv, [Next]_vars PROVE [Within]_vars
<1>1. CASE UNCHANGED vars
  BY <1>1
<1>2. CASE HandshakeResponse
  <2> DEFINE c == SendReadyPackets(ProcessClientHandshakeResponse(client))
             A == {}
  <2>1. client.phase = "handshake" /\ Emit(c)
    BY <1>2 DEF HandshakeResponse, ReceiveHandshakeResponse
  <2>2. /\ Resting(client) /\ Idle(client) /\ InSequence(client) /\ ~client.cc.lossRecovery
    BY <2>1 DEF TransferInv, ClientPart, SteadyInv, SequencePart
  <2>3. Going(client, c, A) /\ InWindow(client, c)
    BY <2>2, HandshakeGoing, HandshakeSteady
  <2> HIDE DEF c, A
  <2> QED
    BY <2>1, <2>3, EmitWithin
<1>3. CASE ClientReceivesAck
  <2> DEFINE f == Head(acks)
  <2>1. /\ acks # << >>
        /\ client.phase # "closed" => ReceiveAck(f)
        /\ client.phase = "closed" => UNCHANGED client
    BY <1>3 DEF ClientReceivesAck
  <2>2. f \in AckFrames
    BY <2>1, TailIs DEF TransferInv, AckPart
  <2> HIDE DEF f
  <2>3. CASE client.phase = "closed"
    BY <2>1, <2>3, SameWithin
  <2>4. CASE client.phase # "closed"
    <3> DEFINE c == SendReadyPackets(
                      UpdateLostPackets(
                        ProcessClientACK(CancelRTO(client, f), f), f.largest))
               A == Numbers(RemovedPackets(client, f))
    <3>1. Emit(c)
      BY <2>1, <2>4 DEF ReceiveAck
    <3>2. client.phase # "handshake"
      BY <2>1 DEF TransferInv, StartPart
    <3>3. Fresh(client) /\ InSequence(client)
      BY <3>2 DEF TransferInv, ClientPart, Resting, Fresh, SteadyInv, SequencePart
    <3>4. AckFrame(f)
      BY <2>2 DEF AckFrame, AckFrames
    <3>5. Going(client, c, A) /\ InWindow(client, c)
      BY <2>4, <3>3, <3>4, ReceiveAckGoing, ReceiveAckSteady
    <3> HIDE DEF c, A
    <3> QED
      BY <3>1, <3>5, EmitWithin
  <2> QED
    BY <2>3, <2>4
<1>4. CASE ClientTimeout
  <2>1. PICK number \in client.timers : RetransmissionTimeout(number)
    BY <1>4 DEF ClientTimeout
  <2> DEFINE c == ExpireRTO(client, number)
             A == {}
  <2>2. Emit(c)
    BY <2>1 DEF RetransmissionTimeout
  <2>3. Fresh(client) /\ InSequence(client)
    BY OpenTimers DEF SteadyInv, SequencePart
  <2>4. Going(client, c, A) /\ c.Bytes_in_flight = client.Bytes_in_flight
    BY <2>3, ExpireGoing, ExpireSteady
  <2> HIDE DEF c, A
  <2>5. client'.Bytes_in_flight = client.Bytes_in_flight
    BY <2>2, <2>4, EmitUnderway
  <2> QED
    BY <2>5, SameWithin
<1>5. CASE ClientAddStreams
  <2>1. client' = WithStreams(client, AddedSizes)
    BY <1>5 DEF ClientAddStreams, AddStreams, WithStreams
  <2>2. IsClient(client)
    BY DEF TransferInv, ClientPart, Resting, ClientInv, ClientType
  <2>3. client'.Bytes_in_flight = client.Bytes_in_flight
    BY <2>1, <2>2 DEF WithStreams, IsClient, ClientFields
  <2> QED
    BY <2>3, SameWithin
<1>6. CASE ServerReceives \/ ServerAckTimeout \/ LoseData \/ LoseAck
  <2>1. UNCHANGED client
    BY <1>6 DEF ServerReceives, ServerAckTimeout, LoseData, LoseAck
  <2> QED
    BY <2>1, SameWithin
<1> QED
  BY <1>1, <1>2, <1>3, <1>4, <1>5, <1>6 DEF Next

\* Only the new data of a response or an ACK adds to the bytes in flight, and
\* it stays within the windows (the loop of ProcessClientSend).
THEOREM SendsStayWithinWindow == Spec => SendsWithinWindow
<1>1. TransferInv /\ SteadyInv /\ [Next]_vars => [Within]_vars
  BY WithinStep
<1>2. Spec => [][Within]_vars
  BY <1>1, TransferAlways, SteadyAlways, PTL DEF Spec
<1> QED
  BY <1>2 DEF SendsWithinWindow, Within
-----------------------------------------------------------------------------
(***************************************************************************)
(* What ends the simulation.  From the response of the server on, the      *)
(* threshold of the congestion control is never zero.                      *)
(***************************************************************************)
SoundInv ==
  /\ Short(client)
  /\ client.phase # "handshake" => Floored(client.cc)

LEMMA EmitSound ==
  ASSUME TransferInv, NEW c, NEW A, Going(client, c, A), Emit(c),
         Short(c), Floored(c.cc)
  PROVE  SoundInv'
<1>1. IsClient(c)
  BY DEF Going, ClientInv, ClientType
<1>2. client' = [c EXCEPT !.out = << >>]
  BY DEF Emit
<1>3. /\ client'.queue = c.queue /\ client'.waiting = c.waiting
      /\ client'.failed = c.failed /\ client'.cc = c.cc
  BY <1>1, <1>2 DEF IsClient, ClientFields
<1> QED
  BY <1>3 DEF SoundInv, Short, Pending, Floored

LEMMA SoundInit == Init => SoundInv
<1> SUFFICES ASSUME Init PROVE SoundInv
  OBVIOUS
<1> DEFINE none == << >>
<1>1. /\ client.queue = none /\ client.waiting = none /\ client.failed = FALSE
      /\ client.phase = "handshake"
  BY DEF Init, ClientInit, NewClient
<1>2. ToSet(none) = {}
  BY ToSetEmpty
<1> HIDE DEF none
<1> QED
  BY <1>1, <1>2 DEF SoundInv, Short, Pending

LEMMA SoundStep ==
  ASSUME TransferInv, SteadyInv, SoundInv, [Next]_vars PROVE SoundInv'
<1>1. Short(client) /\ (client.phase # "handshake" => Floored(client.cc))
  BY DEF SoundInv
<1>2. CASE UNCHANGED client
  BY <1>1, <1>2 DEF SoundInv, Short, Pending, Floored
<1>3. CASE HandshakeResponse
  <2> DEFINE c == SendReadyPackets(ProcessClientHandshakeResponse(client))
             A == {}
  <2>1. client.phase = "handshake" /\ Emit(c)
    BY <1>3 DEF HandshakeResponse, ReceiveHandshakeResponse
  <2>2. /\ Resting(client) /\ Idle(client) /\ InSequence(client) /\ ~client.cc.lossRecovery
    BY <2>1 DEF TransferInv, ClientPart, SteadyInv, SequencePart
  <2>3. /\ Going(client, c, A) /\ Short(c)
        /\ c.cc.snd_mss = MaxPayload /\ c.cc.ssthresh = Word - 1
    BY <1>1, <2>2, HandshakeGoing, HandshakeSteady
  <2> HIDE DEF c, A
  <2>4. Floored(c.cc)
    BY <2>3, WordAssumption DEF Floored
  <2> QED
    BY <2>1, <2>3, <2>4, EmitSound
<1>4. CASE ClientReceivesAck /\ client.phase # "closed"
  <2> DEFINE f == Head(acks)
             c == SendReadyPackets(
                    UpdateLostPackets(
                      ProcessClientACK(CancelRTO(client, f), f), f.largest))
             A == Numbers(RemovedPackets(client, f))
  <2>1. acks # << >> /\ Emit(c)
    BY <1>4 DEF ClientReceivesAck, ReceiveAck
  <2>2. client.phase # "handshake"
    BY <2>1 DEF TransferInv, StartPart
  <2>3. Fresh(client) /\ InSequence(client)
    BY <2>2 DEF TransferInv, ClientPart, Resting, Fresh, SteadyInv, SequencePart
  <2>4. f \in AckFrames
    BY <2>1, TailIs DEF TransferInv, AckPart
  <2> HIDE DEF f
  <2>5. AckFrame(f)
    BY <2>4 DEF AckFrame, AckFrames
  <2>6. Going(client, c, A) /\ Short(c) /\ Floored(c.cc)
    BY <1>1, <1>4, <2>2, <2>3, <2>5, ReceiveAckGoing, ReceiveAckShort
  <2> HIDE DEF c, A
  <2> QED
    BY <2>1, <2>6, EmitSound
<1>5. CASE ClientTimeout
  <2>1. PICK number \in client.timers : RetransmissionTimeout(number)
    BY <1>5 DEF ClientTimeout
  <2> DEFINE c == ExpireRTO(client, number)
             A == {}
  <2>2. Emit(c)
    BY <2>1 DEF RetransmissionTimeout
  <2>3. Fresh(client) /\ InSequence(client) /\ client.phase = "open"
    BY OpenTimers DEF SteadyInv, SequencePart
  <2>4. Going(client, c, A) /\ Short(c) /\ Floored(c.cc)
    BY <1>1, <2>3, ExpireGoing, ExpireShort
  <2> HIDE DEF c, A
  <2> QED
    BY <2>2, <2>4, EmitSound
<1>6. CASE ClientAddStreams
  <2>1. client' = WithStreams(client, AddedSizes)
    BY <1>6 DEF ClientAddStreams, AddStreams, WithStreams
  <2>2. IsClient(client)
    BY DEF TransferInv, ClientPart, Resting, ClientInv, ClientType
  <2>3. /\ client'.queue = client.queue /\ client'.waiting = client.waiting
        /\ client'.failed = client.failed /\ client'.cc = client.cc
        /\ client'.phase = client.phase
    BY <2>1, <2>2 DEF WithStreams, IsClient, ClientFields
  <2> QED
    BY <1>1, <2>3 DEF SoundInv, Short, Pending, Floored
<1>7. CASE \/ UNCHANGED vars \/ ServerReceives \/ ServerAckTimeout \/ LoseData \/ LoseAck
           \/ ClientReceivesAck /\ client.phase = "closed"
  <2>1. UNCHANGED client
    BY <1>7 DEF vars, ServerReceives, ServerAckTimeout, LoseData, LoseAck, ClientReceivesAck
  <2> QED
    BY <1>2, <2>1
<1> QED
  BY <1>3, <1>4, <1>5, <1>6, <1>7 DEF Next

\* A connection without early data never ends the simulation, whatever is lost
\* and whenever its timers expire: the window divides only when it is at least
\* the threshold, which no loss, timeout or recovery makes zero, even when the
\* window or its counters wrap; and only packets with a short header wait to
\* be sent again.
THEOREM ConnectionNeverFails == Spec => []NeverFails
<1>1. TransferInv /\ SteadyInv /\ SoundInv /\ [Next]_vars => SoundInv'
  BY SoundStep
<1>2. Spec => []SoundInv
  BY <1>1, SoundInit, TransferAlways, SteadyAlways, PTL DEF Spec
<1>3. SoundInv => NeverFails
  BY DEF SoundInv, Short, NeverFails
<1> QED
  BY <1>2, <1>3, PTL

=============================================================================
