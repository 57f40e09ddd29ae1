----------------------------- MODULE QuicZeroRtt -----------------------------
(***************************************************************************)
(* A reconnection.  The client host remembers the transport parameters of  *)
(* an earlier connection to the server, sends its Initial packet and data  *)
(* in 0-RTT packets at once, and goes on as in QuicTransfer when the       *)
(* response arrives.  The server ignores 0-RTT packets of a connection it  *)
(* does not have, and never acknowledges them.                             *)
(*                                                                         *)
(* The Initial packet is the element of data with number -1.  The response *)
(* travels with the ACK frames, in their order.                            *)
(*                                                                         *)
(* A second Initial packet at the server makes a second connection there:  *)
(* QuicHandshake.  Here none arrives, by ZeroRttAssumption.                *)
(***************************************************************************)
EXTENDS QuicTransfer

CONSTANT Losable   \* the kinds of packets the network may lose, see Kind

ASSUME ZeroRttAssumption ==
  /\ Losable \subseteq {"initial", "long", "short", "response", "ack"}
  /\ "response" \in Losable => Losable \subseteq {"initial", "response"}

VARIABLE connected   \* does the server have the connection?

zeroRttVars == <<vars, connected>>

Response == [response |-> TRUE]

\* ProcessInitiateHandshake.  No object describes the packet as a
\* retransmission or not, and Bytes_in_flight does not count it.
InitialPacket ==
  [number |-> InitialNumber, history |-> {}, frames |-> << >>, long |-> TRUE,
   size |-> MinPacketSize]

ZeroRttInit ==
  /\ Init
  /\ connected = FALSE

-----------------------------------------------------------------------------
\* Mutants: packets are filled as if their headers were short; or the Initial
\* packet is counted as in flight.
ZeroRttTurnShort(a, k) ==
  IF a.stop \/ a.window = 0 THEN [a EXCEPT !.stop = TRUE]
  ELSE SendNewPacket(a, MaxPayload - HeaderSize, TRUE)

ZeroRttTurnCounts(a, k) ==
  IF a.stop \/ a.window = 0 THEN [a EXCEPT !.stop = TRUE]
  ELSE SendNewPacket(
         IF k = 1 THEN [a EXCEPT !.c.Bytes_in_flight = @ + MinPacketSize] ELSE a,
         MaxPayload - LongHeaderSize, TRUE)

\* The loop of ProcessClientZeroRtt only ends when the window is exactly used.
ZeroRttTurn(a, k) ==
  IF a.stop \/ a.window = 0 THEN [a EXCEPT !.stop = TRUE]
  ELSE SendNewPacket(a, MaxPayload - LongHeaderSize, TRUE)

\* ProcessClientZeroRtt.  The segment size and the threshold of the congestion
\* control are not set before the response.
ProcessClientZeroRtt(c) ==
  SendLoop(ZeroRttTurn,
    [c EXCEPT !.cc.snd_cwnd = MaxPayload * 2,
              !.streams = SetAllStreamsWindows(@, StreamWindow)])

\* handleHandshakeInit of a reconnection: the copy of the Initial packet is
\* queued with its timer, and the packets follow it.
HandshakeInit ==
  /\ client = NewClient
  /\ LET c == SendOut(ProcessClientZeroRtt(
                [client EXCEPT !.queue = <<InitialPacket>>,
                               !.timers = {InitialNumber}]))
     IN  /\ client' = [c EXCEPT !.out = << >>]
         /\ data' = <<InitialPacket>> \o c.out
  /\ UNCHANGED <<serverVars, acks, bounds, delivered, connected>>

\* Mutant: the packets are not sent again with the Initial packet.
HandshakeTimeoutInitial ==
  /\ Quiet
  /\ client.phase = "handshake"
  /\ InitialNumber \in client.timers
  /\ data' = <<InitialPacket>>
  /\ client' = [client EXCEPT !.timers = {InitialNumber}]
  /\ UNCHANGED <<serverVars, acks, bounds, delivered, connected>>

\* Mutant: the timer of the Initial packet is not scheduled again.
HandshakeTimeoutOnce ==
  /\ Quiet
  /\ client.phase = "handshake"
  /\ InitialNumber \in client.timers
  /\ LET numbers == Ascending(client.timers \ {InitialNumber})
         c == FoldLeft(ExpireRTO, client, numbers)
     IN  /\ client' = [c EXCEPT !.out = << >>, !.timers = @ \ {InitialNumber}]
         /\ data' = <<InitialPacket>> \o c.out
  /\ UNCHANGED <<serverVars, acks, bounds, delivered, connected>>

(***************************************************************************)
(* The Initial packet and the 0-RTT packets were sent at one instant with  *)
(* the same timeout, and so are their repetitions: until an answer comes   *)
(* their timers expire together, that of the Initial packet first          *)
(* (handleInitalTimeout, then handleRetransmissionTimeout for each         *)
(* packet), and nothing arrives in between.                                *)
(***************************************************************************)
HandshakeTimeout ==
  /\ Quiet
  /\ client.phase = "handshake"
  /\ InitialNumber \in client.timers
  /\ LET numbers == Ascending(client.timers \ {InitialNumber})
         c == FoldLeft(ExpireRTO, client, numbers)
     IN  /\ client' = [c EXCEPT !.out = << >>]
         /\ data' = <<InitialPacket>> \o c.out
  /\ UNCHANGED <<serverVars, acks, bounds, delivered, connected>>

-----------------------------------------------------------------------------
\* The Initial case of socketDataArrived at the server.
ServerReceivesInitial ==
  /\ ~connected
  /\ data # << >>
  /\ Head(data) = InitialPacket
  /\ data' = Tail(data)
  /\ connected' = TRUE
  /\ acks' = Append(acks, Response)
  /\ UNCHANGED <<client, serverVars, bounds, delivered>>

\* A 0-RTT packet for which socketDataArrived finds no connection.
ServerIgnores ==
  /\ ~connected
  /\ data # << >>
  /\ Head(data) # InitialPacket
  /\ data' = Tail(data)
  /\ UNCHANGED <<client, serverVars, acks, bounds, delivered, connected>>

\* The ZERO_RTT case, and short headers.
ServerReceivesData ==
  /\ connected
  /\ ServerReceives
  /\ UNCHANGED connected

ServerSendsAck ==
  /\ ServerAckTimeout
  /\ UNCHANGED connected

ClientReceivesResponse ==
  /\ acks # << >>
  /\ Head(acks) = Response
  /\ acks' = Tail(acks)
  /\ IF client.phase = "handshake"
     THEN ReceiveHandshakeResponse
     ELSE UNCHANGED <<client, data>>
  /\ UNCHANGED <<serverVars, bounds, delivered, connected>>

ClientReceivesFrame ==
  /\ acks # << >>
  /\ Head(acks) # Response
  /\ ClientReceivesAck
  /\ UNCHANGED connected

\* After an answer the timers expire one by one.
DataTimeout ==
  /\ InitialNumber \notin client.timers
  /\ ClientTimeout
  /\ UNCHANGED connected

Kind(p) ==
  IF p.number = InitialNumber THEN "initial" ELSE IF p.long THEN "long" ELSE "short"

LosePacket ==
  /\ LoseData
  /\ Kind(Head(data)) \in Losable
  /\ UNCHANGED connected

LoseAnswer ==
  /\ LoseAck
  /\ (IF Head(acks) = Response THEN "response" ELSE "ack") \in Losable
  /\ UNCHANGED connected

\* What the code does wrong ends the simulation.
ZeroRttNext ==
  /\ ~client.failed
  /\ \/ HandshakeInit
     \/ HandshakeTimeout
     \/ ServerReceivesInitial
     \/ ServerIgnores
     \/ ServerReceivesData
     \/ ServerSendsAck
     \/ ClientReceivesResponse
     \/ ClientReceivesFrame
     \/ DataTimeout
     \/ LosePacket
     \/ LoseAnswer

ZeroRttSpec == ZeroRttInit /\ [][ZeroRttNext]_zeroRttVars

\* The same scheduled events as in QuicTransfer.  Packets lost are bounded, so
\* packets that leave their channel arrive in the end.
ZeroRttFairSpec ==
  /\ ZeroRttSpec
  /\ []<>(client # NewClient)
  /\ WF_data(data # << >> /\ data' = Tail(data))
  /\ WF_ack_timer(ack_timer /\ ack_timer' = FALSE)
  /\ WF_acks(acks # << >> /\ acks' = Tail(acks))
  /\ []<>~(Quiet /\ client.timers # {})

-----------------------------------------------------------------------------
\* Bytes_in_flight is the size of the data packets of the send queue; the
\* Initial packet, which waits there for the response, is not among them when
\* it is sent (QuicConnectionClient.cc:66-108) and must not be when it goes.
FlightMatchesData ==
  client.Bytes_in_flight =
    TotalSize(WithoutNumbers(client.queue, {InitialNumber}))

\* The Initial packet is sent again until the response arrives: its timer runs
\* from the handshake to the response (ConnectionManager.cc:278, "cancel
\* timeout on initial packet").
HandshakeIsRetried ==
  client.phase = "handshake" /\ client # NewClient => InitialNumber \in client.timers

=============================================================================
