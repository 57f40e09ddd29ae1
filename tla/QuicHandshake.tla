---------------------------- MODULE QuicHandshake ----------------------------
(***************************************************************************)
(* Setting up connections: the connection managers of the client hosts and *)
(* of one server, the Initial packets and their responses, the timeout of  *)
(* an Initial packet, and the end of a connection as far as the managers   *)
(* book it.  A transfer is two steps here, its end at the server and its   *)
(* end at the client; QuicTransfer has the rest.  A connection that uses   *)
(* 0-RTT is set up the same way; its early data is left out.               *)
(***************************************************************************)
EXTENDS Integers, FiniteSets, Sequences

CONSTANTS
  Conns,             \* the connections the applications ask for
  Hosts,             \* the client hosts
  HostOf,            \* the host of each connection
  IDs,               \* the values of std::rand
  Repeats,           \* may std::rand return a value again?
  MaxInitialLosses,  \* bound: Initial packets the network loses
  MaxResponseLosses, \* bound: responses the network loses
  MaxEarlyTimeouts   \* bound: Initial timeouts while a packet is on its way

ASSUME HandshakeAssumption ==
  /\ IsFiniteSet(Conns) /\ HostOf \in [Conns -> Hosts]
  /\ IDs \subseteq Nat \ {0} /\ Repeats \in BOOLEAN
  /\ {MaxInitialLosses, MaxResponseLosses, MaxEarlyTimeouts} \subseteq Nat

VARIABLES
  client,            \* the client side of each connection, see NoConnection
  servers,           \* the server's connections [source, dest, host]
  connections_done,  \* source IDs of the server's connections that ended
  throughput_timer,  \* do the timers of the server's statistics run?
  up,                \* Initial packets on their way, a sequence for each host
  down,              \* responses on their way, a sequence for each host
  drawn,             \* history variable: the values std::rand returned
  failed,            \* did a call of the simulation kernel end the simulation?
  initial_losses, response_losses, early_timeouts   \* what the bounds count

bounds == <<initial_losses, response_losses, early_timeouts>>
network == <<up, down>>
vars == <<client, servers, connections_done, throughput_timer, network, drawn,
          failed, bounds>>

(***************************************************************************)
(* phase    "new"      the application has not asked yet                   *)
(*          "added"    the handshake timer is scheduled                    *)
(*          "waiting"  the Initial packet is sent                          *)
(*          "open", "closed"                                               *)
(* initial  is the Initial packet in the send queue?  Its copy there is    *)
(*          its timer, so this is also whether the timer is scheduled      *)
(***************************************************************************)
NoConnection == [phase |-> "new", source |-> 0, dest |-> 0, initial |-> FALSE]

\* The connections in the list of a host.
Live(h) == {c \in Conns : HostOf[c] = h /\ client[c].phase \notin {"new", "closed"}}

Init ==
  /\ client = [c \in Conns |-> NoConnection]
  /\ servers = {}
  /\ connections_done = {}
  /\ throughput_timer = TRUE
  /\ up = [h \in Hosts |-> << >>]
  /\ down = [h \in Hosts |-> << >>]
  /\ drawn = {}
  /\ failed = FALSE
  /\ initial_losses = 0
  /\ response_losses = 0
  /\ early_timeouts = 0

\* What std::rand may return.  If it never repeats a value, the values are
\* interchangeable, and the smallest one left stands for all.
Draws ==
  IF Repeats THEN IDs
  ELSE {id \in IDs \ drawn : \A other \in IDs \ drawn : id <= other}

-----------------------------------------------------------------------------
(***************************************************************************)
(* The client hosts.                                                       *)
(***************************************************************************)

\* Mutant: the source ID is not compared with those of the list.
AddNewConnectionAny(c) ==
  /\ client[c].phase = "new"
  /\ \E id \in Draws :
       /\ client' = [client EXCEPT ![c].phase = "added", ![c].source = id]
       /\ drawn' = drawn \cup {id}
  /\ UNCHANGED <<servers, connections_done, throughput_timer, network, failed,
                 bounds>>

\* The SENDER message: a connection with a source ID no connection of the
\* host has, and its handshake timer.
AddNewConnection(c) ==
  /\ client[c].phase = "new"
  /\ \E id \in Draws :
       /\ \A d \in Live(HostOf[c]) : client[d].source # id
       /\ client' = [client EXCEPT ![c].phase = "added", ![c].source = id]
       /\ drawn' = drawn \cup {id}
  /\ UNCHANGED <<servers, connections_done, throughput_timer, network, failed,
                 bounds>>

SendInitial(c, dest) ==
  up' = [up EXCEPT ![HostOf[c]] =
           Append(@, [source |-> client[c].source, dest |-> dest])]

\* Mutant: the destination ID is a fixed one.
HandshakeInitFixed(c) ==
  /\ client[c].phase = "added"
  /\ client' = [client EXCEPT ![c].phase = "waiting", ![c].dest = 1,
                              ![c].initial = TRUE]
  /\ SendInitial(c, 1)
  /\ UNCHANGED <<servers, connections_done, throughput_timer, down, drawn, failed,
                 bounds>>

\* handleHandshakeInit: nothing compares the destination ID with others.
HandshakeInit(c) ==
  /\ client[c].phase = "added"
  /\ \E id \in Draws :
       /\ client' = [client EXCEPT ![c].phase = "waiting", ![c].dest = id,
                                   ![c].initial = TRUE]
       /\ drawn' = drawn \cup {id}
       /\ SendInitial(c, id)
  /\ UNCHANGED <<servers, connections_done, throughput_timer, down, failed,
                 bounds>>

\* Is a packet of the handshake of c on its way?
OnItsWay(c) ==
  LET u == up[HostOf[c]]
      d == down[HostOf[c]]
  IN  \/ \E i \in DOMAIN u : u[i].source = client[c].source
      \/ \E i \in DOMAIN d : d[i].dest = client[c].source

\* Mutant: the timer of an Initial packet is not started again.
InitialTimeoutOnce(c) ==
  /\ client[c].initial
  /\ OnItsWay(c) => early_timeouts < MaxEarlyTimeouts
  /\ early_timeouts' = IF OnItsWay(c) THEN early_timeouts + 1 ELSE early_timeouts
  /\ client' = [client EXCEPT ![c].initial = FALSE]
  /\ SendInitial(c, client[c].dest)
  /\ UNCHANGED <<servers, connections_done, throughput_timer, down, drawn,
                 failed, initial_losses, response_losses>>

\* handleInitalTimeout: the Initial packet is sent again and its timer
\* scheduled again, once for each connection with its destination ID.
\* Scheduling it a second time is an error of the simulation.
InitialTimeout(c) ==
  /\ client[c].initial
  /\ OnItsWay(c) => early_timeouts < MaxEarlyTimeouts
  /\ early_timeouts' = IF OnItsWay(c) THEN early_timeouts + 1 ELSE early_timeouts
  /\ LET same == {d \in Live(HostOf[c]) : client[d].dest = client[c].dest}
     IN  IF same = {c}
         THEN SendInitial(c, client[c].dest) /\ UNCHANGED failed
         ELSE failed' = TRUE /\ UNCHANGED up
  /\ UNCHANGED <<client, servers, connections_done, throughput_timer, down,
                 drawn, initial_losses, response_losses>>

\* Mutant: the Initial packet stays in the send queue.
ReceiveResponseKeeps(h) ==
  /\ down[h] # << >>
  /\ down' = [down EXCEPT ![h] = Tail(@)]
  /\ client' = [c \in Conns |->
       IF c \in Live(h) /\ client[c].source = Head(down[h]).dest
       THEN [client[c] EXCEPT !.dest = Head(down[h]).source, !.phase = "open"]
       ELSE client[c]]
  /\ UNCHANGED <<servers, connections_done, throughput_timer, up, drawn, failed,
                 bounds>>

\* A response at the client (source IDs of a host are distinct): its
\* connection takes the ID the server chose, and its Initial packet leaves
\* the send queue.  Without one there, cancelEvent gets a null pointer.
ReceiveResponse(h) ==
  /\ down[h] # << >>
  /\ down' = [down EXCEPT ![h] = Tail(@)]
  /\ LET r     == Head(down[h])
         owner == {c \in Live(h) : client[c].source = r.dest}
     IN  /\ client' = [c \in Conns |->
              IF c \in owner
              THEN [client[c] EXCEPT
                      !.dest = r.source,
                      !.phase = IF client[c].initial THEN "open" ELSE @,
                      !.initial = FALSE]
              ELSE client[c]]
         /\ failed' = \E c \in owner : ~client[c].initial
  /\ UNCHANGED <<servers, connections_done, throughput_timer, up, drawn, bounds>>

-----------------------------------------------------------------------------
(***************************************************************************)
(* The server.                                                             *)
(***************************************************************************)
Sources(list) == {s.source : s \in list}

\* Mutant: the server takes the ID of the Initial packet without looking.
SourceIDAny(dest) == {dest}

\* isIDAvailable: the destination ID of an Initial packet becomes the source ID
\* of the new connection, or, if a connection has it, a new random one.
SourceID(dest) ==
  IF dest \notin Sources(servers) THEN {dest} ELSE Draws \ Sources(servers)

\* An Initial packet always makes a new connection.
ReceiveInitial(h) ==
  /\ up[h] # << >>
  /\ up' = [up EXCEPT ![h] = Tail(@)]
  /\ LET p == Head(up[h])
     IN  \E id \in SourceID(p.dest) :
           /\ servers' = servers \cup {[source |-> id, dest |-> p.source, host |-> h]}
           /\ down' = [down EXCEPT ![h] = Append(@, [source |-> id, dest |-> p.source])]
           /\ drawn' = drawn \cup {id}
  /\ UNCHANGED <<client, connections_done, throughput_timer, failed, bounds>>

\* Mutant: the check for the last connection precedes its booking.
ServerEndsLate(c) ==
  /\ client[c].phase = "open"
  /\ client[c].dest \in Sources(servers) \ connections_done
  /\ connections_done' = connections_done \cup {client[c].dest}
  /\ throughput_timer' =
       (throughput_timer /\ Cardinality(connections_done) # Cardinality(servers))
  /\ UNCHANGED <<client, servers, network, drawn, failed, bounds>>

\* The frame arrives with which the server takes the transfer for ended
\* (processPacketFrames): the timers of the statistics stop when all
\* connections of the list are done.
ServerEnds(c) ==
  /\ client[c].phase = "open"
  /\ client[c].dest \in Sources(servers) \ connections_done
  /\ connections_done' = connections_done \cup {client[c].dest}
  /\ throughput_timer' =
       (throughput_timer /\ Cardinality(connections_done') # Cardinality(servers))
  /\ UNCHANGED <<client, servers, network, drawn, failed, bounds>>

\* The client has every byte acknowledged and deletes its connection
\* (sendReadyPackets), whether or not the server takes the transfer for ended:
\* it counts bytes in another way.  The server never deletes a connection.
ClientCloses(c) ==
  /\ client[c].phase = "open"
  /\ client' = [client EXCEPT ![c].phase = "closed"]
  /\ UNCHANGED <<servers, connections_done, throughput_timer, network, drawn,
                 failed, bounds>>

-----------------------------------------------------------------------------
LoseInitial(h) ==
  /\ initial_losses < MaxInitialLosses
  /\ up[h] # << >>
  /\ up' = [up EXCEPT ![h] = Tail(@)]
  /\ initial_losses' = initial_losses + 1
  /\ UNCHANGED <<client, servers, connections_done, throughput_timer, down,
                 drawn, failed, response_losses, early_timeouts>>

LoseResponse(h) ==
  /\ response_losses < MaxResponseLosses
  /\ down[h] # << >>
  /\ down' = [down EXCEPT ![h] = Tail(@)]
  /\ response_losses' = response_losses + 1
  /\ UNCHANGED <<client, servers, connections_done, throughput_timer, up,
                 drawn, failed, initial_losses, early_timeouts>>

ClientStep(c) == AddNewConnection(c) \/ HandshakeInit(c) \/ InitialTimeout(c)
NetworkStep(h) == ReceiveInitial(h) \/ ReceiveResponse(h)
TransferStep(c) == ServerEnds(c) \/ ClientCloses(c)

\* An error of the simulation kernel ends the simulation.
Next ==
  /\ ~failed
  /\ \/ \E c \in Conns : ClientStep(c) \/ TransferStep(c)
     \/ \E h \in Hosts : NetworkStep(h) \/ LoseInitial(h) \/ LoseResponse(h)

Spec == Init /\ [][Next]_vars

\* Scheduled events happen, packets that are not lost arrive, and a transfer
\* completes at the client.  Nothing else of the system is scheduled to end one
\* of these conditions, so weak fairness of each is enough.  Nothing makes the
\* server take a transfer for ended.
FairSpec ==
  /\ Spec
  /\ \A c \in Conns :
       /\ WF_vars(~failed /\ (HandshakeInit(c) \/ InitialTimeout(c)))
       /\ WF_vars(~failed /\ ClientCloses(c))
  /\ \A h \in Hosts : WF_vars(~failed /\ NetworkStep(h))

-----------------------------------------------------------------------------
\* IDs tell connections apart, although two of them may be drawn equal: those
\* of the server, and those of one client host.  Packets are handed to the
\* connection with their destination ID (ConnectionManager.cc:277, 358).
IDsDistinct ==
  /\ \A s, t \in servers : s.source = t.source => s = t
  /\ \A h \in Hosts : \A c, d \in Live(h) : client[c].source = client[d].source => c = d

\* An open connection has a counterpart at the server that was made for it,
\* and no other open connection has the same one.
Paired ==
  \A c \in Conns : client[c].phase = "open" =>
    /\ [source |-> client[c].dest, dest |-> client[c].source,
        host |-> HostOf[c]] \in servers
    /\ \A d \in Conns : client[d].phase = "open" /\ client[d].dest = client[c].dest => d = c

\* No handler calls the simulation kernel with a null pointer or with a timer
\* that is scheduled: a response finds the Initial packet of its connection.
NeverFails == ~failed

\* A connection keeps its counterpart to its end.
KeepsPeer ==
  [][\A c \in Conns : client[c].phase = "open" => client'[c].dest = client[c].dest]_vars

\* Every connection an application asks for is set up and completes.
EventuallyDone ==
  \A c \in Conns : client[c].phase = "added" ~> client[c].phase = "closed"

\* The timers of the statistics run until the last of the server's connections
\* has ended, and stop then: two sizes are compared, that of a set of IDs and
\* that of the list (ConnectionManager.cc:523), and random IDs may collide.
StopsWithTheLast ==
  [][throughput_timer =>
       (throughput_timer' <=>
          (servers' = {} \/ \E s \in servers' : s.source \notin connections_done'))]_vars

=============================================================================
