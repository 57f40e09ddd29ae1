------------------------ MODULE QuicHandshakeProofs -------------------------
(***************************************************************************)
(* IDs tell connections apart, for any number of hosts and connections,    *)
(* any losses, and random numbers that may repeat.                         *)
(***************************************************************************)
EXTENDS QuicHandshake, FiniteSetTheorems, TLAPS

Address == [source : Nat, dest : Nat]

Connection ==
  [phase : {"new", "added", "waiting", "open", "closed"},
   source : Nat, dest : Nat, initial : BOOLEAN]

HandshakeTypeOK ==
  /\ client \in [Conns -> Connection]
  /\ servers \subseteq [source : Nat, dest : Nat, host : Hosts]
  /\ up \in [Hosts -> Seq(Address)]
  /\ down \in [Hosts -> Seq(Address)]

(***************************************************************************)
(* IDsDistinct is inductive but for the types of the records it is about:  *)
(* an ID is compared with those of its list before it is given, and never  *)
(* changes while its connection is in the list.                            *)
(***************************************************************************)
IDsInv == HandshakeTypeOK /\ IDsDistinct

LEMMA DrawsType == Draws \subseteq Nat
BY HandshakeAssumption DEF Draws

LEMMA HostOfType == \A c \in Conns : HostOf[c] \in Hosts
BY HandshakeAssumption

\* A step that keeps the source of each live connection, and brings none into
\* a list, keeps them distinct.
LEMMA SourcesKept ==
  ASSUME IDsDistinct, servers' = servers,
         \A h \in Hosts : Live(h)' \subseteq Live(h),
         \A c \in Conns : client'[c].source = client[c].source
  PROVE  IDsDistinct'
<1>1. \A s, t \in servers' : s.source = t.source => s = t
  BY DEF IDsDistinct
<1>2. \A h \in Hosts : \A c, d \in Live(h)' : client'[c].source = client'[d].source => c = d
  <2> SUFFICES ASSUME NEW h \in Hosts, NEW c \in Live(h)', NEW d \in Live(h)',
                      client'[c].source = client'[d].source
               PROVE  c = d
    OBVIOUS
  <2>1. c \in Live(h) /\ d \in Live(h) /\ c \in Conns /\ d \in Conns
    BY DEF Live
  <2> QED
    BY <2>1 DEF IDsDistinct
<1> QED
  BY <1>1, <1>2 DEF IDsDistinct

LEMMA InitIDs == Init => IDsInv
BY DEF Init, IDsInv, HandshakeTypeOK, Connection, IDsDistinct, NoConnection, Live, Address

LEMMA AddKeeps ==
  ASSUME IDsInv, NEW c \in Conns, AddNewConnection(c)
  PROVE  IDsInv'
<1> USE DEF IDsInv
<1>1. PICK id \in Draws :
        /\ \A d \in Live(HostOf[c]) : client[d].source # id
        /\ client' = [client EXCEPT ![c].phase = "added", ![c].source = id]
  BY DEF AddNewConnection
<1>2. id \in Nat
  BY DrawsType
<1>3. HandshakeTypeOK'
  <2>1. client' \in [Conns -> Connection]
    BY <1>1, <1>2 DEF HandshakeTypeOK, Connection
  <2>2. UNCHANGED <<servers, up, down>>
    BY DEF AddNewConnection, network
  <2> QED
    BY <2>1, <2>2 DEF HandshakeTypeOK
<1>4. \A s, t \in servers' : s.source = t.source => s = t
  BY DEF AddNewConnection, IDsDistinct
<1>5. ASSUME NEW h \in Hosts, NEW x \in Live(h)', NEW y \in Live(h)',
             client'[x].source = client'[y].source
      PROVE  x = y
  <2>1. x \in Conns /\ y \in Conns /\ HostOf[x] = h /\ HostOf[y] = h
    BY DEF Live
  <2>2. client'[c].source = id
    BY <1>1 DEF HandshakeTypeOK, Connection
  <2>3. \A d \in Conns \ {c} : client'[d] = client[d]
    BY <1>1 DEF HandshakeTypeOK, Connection
  <2>4. CASE x # c /\ y # c
    BY <2>1, <2>3, <2>4, <1>5 DEF Live, IDsDistinct
  <2>5. CASE x = c /\ y # c
    BY <2>1, <2>2, <2>3, <2>5, <1>1, <1>5 DEF Live
  <2>6. CASE x # c /\ y = c
    BY <2>1, <2>2, <2>3, <2>6, <1>1, <1>5 DEF Live
  <2> QED
    BY <2>4, <2>5, <2>6
<1> QED
  BY <1>3, <1>4, <1>5 DEF IDsDistinct

LEMMA InitKeeps ==
  ASSUME IDsInv, NEW c \in Conns, HandshakeInit(c)
  PROVE  IDsInv'
<1> USE DEF IDsInv
<1>1. PICK id \in Draws :
        /\ client' = [client EXCEPT ![c].phase = "waiting", ![c].dest = id,
                                    ![c].initial = TRUE]
        /\ SendInitial(c, id)
  BY DEF HandshakeInit
<1>2. id \in Nat
  BY DrawsType
<1>3. HandshakeTypeOK'
  <2>1. [source |-> client[c].source, dest |-> id] \in Address
    BY <1>2 DEF HandshakeTypeOK, Connection, Address
  <2>2. up' \in [Hosts -> Seq(Address)]
    BY <1>1, <2>1, HostOfType DEF HandshakeTypeOK, Connection, SendInitial
  <2>3. client' \in [Conns -> Connection]
    BY <1>1, <1>2 DEF HandshakeTypeOK, Connection
  <2> QED
    BY <2>2, <2>3 DEF HandshakeTypeOK, Connection, HandshakeInit
<1>4. \A d \in Conns : client'[d].source = client[d].source
  BY <1>1 DEF HandshakeTypeOK, Connection
<1>5. \A h \in Hosts : Live(h)' \subseteq Live(h)
  BY <1>1 DEF HandshakeTypeOK, Connection, HandshakeInit, Live
<1> QED
  BY <1>3, <1>4, <1>5, SourcesKept DEF HandshakeInit

LEMMA TimeoutKeeps ==
  ASSUME IDsInv, NEW c \in Conns, InitialTimeout(c)
  PROVE  IDsInv'
<1> USE DEF IDsInv
<1>1. up' \in [Hosts -> Seq(Address)]
  <2>1. [source |-> client[c].source, dest |-> client[c].dest] \in Address
    BY DEF HandshakeTypeOK, Connection, Address
  <2>2. CASE SendInitial(c, client[c].dest)
    BY <2>1, <2>2, HostOfType DEF HandshakeTypeOK, Connection, SendInitial
  <2>3. CASE UNCHANGED up
    BY <2>3 DEF HandshakeTypeOK, Connection
  <2> QED
    BY <2>2, <2>3 DEF InitialTimeout
<1>2. UNCHANGED <<client, servers, down>>
  BY DEF InitialTimeout
<1> QED
  BY <1>1, <1>2 DEF HandshakeTypeOK, Connection, IDsDistinct, Live

LEMMA ResponseKeeps ==
  ASSUME IDsInv, NEW h \in Hosts, ReceiveResponse(h)
  PROVE  IDsInv'
<1> USE DEF IDsInv
<1> DEFINE r == Head(down[h])
           owner == {c \in Live(h) : client[c].source = r.dest}
<1>1. r \in Address /\ down' \in [Hosts -> Seq(Address)]
  <2>1. down[h] \in Seq(Address) /\ down[h] # << >>
    BY DEF HandshakeTypeOK, ReceiveResponse
  <2>2. r \in Address /\ Tail(down[h]) \in Seq(Address)
    BY <2>1
  <2>3. down' = [down EXCEPT ![h] = Tail(down[h])]
    BY DEF ReceiveResponse
  <2> QED
    BY <2>2, <2>3 DEF HandshakeTypeOK
<1>2. client' = [c \in Conns |->
        IF c \in owner
        THEN [client[c] EXCEPT !.dest = r.source,
                !.phase = IF client[c].initial THEN "open" ELSE @,
                !.initial = FALSE]
        ELSE client[c]]
  BY DEF ReceiveResponse
<1>3. r.source \in Nat
  BY <1>1 DEF Address
<1> HIDE DEF r
<1>4. ASSUME NEW c \in Conns
      PROVE  /\ client'[c] \in Connection
             /\ client'[c].source = client[c].source
             /\ client'[c].phase \notin {"new", "closed"} =>
                  client[c].phase \notin {"new", "closed"}
  <2>1. client[c] \in Connection
    BY DEF HandshakeTypeOK, Connection
  <2>2. CASE c \in owner
    BY <1>2, <1>3, <2>1, <2>2 DEF Live, Connection
  <2>3. CASE c \notin owner
    BY <1>2, <2>1, <2>3 DEF Connection
  <2> QED
    BY <2>2, <2>3
<1>5. HandshakeTypeOK'
  BY <1>1, <1>2, <1>4 DEF HandshakeTypeOK, Connection, ReceiveResponse
<1>6. \A g \in Hosts : Live(g)' \subseteq Live(g)
  BY <1>4 DEF Live
<1> QED
  BY <1>4, <1>5, <1>6, SourcesKept DEF ReceiveResponse

LEMMA InitialKeeps ==
  ASSUME IDsInv, NEW h \in Hosts, ReceiveInitial(h)
  PROVE  IDsInv'
<1> USE DEF IDsInv
<1> DEFINE p == Head(up[h])
<1>1. p \in Address /\ up' \in [Hosts -> Seq(Address)]
  BY DEF HandshakeTypeOK, Connection, ReceiveInitial
<1>2. PICK id \in SourceID(p.dest) :
        /\ servers' = servers \cup {[source |-> id, dest |-> p.source, host |-> h]}
        /\ down' = [down EXCEPT ![h] = Append(@, [source |-> id, dest |-> p.source])]
  BY DEF ReceiveInitial
<1>3. p.source \in Nat /\ p.dest \in Nat
  BY <1>1 DEF Address
<1> HIDE DEF p
<1>4. id \in Nat /\ id \notin Sources(servers)
  BY <1>3, DrawsType DEF SourceID
<1>5. HandshakeTypeOK'
  BY <1>1, <1>2, <1>3, <1>4 DEF HandshakeTypeOK, Connection, ReceiveInitial, Address
<1>6. \A s, t \in servers' : s.source = t.source => s = t
  BY <1>2, <1>4 DEF Sources, IDsDistinct
<1>7. client' = client
  BY DEF ReceiveInitial
<1> QED
  BY <1>5, <1>6, <1>7 DEF IDsDistinct, Live

LEMMA CloseKeeps ==
  ASSUME IDsInv, NEW c \in Conns, ClientCloses(c)
  PROVE  IDsInv'
<1> USE DEF IDsInv
<1>1. client' = [client EXCEPT ![c].phase = "closed"]
  BY DEF ClientCloses
<1>2. HandshakeTypeOK'
  <2>1. client' \in [Conns -> Connection]
    BY <1>1 DEF HandshakeTypeOK, Connection
  <2>2. UNCHANGED <<servers, up, down>>
    BY DEF ClientCloses, network
  <2> QED
    BY <2>1, <2>2 DEF HandshakeTypeOK
<1>3. \A d \in Conns : client'[d].source = client[d].source
  BY <1>1 DEF HandshakeTypeOK, Connection
<1>4. \A h \in Hosts : Live(h)' \subseteq Live(h)
  BY <1>1 DEF HandshakeTypeOK, Connection, Live
<1> QED
  BY <1>2, <1>3, <1>4, SourcesKept DEF ClientCloses

LEMMA OthersKeep ==
  ASSUME IDsInv,
         \/ \E c \in Conns : ServerEnds(c)
         \/ \E h \in Hosts : LoseInitial(h) \/ LoseResponse(h)
         \/ UNCHANGED vars
  PROVE  IDsInv'
<1>1. client' = client /\ servers' = servers
  BY DEF ServerEnds, LoseInitial, LoseResponse, vars
<1>2. up' \in [Hosts -> Seq(Address)] /\ down' \in [Hosts -> Seq(Address)]
  <2>1. up \in [Hosts -> Seq(Address)] /\ down \in [Hosts -> Seq(Address)]
    BY DEF IDsInv, HandshakeTypeOK
  <2>2. ASSUME NEW h \in Hosts, LoseInitial(h) \/ LoseResponse(h)
        PROVE  up' \in [Hosts -> Seq(Address)] /\ down' \in [Hosts -> Seq(Address)]
    <3>1. up[h] # << >> => Tail(up[h]) \in Seq(Address)
      BY <2>1
    <3>2. down[h] # << >> => Tail(down[h]) \in Seq(Address)
      BY <2>1
    <3>3. CASE LoseInitial(h)
      BY <2>1, <3>1, <3>3 DEF LoseInitial
    <3>4. CASE LoseResponse(h)
      BY <2>1, <3>2, <3>4 DEF LoseResponse
    <3> QED
      BY <2>2, <3>3, <3>4
  <2>3. CASE (\E c \in Conns : ServerEnds(c)) \/ UNCHANGED vars
    BY <2>1, <2>3 DEF ServerEnds, vars, network
  <2> QED
    BY <2>2, <2>3
<1> QED
  BY <1>1, <1>2 DEF IDsInv, HandshakeTypeOK, Connection, IDsDistinct, Live

LEMMA IDsStep ==
  ASSUME IDsInv, [Next]_vars
  PROVE  IDsInv'
<1>1. CASE \E c \in Conns : ClientStep(c) \/ ClientCloses(c)
  BY <1>1, AddKeeps, InitKeeps, TimeoutKeeps, CloseKeeps DEF ClientStep
<1>2. CASE \E h \in Hosts : NetworkStep(h)
  BY <1>2, InitialKeeps, ResponseKeeps DEF NetworkStep
<1>3. CASE \/ \E c \in Conns : ServerEnds(c)
           \/ \E h \in Hosts : LoseInitial(h) \/ LoseResponse(h)
           \/ UNCHANGED vars
  BY <1>3, OthersKeep
<1> QED
  BY <1>1, <1>2, <1>3 DEF Next, TransferStep

\* The IDs of the server's connections, and of the connections of a client
\* host, stay distinct (isIDAvailable, ConnectionManager.cc:394).
THEOREM IDsStayDistinct == Spec => []IDsDistinct
<1>1. Init => IDsInv
  BY InitIDs
<1>2. IDsInv /\ [Next]_vars => IDsInv'
  BY IDsStep
<1>3. IDsInv => IDsDistinct
  BY DEF IDsInv
<1> QED
  BY <1>1, <1>2, <1>3, PTL DEF Spec

-----------------------------------------------------------------------------
(***************************************************************************)
(* Each connection of a client host is paired with one connection of the   *)
(* server. The first part holds for all random numbers and all timeouts.   *)
(* The second part, that a connection keeps its counterpart and no handler *)
(* fails, needs what the run of MCHandshake.cfg assumes, too: std::rand    *)
(* does not repeat a value, and an Initial packet is sent again only when  *)
(* neither it nor its response is still on its way.                        *)
(***************************************************************************)
Made(r, h) == [source |-> r.source, dest |-> r.dest, host |-> h]

\* The server has a connection for each response on its way, and for each
\* open connection of a client.
ResponsesMade ==
  \A h \in Hosts : \A i \in DOMAIN down[h] : Made(down[h][i], h) \in servers

CounterpartsMade ==
  \A c \in Conns : client[c].phase = "open" =>
    [source |-> client[c].dest, dest |-> client[c].source,
     host |-> HostOf[c]] \in servers

PairInv == IDsInv /\ ResponsesMade /\ CounterpartsMade

LEMMA HeadElement ==
  ASSUME NEW T, NEW s \in Seq(T), s # << >>
  PROVE  1 \in DOMAIN s /\ Head(s) = s[1] /\ Head(s) \in T
OBVIOUS

LEMMA TailElements ==
  ASSUME NEW T, NEW s \in Seq(T), s # << >>
  PROVE  /\ Tail(s) \in Seq(T)
         /\ \A i \in DOMAIN Tail(s) :
              i \in Nat \ {0} /\ i + 1 \in DOMAIN s /\ Tail(s)[i] = s[i + 1]
OBVIOUS

LEMMA AppendElements ==
  ASSUME NEW T, NEW s \in Seq(T), NEW e \in T
  PROVE  /\ Append(s, e) \in Seq(T)
         /\ \A i \in DOMAIN Append(s, e) :
              \/ i \in DOMAIN s /\ Append(s, e)[i] = s[i]
              \/ i = Len(s) + 1 /\ i \notin DOMAIN s /\ Append(s, e)[i] = e
OBVIOUS

\* Types are used from here on only through these facts.
LEMMA Types ==
  ASSUME HandshakeTypeOK
  PROVE  /\ \A c \in Conns : client[c] \in Connection
         /\ \A h \in Hosts : up[h] \in Seq(Address) /\ down[h] \in Seq(Address)
BY DEF HandshakeTypeOK

-----------------------------------------------------------------------------
\* A step that takes no new response to the network and opens no connection
\* keeps what is made.
LEMMA QuietKeeps ==
  ASSUME PairInv, servers \subseteq servers', IDsInv',
         \A h \in Hosts : \A i \in DOMAIN down'[h] :
           \E j \in DOMAIN down[h] : down'[h][i] = down[h][j],
         \A c \in Conns : client'[c].phase = "open" => client'[c] = client[c]
  PROVE  PairInv'
<1>1. ResponsesMade'
  BY DEF PairInv, ResponsesMade, Made
<1>2. CounterpartsMade'
  BY DEF PairInv, CounterpartsMade
<1> QED
  BY <1>1, <1>2 DEF PairInv

LEMMA LossKeepsElements ==
  ASSUME HandshakeTypeOK, NEW g \in Hosts,
         down[g] # << >>, down' = [down EXCEPT ![g] = Tail(@)],
         NEW h \in Hosts, NEW i \in DOMAIN down'[h]
  PROVE  \E j \in DOMAIN down[h] : down'[h][i] = down[h][j]
<1>1. CASE h = g
  BY <1>1, Types, TailElements DEF HandshakeTypeOK
<1>2. CASE h # g
  BY <1>2 DEF HandshakeTypeOK
<1> QED
  BY <1>1, <1>2

LEMMA PairAdd ==
  ASSUME PairInv, NEW c \in Conns, AddNewConnection(c) \/ HandshakeInit(c)
  PROVE  PairInv'
<1>1. IDsInv'
  BY AddKeeps, InitKeeps DEF PairInv
<1>2. UNCHANGED <<servers, down>>
  BY DEF AddNewConnection, HandshakeInit, network
<1>3. \A d \in Conns : client'[d].phase = "open" => client'[d] = client[d]
  <2>1. ASSUME NEW d \in Conns, client'[d].phase = "open"
        PROVE  d # c
    <3>1. client'[c].phase \in {"added", "waiting"}
      <4>1. \E id : client' =
              [client EXCEPT ![c].phase = "added", ![c].source = id]
            \/ client' = [client EXCEPT ![c].phase = "waiting", ![c].dest = id,
                                        ![c].initial = TRUE]
        BY DEF AddNewConnection, HandshakeInit
      <4> QED
        BY <4>1 DEF PairInv, IDsInv, HandshakeTypeOK, Connection
    <3> QED
      BY <2>1, <3>1
  <2>2. \A d \in Conns \ {c} : client'[d] = client[d]
    BY DEF AddNewConnection, HandshakeInit, PairInv, IDsInv, HandshakeTypeOK, Connection
  <2> QED
    BY <2>1, <2>2
<1> QED
  BY <1>1, <1>2, <1>3, QuietKeeps

LEMMA PairClose ==
  ASSUME PairInv, NEW c \in Conns, ClientCloses(c)
  PROVE  PairInv'
<1>1. IDsInv'
  BY CloseKeeps DEF PairInv
<1>2. UNCHANGED <<servers, down>>
  BY DEF ClientCloses, network
<1>3. \A d \in Conns : client'[d].phase = "open" => client'[d] = client[d]
  BY DEF ClientCloses, PairInv, IDsInv, HandshakeTypeOK, Connection
<1> QED
  BY <1>1, <1>2, <1>3, QuietKeeps

LEMMA PairTimeout ==
  ASSUME PairInv, NEW c \in Conns, InitialTimeout(c)
  PROVE  PairInv'
<1>1. IDsInv'
  BY TimeoutKeeps DEF PairInv
<1> QED
  BY <1>1, QuietKeeps DEF InitialTimeout

LEMMA PairOthers ==
  ASSUME PairInv,
         \/ \E c \in Conns : ServerEnds(c)
         \/ \E h \in Hosts : LoseInitial(h) \/ LoseResponse(h)
         \/ UNCHANGED vars
  PROVE  PairInv'
<1>1. IDsInv'
  BY OthersKeep DEF PairInv
<1>2. UNCHANGED <<client, servers>>
  BY DEF ServerEnds, LoseInitial, LoseResponse, vars
<1>3. \A h \in Hosts : \A i \in DOMAIN down'[h] :
        \E j \in DOMAIN down[h] : down'[h][i] = down[h][j]
  <2>1. CASE UNCHANGED down
    BY <2>1
  <2>2. CASE \E g \in Hosts : LoseResponse(g)
    BY <2>2, LossKeepsElements DEF LoseResponse, PairInv, IDsInv
  <2> QED
    BY <2>1, <2>2 DEF ServerEnds, LoseInitial, vars, network
<1> QED
  BY <1>1, <1>2, <1>3, QuietKeeps

\* The server makes a connection and its response in one step.
LEMMA PairInitial ==
  ASSUME PairInv, NEW g \in Hosts, ReceiveInitial(g)
  PROVE  PairInv'
<1>1. IDsInv'
  BY InitialKeeps DEF PairInv
<1> DEFINE p == Head(up[g])
<1>2. PICK id \in SourceID(p.dest) :
        /\ servers' = servers \cup {[source |-> id, dest |-> p.source, host |-> g]}
        /\ down' = [down EXCEPT ![g] = Append(@, [source |-> id, dest |-> p.source])]
  BY DEF ReceiveInitial
<1>3. p.source \in Nat /\ p.dest \in Nat
  <2>1. up[g] \in Seq(Address) /\ up[g] # << >>
    BY Types DEF PairInv, IDsInv, ReceiveInitial
  <2>2. p \in Address
    BY <2>1, HeadElement
  <2> QED
    BY <2>2 DEF Address
<1> HIDE DEF p
<1>4. id \in Nat
  BY <1>3, DrawsType DEF SourceID
<1>5. ASSUME NEW h \in Hosts, NEW i \in DOMAIN down'[h]
      PROVE  Made(down'[h][i], h) \in servers'
  <2>1. CASE h = g
    <3> DEFINE r == [source |-> id, dest |-> p.source]
    <3>1. down'[g] = Append(down[g], r)
      BY <1>2 DEF PairInv, IDsInv, HandshakeTypeOK
    <3>2. r \in Address
      BY <1>3, <1>4 DEF Address
    <3>3. CASE i \in DOMAIN down[g] /\ down'[g][i] = down[g][i]
      BY <1>2, <2>1, <3>3 DEF PairInv, ResponsesMade
    <3>4. CASE down'[g][i] = r
      BY <1>2, <2>1, <3>4 DEF Made
    <3> HIDE DEF r
    <3> QED
      BY <2>1, <3>1, <3>2, <3>3, <3>4, Types, AppendElements DEF PairInv, IDsInv
  <2>2. CASE h # g
    BY <1>2, <2>2 DEF PairInv, IDsInv, HandshakeTypeOK, ResponsesMade
  <2> QED
    BY <2>1, <2>2
<1>6. CounterpartsMade'
  BY <1>2 DEF ReceiveInitial, PairInv, CounterpartsMade
<1> QED
  BY <1>1, <1>5, <1>6 DEF PairInv, ResponsesMade

\* A response connects its receiver with the connection made for it.
LEMMA PairResponse ==
  ASSUME PairInv, NEW g \in Hosts, ReceiveResponse(g)
  PROVE  PairInv'
<1>1. IDsInv'
  BY ResponseKeeps DEF PairInv
<1> DEFINE r == Head(down[g])
           owner == {c \in Live(g) : client[c].source = r.dest}
<1>2. /\ servers' = servers
      /\ down[g] # << >> /\ down' = [down EXCEPT ![g] = Tail(@)]
      /\ client' = [c \in Conns |->
           IF c \in owner
           THEN [client[c] EXCEPT !.dest = r.source,
                   !.phase = IF client[c].initial THEN "open" ELSE @,
                   !.initial = FALSE]
           ELSE client[c]]
  BY DEF ReceiveResponse
<1>3. ResponsesMade'
  <2> SUFFICES ASSUME NEW h \in Hosts, NEW i \in DOMAIN down'[h]
               PROVE  Made(down'[h][i], h) \in servers'
    BY DEF ResponsesMade
  <2>1. PICK j \in DOMAIN down[h] : down'[h][i] = down[h][j]
    BY <1>2, LossKeepsElements DEF PairInv, IDsInv
  <2>2. Made(down[h][j], h) \in servers
    BY DEF PairInv, ResponsesMade
  <2>3. Made(down'[h][i], h) \in servers
    BY <2>1, <2>2 DEF Made
  <2>4. servers' = servers
    BY <1>2
  <2> QED
    BY <2>3, <2>4
<1>4. Made(r, g) \in servers
  <2>1. down[g] \in Seq(Address) /\ down[g] # << >>
    BY <1>2, Types DEF PairInv, IDsInv
  <2>2. 1 \in DOMAIN down[g] /\ r = down[g][1]
    BY <2>1, HeadElement
  <2> QED
    BY <2>2 DEF PairInv, ResponsesMade
<1> HIDE DEF r
<1>5. ASSUME NEW c \in Conns, client'[c].phase = "open"
      PROVE  [source |-> client'[c].dest, dest |-> client'[c].source,
              host |-> HostOf[c]] \in servers
  <2>1. CASE c \in owner
    BY <1>2, <1>4, <2>1, Types DEF PairInv, IDsInv, Live, Connection, Made
  <2>2. CASE c \notin owner
    BY <1>2, <1>5, <2>2 DEF PairInv, CounterpartsMade
  <2> QED
    BY <2>1, <2>2
<1> QED
  BY <1>1, <1>2, <1>3, <1>5 DEF PairInv, CounterpartsMade

LEMMA InitPair == Init => PairInv
<1>1. ASSUME Init
      PROVE  ResponsesMade /\ CounterpartsMade
  BY <1>1 DEF Init, ResponsesMade, CounterpartsMade, NoConnection
<1> QED
  BY <1>1, InitIDs DEF PairInv

LEMMA StepKeepsPair ==
  ASSUME PairInv, [Next]_vars
  PROVE  PairInv'
<1>1. CASE \E c \in Conns : ClientStep(c) \/ ClientCloses(c)
  BY <1>1, PairAdd, PairTimeout, PairClose DEF ClientStep
<1>2. CASE \E h \in Hosts : NetworkStep(h)
  BY <1>2, PairInitial, PairResponse DEF NetworkStep
<1>3. CASE \/ \E c \in Conns : ServerEnds(c)
           \/ \E h \in Hosts : LoseInitial(h) \/ LoseResponse(h)
           \/ UNCHANGED vars
  BY <1>3, PairOthers
<1> QED
  BY <1>1, <1>2, <1>3 DEF Next, TransferStep

\* Two open connections with one ID at the server share the record made for
\* them, so they are of one host, with one source ID.
LEMMA PairInvGivesPaired == PairInv => Paired
<1> SUFFICES ASSUME PairInv, NEW c \in Conns, client[c].phase = "open"
             PROVE  \A d \in Conns :
                      client[d].phase = "open" /\ client[d].dest = client[c].dest => d = c
  BY DEF Paired, PairInv, CounterpartsMade
<1> SUFFICES ASSUME NEW d \in Conns, client[d].phase = "open",
                    client[d].dest = client[c].dest
             PROVE  d = c
  OBVIOUS
<1> DEFINE Peer(x) == [source |-> client[x].dest, dest |-> client[x].source,
                       host |-> HostOf[x]]
<1>1. Peer(c) \in servers /\ Peer(d) \in servers /\ Peer(c).source = Peer(d).source
  BY DEF PairInv, CounterpartsMade
<1>2. Peer(c) = Peer(d)
  BY <1>1 DEF PairInv, IDsInv, IDsDistinct
<1>3. client[c].source = client[d].source /\ HostOf[c] = HostOf[d]
  BY <1>2
<1>4. c \in Live(HostOf[c]) /\ d \in Live(HostOf[c])
  BY <1>3 DEF Live
<1> QED
  BY <1>3, <1>4, HostOfType DEF PairInv, IDsInv, IDsDistinct

\* Every open connection of a client has a counterpart at the server that no
\* other open connection has (socketDataArrived, ConnectionManager.cc:232-297),
\* for any number of hosts and connections, any losses, any timeouts, and
\* random numbers that may repeat.
THEOREM AlwaysPaired == Spec => []Paired
<1>1. Init => PairInv
  BY InitPair
<1>2. PairInv /\ [Next]_vars => PairInv'
  BY StepKeepsPair
<1>3. PairInv => Paired
  BY PairInvGivesPaired
<1> QED
  BY <1>1, <1>2, <1>3, PTL DEF Spec

-----------------------------------------------------------------------------
(***************************************************************************)
(* The second part.  Progress: an Initial packet is in the send queue only *)
(* while its connection waits.  Fresh: an ID that a host or the server     *)
(* drew has one meaning.  MadeForOwner: a server connection with the ID a  *)
(* client uses was made for that client.  UpWaits, DownWaits, OnePacket:   *)
(* a packet of the handshake is only on its way while its connection       *)
(* waits, and there is one of them for a connection.                       *)
(***************************************************************************)
Calm == Repeats = FALSE /\ MaxEarlyTimeouts = 0

Progress ==
  \A c \in Conns :
    /\ client[c].phase \in {"new", "added"} => client[c].dest = 0
    /\ client[c].initial => client[c].phase = "waiting" /\ client[c].dest # 0

Drawn ==
  /\ 0 \notin drawn
  /\ \A c \in Conns :
       /\ client[c].phase # "new" => client[c].source \in drawn
       /\ client[c].dest \in drawn \cup {0}
  /\ \A s \in servers : s.source \in drawn

Fresh ==
  \A c, d \in Conns :
    /\ client[c].phase # "new" /\ client[d].phase # "new"
         /\ client[c].source = client[d].source => c = d
    /\ client[c].dest = client[d].dest /\ client[c].dest # 0 => c = d

MadeForOwner ==
  \A s \in servers : \A c \in Conns :
    client[c].dest = s.source => client[c].source = s.dest

UpWaits ==
  \A h \in Hosts : \A i \in DOMAIN up[h] : \E c \in Conns :
    /\ HostOf[c] = h /\ client[c].initial
    /\ client[c].source = up[h][i].source /\ client[c].dest = up[h][i].dest

DownWaits ==
  \A h \in Hosts : \A i \in DOMAIN down[h] : \E c \in Conns :
    HostOf[c] = h /\ client[c].initial /\ client[c].source = down[h][i].dest

OnePacket ==
  \A h \in Hosts :
    /\ \A i, j \in DOMAIN up[h] : up[h][i].source = up[h][j].source => i = j
    /\ \A i, j \in DOMAIN down[h] : down[h][i].dest = down[h][j].dest => i = j
    /\ \A i \in DOMAIN up[h], j \in DOMAIN down[h] : up[h][i].source # down[h][j].dest

Counted == early_timeouts \in Nat

PeerInv ==
  PairInv /\ Counted /\ Progress /\ Drawn /\ Fresh /\ MadeForOwner /\ UpWaits /\ DownWaits
  /\ OnePacket /\ NeverFails

-----------------------------------------------------------------------------
LEMMA FreshDraw ==
  ASSUME Calm, NEW id \in Draws
  PROVE  id \in Nat \ {0} /\ id \notin drawn
BY HandshakeAssumption DEF Calm, Draws

\* t is s, or s without its first element.
Rest(t, s) ==
  \E k \in {0, 1} : \A i \in DOMAIN t : i \in Nat /\ i + k \in DOMAIN s /\ t[i] = s[i + k]

LEMMA RestOfSame ==
  ASSUME NEW T, NEW s \in Seq(T)
  PROVE  Rest(s, s)
BY DEF Rest

LEMMA RestOfTail ==
  ASSUME NEW T, NEW s \in Seq(T), s # << >>
  PROVE  Rest(Tail(s), s)
<1>1. \A i \in DOMAIN Tail(s) : i \in Nat /\ i + 1 \in DOMAIN s /\ Tail(s)[i] = s[i + 1]
  BY TailElements
<1> QED
  BY <1>1 DEF Rest

\* Taking a packet from a channel keeps one packet for each connection.
LEMMA LessKeepsOne ==
  ASSUME OnePacket,
         \A h \in Hosts : Rest(up'[h], up[h]) /\ Rest(down'[h], down[h])
  PROVE  OnePacket'
<1> SUFFICES ASSUME NEW h \in Hosts
    PROVE  /\ \A i, j \in DOMAIN up'[h] : up'[h][i].source = up'[h][j].source => i = j
           /\ \A i, j \in DOMAIN down'[h] : down'[h][i].dest = down'[h][j].dest => i = j
           /\ \A i \in DOMAIN up'[h], j \in DOMAIN down'[h] :
                up'[h][i].source # down'[h][j].dest
  BY DEF OnePacket
<1>1. PICK k \in {0, 1} : \A i \in DOMAIN up'[h] :
        i \in Nat /\ i + k \in DOMAIN up[h] /\ up'[h][i] = up[h][i + k]
  BY DEF Rest
<1>2. PICK l \in {0, 1} : \A i \in DOMAIN down'[h] :
        i \in Nat /\ i + l \in DOMAIN down[h] /\ down'[h][i] = down[h][i + l]
  BY DEF Rest
<1>3. \A i, j \in DOMAIN up'[h] : up'[h][i].source = up'[h][j].source => i = j
  BY <1>1 DEF OnePacket
<1>4. \A i, j \in DOMAIN down'[h] : down'[h][i].dest = down'[h][j].dest => i = j
  BY <1>2 DEF OnePacket
<1>5. \A i \in DOMAIN up'[h], j \in DOMAIN down'[h] : up'[h][i].source # down'[h][j].dest
  BY <1>1, <1>2 DEF OnePacket
<1> QED
  BY <1>3, <1>4, <1>5

\* Connections that wait still wait for the packets that are left.
LEMMA LessKeepsWaits ==
  ASSUME UpWaits, DownWaits,
         \A h \in Hosts : Rest(up'[h], up[h]) /\ Rest(down'[h], down[h]),
         \A d \in Conns : client[d].initial => client'[d] = client[d]
  PROVE  UpWaits' /\ DownWaits'
<1>1. ASSUME NEW h \in Hosts, NEW i \in DOMAIN up'[h]
      PROVE  \E c \in Conns :
               /\ HostOf[c] = h /\ client'[c].initial
               /\ client'[c].source = up'[h][i].source
               /\ client'[c].dest = up'[h][i].dest
  <2>1. PICK j \in DOMAIN up[h] : up'[h][i] = up[h][j]
    BY <1>1 DEF Rest
  <2> QED
    BY <2>1 DEF UpWaits
<1>2. ASSUME NEW h \in Hosts, NEW i \in DOMAIN down'[h]
      PROVE  \E c \in Conns : HostOf[c] = h /\ client'[c].initial
                              /\ client'[c].source = down'[h][i].dest
  <2>1. PICK j \in DOMAIN down[h] : down'[h][i] = down[h][j]
    BY <1>2 DEF Rest
  <2> QED
    BY <2>1 DEF DownWaits
<1> QED
  BY <1>1, <1>2 DEF UpWaits, DownWaits

\* Channels of other hosts, and channels left alone.
LEMMA RestOfOthers ==
  ASSUME IDsInv
  PROVE  \A h \in Hosts : Rest(up[h], up[h]) /\ Rest(down[h], down[h])
BY Types, RestOfSame DEF IDsInv

LEMMA RestOfUp ==
  ASSUME IDsInv, NEW g \in Hosts, up[g] # << >>, up' = [up EXCEPT ![g] = Tail(@)]
  PROVE  \A h \in Hosts : Rest(up'[h], up[h])
<1>1. Rest(up'[g], up[g])
  <2>1. up'[g] = Tail(up[g])
    BY DEF IDsInv, HandshakeTypeOK
  <2> QED
    BY <2>1, Types, RestOfTail DEF IDsInv
<1>2. \A h \in Hosts \ {g} : up'[h] = up[h]
  BY DEF IDsInv, HandshakeTypeOK
<1> QED
  BY <1>1, <1>2, RestOfOthers

LEMMA RestOfDown ==
  ASSUME IDsInv, NEW g \in Hosts, down[g] # << >>, down' = [down EXCEPT ![g] = Tail(@)]
  PROVE  \A h \in Hosts : Rest(down'[h], down[h])
<1>1. Rest(down'[g], down[g])
  <2>1. down'[g] = Tail(down[g])
    BY DEF IDsInv, HandshakeTypeOK
  <2> QED
    BY <2>1, Types, RestOfTail DEF IDsInv
<1>2. \A h \in Hosts \ {g} : down'[h] = down[h]
  BY DEF IDsInv, HandshakeTypeOK
<1> QED
  BY <1>1, <1>2, RestOfOthers

LEMMA InitPeer == Init => PeerInv
<1> SUFFICES ASSUME Init
             PROVE  PeerInv
  OBVIOUS
<1>1. PairInv
  BY InitPair
<1>2. \A h \in Hosts : DOMAIN up[h] = {} /\ DOMAIN down[h] = {}
  BY DEF Init
<1>3. Counted /\ Progress /\ Drawn /\ MadeForOwner /\ NeverFails
  BY DEF Init, Counted, Progress, Drawn, MadeForOwner, NeverFails, NoConnection
<1>4. Fresh
  BY DEF Init, Fresh, NoConnection
<1> QED
  BY <1>1, <1>2, <1>3, <1>4 DEF PeerInv, UpWaits, DownWaits, OnePacket

\* A loss, the end of a transfer at the server, or a stuttering step.
LEMMA PeerOthers ==
  ASSUME PeerInv,
         \/ \E c \in Conns : ServerEnds(c)
         \/ \E h \in Hosts : LoseInitial(h) \/ LoseResponse(h)
         \/ UNCHANGED vars
  PROVE  PeerInv'
<1>1. PairInv'
  BY PairOthers DEF PeerInv
<1>2. UNCHANGED <<client, servers, drawn, failed, early_timeouts>>
  BY DEF ServerEnds, LoseInitial, LoseResponse, vars, bounds
<1>3. \A h \in Hosts : Rest(up'[h], up[h]) /\ Rest(down'[h], down[h])
  <2>1. CASE \E g \in Hosts : LoseInitial(g)
    BY <2>1, RestOfUp, RestOfOthers DEF LoseInitial, PeerInv, PairInv
  <2>2. CASE \E g \in Hosts : LoseResponse(g)
    BY <2>2, RestOfDown, RestOfOthers DEF LoseResponse, PeerInv, PairInv
  <2>3. CASE UNCHANGED <<up, down>>
    BY <2>3, RestOfOthers DEF PeerInv, PairInv
  <2> QED
    BY <2>1, <2>2, <2>3 DEF ServerEnds, vars, network
<1>4. OnePacket' /\ UpWaits' /\ DownWaits'
  BY <1>2, <1>3, LessKeepsOne, LessKeepsWaits DEF PeerInv
<1>5. Counted' /\ Progress' /\ Drawn' /\ Fresh' /\ MadeForOwner' /\ NeverFails'
  BY <1>2 DEF PeerInv, Counted, Progress, Drawn, Fresh, MadeForOwner, NeverFails
<1> QED
  BY <1>1, <1>4, <1>5 DEF PeerInv

LEMMA PeerClose ==
  ASSUME PeerInv, NEW c \in Conns, ClientCloses(c)
  PROVE  PeerInv'
<1> USE DEF PeerInv
<1>1. PairInv'
  BY PairClose
<1>2. UNCHANGED <<servers, drawn, failed, up, down, early_timeouts>>
  BY DEF ClientCloses, network, bounds
<1>3. /\ client[c].phase = "open" /\ client'[c].phase = "closed"
      /\ client'[c].source = client[c].source /\ client'[c].dest = client[c].dest
      /\ client'[c].initial = client[c].initial
  BY DEF ClientCloses, PairInv, IDsInv, HandshakeTypeOK, Connection
<1>4. \A d \in Conns \ {c} : client'[d] = client[d]
  BY DEF ClientCloses, PairInv, IDsInv, HandshakeTypeOK, Connection
<1>5. \A d \in Conns : client[d].initial => client'[d] = client[d]
  BY <1>3, <1>4 DEF Progress
<1>6. OnePacket' /\ UpWaits' /\ DownWaits'
  BY <1>2, <1>5, LessKeepsOne, LessKeepsWaits, RestOfOthers DEF PairInv
<1>7. Progress'
  BY <1>3, <1>4 DEF Progress
<1>8. Drawn'
  BY <1>2, <1>3, <1>4 DEF Drawn
<1>9. Fresh'
  BY <1>3, <1>4 DEF Fresh
<1>10. MadeForOwner' /\ NeverFails' /\ Counted'
  BY <1>2, <1>3, <1>4 DEF MadeForOwner, NeverFails, Counted
<1> QED
  BY <1>1, <1>6, <1>7, <1>8, <1>9, <1>10

LEMMA PeerAdd ==
  ASSUME Calm, PeerInv, NEW c \in Conns, AddNewConnection(c)
  PROVE  PeerInv'
<1> USE DEF PeerInv
<1>1. PairInv'
  BY PairAdd
<1>2. UNCHANGED <<servers, failed, up, down, early_timeouts>>
  BY DEF AddNewConnection, network, bounds
<1>3. PICK id \in Draws :
        /\ client' = [client EXCEPT ![c].phase = "added", ![c].source = id]
        /\ drawn' = drawn \cup {id}
  BY DEF AddNewConnection
<1>4. id \in Nat \ {0} /\ id \notin drawn
  BY FreshDraw
<1>5. /\ client[c].phase = "new" /\ client'[c].phase = "added"
      /\ client'[c].source = id /\ client'[c].dest = client[c].dest
      /\ client'[c].initial = client[c].initial
  BY <1>3 DEF AddNewConnection, PairInv, IDsInv, HandshakeTypeOK, Connection
<1>6. \A d \in Conns \ {c} : client'[d] = client[d]
  BY <1>3 DEF PairInv, IDsInv, HandshakeTypeOK, Connection
<1>7. client[c].dest = 0 /\ ~client[c].initial
  BY <1>5 DEF Progress
<1>8. \A d \in Conns : client[d].initial => client'[d] = client[d]
  BY <1>6, <1>7
<1>9. OnePacket' /\ UpWaits' /\ DownWaits'
  BY <1>2, <1>8, LessKeepsOne, LessKeepsWaits, RestOfOthers DEF PairInv
<1>10. Progress'
  BY <1>5, <1>6, <1>7 DEF Progress
<1>11. Drawn'
  <2>1. 0 \notin drawn' /\ drawn \subseteq drawn' /\ id \in drawn'
    BY <1>3, <1>4 DEF Drawn
  <2>2. \A d \in Conns \ {c} :
          /\ client'[d].phase # "new" => client'[d].source \in drawn'
          /\ client'[d].dest \in drawn' \cup {0}
    BY <1>6, <2>1 DEF Drawn
  <2> QED
    BY <1>2, <1>5, <1>7, <2>1, <2>2 DEF Drawn
<1>12. Fresh'
  <2> SUFFICES ASSUME NEW d \in Conns, NEW e \in Conns
        PROVE  /\ client'[d].phase # "new" /\ client'[e].phase # "new"
                    /\ client'[d].source = client'[e].source => d = e
               /\ client'[d].dest = client'[e].dest /\ client'[d].dest # 0 => d = e
    BY DEF Fresh
  <2>1. \A x \in Conns \ {c} : client[x].phase # "new" => client[x].source # id
    BY <1>4 DEF Drawn
  <2> QED
    BY <1>5, <1>6, <1>7, <2>1 DEF Fresh
<1>13. MadeForOwner'
  <2>1. \A s \in servers : s.source # 0
    BY DEF Drawn
  <2> QED
    BY <1>2, <1>5, <1>6, <1>7, <2>1 DEF MadeForOwner
<1> QED
  BY <1>1, <1>2, <1>9, <1>10, <1>11, <1>12, <1>13 DEF NeverFails, Counted

\* An Initial packet of c enters the network when none of its packets is
\* there.
LEMMA SentKeepsOne ==
  ASSUME IDsInv, OnePacket, NEW g \in Hosts, NEW e \in Address,
         up' = [up EXCEPT ![g] = Append(@, e)], down' = down,
         \A i \in DOMAIN up[g] : up[g][i].source # e.source,
         \A i \in DOMAIN down[g] : down[g][i].dest # e.source
  PROVE  OnePacket'
<1>1. \A h \in Hosts \ {g} : up'[h] = up[h]
  BY DEF IDsInv, HandshakeTypeOK
<1>2. \A i \in DOMAIN up'[g] :
        \/ i \in DOMAIN up[g] /\ up'[g][i] = up[g][i]
        \/ i = Len(up[g]) + 1 /\ i \notin DOMAIN up[g] /\ up'[g][i] = e
  <2>1. up'[g] = Append(up[g], e)
    BY DEF IDsInv, HandshakeTypeOK
  <2> QED
    BY <2>1, Types, AppendElements DEF IDsInv
<1>3. \A i, j \in DOMAIN up'[g] : up'[g][i].source = up'[g][j].source => i = j
  BY <1>2 DEF OnePacket
<1>4. \A i \in DOMAIN up'[g], j \in DOMAIN down'[g] : up'[g][i].source # down'[g][j].dest
  BY <1>2 DEF OnePacket
<1> QED
  BY <1>1, <1>3, <1>4 DEF OnePacket

LEMMA SentKeepsWaits ==
  ASSUME IDsInv, UpWaits, NEW c \in Conns, NEW dest \in Nat,
         SendInitial(c, dest), client[c].source \in Nat,
         client'[c].initial, client'[c].source = client[c].source,
         client'[c].dest = dest,
         \A d \in Conns : client[d].initial => client'[d] = client[d]
  PROVE  UpWaits'
<1> DEFINE g == HostOf[c]
           e == [source |-> client[c].source, dest |-> dest]
<1>1. g \in Hosts
  BY HostOfType
<1>2. up' = [up EXCEPT ![g] = Append(@, e)]
  BY DEF SendInitial
<1>3. e \in Address
  BY DEF Address
<1>4. e.source = client'[c].source /\ e.dest = client'[c].dest
  OBVIOUS
<1> HIDE DEF e, g
<1>5. up'[g] = Append(up[g], e) /\ \A h \in Hosts \ {g} : up'[h] = up[h]
  BY <1>1, <1>2 DEF IDsInv, HandshakeTypeOK
<1> SUFFICES ASSUME NEW h \in Hosts, NEW i \in DOMAIN up'[h]
             PROVE  \E d \in Conns :
                      /\ HostOf[d] = h /\ client'[d].initial
                      /\ client'[d].source = up'[h][i].source
                      /\ client'[d].dest = up'[h][i].dest
  BY DEF UpWaits
<1>6. CASE i \in DOMAIN up[h] /\ up'[h][i] = up[h][i]
  BY <1>6 DEF UpWaits
<1>7. CASE h = g /\ up'[h][i] = e
  BY <1>4, <1>7 DEF g
<1>8. CASE h = g
  <2>1. \/ i \in DOMAIN up[g] /\ up'[g][i] = up[g][i]
        \/ up'[g][i] = e
    <3>1. i \in DOMAIN Append(up[g], e)
      BY <1>5, <1>8
    <3>2. up[g] \in Seq(Address)
      BY <1>1, Types DEF IDsInv
    <3> QED
      BY <1>3, <1>5, <3>1, <3>2, AppendElements
  <2> QED
    BY <1>6, <1>7, <1>8, <2>1
<1> QED
  BY <1>5, <1>6, <1>8

LEMMA PeerHandshakeInit ==
  ASSUME Calm, PeerInv, NEW c \in Conns, HandshakeInit(c)
  PROVE  PeerInv'
<1> USE DEF PeerInv
<1>1. PairInv'
  BY PairAdd
<1>2. UNCHANGED <<servers, failed, down, early_timeouts>>
  BY DEF HandshakeInit, bounds
<1>3. PICK id \in Draws :
        /\ client' = [client EXCEPT ![c].phase = "waiting", ![c].dest = id,
                                    ![c].initial = TRUE]
        /\ drawn' = drawn \cup {id}
        /\ SendInitial(c, id)
  BY DEF HandshakeInit
<1>4. id \in Nat \ {0} /\ id \notin drawn
  BY FreshDraw
<1>5. /\ client[c].phase = "added" /\ client'[c].phase = "waiting"
      /\ client'[c].source = client[c].source /\ client[c].source \in Nat
      /\ client'[c].dest = id /\ client'[c].initial
  BY <1>3 DEF HandshakeInit, PairInv, IDsInv, HandshakeTypeOK, Connection
<1>6. \A d \in Conns \ {c} : client'[d] = client[d]
  BY <1>3 DEF PairInv, IDsInv, HandshakeTypeOK, Connection
<1>7. ~client[c].initial
  BY <1>5 DEF Progress
<1>8. \A d \in Conns : client[d].initial => client'[d] = client[d]
  BY <1>6, <1>7
<1>9. UpWaits'
  BY <1>3, <1>4, <1>5, <1>8, SentKeepsWaits DEF PairInv
<1>10. DownWaits'
  BY <1>2, <1>8 DEF DownWaits
<1>11. OnePacket'
  <2> DEFINE g == HostOf[c]
             e == [source |-> client[c].source, dest |-> id]
  <2>1. up' = [up EXCEPT ![g] = Append(@, e)]
    BY <1>3 DEF SendInitial
  <2>2. e \in Address /\ g \in Hosts
    BY <1>4, <1>5, HostOfType DEF Address
  <2>3. \A i \in DOMAIN up[g] : up[g][i].source # client[c].source
    BY <1>5, <1>7, <2>2 DEF UpWaits, Fresh, Progress
  <2>4. \A i \in DOMAIN down[g] : down[g][i].dest # client[c].source
    BY <1>5, <1>7, <2>2 DEF DownWaits, Fresh, Progress
  <2>5. e.source = client[c].source
    OBVIOUS
  <2> HIDE DEF e, g
  <2> QED
    BY <1>2, <2>1, <2>2, <2>3, <2>4, <2>5, SentKeepsOne DEF PairInv
<1>12. Progress'
  BY <1>4, <1>5, <1>6 DEF Progress
<1>13. Drawn'
  <2>1. 0 \notin drawn' /\ drawn \subseteq drawn' /\ id \in drawn'
    BY <1>3, <1>4 DEF Drawn
  <2>2. \A d \in Conns \ {c} :
          /\ client'[d].phase # "new" => client'[d].source \in drawn'
          /\ client'[d].dest \in drawn' \cup {0}
    BY <1>6, <2>1 DEF Drawn
  <2> QED
    BY <1>2, <1>5, <2>1, <2>2 DEF Drawn
<1>14. Fresh'
  <2>1. \A x \in Conns \ {c} : client[x].dest # id
    BY <1>4 DEF Drawn
  <2> QED
    BY <1>5, <1>6, <2>1 DEF Fresh
<1>15. MadeForOwner'
  <2>1. \A s \in servers : s.source # id
    BY <1>4 DEF Drawn
  <2> QED
    BY <1>2, <1>5, <1>6, <2>1 DEF MadeForOwner
<1> QED
  BY <1>1, <1>2, <1>9, <1>10, <1>11, <1>12, <1>13, <1>14, <1>15
     DEF NeverFails, Counted

\* A timeout finds the one connection with its ID, so its timer is scheduled
\* once.
LEMMA PeerTimeout ==
  ASSUME Calm, PeerInv, NEW c \in Conns, InitialTimeout(c)
  PROVE  PeerInv'
<1> USE DEF PeerInv
<1>1. PairInv'
  BY PairTimeout
<1>2. UNCHANGED <<client, servers, down, drawn>>
  BY DEF InitialTimeout
<1>3. client[c].initial /\ client[c].phase = "waiting" /\ client[c].dest # 0
  BY DEF InitialTimeout, Progress
<1>4. {d \in Live(HostOf[c]) : client[d].dest = client[c].dest} = {c}
  BY <1>3 DEF Live, Fresh
<1>5. SendInitial(c, client[c].dest) /\ failed' = failed
  BY <1>4 DEF InitialTimeout
<1>6. ~OnItsWay(c) /\ early_timeouts' = early_timeouts
  BY DEF InitialTimeout, Calm, Counted
<1>7. client[c].source \in Nat /\ client[c].dest \in Nat
  BY DEF PairInv, IDsInv, HandshakeTypeOK, Connection
<1>8. UpWaits'
  BY <1>2, <1>3, <1>5, <1>7, SentKeepsWaits DEF PairInv
<1>9. OnePacket'
  <2> DEFINE g == HostOf[c]
             e == [source |-> client[c].source, dest |-> client[c].dest]
  <2>1. up' = [up EXCEPT ![g] = Append(@, e)]
    BY <1>5 DEF SendInitial
  <2>2. e \in Address /\ g \in Hosts
    BY <1>7, HostOfType DEF Address
  <2>3. /\ \A i \in DOMAIN up[g] : up[g][i].source # client[c].source
        /\ \A i \in DOMAIN down[g] : down[g][i].dest # client[c].source
    BY <1>6 DEF OnItsWay
  <2>4. e.source = client[c].source
    OBVIOUS
  <2> HIDE DEF e, g
  <2> QED
    BY <1>2, <2>1, <2>2, <2>3, <2>4, SentKeepsOne DEF PairInv
<1>10. /\ Counted' /\ Progress' /\ Drawn' /\ Fresh' /\ MadeForOwner'
       /\ DownWaits' /\ NeverFails'
  BY <1>2, <1>5, <1>6 DEF Counted, Progress, Drawn, Fresh, MadeForOwner, DownWaits, NeverFails
<1> QED
  BY <1>1, <1>8, <1>9, <1>10

\* The Initial packet of a connection becomes its response.
LEMMA PeerInitial ==
  ASSUME Calm, PeerInv, NEW g \in Hosts, ReceiveInitial(g)
  PROVE  PeerInv'
<1> USE DEF PeerInv
<1> DEFINE p == Head(up[g])
<1>1. PairInv'
  BY PairInitial
<1>2. PICK id \in SourceID(p.dest) :
        /\ servers' = servers \cup {[source |-> id, dest |-> p.source, host |-> g]}
        /\ down' = [down EXCEPT ![g] = Append(@, [source |-> id, dest |-> p.source])]
        /\ drawn' = drawn \cup {id}
  BY DEF ReceiveInitial
<1>3. /\ up[g] # << >> /\ up' = [up EXCEPT ![g] = Tail(@)]
      /\ UNCHANGED <<client, failed, early_timeouts>>
  BY DEF ReceiveInitial, bounds
<1>4. up[g] \in Seq(Address) /\ 1 \in DOMAIN up[g] /\ p = up[g][1] /\ p \in Address
  BY <1>3, Types, HeadElement DEF PairInv, IDsInv
<1>5. PICK c \in Conns : /\ HostOf[c] = g /\ client[c].initial
                         /\ client[c].source = p.source /\ client[c].dest = p.dest
  BY <1>4 DEF UpWaits
<1>6. p.source \in Nat /\ p.dest \in Nat /\ p.dest # 0 /\ p.dest \in drawn
  BY <1>4, <1>5 DEF Address, Progress, Drawn
<1>7. id \in Nat \ {0} /\ (id = p.dest \/ id \notin drawn)
  BY <1>6, FreshDraw DEF SourceID
<1> DEFINE r == [source |-> id, dest |-> p.source]
<1>8. r \in Address /\ r.dest = p.source
  BY <1>6, <1>7 DEF Address
<1>9. \A i \in DOMAIN up'[g] :
        i \in Nat \ {0} /\ i + 1 \in DOMAIN up[g] /\ up'[g][i] = up[g][i + 1]
  <2>1. up'[g] = Tail(up[g])
    BY <1>3 DEF PairInv, IDsInv, HandshakeTypeOK
  <2>2. up[g] \in Seq(Address) /\ up[g] # << >>
    BY <1>3, <1>4
  <2> QED
    BY <2>1, <2>2, TailElements
<1>10. down'[g] = Append(down[g], r) /\ down[g] \in Seq(Address)
  BY <1>2, Types DEF PairInv, IDsInv, HandshakeTypeOK
<1>11. \A h \in Hosts \ {g} : up'[h] = up[h] /\ down'[h] = down[h]
  BY <1>2, <1>3 DEF PairInv, IDsInv, HandshakeTypeOK
<1> HIDE DEF p, r
<1>12. \A i \in DOMAIN down'[g] :
         \/ i \in DOMAIN down[g] /\ down'[g][i] = down[g][i]
         \/ i = Len(down[g]) + 1 /\ i \notin DOMAIN down[g] /\ down'[g][i] = r
  BY <1>8, <1>10, AppendElements
<1>13. UpWaits'
  <2> SUFFICES ASSUME NEW h \in Hosts, NEW i \in DOMAIN up'[h]
               PROVE  \E d \in Conns :
                        /\ HostOf[d] = h /\ client[d].initial
                        /\ client[d].source = up'[h][i].source
                        /\ client[d].dest = up'[h][i].dest
    BY <1>3 DEF UpWaits
  <2>1. PICK j \in DOMAIN up[h] : up'[h][i] = up[h][j]
    BY <1>9, <1>11
  <2> QED
    BY <2>1 DEF UpWaits
<1>14. DownWaits'
  <2> SUFFICES ASSUME NEW h \in Hosts, NEW i \in DOMAIN down'[h]
               PROVE  \E d \in Conns : HostOf[d] = h /\ client[d].initial
                                       /\ client[d].source = down'[h][i].dest
    BY <1>3 DEF DownWaits
  <2>1. CASE i \in DOMAIN down[h] /\ down'[h][i] = down[h][i]
    BY <2>1 DEF DownWaits
  <2>2. CASE h = g /\ down'[h][i] = r
    BY <1>5, <1>8, <2>2
  <2> QED
    BY <1>11, <1>12, <2>1, <2>2
<1>15. OnePacket'
  <2>1. /\ \A i \in DOMAIN up'[g] : up'[g][i].source # r.dest
        /\ \A i \in DOMAIN down[g] : down[g][i].dest # r.dest
    BY <1>4, <1>8, <1>9 DEF OnePacket
  <2>2. \A i, j \in DOMAIN up'[g] : up'[g][i].source = up'[g][j].source => i = j
    BY <1>9 DEF OnePacket
  <2>3. \A i, j \in DOMAIN down'[g] : down'[g][i].dest = down'[g][j].dest => i = j
    BY <1>12, <2>1 DEF OnePacket
  <2>4. \A i \in DOMAIN up'[g], j \in DOMAIN down'[g] : up'[g][i].source # down'[g][j].dest
    BY <1>9, <1>12, <2>1 DEF OnePacket
  <2> QED
    BY <1>11, <2>2, <2>3, <2>4 DEF OnePacket
<1>16. Counted' /\ Progress' /\ Fresh' /\ NeverFails'
  BY <1>3 DEF Counted, Progress, Fresh, NeverFails
<1>17. Drawn'
  <2>1. \A s \in servers' : s.source \in drawn'
    BY <1>2 DEF Drawn
  <2>2. 0 \notin drawn'
    BY <1>2, <1>7 DEF Drawn
  <2> QED
    BY <1>2, <1>3, <2>1, <2>2 DEF Drawn
<1>18. MadeForOwner'
  <2> DEFINE t == [source |-> id, dest |-> p.source, host |-> g]
  <2>1. ASSUME NEW d \in Conns, client[d].dest = id
        PROVE  client[d].source = p.source
    <3>1. id \in drawn
      BY <1>7, <2>1 DEF Drawn
    <3>2. id = p.dest
      BY <1>7, <3>1
    <3>3. d = c
      BY <1>5, <1>6, <2>1, <3>2 DEF Fresh
    <3> QED
      BY <1>5, <3>3
  <2>2. t.source = id /\ t.dest = p.source /\ servers' = servers \cup {t}
    BY <1>2
  <2> HIDE DEF t
  <2> QED
    BY <1>3, <2>1, <2>2 DEF MadeForOwner
<1> QED
  BY <1>1, <1>13, <1>14, <1>15, <1>16, <1>17, <1>18

\* A response finds its connection waiting, with its Initial packet, and no
\* connection is left that the response was not for.
LEMMA ResponseFinds ==
  ASSUME PeerInv, NEW g \in Hosts, down[g] # << >>
  PROVE  \E c \in Conns :
           /\ {d \in Live(g) : client[d].source = Head(down[g]).dest} = {c}
           /\ HostOf[c] = g /\ client[c].initial /\ client[c].phase = "waiting"
           /\ client[c].source = Head(down[g]).dest
           /\ Made(Head(down[g]), g) \in servers
<1> USE DEF PeerInv
<1> DEFINE r == Head(down[g])
<1>1. 1 \in DOMAIN down[g] /\ r = down[g][1]
  BY Types, HeadElement DEF PairInv, IDsInv
<1>2. PICK c \in Conns : HostOf[c] = g /\ client[c].initial /\ client[c].source = r.dest
  BY <1>1 DEF DownWaits
<1>3. client[c].phase = "waiting"
  BY <1>2 DEF Progress
<1>4. Made(r, g) \in servers
  BY <1>1 DEF PairInv, ResponsesMade
<1> HIDE DEF r
<1>5. {d \in Live(g) : client[d].source = r.dest} = {c}
  BY <1>2, <1>3 DEF Live, Fresh
<1> QED
  BY <1>2, <1>3, <1>4, <1>5 DEF r

LEMMA PeerResponse ==
  ASSUME PeerInv, NEW g \in Hosts, ReceiveResponse(g)
  PROVE  PeerInv'
<1> USE DEF PeerInv
<1> DEFINE r == Head(down[g])
<1>1. PairInv'
  BY PairResponse
<1>2. /\ down[g] # << >> /\ down' = [down EXCEPT ![g] = Tail(@)]
      /\ UNCHANGED <<servers, up, drawn, early_timeouts>>
  BY DEF ReceiveResponse, bounds
<1>3. PICK c \in Conns :
        /\ {d \in Live(g) : client[d].source = r.dest} = {c}
        /\ HostOf[c] = g /\ client[c].initial /\ client[c].phase = "waiting"
        /\ client[c].source = r.dest
        /\ Made(r, g) \in servers
  BY <1>2, ResponseFinds
<1>4. /\ client' = [d \in Conns |->
           IF d \in {c}
           THEN [client[d] EXCEPT !.dest = r.source,
                   !.phase = IF client[d].initial THEN "open" ELSE @,
                   !.initial = FALSE]
           ELSE client[d]]
      /\ failed' = \E d \in {c} : ~client[d].initial
  BY <1>3 DEF ReceiveResponse
<1>5. ~failed'
  BY <1>3, <1>4
<1>6. down[g] \in Seq(Address) /\ 1 \in DOMAIN down[g] /\ r = down[g][1]
  BY <1>2, Types, HeadElement DEF PairInv, IDsInv
<1>7. \A i \in DOMAIN down'[g] :
        i \in Nat \ {0} /\ i + 1 \in DOMAIN down[g] /\ down'[g][i] = down[g][i + 1]
  <2>1. down'[g] = Tail(down[g])
    BY <1>2 DEF PairInv, IDsInv, HandshakeTypeOK
  <2>2. down[g] \in Seq(Address) /\ down[g] # << >>
    BY <1>2, <1>6
  <2> QED
    BY <2>1, <2>2, TailElements
<1>8. \A h \in Hosts \ {g} : down'[h] = down[h]
  BY <1>2 DEF PairInv, IDsInv, HandshakeTypeOK
<1> HIDE DEF r
<1>9. /\ client'[c].phase = "open" /\ client'[c].source = client[c].source
      /\ client'[c].dest = r.source /\ ~client'[c].initial
      /\ \A d \in Conns \ {c} : client'[d] = client[d]
  BY <1>3, <1>4, Types DEF PairInv, IDsInv, Connection
<1>10. r.source \in drawn /\ r.source # 0
  BY <1>3 DEF Drawn, Made
<1>11. \A d \in Conns \ {c} : client[d].source # r.dest \/ client[d].phase = "new"
  BY <1>3 DEF Fresh
<1>12. UpWaits'
  <2> SUFFICES ASSUME NEW h \in Hosts, NEW i \in DOMAIN up[h]
               PROVE  \E d \in Conns :
                        /\ HostOf[d] = h /\ client'[d].initial
                        /\ client'[d].source = up[h][i].source
                        /\ client'[d].dest = up[h][i].dest
    BY <1>2 DEF UpWaits
  <2>1. PICK d \in Conns :
          /\ HostOf[d] = h /\ client[d].initial
          /\ client[d].source = up[h][i].source /\ client[d].dest = up[h][i].dest
    BY DEF UpWaits
  <2>2. d # c
    BY <1>3, <1>6, <2>1 DEF OnePacket
  <2> QED
    BY <1>9, <2>1, <2>2
<1>13. DownWaits'
  <2> SUFFICES ASSUME NEW h \in Hosts, NEW i \in DOMAIN down'[h]
               PROVE  \E d \in Conns : HostOf[d] = h /\ client'[d].initial
                                       /\ client'[d].source = down'[h][i].dest
    BY DEF DownWaits
  <2>1. PICK j \in DOMAIN down[h] :
          down'[h][i] = down[h][j] /\ (h = g => j # 1)
    <3>1. CASE h = g
      BY <1>7, <3>1
    <3>2. CASE h # g
      BY <1>8, <3>2
    <3> QED
      BY <3>1, <3>2
  <2>2. PICK d \in Conns : HostOf[d] = h /\ client[d].initial
                           /\ client[d].source = down[h][j].dest
    BY DEF DownWaits
  <2>3. d # c
    BY <1>3, <1>6, <2>1, <2>2 DEF OnePacket
  <2> QED
    BY <1>9, <2>1, <2>2, <2>3
<1>14. OnePacket'
  BY <1>2, RestOfDown, RestOfOthers, LessKeepsOne DEF PairInv
<1>15. Progress' /\ Counted' /\ NeverFails'
  BY <1>2, <1>5, <1>9 DEF Progress, Counted, NeverFails
<1>16. Drawn'
  <2>1. \A d \in Conns \ {c} :
          /\ client'[d].phase # "new" => client'[d].source \in drawn
          /\ client'[d].dest \in drawn \cup {0}
    BY <1>9 DEF Drawn
  <2>2. client'[c].source \in drawn /\ client'[c].dest \in drawn
    BY <1>3, <1>9, <1>10 DEF Drawn
  <2> QED
    BY <1>2, <2>1, <2>2 DEF Drawn
<1>17. Fresh'
  <2>1. ASSUME NEW d \in Conns \ {c}, client[d].dest = r.source
        PROVE  FALSE
    <3>1. client[d].source = r.dest
      BY <1>3, <2>1 DEF MadeForOwner, Made
    <3>2. client[d].phase # "new"
      BY <1>10, <2>1 DEF Progress
    <3> QED
      BY <1>11, <3>1, <3>2
  <2>2. client[c].phase # "new" /\ client'[c].phase # "new"
    BY <1>3, <1>9
  <2> SUFFICES ASSUME NEW d \in Conns, NEW e \in Conns
        PROVE  /\ client'[d].phase # "new" /\ client'[e].phase # "new"
                    /\ client'[d].source = client'[e].source => d = e
               /\ client'[d].dest = client'[e].dest /\ client'[d].dest # 0 => d = e
    BY DEF Fresh
  <2> QED
    BY <1>9, <2>1, <2>2 DEF Fresh
<1>18. MadeForOwner'
  <2>1. ASSUME NEW s \in servers, s.source = r.source
        PROVE  s.dest = r.dest
    BY <1>3, <2>1 DEF Made, PairInv, IDsInv, IDsDistinct
  <2> QED
    BY <1>2, <1>3, <1>9, <2>1 DEF MadeForOwner
<1> QED
  BY <1>1, <1>12, <1>13, <1>14, <1>15, <1>16, <1>17, <1>18

LEMMA StepKeepsPeer ==
  ASSUME Calm, PeerInv, [Next]_vars
  PROVE  PeerInv'
<1>1. CASE \E c \in Conns : ClientStep(c) \/ ClientCloses(c)
  BY <1>1, PeerAdd, PeerHandshakeInit, PeerTimeout, PeerClose DEF ClientStep
<1>2. CASE \E h \in Hosts : NetworkStep(h)
  BY <1>2, PeerInitial, PeerResponse DEF NetworkStep
<1>3. CASE \/ \E c \in Conns : ServerEnds(c)
           \/ \E h \in Hosts : LoseInitial(h) \/ LoseResponse(h)
           \/ UNCHANGED vars
  BY <1>3, PeerOthers
<1> QED
  BY <1>1, <1>2, <1>3 DEF Next, TransferStep

\* No handler of the handshake gets a null pointer or schedules a timer twice
\* (ConnectionManager.cc:278, 696), for any number of hosts and connections and
\* any losses, when random numbers do not repeat and an Initial packet is sent
\* again only when nothing of its handshake is on its way.
THEOREM CalmNeverFails ==
  ASSUME Calm
  PROVE  Spec => []NeverFails
<1>1. Init => PeerInv
  BY InitPeer
<1>2. PeerInv /\ [Next]_vars => PeerInv'
  BY StepKeepsPeer
<1>3. PeerInv => NeverFails
  BY DEF PeerInv
<1> QED
  BY <1>1, <1>2, <1>3, PTL DEF Spec

\* Under the same conditions an open connection never changes the server
\* connection it sends to (setDestID, ConnectionManager.cc:276).
THEOREM CalmKeepsPeer ==
  ASSUME Calm
  PROVE  Spec => KeepsPeer
<1> DEFINE Step == \A c \in Conns : client[c].phase = "open" =>
                     client'[c].dest = client[c].dest
<1>1. Init => PeerInv
  BY InitPeer
<1>2. PeerInv /\ [Next]_vars => PeerInv'
  BY StepKeepsPeer
<1>3. PeerInv /\ [Next]_vars => [Step]_vars
  <2> SUFFICES ASSUME PeerInv, Next, NEW c \in Conns, client[c].phase = "open"
               PROVE  client'[c].dest = client[c].dest
    OBVIOUS
  <2>1. CASE \E d \in Conns : AddNewConnection(d) \/ HandshakeInit(d)
    BY <2>1 DEF AddNewConnection, HandshakeInit, PeerInv, PairInv, IDsInv,
                HandshakeTypeOK, Connection
  <2>2. CASE \E d \in Conns : InitialTimeout(d) \/ ServerEnds(d)
    BY <2>2 DEF InitialTimeout, ServerEnds
  <2>3. CASE \E d \in Conns : ClientCloses(d)
    BY <2>3 DEF ClientCloses, PeerInv, PairInv, IDsInv, HandshakeTypeOK, Connection
  <2>4. CASE \E h \in Hosts : ReceiveInitial(h) \/ LoseInitial(h) \/ LoseResponse(h)
    BY <2>4 DEF ReceiveInitial, LoseInitial, LoseResponse
  <2>5. ASSUME NEW h \in Hosts, ReceiveResponse(h)
        PROVE  client'[c].dest = client[c].dest
    <3>1. down[h] # << >>
      BY <2>5 DEF ReceiveResponse
    <3>2. c \notin {d \in Live(h) : client[d].source = Head(down[h]).dest}
      BY <3>1, ResponseFinds
    <3> QED
      BY <2>5, <3>2 DEF ReceiveResponse
  <2> QED
    BY <2>1, <2>2, <2>3, <2>4, <2>5 DEF Next, ClientStep, TransferStep, NetworkStep
<1> QED
  BY <1>1, <1>2, <1>3, PTL DEF Spec, KeepsPeer

-----------------------------------------------------------------------------
(***************************************************************************)
(* The timers of the statistics. The comparison that stops them is one of  *)
(* two sizes; it says that every connection of the server has ended, since *)
(* their IDs are distinct and only IDs of the list are booked.             *)
(***************************************************************************)
Running == servers = {} \/ \E s \in servers : s.source \notin connections_done

StatisticsInv ==
  /\ IDsInv
  /\ IsFiniteSet(servers)
  /\ connections_done \subseteq Sources(servers)
  /\ throughput_timer => Running

\* As many IDs as connections are the IDs of all of them.
LEMMA SizesAgree ==
  ASSUME NEW list, IsFiniteSet(list),
         \A s, t \in list : s.source = t.source => s = t,
         NEW done \in SUBSET Sources(list)
  PROVE  Cardinality(done) = Cardinality(list) <=> \A s \in list : s.source \in done
<1> DEFINE f == [s \in list |-> s.source]
<1>1. f \in Bijection(list, Sources(list))
  BY DEF Bijection, Injection, Surjection, IsInjective, Sources
<1>2. IsFiniteSet(Sources(list)) /\ Cardinality(Sources(list)) = Cardinality(list)
  BY <1>1, FS_Bijection DEF ExistsBijection
<1>3. Cardinality(Sources(list)) = Cardinality(done) => Sources(list) = done
  BY <1>2, FS_Subset
<1>4. (\A s \in list : s.source \in done) => Sources(list) = done
  BY DEF Sources
<1> QED
  BY <1>2, <1>3, <1>4 DEF Sources

\* What each step does to the timers, the list and the booked IDs.
StatisticsStep ==
  /\ StatisticsInv'
  /\ throughput_timer => (throughput_timer' <=> Running')

LEMMA StatisticsEnds ==
  ASSUME StatisticsInv, NEW c \in Conns, ServerEnds(c), IDsInv'
  PROVE  StatisticsStep
<1>1. /\ client[c].dest \in Sources(servers)
      /\ connections_done' = connections_done \cup {client[c].dest}
      /\ servers' = servers
      /\ throughput_timer' <=>
           (throughput_timer /\ Cardinality(connections_done') # Cardinality(servers))
  BY DEF ServerEnds
<1>2. connections_done' \subseteq Sources(servers)
  BY <1>1 DEF StatisticsInv
<1>3. Cardinality(connections_done') = Cardinality(servers)
        <=> \A s \in servers : s.source \in connections_done'
  BY <1>2, SizesAgree DEF StatisticsInv, IDsInv, IDsDistinct
<1>4. servers # {}
  BY <1>1 DEF Sources
<1>5. Running' <=> \E s \in servers : s.source \notin connections_done'
  BY <1>1, <1>4 DEF Running
<1>6. throughput_timer' <=> (throughput_timer /\ Running')
  BY <1>1, <1>3, <1>5
<1> QED
  BY <1>1, <1>2, <1>6 DEF StatisticsStep, StatisticsInv

LEMMA StatisticsInitial ==
  ASSUME StatisticsInv, NEW h \in Hosts, ReceiveInitial(h), IDsInv'
  PROVE  StatisticsStep
<1> DEFINE p == Head(up[h])
<1>1. PICK id \in SourceID(p.dest) :
        servers' = servers \cup {[source |-> id, dest |-> p.source, host |-> h]}
  BY DEF ReceiveInitial
<1>2. connections_done' = connections_done /\ throughput_timer' = throughput_timer
  BY DEF ReceiveInitial
<1> HIDE DEF p
<1>3. id \notin Sources(servers)
  BY DEF SourceID
<1>4. Running'
  <2> DEFINE new == [source |-> id, dest |-> p.source, host |-> h]
  <2>1. new \in servers' /\ new.source = id
    BY <1>1
  <2>2. id \notin connections_done'
    BY <1>2, <1>3 DEF StatisticsInv
  <2> QED
    BY <2>1, <2>2 DEF Running
<1>5. IsFiniteSet(servers')
  BY <1>1, FS_AddElement DEF StatisticsInv
<1>6. connections_done' \subseteq Sources(servers')
  BY <1>1, <1>2 DEF StatisticsInv, Sources
<1> QED
  BY <1>2, <1>4, <1>5, <1>6 DEF StatisticsStep, StatisticsInv

\* All other steps leave the list, the booked IDs and the timers alone.
LEMMA StatisticsOthers ==
  ASSUME StatisticsInv, IDsInv',
         UNCHANGED <<servers, connections_done, throughput_timer>>
  PROVE  StatisticsStep
BY DEF StatisticsStep, StatisticsInv, Running

\* The timers of the statistics run until the last of the server's connections
\* has ended, and stop then (ConnectionManager.cc:523).
THEOREM TimersStopWithTheLast == Spec => StopsWithTheLast
<1> DEFINE Step == throughput_timer =>
                     (throughput_timer' <=>
                        (servers' = {} \/ \E s \in servers' :
                                            s.source \notin connections_done'))
<1>1. Init => StatisticsInv
  BY InitIDs, FS_EmptySet DEF Init, StatisticsInv, Running
<1>2. StatisticsInv /\ [Next]_vars => StatisticsStep
  <2> SUFFICES ASSUME StatisticsInv, [Next]_vars
               PROVE  StatisticsStep
    OBVIOUS
  <2>1. IDsInv'
    BY IDsStep DEF StatisticsInv
  <2>2. CASE \E c \in Conns : ServerEnds(c)
    BY <2>1, <2>2, StatisticsEnds
  <2>3. CASE \E h \in Hosts : ReceiveInitial(h)
    BY <2>1, <2>3, StatisticsInitial
  <2>4. CASE \E c \in Conns : ClientStep(c) \/ ClientCloses(c)
    <3>1. UNCHANGED <<servers, connections_done, throughput_timer>>
      BY <2>4 DEF ClientStep, AddNewConnection, HandshakeInit, InitialTimeout,
                  ClientCloses
    <3> QED
      BY <2>1, <3>1, StatisticsOthers
  <2>5. CASE \E h \in Hosts : ReceiveResponse(h) \/ LoseInitial(h) \/ LoseResponse(h)
    <3>1. UNCHANGED <<servers, connections_done, throughput_timer>>
      BY <2>5 DEF ReceiveResponse, LoseInitial, LoseResponse
    <3> QED
      BY <2>1, <3>1, StatisticsOthers
  <2>6. CASE UNCHANGED vars
    <3>1. UNCHANGED <<servers, connections_done, throughput_timer>>
      BY <2>6 DEF vars
    <3> QED
      BY <2>1, <3>1, StatisticsOthers
  <2> QED
    BY <2>2, <2>3, <2>4, <2>5, <2>6 DEF Next, TransferStep, NetworkStep
<1>3. StatisticsStep => StatisticsInv' /\ Step
  BY DEF StatisticsStep, Running
<1> QED
  BY <1>1, <1>2, <1>3, PTL DEF Spec, StopsWithTheLast

=============================================================================
