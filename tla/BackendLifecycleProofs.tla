------------------------ MODULE BackendLifecycleProofs ------------------------
(***************************************************************************)
(* Safety of the backends of a state root, for every set of clients and    *)
(* every number of backends, connections, departures and kills.            *)
(*                                                                         *)
(* A backend that has its core open is the owner on record of the lock, so *)
(* that two of them would be the same (WriterOwns).  The endpoint file     *)
(* names a backend that serves or was killed while it did (EndpointOK): a  *)
(* stage from which none can come back to life.  And the tracker of a      *)
(* backend that was not killed counts its live connections (CountOK),      *)
(* which bounds the count, and is what "the last one closed" rests on.     *)
(***************************************************************************)
EXTENDS BackendLifecycle, FiniteSetTheorems, TLAPS

Counted(b) == {k \in Socket : socket[k].backend = b /\ socket[k].side = "counted"}

WriterOwns == \A b \in Backend : stage[b] \in Opened => lock = b

EndpointOK == endpoint # 0 => stage[endpoint] \in {"serving", "dead"}

SocketOK == \A k \in Socket : socket[k].side # "unused" => socket[k].backend \in Backend

CountOK == \A b \in Backend : stage[b] # "dead" => tracker[b].count = Cardinality(Counted(b))

\* The inductive invariant.
IInv == TypeOK /\ WriterOwns /\ EndpointOK /\ SocketOK /\ CountOK

(***************************************************************************)
(* Counting connections.                                                   *)
(***************************************************************************)
LEMMA CountedIsFinite ==
  ASSUME NEW b
  PROVE  /\ IsFiniteSet(Counted(b))
         /\ Cardinality(Counted(b)) \in 0..MaxSockets
<1>1. MaxSockets \in Nat
  BY BoundsAssumption
<1>2. IsFiniteSet(Socket) /\ Cardinality(Socket) = MaxSockets
  BY <1>1, FS_Interval DEF Socket
<1>3. Counted(b) \subseteq Socket
  BY DEF Counted
<1>4. IsFiniteSet(Counted(b)) /\ Cardinality(Counted(b)) <= MaxSockets
  BY <1>2, <1>3, FS_Subset
<1>. QED BY <1>1, <1>4, FS_CardinalityType

\* Nothing runs at first.
LEMMA InitIInv == Init => IInv
<1>. SUFFICES ASSUME Init PROVE IInv
  OBVIOUS
<1>1. TypeOK
  BY BoundsAssumption DEF Init, TypeOK, Stage, Place
<1>2. WriterOwns /\ EndpointOK /\ SocketOK
  BY DEF Init, WriterOwns, EndpointOK, SocketOK, Opened
<1>3. CountOK
  <2>1. \A b \in Backend : Counted(b) = {}
    BY DEF Init, Counted
  <2>. QED BY <2>1, FS_EmptySet DEF Init, CountOK
<1>. QED BY <1>1, <1>2, <1>3 DEF IInv

(***************************************************************************)
(* The stages of a backend.                                                *)
(***************************************************************************)
\* The steps that leave the connections alone.
LEMMA StageKeeps ==
  ASSUME IInv, NEW b \in Backend,
         TakeLock(b) \/ GiveUp(b) \/ Listen(b) \/ Advertise(b) \/ Retract(b) \/ Terminate(b) \/ Leave(b)
  PROVE  IInv'
<1>. USE DEF IInv, Becomes, RemoveEndpoint, Withdrawn, process, count, client
<1>1. PICK next \in Stage \ {"off", "dead"} :
        stage' = [stage EXCEPT ![b] = next] /\ stage[b] \notin {"off", "dead"}
  BY DEF TakeLock, GiveUp, Listen, Advertise, Retract, Terminate, Leave, Ends, TypeOK, Stage, Opened
<1>2. TypeOK'
  BY <1>1, BoundsAssumption DEF TakeLock, GiveUp, Listen, Advertise, Retract, Terminate, Leave, TypeOK
<1>3. WriterOwns'
  <2>1. CASE TakeLock(b)
    <3>1. \A a \in Backend : stage[a] \notin Opened
      BY <2>1 DEF TakeLock, LockFree, Alive, WriterOwns, Opened, Backend
    <3>. QED BY <2>1, <3>1 DEF TakeLock, WriterOwns, TypeOK
  <2>2. CASE GiveUp(b) \/ Listen(b) \/ Advertise(b) \/ Retract(b) \/ Terminate(b)
    BY <2>2 DEF GiveUp, Listen, Advertise, Retract, Terminate, Ends, WriterOwns, TypeOK, Opened
  <2>3. CASE Leave(b)
    <3>1. lock = b /\ stage' = [stage EXCEPT ![b] = "gone"]
      BY <2>3 DEF Leave, WriterOwns, Opened
    <3>. QED BY <3>1 DEF WriterOwns, TypeOK, Opened
  <2>. QED BY <2>1, <2>2, <2>3
<1>4. EndpointOK'
  BY DEF TakeLock, GiveUp, Listen, Advertise, Retract, Terminate, Leave, EndpointOK, TypeOK
<1>5. SocketOK' /\ CountOK'
  <2>1. UNCHANGED <<socket, tracker>>
    BY DEF TakeLock, GiveUp, Listen, Advertise, Retract, Terminate, Leave
  <2>2. \A a \in Backend : Counted(a)' = Counted(a)
    BY <2>1 DEF Counted
  <2>. QED BY <1>1, <2>1, <2>2 DEF SocketOK, CountOK, TypeOK
<1>. QED BY <1>2, <1>3, <1>4, <1>5

\* The steps that close every connection of the backend.
LEMMA CloseKeeps ==
  ASSUME IInv, NEW b \in Backend, CloseHttp(b) \/ Kill(b)
  PROVE  IInv'
<1>. USE DEF IInv, Becomes, client
<1>1. /\ socket' = Closed(b)
      /\ \A k \in Socket : /\ socket'[k] = IF socket[k].backend = b THEN [socket[k] EXCEPT !.side = "closed"]
                                                                   ELSE socket[k]
                           /\ socket'[k].backend = socket[k].backend
  <2>1. socket' = Closed(b)
    BY DEF CloseHttp, Kill
  <2>2. \A k \in Socket : socket'[k] = IF socket[k].backend = b THEN [socket[k] EXCEPT !.side = "closed"]
                                                             ELSE socket[k]
    BY <2>1 DEF Closed, SocketsOf
  <2>3. \A k \in Socket : socket'[k].backend = socket[k].backend
    BY <2>2 DEF TypeOK
  <2>. QED BY <2>1, <2>2, <2>3
<1>2. TypeOK'
  <2>1. socket' \in [Socket -> [backend : {0} \cup Backend, client : {0} \cup Client,
                               side : {"unused", "calling", "counted", "closed"}]]
    <3>1. \A k \in Socket :
            socket[k] \in [backend : {0} \cup Backend, client : {0} \cup Client,
                          side : {"unused", "calling", "counted", "closed"}]
      BY DEF TypeOK
    <3>2. socket' = [k \in Socket |-> socket'[k]]
      BY <1>1 DEF Closed
    <3>3. \A k \in Socket :
            socket'[k] \in [backend : {0} \cup Backend, client : {0} \cup Client,
                           side : {"unused", "calling", "counted", "closed"}]
      BY <1>1, <3>1
    <3>. QED BY <3>2, <3>3
  <2>2. tracker' \in [Backend -> [count : 0..MaxSockets, armed : BOOLEAN]]
    BY BoundsAssumption DEF CloseHttp, Kill, TypeOK
  <2>3. stage' \in [Backend -> Stage]
    BY DEF CloseHttp, Kill, TypeOK, Stage, Opened
  <2>. QED BY <2>1, <2>2, <2>3, BoundsAssumption DEF CloseHttp, Kill, TypeOK, Owner
<1>3. WriterOwns' /\ EndpointOK'
  BY DEF CloseHttp, Kill, Owner, WriterOwns, EndpointOK, TypeOK, Opened, Alive
<1>4. SocketOK'
  BY <1>1 DEF SocketOK, TypeOK
<1>5. CountOK'
  <2>1. Counted(b)' = {}
    BY <1>1 DEF Counted, TypeOK
  <2>2. \A a \in Backend \ {b} : Counted(a)' = Counted(a)
    BY <1>1 DEF Counted
  <2>3. stage'[b] # "dead" => tracker'[b].count = 0
    BY DEF CloseHttp, Kill, TypeOK
  <2>4. \A a \in Backend \ {b} : tracker'[a] = tracker[a] /\ stage'[a] = stage[a]
    BY DEF CloseHttp, Kill, TypeOK
  <2>. QED BY <2>1, <2>2, <2>3, <2>4, FS_EmptySet DEF CountOK
<1>. QED BY <1>2, <1>3, <1>4, <1>5

(***************************************************************************)
(* Connections and clients.                                                *)
(***************************************************************************)
\* onConnect and onDisconnect count one connection in, and out.
LEMMA CountKeeps ==
  ASSUME IInv, NEW k \in Socket, Connect(k) \/ Disconnect(k)
  PROVE  IInv'
<1>. USE DEF IInv, process, client
<1>1. PICK b \in Backend : b = socket[k].backend /\ UNCHANGED <<stage, lock, endpoint>>
  BY DEF Connect, Disconnect, SocketOK, TypeOK
<1>2. tracker[b] \in [count : 0..MaxSockets, armed : BOOLEAN]
  BY <1>1 DEF TypeOK
<1>3. \A j \in Socket : /\ socket'[j].backend = socket[j].backend
                        /\ j # k => socket'[j] = socket[j]
  BY DEF Connect, Disconnect, TypeOK
<1>4. \A a \in Backend \ {b} : Counted(a)' = Counted(a) /\ tracker'[a] = tracker[a]
  <2>1. \A a \in Backend \ {b} : Counted(a)' = Counted(a)
    <3>. SUFFICES ASSUME NEW a \in Backend \ {b}, NEW j \in Socket
                  PROVE  j \in Counted(a)' <=> j \in Counted(a)
      BY DEF Counted
    <3>1. CASE j = k
      BY <1>1, <1>3, <3>1 DEF Counted
    <3>2. CASE j # k
      BY <1>3, <3>2 DEF Counted
    <3>. QED BY <3>1, <3>2
  <2>2. \A a \in Backend \ {b} : tracker'[a] = tracker[a]
    BY <1>1 DEF Connect, Disconnect, TypeOK
  <2>. QED BY <2>1, <2>2
<1>5. stage[b] # "dead" /\ tracker[b].count = Cardinality(Counted(b))
  BY <1>1 DEF Connect, Disconnect, CountOK, Alive, Accepting
<1>6. tracker'[b].count = Cardinality(Counted(b)')
  <2>1. CASE Connect(k)
    <3>1. k \notin Counted(b) /\ Counted(b)' = Counted(b) \cup {k}
      <4>1. socket[k].side = "calling" /\ socket'[k].side = "counted"
        BY <2>1 DEF Connect, TypeOK
      <4>2. k \notin Counted(b) /\ k \in Counted(b)'
        BY <1>1, <1>3, <4>1 DEF Counted
      <4>3. \A j \in Socket \ {k} : j \in Counted(b)' <=> j \in Counted(b)
        BY <1>3 DEF Counted
      <4>4. Counted(b) \subseteq Socket /\ Counted(b)' \subseteq Socket
        BY DEF Counted
      <4>. QED BY <4>2, <4>3, <4>4
    <3>2. tracker'[b].count = tracker[b].count + 1
      BY <1>1, <1>2, <2>1 DEF Connect, Connected, TypeOK
    <3>. QED BY <1>5, <3>1, <3>2, CountedIsFinite, FS_AddElement
  <2>2. CASE Disconnect(k)
    <3>1. k \in Counted(b) /\ Counted(b)' = Counted(b) \ {k}
      <4>1. socket[k].side = "counted" /\ socket'[k].side = "closed"
        BY <2>2 DEF Disconnect, TypeOK
      <4>2. k \in Counted(b) /\ k \notin Counted(b)'
        BY <1>1, <1>3, <4>1 DEF Counted
      <4>3. \A j \in Socket \ {k} : j \in Counted(b)' <=> j \in Counted(b)
        BY <1>3 DEF Counted
      <4>4. Counted(b) \subseteq Socket /\ Counted(b)' \subseteq Socket
        BY DEF Counted
      <4>. QED BY <4>2, <4>3, <4>4
    <3>2. tracker'[b].count = IF tracker[b].count = 0 THEN 0 ELSE tracker[b].count - 1
      BY <1>1, <1>2, <2>2 DEF Disconnect, Disconnected, TypeOK
    <3>3. Cardinality(Counted(b)') = Cardinality(Counted(b)) - 1 /\ Cardinality(Counted(b)) # 0
      BY <3>1, CountedIsFinite, FS_RemoveElement, FS_EmptySet
    <3>. QED BY <1>5, <3>2, <3>3
  <2>. QED BY <2>1, <2>2
<1>7. CountOK'
  BY <1>1, <1>4, <1>5, <1>6 DEF CountOK
<1>8. TypeOK'
  <2>1. socket' \in [Socket -> [backend : {0} \cup Backend, client : {0} \cup Client,
                               side : {"unused", "calling", "counted", "closed"}]]
    BY DEF Connect, Disconnect, TypeOK
  <2>2. tracker'[b] \in [count : 0..MaxSockets, armed : BOOLEAN]
    <3>1. tracker'[b].count \in 0..MaxSockets
      <4>1. (Cardinality(Counted(b)) \in 0..MaxSockets)'
        BY CountedIsFinite, PTL
      <4>. QED BY <4>1, <1>6
    <3>2. tracker'[b] = [count |-> tracker'[b].count, armed |-> tracker'[b].armed] /\ tracker'[b].armed \in BOOLEAN
      <4>1. CASE Connect(k)
        BY <1>1, <1>2, <4>1 DEF Connect, Connected, TypeOK
      <4>2. CASE Disconnect(k)
        BY <1>1, <1>2, <4>2 DEF Disconnect, Disconnected, TypeOK
      <4>. QED BY <4>1, <4>2
    <3>. QED BY <3>1, <3>2
  <2>3. tracker' \in [Backend -> [count : 0..MaxSockets, armed : BOOLEAN]]
    <3>1. PICK t : tracker' = [tracker EXCEPT ![b] = t]
      BY <1>1 DEF Connect, Disconnect
    <3>. QED BY <1>1, <2>2, <3>1 DEF TypeOK
  <2>. QED BY <1>1, <2>1, <2>3 DEF Connect, Disconnect, TypeOK
<1>9. WriterOwns' /\ EndpointOK' /\ SocketOK'
  BY <1>1, <1>3 DEF Connect, Disconnect, WriterOwns, EndpointOK, SocketOK, TypeOK
<1>. QED BY <1>7, <1>8, <1>9

\* The other steps of a connection and of a client count nothing.
LEMMA ClientKeeps ==
  ASSUME IInv,
         \/ \E b \in Backend : Fire(b)
         \/ \E k \in Socket : Vanish(k)
         \/ \E c \in Client : \/ Arrive(c) \/ OpenSocket(c) \/ Deadline(c)
                              \/ Settle(c) \/ Reconnect(c) \/ Depart(c)
  PROVE  IInv'
<1>. USE DEF IInv, process, count, client, Goes
<1>1. UNCHANGED <<stage, lock, endpoint, tracker, killed>>
  BY DEF Fire, Vanish, Arrive, OpenSocket, Deadline, Settle, Reconnect, Depart
<1>2. PICK k \in Socket \cup {0} :
        /\ \A j \in Socket \ {k} : socket'[j] = socket[j]
        /\ k # 0 => /\ socket[k].side \in {"unused", "calling"} /\ socket'[k].side \in {"calling", "closed"}
                    /\ socket'[k].backend \in Backend
        /\ k = 0 => socket' = socket
  <2>1. CASE \E k \in Socket : Vanish(k)
    <3>1. PICK k \in Socket : Vanish(k)
      BY <2>1
    <3>2. /\ \A j \in Socket \ {k} : socket'[j] = socket[j]
          /\ socket[k].side = "calling" /\ socket'[k].side = "closed" /\ socket'[k].backend \in Backend
      BY <3>1 DEF Vanish, SocketOK, TypeOK
    <3>3. k # 0
      BY DEF Socket
    <3>. QED BY <3>2, <3>3
  <2>2. CASE \E c \in Client : OpenSocket(c)
    <3>1. PICK c \in Client, k \in Socket :
            /\ socket[k].side = "unused" /\ Alive(endpoint)
            /\ socket' = [socket EXCEPT ![k] = [backend |-> endpoint, client |-> c, side |-> "calling"]]
      BY <2>2 DEF OpenSocket, Unused
    <3>2. endpoint \in Backend /\ k # 0
      BY <3>1 DEF Alive, TypeOK, Socket
    <3>3. socket'[k] = [backend |-> endpoint, client |-> c, side |-> "calling"]
      BY <3>1 DEF TypeOK
    <3>4. \A j \in Socket \ {k} : socket'[j] = socket[j]
      BY <3>1 DEF TypeOK
    <3>. QED BY <3>1, <3>2, <3>3, <3>4
  <2>3. CASE socket' = socket
    BY <2>3
  <2>. QED BY <2>1, <2>2, <2>3 DEF Fire, Arrive, Deadline, Settle, Reconnect, Depart
<1>3. TypeOK'
  <2>1. /\ stage' \in [Backend -> Stage] /\ lock' \in {0} \cup Backend /\ endpoint' \in {0} \cup Backend
        /\ tracker' \in [Backend -> [count : 0..MaxSockets, armed : BOOLEAN]] /\ killed' \in 0..MaxKills
    BY <1>1 DEF TypeOK
  <2>2. /\ firing' \subseteq Backend /\ fired' \subseteq Backend /\ left' \in 0..MaxLeaves
    BY BoundsAssumption
    DEF Fire, Vanish, Arrive, OpenSocket, Deadline, Settle, Reconnect, Depart, TypeOK
  <2>3. spawner' \in {0} \cup Client
    BY DEF Fire, Vanish, Arrive, OpenSocket, Deadline, Settle, Reconnect, Depart, TypeOK
  <2>4. place' \in [Client -> Place] /\ mine' \in [Client -> {0} \cup Socket]
    BY DEF Fire, Vanish, Arrive, OpenSocket, Deadline, Settle, Reconnect, Depart, TypeOK, Place
  <2>5. socket' \in [Socket -> [backend : {0} \cup Backend, client : {0} \cup Client,
                               side : {"unused", "calling", "counted", "closed"}]]
    BY DEF Fire, Vanish, Arrive, OpenSocket, Deadline, Settle, Reconnect, Depart, TypeOK, Alive
  <2>. QED BY <2>1, <2>2, <2>3, <2>4, <2>5 DEF TypeOK
<1>4. WriterOwns' /\ EndpointOK' /\ SocketOK'
  BY <1>1, <1>2 DEF WriterOwns, EndpointOK, SocketOK
<1>5. CountOK'
  <2>1. \A b \in Backend : Counted(b)' = Counted(b)
    BY <1>2 DEF Counted
  <2>. QED BY <1>1, <2>1 DEF CountOK
<1>. QED BY <1>3, <1>4, <1>5

LEMMA SpawnKeeps ==
  ASSUME IInv, NEW c \in Client, Spawn(c)
  PROVE  IInv'
<1>. USE DEF IInv, count
<1>1. PICK b \in Backend : stage[b] = "off" /\ stage' = [stage EXCEPT ![b] = "starting"]
  BY DEF Spawn, Becomes
<1>2. TypeOK'
  BY <1>1 DEF Spawn, Goes, TypeOK, Stage, Place
<1>3. WriterOwns' /\ EndpointOK' /\ SocketOK'
  BY <1>1 DEF Spawn, WriterOwns, EndpointOK, SocketOK, TypeOK, Opened
<1>4. CountOK'
  <2>1. \A a \in Backend : Counted(a)' = Counted(a)
    BY DEF Spawn, Counted
  <2>. QED BY <1>1, <2>1 DEF Spawn, CountOK, TypeOK
<1>. QED BY <1>2, <1>3, <1>4

(***************************************************************************)
(* Every step keeps the invariant, and what follows from it.               *)
(***************************************************************************)
LEMMA NextKeeps == IInv /\ [Next]_vars => IInv'
<1>. SUFFICES ASSUME IInv, [Next]_vars PROVE IInv'
  OBVIOUS
<1>1. ASSUME NEW b \in Backend, BackendRuns(b) \/ Terminate(b) \/ Kill(b) PROVE IInv'
  BY <1>1, StageKeeps, CloseKeeps, ClientKeeps DEF BackendRuns
<1>2. ASSUME NEW k \in Socket, SocketRuns(k) \/ Vanish(k) PROVE IInv'
  BY <1>2, CountKeeps, ClientKeeps DEF SocketRuns
<1>3. ASSUME NEW c \in Client, Arrive(c) \/ ClientRuns(c) \/ Depart(c) PROVE IInv'
  BY <1>3, ClientKeeps, SpawnKeeps DEF ClientRuns
<1>4. CASE UNCHANGED vars
  BY <1>4 DEF vars, process, count, client, IInv, TypeOK, WriterOwns, EndpointOK, SocketOK, CountOK, Counted
<1>. QED BY <1>1, <1>2, <1>3, <1>4 DEF Next

\* The inductive invariant holds in every reachable state.
THEOREM Invariance == Spec => []IInv
BY InitIInv, NextKeeps, PTL DEF Spec

\* The event store has one writer at most, however backends hand the state root
\* over, are killed or outlive their connections (app.ts: runServer's scope).
THEOREM WritersAreAlone == Spec => []OneWriter
<1>1. ASSUME IInv PROVE OneWriter
  <2>. DEFINE writers == {b \in Backend : stage[b] \in Opened}
  <2>1. writers \subseteq {lock}
    BY <1>1 DEF IInv, WriterOwns
  <2>2. IsFiniteSet({lock}) /\ Cardinality({lock}) = 1
    BY FS_Singleton
  <2>3. Cardinality(writers) <= 1
    BY <2>1, <2>2, FS_Subset
  <2>. QED BY <2>3 DEF OneWriter
<1>. QED BY <1>1, Invariance, PTL

\* The endpoint file of a living backend is that of the one that owns the state
\* root and accepts connections (app.ts: advertised last, withdrawn first).
THEOREM EndpointServes == Spec => []AdvertisedAccepts
<1>1. IInv => AdvertisedAccepts
  BY DEF IInv, TypeOK, WriterOwns, EndpointOK, AdvertisedAccepts, Alive, Opened
<1>. QED BY <1>1, Invariance, PTL

\* The tracker of a backend that was not killed counts exactly the connections
\* it serves, so that the count it decides to end by is never that of an
\* earlier connection (connection-tracker.ts: onConnect, onDisconnect).
THEOREM TrackerCounts == Spec => []CountOK
<1>1. IInv => CountOK
  BY DEF IInv
<1>. QED BY <1>1, Invariance, PTL
=============================================================================
