--------------------------- MODULE BackendLifecycle ---------------------------
(***************************************************************************)
(* The life of the backends of one state root and of the clients that      *)
(* share them: a client that finds no backend spawns one; the backend      *)
(* takes the state root lock, opens its core, listens, advertises itself,  *)
(* and ends when its last connection closes (packages of apps/server:      *)
(* composition/app.ts, runtime/connection-tracker.ts, rpc/stream.ts).      *)
(*                                                                         *)
(* The module composes what the others take apart: the state root lock is  *)
(* one step (StateRootLock proves that it has one owner), so are finding   *)
(* the endpoint and becoming the spawner (FindOrSpawn), and so is what a   *)
(* client does with its connection (ClientSession).                        *)
(***************************************************************************)
EXTENDS Naturals, FiniteSets

CONSTANTS
  Client,       \* client processes; a killed one does not come back
  MaxBackends,  \* bound on the backends spawned
  MaxSockets,   \* bound on the connections opened
  MaxLeaves,    \* bound on clients that leave, or are killed
  MaxKills      \* bound on backends killed or terminated

ASSUME BoundsAssumption == {MaxBackends, MaxSockets, MaxLeaves, MaxKills} \subseteq Nat
ASSUME ClientAssumption == IsFiniteSet(Client) /\ 0 \notin Client

Backend == 1..MaxBackends
Socket  == 1..MaxSockets

VARIABLES
  stage,     \* where each backend is
  tracker,   \* each backend's ConnectionTracker
  firing,    \* backends whose onDisconnect has decided to fire, and has yet to
  fired,     \* backends whose shutdown Deferred is done
  lock,      \* owner on record of the state root, 0 for none
  endpoint,  \* backend the endpoint file names, 0 for no file
  spawner,   \* client that holds the spawn lock, 0 for none
  place,     \* where each client is
  mine,      \* the connection each client uses, 0 for none
  socket,    \* each connection's backend, client, and server side
  left,      \* clients that left or were killed so far
  killed     \* backends killed or terminated so far

process == <<stage, lock, endpoint>>
count   == <<tracker, firing, fired>>
client  == <<spawner, place, mine>>
vars    == <<process, count, client, socket, left, killed>>

\* The stages of runServer, in their order; "off" is not spawned yet, "dead" killed.
Opened    == {"booting", "listening", "serving", "retracted", "closed"}
Accepting == {"listening", "serving", "retracted"}
Stage     == {"off", "starting", "gone", "dead"} \cup Opened

Place == {"away", "looking", "spawning", "connecting", "connected", "dead"}

Init ==
  /\ stage = [b \in Backend |-> "off"]
  /\ tracker = [b \in Backend |-> [count |-> 0, armed |-> FALSE]]
  /\ firing = {} /\ fired = {}
  /\ lock = 0 /\ endpoint = 0 /\ spawner = 0
  /\ place = [c \in Client |-> "away"]
  /\ mine = [c \in Client |-> 0]
  /\ socket = [k \in Socket |-> [backend |-> 0, client |-> 0, side |-> "unused"]]
  /\ left = 0 /\ killed = 0

Alive(b)   == b # 0 /\ stage[b] \notin {"off", "gone", "dead"}
Becomes(b, next) == stage' = [stage EXCEPT ![b] = next]
Goes(c, next)    == place' = [place EXCEPT ![c] = next]

(***************************************************************************)
(* The start of a backend.                                                 *)
(***************************************************************************)
\* Mutant: the lock of a dead owner is not recovered.
LockFree_Empty == lock = 0
LockFree == ~Alive(lock)

\* stateRootLockForStartup: the lock is free, or its owner is dead.
TakeLock(b) ==
  /\ stage[b] = "starting" /\ LockFree
  /\ lock' = b
  /\ Becomes(b, "booting")
  /\ UNCHANGED <<endpoint, count, client, socket, left, killed>>

\* The owner lives: an endpoint is advertised, or the owner takes longer than
\* the handoff timeout.  An orderly end does not take that long.
GiveUp(b) ==
  /\ stage[b] = "starting" /\ Alive(lock)
  /\ endpoint # 0 \/ stage[lock] \in {"booting", "listening"}
  /\ Becomes(b, "gone")
  /\ UNCHANGED <<lock, endpoint, count, client, socket, left, killed>>

Listen(b) ==
  /\ stage[b] = "booting"
  /\ Becomes(b, "listening")
  /\ UNCHANGED <<lock, endpoint, count, client, socket, left, killed>>

Advertise(b) ==
  /\ stage[b] = "listening"
  /\ endpoint' = b
  /\ Becomes(b, "serving")
  /\ UNCHANGED <<lock, count, client, socket, left, killed>>

(***************************************************************************)
(* Connections: the Connect call and its scope.                            *)
(***************************************************************************)
Connected(t) == [count |-> t.count + 1, armed |-> TRUE]

\* onConnect; its client is sent its presence.
Connect(k) ==
  /\ socket[k].side = "calling" /\ stage[socket[k].backend] \in Accepting
  /\ socket' = [socket EXCEPT ![k].side = "counted"]
  /\ tracker' = [tracker EXCEPT ![socket[k].backend] = Connected(@)]
  /\ UNCHANGED <<process, firing, fired, client, left, killed>>

Disconnected(t) == [t EXCEPT !.count = IF @ = 0 THEN 0 ELSE @ - 1]

\* Mutant: the decision is taken before the connection is counted out.
Fires_TooEarly(t) == t.armed /\ t.count = 0
Fires(t) == t.armed /\ Disconnected(t).count = 0

Abandoned(k) == mine[socket[k].client] # k

\* The server notices that the client has closed the connection: onDisconnect.
Disconnect(k) ==
  /\ socket[k].side = "counted" /\ Abandoned(k)
  /\ LET b == socket[k].backend
     IN /\ Alive(b)
        /\ firing' = IF Fires(tracker[b]) THEN firing \cup {b} ELSE firing
        /\ tracker' = [tracker EXCEPT ![b] = Disconnected(@)]
  /\ socket' = [socket EXCEPT ![k].side = "closed"]
  /\ UNCHANGED <<process, fired, client, left, killed>>

\* Or its Connect call never got through.
Vanish(k) ==
  /\ socket[k].side = "calling" /\ Abandoned(k)
  /\ socket' = [socket EXCEPT ![k].side = "closed"]
  /\ UNCHANGED <<process, count, client, left, killed>>

\* Deferred.succeed; only the first one counts.
Fire(b) ==
  /\ b \in firing
  /\ firing' = firing \ {b}
  /\ fired' = fired \cup {b}
  /\ UNCHANGED <<process, tracker, client, socket, left, killed>>

(***************************************************************************)
(* The orderly end, by the last connection or by a signal.                 *)
(***************************************************************************)
Ends(b) == stage[b] = "serving"

\* Mutant: the endpoint stays until its finalizer removes it.
Withdrawn_Late == endpoint
Withdrawn == 0

RemoveEndpoint(b) ==
  /\ endpoint' = Withdrawn
  /\ Becomes(b, "retracted")
  /\ UNCHANGED <<lock, count, client, socket, left>>

Retract(b) ==
  /\ Ends(b) /\ b \in fired
  /\ RemoveEndpoint(b)
  /\ UNCHANGED killed

Terminate(b) ==
  /\ Ends(b) /\ killed < MaxKills
  /\ RemoveEndpoint(b)
  /\ killed' = killed + 1

SocketsOf(b) == {k \in Socket : socket[k].backend = b}
Closed(b) == [k \in Socket |-> IF k \in SocketsOf(b) THEN [socket[k] EXCEPT !.side = "closed"]
                                                   ELSE socket[k]]

\* Mutant: the lock goes with the connections.
Owner_Released == 0
Owner == lock

\* closeHttpScope: the connections end, within the grace window or abandoned.
\* What their onDisconnect decides, nobody waits for any more.
CloseHttp(b) ==
  /\ stage[b] = "retracted"
  /\ socket' = Closed(b)
  /\ tracker' = [tracker EXCEPT ![b].count = 0]
  /\ Becomes(b, "closed")
  /\ lock' = Owner
  /\ UNCHANGED <<endpoint, firing, fired, client, left, killed>>

\* The core scope closes with its final checkpoint, then the lock is released.
Leave(b) ==
  /\ stage[b] = "closed"
  /\ lock' = IF lock = b THEN 0 ELSE lock
  /\ Becomes(b, "gone")
  /\ UNCHANGED <<endpoint, count, client, socket, left, killed>>

\* A kill leaves the lock and the endpoint file as they are.
Kill(b) ==
  /\ Alive(b) /\ killed < MaxKills
  /\ killed' = killed + 1
  /\ Becomes(b, "dead")
  /\ socket' = Closed(b)
  /\ firing' = firing \ {b}
  /\ UNCHANGED <<lock, endpoint, tracker, fired, client, left>>

(***************************************************************************)
(* The clients.                                                            *)
(***************************************************************************)
Arrive(c) ==
  /\ place[c] = "away"
  /\ Goes(c, "looking")
  /\ UNCHANGED <<process, count, spawner, mine, socket, left, killed>>

Unused(k) == socket[k].side = "unused" /\ \A j \in 1..k - 1 : socket[j].side # "unused"

\* readEndpoint finds a live backend: open a connection to it and call Connect.
OpenSocket(c) ==
  /\ place[c] \in {"looking", "spawning"} /\ Alive(endpoint)
  /\ \E k \in Socket :
       /\ Unused(k)
       /\ socket' = [socket EXCEPT ![k] = [backend |-> endpoint, client |-> c, side |-> "calling"]]
       /\ mine' = [mine EXCEPT ![c] = k]
  /\ spawner' = IF spawner = c THEN 0 ELSE spawner
  /\ Goes(c, "connecting")
  /\ UNCHANGED <<process, count, left, killed>>

\* Or none, and the spawn lock is free or held by a dead client: spawn one.
Spawn(c) ==
  /\ place[c] = "looking" /\ ~Alive(endpoint)
  /\ spawner # 0 => place[spawner] = "dead"
  /\ \E b \in Backend :
       /\ stage[b] = "off" /\ \A a \in 1..b - 1 : stage[a] # "off"
       /\ Becomes(b, "starting")
  /\ spawner' = c
  /\ Goes(c, "spawning")
  /\ UNCHANGED <<lock, endpoint, count, mine, socket, left, killed>>

\* The start deadline, which outlasts any start: no backend is on its way.
Deadline(c) ==
  /\ place[c] = "spawning"
  /\ \A b \in Backend : stage[b] \notin {"starting", "booting", "listening", "serving"}
  /\ spawner' = 0
  /\ Goes(c, "looking")
  /\ UNCHANGED <<process, count, mine, socket, left, killed>>

Settle(c) ==
  /\ place[c] = "connecting" /\ socket[mine[c]].side = "counted"
  /\ Goes(c, "connected")
  /\ UNCHANGED <<process, count, spawner, mine, socket, left, killed>>

\* The connection is closed, or refused: the session starts over.
Reconnect(c) ==
  /\ mine[c] # 0 /\ socket[mine[c]].side = "closed"
  /\ mine' = [mine EXCEPT ![c] = 0]
  /\ Goes(c, "looking")
  /\ UNCHANGED <<process, count, spawner, socket, left, killed>>

\* An orderly end releases the spawn lock; a kill does not.
Depart(c) ==
  /\ place[c] \in {"looking", "spawning", "connecting", "connected"} /\ left < MaxLeaves
  /\ left' = left + 1
  /\ mine' = [mine EXCEPT ![c] = 0]
  /\ \/ Goes(c, "away") /\ spawner' = IF spawner = c THEN 0 ELSE spawner
     \/ Goes(c, "dead") /\ UNCHANGED spawner
  /\ UNCHANGED <<process, count, socket, killed>>

BackendRuns(b) ==
  \/ TakeLock(b) \/ GiveUp(b) \/ Listen(b) \/ Advertise(b)
  \/ Fire(b) \/ Retract(b) \/ CloseHttp(b) \/ Leave(b)
SocketRuns(k)  == Connect(k) \/ Disconnect(k)
ClientRuns(c)  == OpenSocket(c) \/ Spawn(c) \/ Deadline(c) \/ Settle(c) \/ Reconnect(c)

Next ==
  \/ \E b \in Backend : BackendRuns(b) \/ Terminate(b) \/ Kill(b)
  \/ \E k \in Socket : SocketRuns(k) \/ Vanish(k)
  \/ \E c \in Client : Arrive(c) \/ ClientRuns(c) \/ Depart(c)

Spec == Init /\ [][Next]_vars

\* Fibers run on and processes are scheduled; nobody has to arrive or leave.
FairSpec ==
  /\ Spec
  /\ \A b \in Backend : WF_vars(BackendRuns(b))
  /\ \A k \in Socket : WF_vars(SocketRuns(k))
  /\ \A c \in Client : WF_vars(ClientRuns(c))

(***************************************************************************)
(* Properties.                                                             *)
(***************************************************************************)
\* Every variable holds a value of its kind.
TypeOK ==
  /\ stage \in [Backend -> Stage]
  /\ tracker \in [Backend -> [count : 0..MaxSockets, armed : BOOLEAN]]
  /\ firing \subseteq Backend /\ fired \subseteq Backend
  /\ lock \in {0} \cup Backend /\ endpoint \in {0} \cup Backend
  /\ spawner \in {0} \cup Client
  /\ place \in [Client -> Place] /\ mine \in [Client -> {0} \cup Socket]
  /\ socket \in [Socket -> [backend : {0} \cup Backend, client : {0} \cup Client,
                          side : {"unused", "calling", "counted", "closed"}]]
  /\ left \in 0..MaxLeaves /\ killed \in 0..MaxKills

\* At most one backend has the event store open, through handovers, kills and
\* abandoned connections.
OneWriter == Cardinality({b \in Backend : stage[b] \in Opened}) <= 1

\* Whoever reads the endpoint of a living backend finds it accepting: it is
\* withdrawn before the server stops, and is never that of a later backend.
AdvertisedAccepts == Alive(endpoint) => stage[endpoint] = "serving" /\ lock = endpoint

\* "the instant the live-connection count returns to zero, shutdown fires"
\* (connection-tracker.ts): a backend whose last connection closed ends, also
\* if another one opens in between.
IdleEnds ==
  \A b \in Backend :
    (stage[b] = "serving" /\ tracker[b].armed /\ tracker[b].count = 0)
      ~> stage[b] \in {"gone", "dead"}

Served(c) ==
  /\ place[c] = "connected" /\ mine[c] # 0
  /\ socket[mine[c]].side = "counted"
  /\ LET b == socket[mine[c]].backend
     IN b = endpoint /\ Alive(b) /\ b \notin firing \cup fired

\* Once nobody leaves, dies or is terminated any more, every client that came
\* to stay ends up connected to the one advertised backend, which stays: those
\* that met a backend about to end find the next one.
EveryoneServed == <>[](\A c \in Client : place[c] \in {"away", "dead"} \/ Served(c))
=============================================================================
