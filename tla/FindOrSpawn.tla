----------------------------- MODULE FindOrSpawn -----------------------------
(***************************************************************************)
(* How clients that share a state root meet at one backend: look for an    *)
(* advertised endpoint, else take the spawn lock, spawn a backend and wait *)
(* for its endpoint (packages/client-ts/spawn.ts, discovery.ts and         *)
(* spawn-lock.ts), and try again when the connection does not come up      *)
(* (rpc-client.ts).                                                        *)
(*                                                                         *)
(* The backends are what StateRootLock makes of them: one serves at a      *)
(* time, and one that starts next to it gives up.  An endpoint file of a   *)
(* dead process reads as none (discovery.ts), so the endpoint is the       *)
(* serving backend.  The spawn lock's files follow the conventions of      *)
(* StateRootLock: an inode is identified by the record in it, and the      *)
(* candidate files are left out.  A record of the old format without a     *)
(* token is claimed under a digest of it, which stands for its token.      *)
(***************************************************************************)
EXTENDS Naturals, FiniteSets

CONSTANTS
  Client,       \* client processes; a killed one does not come back
  Gone,         \* the process named by a lock file left from earlier days
  Token,        \* UUIDs
  None,         \* no file, no record
  MaxSpawns,    \* bound on the backends spawned
  MaxRetries,   \* retries after a stale endpoint (MAX_ATTEMPTS - 1)
  Mishaps,      \* what may go wrong, besides kills
  CrashStages   \* where a client may be killed

ASSUME GoneAssumption    == Gone \notin Client
ASSUME NoneAssumption    == None \notin [owner : Client \cup {Gone}, token : Token]
ASSUME BoundsAssumption  == MaxSpawns \in Nat /\ MaxRetries \in Nat
ASSUME MishapsAssumption == Mishaps \subseteq {"deadline", "stale", "spawn", "end"}

Record == [owner : Client \cup {Gone}, token : Token]

\* removeObserved
Reclaiming == {"verify", "compare", "remove", "unclaim", "removed"}
\* Effect.uninterruptibleMask: publishLease, removeObserved and any release
Masked  == {"publish", "republish", "claim"} \cup Reclaiming
Holding == {"spawn", "await"}
Busy    == {"look", "read", "probe"} \cup Masked \cup Holding
Stage   == {"idle", "met", "failed", "dead"} \cup Busy

VARIABLES
  lock,      \* the spawn lock file: the record it holds, or None
  claims,    \* <lock>.claim.<token>: the record linked there, or None
  booting,   \* backends spawned that do not serve yet
  serving,   \* the backend the endpoint file names, 0 for none
  spawned,   \* how many backends have been spawned; the last one's name
  stage,     \* where each client is
  mine,      \* the lease it holds, or None
  target,    \* the record it observed and is about to remove, or None
  after,     \* what it does when removeObserved is over
  late,      \* interrupted, by the start deadline or from outside
  rejected,  \* the endpoints it could not connect to
  backend    \* the backend it was given, 0 for none

files    == <<lock, claims>>
backends == <<booting, serving, spawned>>
lease    == <<mine, target, after>>
vars     == <<files, backends, stage, lease, late, rejected, backend>>

Alive(o) == o # Gone /\ stage[o] # "dead"

OnRecord(t) ==
  \/ claims[t] # None
  \/ lock # None /\ lock.token = t
  \/ \E c \in Client : \E r \in {mine[c], target[c]} : r # None /\ r.token = t
Fresh == {t \in Token : ~OnRecord(t)}

Init ==
  /\ lock \in {None} \cup [owner : {Gone}, token : Token]
  /\ claims = [t \in Token |-> None]
  /\ booting = {} /\ serving = 0 /\ spawned = 0
  /\ stage = [c \in Client |-> "idle"]
  /\ mine = [c \in Client |-> None]
  /\ target = [c \in Client |-> None]
  /\ after = [c \in Client |-> "look"]
  /\ late = [c \in Client |-> FALSE]
  /\ rejected = [c \in Client |-> {}]
  /\ backend = [c \in Client |-> 0]

Go(c, next) == stage' = [stage EXCEPT ![c] = next]

\* At an interruptible stage, and not interrupted.
At(c, here) == stage[c] = here /\ ~late[c]

\* The session starts to connect, or connects again.
Begin(c) ==
  /\ stage[c] = "idle"
  /\ Go(c, "look")
  /\ UNCHANGED <<files, backends, lease, late, rejected, backend>>

(***************************************************************************)
(* findOrSpawnBackend.                                                     *)
(***************************************************************************)
Advertised(c) == serving # 0 /\ serving \notin rejected[c]

Look(c) ==
  /\ At(c, "look")
  /\ IF Advertised(c)
     THEN Go(c, "met") /\ backend' = [backend EXCEPT ![c] = serving]
     ELSE Go(c, "publish") /\ UNCHANGED backend
  /\ UNCHANGED <<files, backends, lease, late, rejected>>

\* removeObserved of one's own record; the outcome of the attempt follows.
Release(c, outcome) ==
  /\ Go(c, "claim")
  /\ target' = [target EXCEPT ![c] = mine[c]]
  /\ after'  = [after EXCEPT ![c] = outcome]
  /\ UNCHANGED mine

Spawn(c) ==
  /\ At(c, "spawn") /\ spawned < MaxSpawns
  /\ spawned' = spawned + 1
  /\ booting' = booting \cup {spawned'}
  /\ Go(c, "await")
  /\ UNCHANGED <<files, serving, lease, late, rejected, backend>>

\* The binary does not start.
SpawnFails(c) ==
  /\ "spawn" \in Mishaps /\ At(c, "spawn")
  /\ Release(c, "failed")
  /\ UNCHANGED <<files, backends, late, rejected, backend>>

AwaitEndpoint(c) ==
  /\ At(c, "await") /\ Advertised(c)
  /\ backend' = [backend EXCEPT ![c] = serving]
  /\ Release(c, "met")
  /\ UNCHANGED <<files, backends, late, rejected>>

\* The deadline of the whole search, or the end of the session's scope.
Deadline(c) ==
  /\ "deadline" \in Mishaps /\ stage[c] \in Busy /\ ~late[c]
  /\ late' = [late EXCEPT ![c] = TRUE]
  /\ UNCHANGED <<files, backends, stage, lease, rejected, backend>>

Interruptible == Busy \ Masked

\* An interrupted client stops where it may be interrupted; a holder releases.
Stop(c) ==
  /\ late[c] /\ stage[c] \in Interruptible
  /\ IF stage[c] \in Holding
     THEN Release(c, "failed")
     ELSE Go(c, "failed") /\ UNCHANGED lease
  /\ UNCHANGED <<files, backends, late, rejected, backend>>

(***************************************************************************)
(* acquireSpawnLock.                                                       *)
(***************************************************************************)
NoLock == lock = None

NewRecord(c, t) == [owner |-> c, token |-> t]

\* link(candidate, path).  The interruption of a client inside publishLease
\* takes effect at its end: the lease is dropped before anybody could release it.
Publish(c, from, taken) ==
  /\ stage[c] = from
  /\ IF NoLock
     THEN \E t \in Fresh :
            /\ lock' = NewRecord(c, t)
            /\ mine' = IF late[c] THEN mine ELSE [mine EXCEPT ![c] = lock']
            /\ Go(c, IF late[c] THEN "failed" ELSE "spawn")
     ELSE /\ Go(c, IF late[c] THEN "failed" ELSE taken)
          /\ UNCHANGED <<lock, mine>>
  /\ UNCHANGED <<claims, backends, target, after, late, rejected, backend>>

FirstPublish(c)  == Publish(c, "publish", "read")
SecondPublish(c) == Publish(c, "republish", "look")

\* readObservedRecord: without a record, "pending" and another look.
ReadRecord(c) ==
  /\ At(c, "read")
  /\ Go(c, IF lock = None THEN "look" ELSE "probe")
  /\ target' = [target EXCEPT ![c] = lock]
  /\ UNCHANGED <<files, backends, mine, after, late, rejected, backend>>

\* Mutant: the owner is taken for alive without a probe.
SeemsAlive_Always(o) == TRUE
SeemsAlive(o) == Alive(o)

Probe(c) ==
  /\ At(c, "probe")
  /\ IF SeemsAlive(target[c].owner)
     THEN Go(c, "look") /\ target' = [target EXCEPT ![c] = None] /\ UNCHANGED after
     ELSE Go(c, "claim") /\ after' = [after EXCEPT ![c] = "look"] /\ UNCHANGED target
  /\ UNCHANGED <<files, backends, mine, late, rejected, backend>>

(***************************************************************************)
(* removeObserved.                                                         *)
(***************************************************************************)
\* It is over without a second publication to make.
Return(c) ==
  /\ Go(c, IF late[c] THEN "failed" ELSE after[c])
  /\ mine'   = [mine EXCEPT ![c] = None]
  /\ target' = [target EXCEPT ![c] = None]
  /\ after'  = [after EXCEPT ![c] = "look"]

\* link(path, claimPath) fails without a lock, or if the claim exists.
Claim(c) ==
  /\ stage[c] = "claim"
  /\ LET t == target[c].token
     IN IF lock # None /\ claims[t] = None
        THEN /\ claims' = [claims EXCEPT ![t] = lock]
             /\ Go(c, "verify")
             /\ UNCHANGED lease
        ELSE Return(c) /\ UNCHANGED claims
  /\ UNCHANGED <<lock, backends, late, rejected, backend>>

\* Mutant: the lock is not read again behind the claim.
StillThere_Trusted(c) == claims[target[c].token] # None
StillThere(c) == claims[target[c].token] = target[c] /\ lock = target[c]

Verify(c) ==
  /\ stage[c] = "verify"
  /\ Go(c, IF StillThere(c) THEN "compare" ELSE "unclaim")
  /\ UNCHANGED <<files, backends, lease, late, rejected, backend>>

SameFile(c) == lock # None /\ claims[target[c].token] = lock

Compare(c) ==
  /\ stage[c] = "compare"
  /\ Go(c, IF SameFile(c) THEN "remove" ELSE "unclaim")
  /\ UNCHANGED <<files, backends, lease, late, rejected, backend>>

\* unlink(path), whatever is there by now.
Remove(c) ==
  /\ stage[c] = "remove"
  /\ Go(c, IF lock = None THEN "unclaim" ELSE "removed")
  /\ lock' = None
  /\ mine' = [mine EXCEPT ![c] = None]
  /\ UNCHANGED <<claims, backends, target, after, late, rejected, backend>>

\* The claim goes on every way out; a reclaimer then publishes.
Unclaim(c) ==
  /\ stage[c] \in {"unclaim", "removed"}
  /\ claims' = [claims EXCEPT ![target[c].token] = None]
  /\ IF stage[c] = "removed" /\ after[c] = "look" /\ ~late[c]
     THEN Go(c, "republish") /\ target' = [target EXCEPT ![c] = None] /\ UNCHANGED <<mine, after>>
     ELSE Return(c)
  /\ UNCHANGED <<lock, backends, late, rejected, backend>>

(***************************************************************************)
(* The connection to the backend.                                          *)
(***************************************************************************)
\* No presence within the connect timeout: the endpoint is stale, and the next
\* attempt, if there is one, passes over it.
ConnectTimesOut(c) ==
  /\ "stale" \in Mishaps /\ stage[c] = "met"
  /\ Go(c, IF Cardinality(rejected[c]) < MaxRetries THEN "look" ELSE "failed")
  /\ rejected' = [rejected EXCEPT ![c] = @ \cup {backend[c]}]
  /\ backend' = [backend EXCEPT ![c] = 0]
  /\ UNCHANGED <<files, backends, lease, late>>

\* The connection is lost, or the search failed; the session starts over.
Again(c) ==
  /\ \/ stage[c] = "met" /\ backend[c] # serving
     \/ stage[c] = "failed"
  /\ Go(c, "idle")
  /\ late' = [late EXCEPT ![c] = FALSE]
  /\ rejected' = [rejected EXCEPT ![c] = {}]
  /\ backend' = [backend EXCEPT ![c] = 0]
  /\ UNCHANGED <<files, backends, lease>>

Crash(c) ==
  /\ stage[c] \in CrashStages
  /\ Go(c, "dead")
  /\ mine'   = [mine EXCEPT ![c] = None]
  /\ target' = [target EXCEPT ![c] = None]
  /\ after'  = [after EXCEPT ![c] = "look"]
  /\ late'   = [late EXCEPT ![c] = FALSE]
  /\ rejected' = [rejected EXCEPT ![c] = {}]
  /\ backend'  = [backend EXCEPT ![c] = 0]
  /\ UNCHANGED <<files, backends>>

(***************************************************************************)
(* The backends, as StateRootLock has them.                                *)
(***************************************************************************)
BackendSettles(b) ==
  /\ b \in booting
  /\ booting' = booting \ {b}
  /\ serving' = IF serving = 0 THEN b ELSE serving
  /\ UNCHANGED <<files, spawned, stage, lease, late, rejected, backend>>

BackendEnds ==
  /\ "end" \in Mishaps /\ serving # 0
  /\ serving' = 0
  /\ UNCHANGED <<files, booting, spawned, stage, lease, late, rejected, backend>>

\* The steps a client takes by itself once it looks for a backend.
Work(c) ==
  \/ Look(c) \/ Spawn(c) \/ AwaitEndpoint(c) \/ Stop(c)
  \/ FirstPublish(c) \/ ReadRecord(c) \/ Probe(c) \/ Claim(c) \/ Verify(c)
  \/ Compare(c) \/ Remove(c) \/ Unclaim(c) \/ SecondPublish(c)

Next ==
  \/ BackendEnds \/ \E b \in 1..MaxSpawns : BackendSettles(b)
  \/ \E c \in Client :
       \/ Begin(c) \/ Work(c) \/ SpawnFails(c) \/ Deadline(c)
       \/ ConnectTimesOut(c) \/ Again(c) \/ Crash(c)

Spec == Init /\ [][Next]_vars

(***************************************************************************)
(* Properties.                                                             *)
(***************************************************************************)
\* Every variable holds a value of its kind.
TypeOK ==
  /\ lock \in {None} \cup Record
  /\ claims \in [Token -> {None} \cup Record]
  /\ booting \subseteq 1..spawned /\ serving \in 0..spawned /\ spawned \in 0..MaxSpawns
  /\ stage \in [Client -> Stage]
  /\ mine \in [Client -> {None} \cup Record]
  /\ target \in [Client -> {None} \cup Record]
  /\ after \in [Client -> {"look", "met", "failed"}]
  /\ late \in [Client -> BOOLEAN]
  /\ rejected \in [Client -> SUBSET (1..MaxSpawns)]
  /\ backend \in [Client -> 0..MaxSpawns]

\* A client that holds the lease is the owner on record: nobody who found an
\* older record stale, and no earlier owner's release, removes its lock.
LeaseIsOnRecord == \A c \in Client : mine[c] # None => lock = mine[c]

\* The lock of a live client is held: by a search that will release it.
LockIsHeld == lock # None /\ Alive(lock.owner) => mine[lock.owner] = lock

\* Fibers run on, and a spawned backend serves or gives up.
Fairness ==
  /\ \A b \in 1..MaxSpawns : WF_vars(BackendSettles(b))
  /\ \A c \in Client : WF_vars(Work(c))

FairSpec == Spec /\ Fairness

\* Whoever looks for a backend is given one, or is killed, whoever else is
\* killed on the way and whatever lock an earlier client left behind.
EveryoneMeets ==
  \A c \in Client : stage[c] = "look" ~> stage[c] \in {"met", "dead"}
=============================================================================
