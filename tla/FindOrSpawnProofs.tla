-------------------------- MODULE FindOrSpawnProofs --------------------------
(***************************************************************************)
(* Safety of the spawn lock for any number of clients, tokens and          *)
(* backends, any mishaps and kills at any stage.                           *)
(*                                                                         *)
(* The argument is that of StateRootLockProofs, for a lock that has more   *)
(* ways out: a search that was interrupted drops the lease it has just     *)
(* published, so that the lock may name a living client that holds no      *)
(* lease.  It is safe nonetheless: a holder is the owner on record         *)
(* (LeaseNamesHolder), a reclaimer past the claim is alone with its target *)
(* (ClaimIsExclusive) and finds it in place until it removes it            *)
(* (TargetIsInPlace), and nobody sets out to remove the lease of another   *)
(* client (TargetIsNotHeld).                                               *)
(***************************************************************************)
EXTENDS FindOrSpawn, TLAPS

Removing == {"claim"} \cup Reclaiming

LeaseNamesHolder == \A c \in Client : mine[c] # None => lock = mine[c] /\ mine[c].owner = c

LeaseStages == \A c \in Client :
  /\ stage[c] \in Holding => mine[c] # None
  /\ mine[c] # None => stage[c] \in Holding \cup (Removing \ {"removed"})

TargetIsKnown == \A c \in Client : stage[c] \in {"probe"} \cup Removing => target[c] # None

\* A reclaimer past the link holds the claim of its target, alone.
ClaimIsHeld == \A c \in Client : stage[c] \in Reclaiming => claims[target[c].token] # None
ClaimIsExclusive == \A c, d \in Client :
  stage[c] \in Reclaiming /\ stage[d] \in Reclaiming /\ target[c].token = target[d].token => c = d

TargetIsInPlace == \A c \in Client : stage[c] \in {"compare", "remove"} => lock = target[c]

TargetIsNotHeld == \A c, d \in Client : stage[c] \in Removing /\ mine[d] = target[c] => c = d

\* Only a removal has something to do afterwards, and who met a backend has one.
AfterRemoval == \A c \in Client : after[c] # "look" => stage[c] \in Removing
MetBackend   == \A c \in Client : stage[c] = "met" \/ after[c] = "met" => backend[c] # 0

LockInv ==
  /\ LeaseNamesHolder /\ LeaseStages
  /\ TargetIsKnown /\ ClaimIsHeld /\ ClaimIsExclusive
  /\ TargetIsInPlace /\ TargetIsNotHeld

\* The inductive invariant.
IInv == TypeOK /\ AfterRemoval /\ MetBackend /\ LockInv

(***************************************************************************)
(* Records and the initial state.                                          *)
(***************************************************************************)
\* A record is not None; its fields are an owner and a token.
LEMMA Records ==
  /\ \A r \in Record : r # None /\ r.owner \in Client \cup {Gone} /\ r.token \in Token
  /\ \A c \in Client, t \in Token : /\ NewRecord(c, t) \in Record
                                    /\ NewRecord(c, t).owner = c /\ NewRecord(c, t).token = t
BY NoneAssumption DEF Record, NewRecord

\* A search that has not begun holds nothing.
LEMMA InitIInv == Init => IInv
<1>. SUFFICES ASSUME Init PROVE IInv
  OBVIOUS
<1>1. TypeOK
  BY BoundsAssumption DEF Init, TypeOK, Record, Stage
<1>2. AfterRemoval /\ MetBackend /\ LockInv
  BY DEF Init, AfterRemoval, MetBackend, LockInv, LeaseNamesHolder, LeaseStages, TargetIsKnown,
         ClaimIsHeld, ClaimIsExclusive, TargetIsInPlace, TargetIsNotHeld, Removing,
         Reclaiming, Holding
<1>. QED BY <1>1, <1>2 DEF IInv

(***************************************************************************)
(* Types, and what a search has met.                                       *)
(***************************************************************************)
\* The steps of the search around the lock.
LEMMA SearchTyped ==
  ASSUME IInv, NEW c \in Client,
         \/ Begin(c) \/ Look(c) \/ Spawn(c) \/ SpawnFails(c) \/ AwaitEndpoint(c)
         \/ Deadline(c) \/ Stop(c) \/ ConnectTimesOut(c) \/ Again(c) \/ Crash(c)
  PROVE  TypeOK' /\ AfterRemoval' /\ MetBackend'
<1>. USE BoundsAssumption
     DEF Begin, Look, Spawn, SpawnFails, AwaitEndpoint, Deadline, Stop, ConnectTimesOut, Again,
         Crash, Release, Advertised, At, Go, files, backends, lease
<1>1. UNCHANGED <<lock, claims>> /\ spawned' \in {spawned, spawned + 1} /\ spawned' <= MaxSpawns
  BY DEF IInv, TypeOK
<1>2. booting' \subseteq 1..spawned' /\ serving' \in 0..spawned'
  <2>1. spawned' \in 1..spawned' \/ booting' = booting
    BY DEF IInv, TypeOK
  <2>2. serving' = serving /\ booting' \subseteq booting \cup {spawned'}
    OBVIOUS
  <2>3. 1..spawned \subseteq 1..spawned' /\ 0..spawned \subseteq 0..spawned'
    BY <1>1 DEF IInv, TypeOK
  <2>. QED BY <2>1, <2>2, <2>3 DEF IInv, TypeOK
<1>3. stage' \in [Client -> Stage] /\ late' \in [Client -> BOOLEAN]
  BY DEF IInv, TypeOK, Stage, Busy, Masked, Holding
<1>4. /\ mine' \in [Client -> {None} \cup Record] /\ target' \in [Client -> {None} \cup Record]
      /\ after' \in [Client -> {"look", "met", "failed"}]
  BY DEF IInv, TypeOK
<1>5. serving \in 0..MaxSpawns
  BY DEF IInv, TypeOK
<1>6. backend' \in [Client -> 0..MaxSpawns] /\ rejected' \in [Client -> SUBSET (1..MaxSpawns)]
  BY <1>5 DEF IInv, TypeOK, MetBackend
<1>7. TypeOK'
  BY <1>1, <1>2, <1>3, <1>4, <1>6 DEF IInv, TypeOK
<1>8. AfterRemoval'
  BY DEF IInv, TypeOK, AfterRemoval, Removing, Reclaiming, Interruptible, Masked, Holding, Busy
<1>9. MetBackend'
  BY DEF IInv, TypeOK, MetBackend, AfterRemoval, Removing, Reclaiming
<1>. QED BY <1>7, <1>8, <1>9

\* The steps of the lock protocol.
LEMMA LockTyped ==
  ASSUME IInv, NEW c \in Client,
         \/ FirstPublish(c) \/ ReadRecord(c) \/ Probe(c) \/ Claim(c) \/ Verify(c)
         \/ Compare(c) \/ Remove(c) \/ Unclaim(c) \/ SecondPublish(c)
  PROVE  TypeOK' /\ AfterRemoval' /\ MetBackend'
<1>. USE DEF FirstPublish, SecondPublish, Publish, ReadRecord, Probe, Claim, Verify, Compare, Remove,
         Unclaim, Return, At, Go, files, backends, lease
<1>1. UNCHANGED <<booting, serving, spawned, late, rejected, backend>>
  OBVIOUS
<1>2. stage' \in [Client -> Stage] /\ after' \in [Client -> {"look", "met", "failed"}]
  BY DEF IInv, TypeOK, Stage, Busy, Masked, Holding, Reclaiming
<1>3. lock' \in {None} \cup Record /\ mine' \in [Client -> {None} \cup Record]
  BY Records DEF IInv, TypeOK, Fresh
<1>4. claims' \in [Token -> {None} \cup Record] /\ target' \in [Client -> {None} \cup Record]
  <2>1. claims' \in [Token -> {None} \cup Record]
    BY DEF IInv, TypeOK
  <2>2. target' \in [Client -> {None} \cup Record]
    BY DEF IInv, TypeOK
  <2>. QED BY <2>1, <2>2
<1>5. TypeOK'
  BY <1>1, <1>2, <1>3, <1>4 DEF IInv, TypeOK
<1>6. AfterRemoval'
  BY DEF IInv, TypeOK, AfterRemoval, Removing, Reclaiming
<1>7. MetBackend'
  BY DEF IInv, TypeOK, MetBackend, AfterRemoval, Removing, Reclaiming
<1>. QED BY <1>5, <1>6, <1>7

\* The backends leave the clients alone.
LEMMA BackendsKeep ==
  ASSUME IInv, BackendEnds \/ \E b \in 1..MaxSpawns : BackendSettles(b)
  PROVE  IInv'
<1>1. /\ UNCHANGED <<lock, claims, stage, mine, target, after, late, rejected, backend, spawned>>
      /\ booting' \subseteq booting /\ serving' \in {0, serving} \cup booting
  BY DEF BackendEnds, BackendSettles, files, lease
<1>2. TypeOK'
  BY <1>1 DEF IInv, TypeOK
<1>3. AfterRemoval' /\ MetBackend' /\ LockInv'
  BY <1>1 DEF IInv, AfterRemoval, MetBackend, LockInv, LeaseNamesHolder, LeaseStages,
       TargetIsKnown, ClaimIsHeld, ClaimIsExclusive, TargetIsInPlace, TargetIsNotHeld
<1>. QED BY <1>2, <1>3 DEF IInv

(***************************************************************************)
(* The lock.                                                               *)
(***************************************************************************)
\* Steps outside the lock protocol, which keep what a client holds.
LEMMA QuietKeeps ==
  ASSUME IInv, NEW c \in Client,
         \/ Begin(c) \/ Look(c) \/ Spawn(c) \/ Deadline(c) \/ ConnectTimesOut(c) \/ Again(c)
         \/ stage[c] \notin Holding /\ Stop(c)
  PROVE  LockInv'
<1>1. /\ UNCHANGED <<lock, claims, mine, target>>
      /\ \A d \in Client :
           \/ stage'[d] = stage[d]
           \/ /\ stage'[d] \notin {"probe"} \cup Removing
              /\ stage[d] \in Holding <=> stage'[d] \in Holding
              /\ stage[d] \notin Removing
  BY DEF IInv, TypeOK, Begin, Look, Spawn, Deadline, ConnectTimesOut, Again, Stop, At, Go, files,
         backends, lease, Removing, Reclaiming, Holding, Interruptible, Busy, Masked
<1>. QED BY <1>1 DEF IInv, LockInv, LeaseNamesHolder, LeaseStages, TargetIsKnown, ClaimIsHeld,
              ClaimIsExclusive, TargetIsInPlace, TargetIsNotHeld, Removing, Reclaiming, Holding

\* A holder sets out to remove its own record.
LEMMA ReleaseKeeps ==
  ASSUME IInv, NEW c \in Client, NEW outcome, stage[c] \in Holding,
         Release(c, outcome), UNCHANGED files
  PROVE  LockInv'
<1>. USE DEF Release, Go, files
<1>1. mine[c] # None
  BY DEF IInv, LockInv, LeaseStages
<1>2. LeaseNamesHolder' /\ LeaseStages'
  BY DEF IInv, TypeOK, LockInv, LeaseNamesHolder, LeaseStages, Holding, Removing, Reclaiming
<1>3. TargetIsKnown' /\ ClaimIsHeld' /\ ClaimIsExclusive' /\ TargetIsInPlace'
  BY <1>1 DEF IInv, TypeOK, LockInv, TargetIsKnown, ClaimIsHeld, ClaimIsExclusive,
       TargetIsInPlace, Holding, Removing, Reclaiming
<1>4. TargetIsNotHeld'
  BY <1>1 DEF IInv, TypeOK, LockInv, LeaseNamesHolder, TargetIsNotHeld, Holding, Removing,
       Reclaiming
<1>. QED BY <1>2, <1>3, <1>4 DEF LockInv

\* A publication finds no lock: nobody relies on one, and its token is new.
LEMMA PublishKeeps ==
  ASSUME IInv, NEW c \in Client, FirstPublish(c) \/ SecondPublish(c)
  PROVE  LockInv'
<1>. USE DEF FirstPublish, SecondPublish, Publish, Go
<1>1. CASE lock = None
  <2>1. PICK t \in Fresh :
          /\ lock' = NewRecord(c, t)
          /\ mine' = IF late[c] THEN mine ELSE [mine EXCEPT ![c] = lock']
          /\ stage' = [stage EXCEPT ![c] = IF late[c] THEN "failed" ELSE "spawn"]
    BY <1>1 DEF NoLock
  <2>2. UNCHANGED <<claims, target>> /\ \A d \in Client : mine[d] = None
    BY <1>1 DEF IInv, LockInv, LeaseNamesHolder
  <2>3. lock' # None /\ lock'.owner = c /\ lock'.token = t
    BY <2>1, Records DEF Fresh
  <2>4. LeaseNamesHolder' /\ LeaseStages'
    BY <2>1, <2>2, <2>3 DEF IInv, TypeOK, LockInv, LeaseNamesHolder, LeaseStages, Holding,
         Removing, Reclaiming
  <2>5. TargetIsKnown' /\ ClaimIsHeld' /\ ClaimIsExclusive' /\ TargetIsInPlace'
    BY <1>1, <2>1, <2>2 DEF IInv, TypeOK, LockInv, TargetIsKnown, ClaimIsHeld, ClaimIsExclusive,
         TargetIsInPlace, Holding, Removing, Reclaiming
  <2>6. TargetIsNotHeld'
    BY <2>1, <2>2, <2>3 DEF IInv, TypeOK, LockInv, TargetIsNotHeld, TargetIsKnown, Fresh, OnRecord,
         Removing, Reclaiming
  <2>. QED BY <2>4, <2>5, <2>6 DEF LockInv
<1>2. CASE lock # None
  <2>1. /\ UNCHANGED <<lock, claims, mine, target>>
        /\ stage' = [stage EXCEPT ![c] = stage'[c]] /\ stage'[c] \in {"failed", "read", "look"}
        /\ stage[c] \in {"publish", "republish"}
    BY <1>2 DEF NoLock, IInv, TypeOK
  <2>. QED BY <2>1 DEF IInv, TypeOK, LockInv, LeaseNamesHolder, LeaseStages, TargetIsKnown,
            ClaimIsHeld, ClaimIsExclusive, TargetIsInPlace, TargetIsNotHeld, Removing,
            Reclaiming, Holding
<1>. QED BY <1>1, <1>2

\* Reading the lock; and the probe, which sends nobody after a living client.
LEMMA ObserveKeeps ==
  ASSUME IInv, NEW c \in Client, ReadRecord(c) \/ Probe(c)
  PROVE  LockInv'
<1>. USE DEF ReadRecord, Probe, At, Go, files
<1>1. LeaseNamesHolder' /\ LeaseStages'
  BY DEF IInv, TypeOK, LockInv, LeaseNamesHolder, LeaseStages, Holding, Removing, Reclaiming
<1>2. TargetIsKnown' /\ ClaimIsHeld' /\ ClaimIsExclusive' /\ TargetIsInPlace'
  BY DEF IInv, TypeOK, LockInv, TargetIsKnown, ClaimIsHeld, ClaimIsExclusive, TargetIsInPlace,
         Removing, Reclaiming
<1>3. TargetIsNotHeld'
  <2>1. ASSUME NEW d \in Client, mine[d] # None PROVE SeemsAlive(mine[d].owner)
    BY <2>1, GoneAssumption DEF IInv, LockInv, LeaseNamesHolder, LeaseStages, SeemsAlive, Alive,
         Holding, Removing, Reclaiming
  <2>. QED BY <2>1 DEF IInv, TypeOK, LockInv, TargetIsNotHeld, TargetIsKnown, Removing, Reclaiming
<1>. QED BY <1>1, <1>2, <1>3 DEF LockInv

\* The link to the claim path succeeds for one reclaimer of a record.
LEMMA ClaimKeeps == ASSUME IInv, NEW c \in Client, Claim(c) PROVE LockInv'
<1>. USE DEF Claim, Return, Go, lease
<1>1. \A d \in Client : stage[d] \in Removing => target[d].token \in Token
  BY Records DEF IInv, TypeOK, LockInv, TargetIsKnown
<1>2. LeaseNamesHolder' /\ LeaseStages'
  BY DEF IInv, TypeOK, LockInv, LeaseNamesHolder, LeaseStages, Holding, Removing, Reclaiming,
         AfterRemoval
<1>3. TargetIsKnown'
  BY DEF IInv, TypeOK, LockInv, TargetIsKnown, Removing, Reclaiming
<1>4. ClaimIsHeld' /\ ClaimIsExclusive'
  <2>1. CASE lock # None /\ claims[target[c].token] = None
    BY <1>1, <2>1 DEF IInv, TypeOK, LockInv, ClaimIsHeld, ClaimIsExclusive, Removing, Reclaiming
  <2>2. CASE ~(lock # None /\ claims[target[c].token] = None)
    BY <2>2 DEF IInv, TypeOK, LockInv, ClaimIsHeld, ClaimIsExclusive, AfterRemoval, Reclaiming
  <2>. QED BY <2>1, <2>2
<1>5. TargetIsInPlace' /\ TargetIsNotHeld'
  BY DEF IInv, TypeOK, LockInv, TargetIsKnown, TargetIsInPlace, TargetIsNotHeld, Removing,
         Reclaiming
<1>. QED BY <1>2, <1>3, <1>4, <1>5 DEF LockInv

\* The two comparisons behind the claim.
LEMMA InspectKeeps == ASSUME IInv, NEW c \in Client, Verify(c) \/ Compare(c) PROVE LockInv'
<1>1. /\ UNCHANGED <<lock, claims, mine, target>>
      /\ stage[c] \in {"verify", "compare"}
      /\ stage' = [stage EXCEPT ![c] = stage'[c]]
      /\ \/ stage'[c] = "unclaim"
         \/ stage'[c] \in {"compare", "remove"} /\ lock = target[c]
  BY DEF IInv, TypeOK, LockInv, TargetIsInPlace, Verify, Compare, StillThere, Go, files, lease
<1>2. LeaseNamesHolder' /\ LeaseStages'
  BY <1>1 DEF IInv, TypeOK, LockInv, LeaseNamesHolder, LeaseStages, Holding, Removing, Reclaiming
<1>3. TargetIsKnown' /\ ClaimIsHeld' /\ ClaimIsExclusive'
  BY <1>1 DEF IInv, TypeOK, LockInv, TargetIsKnown, ClaimIsHeld, ClaimIsExclusive, Removing,
       Reclaiming
<1>4. TargetIsInPlace' /\ TargetIsNotHeld'
  BY <1>1 DEF IInv, TypeOK, LockInv, TargetIsInPlace, TargetIsNotHeld, Removing, Reclaiming
<1>. QED BY <1>2, <1>3, <1>4 DEF LockInv

\* The unlink: what is removed is the target, which nobody else holds.
LEMMA RemoveKeeps == ASSUME IInv, NEW c \in Client, Remove(c) PROVE LockInv'
<1>. USE DEF Remove, Go
<1>1. lock = target[c] /\ lock # None
  BY DEF IInv, LockInv, TargetIsInPlace, TargetIsKnown, Removing, Reclaiming
<1>2. \A d \in Client : mine'[d] = None
  BY <1>1 DEF IInv, TypeOK, LockInv, LeaseNamesHolder, TargetIsNotHeld, Removing, Reclaiming
<1>3. LeaseNamesHolder' /\ LeaseStages'
  BY <1>1, <1>2 DEF IInv, TypeOK, LockInv, LeaseNamesHolder, LeaseStages, Holding, Removing, Reclaiming
<1>4. TargetIsKnown' /\ ClaimIsHeld' /\ ClaimIsExclusive'
  BY DEF IInv, TypeOK, LockInv, TargetIsKnown, ClaimIsHeld, ClaimIsExclusive, Removing,
         Reclaiming
<1>5. TargetIsInPlace'
  BY <1>1 DEF IInv, TypeOK, LockInv, TargetIsInPlace, ClaimIsExclusive, Reclaiming
<1>6. TargetIsNotHeld'
  BY <1>2 DEF IInv, TypeOK, LockInv, TargetIsKnown, TargetIsNotHeld, Removing, Reclaiming
<1>. QED BY <1>3, <1>4, <1>5, <1>6 DEF LockInv

\* The claim that goes is that of no other reclaimer.
LEMMA UnclaimKeeps == ASSUME IInv, NEW c \in Client, Unclaim(c) PROVE LockInv'
<1>. USE DEF Unclaim, Return, Go
<1>1. \A d \in Client : stage[d] \in Reclaiming => target[d].token \in Token
  BY Records DEF IInv, TypeOK, LockInv, TargetIsKnown, Removing
<1>2. \A d \in Client : mine'[d] = IF d = c THEN None ELSE mine[d]
  BY DEF IInv, TypeOK, LockInv, LeaseStages, Removing, Reclaiming, Holding
<1>3. LeaseNamesHolder' /\ LeaseStages'
  BY <1>2 DEF IInv, TypeOK, LockInv, LeaseNamesHolder, LeaseStages, Holding, Removing, Reclaiming
<1>4. TargetIsKnown'
  BY DEF IInv, TypeOK, LockInv, TargetIsKnown, Removing, Reclaiming
<1>5. ClaimIsHeld' /\ ClaimIsExclusive'
  BY <1>1 DEF IInv, TypeOK, LockInv, ClaimIsHeld, ClaimIsExclusive, Reclaiming
<1>6. TargetIsInPlace' /\ TargetIsNotHeld'
  BY <1>2 DEF IInv, TypeOK, LockInv, TargetIsKnown, TargetIsInPlace, TargetIsNotHeld, Removing,
       Reclaiming
<1>. QED BY <1>3, <1>4, <1>5, <1>6 DEF LockInv

\* A killed client holds nothing and removes nothing; its files stay.
LEMMA CrashKeeps == ASSUME IInv, NEW c \in Client, Crash(c) PROVE LockInv'
<1>. USE DEF Crash, Go, files
<1>1. LeaseNamesHolder' /\ LeaseStages' /\ TargetIsKnown' /\ ClaimIsHeld'
  BY DEF IInv, TypeOK, LockInv, LeaseNamesHolder, LeaseStages, TargetIsKnown, ClaimIsHeld,
         Holding, Removing, Reclaiming
<1>2. ClaimIsExclusive' /\ TargetIsInPlace' /\ TargetIsNotHeld'
  BY DEF IInv, TypeOK, LockInv, TargetIsKnown, ClaimIsExclusive, TargetIsInPlace,
         TargetIsNotHeld, Removing, Reclaiming
<1>. QED BY <1>1, <1>2 DEF LockInv

(***************************************************************************)
(* Every step keeps the invariant, and what follows from it.               *)
(***************************************************************************)
LEMMA NextKeeps == IInv /\ [Next]_vars => IInv'
<1>. SUFFICES ASSUME IInv, [Next]_vars PROVE IInv'
  OBVIOUS
<1>1. CASE BackendEnds \/ \E b \in 1..MaxSpawns : BackendSettles(b)
  BY <1>1, BackendsKeep
<1>2. ASSUME NEW c \in Client, Begin(c) \/ Look(c) \/ Spawn(c) \/ Deadline(c)
                               \/ ConnectTimesOut(c) \/ Again(c)
      PROVE  IInv'
  BY <1>2, SearchTyped, QuietKeeps DEF IInv
<1>3. ASSUME NEW c \in Client, SpawnFails(c) \/ AwaitEndpoint(c) \/ Stop(c)
      PROVE  IInv'
  <2>1. LockInv'
    <3>1. CASE stage[c] \in Holding
      BY <1>3, <3>1, ReleaseKeeps DEF SpawnFails, AwaitEndpoint, Stop, files
    <3>2. CASE stage[c] \notin Holding
      BY <1>3, <3>2, QuietKeeps DEF SpawnFails, AwaitEndpoint, At, Holding
    <3>. QED BY <3>1, <3>2
  <2>. QED BY <1>3, <2>1, SearchTyped DEF IInv
<1>4. ASSUME NEW c \in Client, \/ FirstPublish(c) \/ ReadRecord(c) \/ Probe(c) \/ Claim(c)
                               \/ Verify(c) \/ Compare(c) \/ Remove(c) \/ Unclaim(c)
                               \/ SecondPublish(c)
      PROVE  IInv'
  BY <1>4, LockTyped, PublishKeeps, ObserveKeeps, ClaimKeeps, InspectKeeps, RemoveKeeps,
     UnclaimKeeps DEF IInv
<1>5. ASSUME NEW c \in Client, Crash(c) PROVE IInv'
  BY <1>5, SearchTyped, CrashKeeps DEF IInv
<1>6. CASE UNCHANGED vars
  BY <1>6 DEF vars, files, backends, lease, IInv, TypeOK, AfterRemoval, MetBackend, LockInv,
       LeaseNamesHolder, LeaseStages, TargetIsKnown, ClaimIsHeld, ClaimIsExclusive,
       TargetIsInPlace, TargetIsNotHeld
<1>. QED BY <1>1, <1>2, <1>3, <1>4, <1>5, <1>6 DEF Next, Work

\* The inductive invariant holds in every reachable state.
THEOREM Invariance == Spec => []IInv
BY InitIInv, NextKeeps, PTL DEF Spec

\* A client that holds the spawn lock is the owner on record, whatever other
\* clients find stale, remove or leave behind (spawn-lock.ts: removeObserved).
THEOREM LeaseStaysOnRecord == Spec => []LeaseIsOnRecord
<1>1. IInv => LeaseIsOnRecord
  BY DEF IInv, LockInv, LeaseNamesHolder, LeaseIsOnRecord
<1>. QED BY <1>1, Invariance, PTL

\* At most one client at a time spawns a backend or waits for the one it spawned.
OneSpawner == \A c, d \in Client : stage[c] \in Holding /\ stage[d] \in Holding => c = d

\* Clients that find no backend at the same time do not each spawn their own.
THEOREM SpawnersAreAlone == Spec => []OneSpawner
<1>1. IInv => OneSpawner
  BY DEF IInv, LockInv, LeaseStages, LeaseNamesHolder, OneSpawner
<1>. QED BY <1>1, Invariance, PTL
=============================================================================
