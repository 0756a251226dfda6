---------------------------- MODULE StateRootLock ----------------------------
(***************************************************************************)
(* The lock that makes a state root belong to one backend process at a     *)
(* time (apps/server/runtime/state-root-lock.ts), and the endpoint file    *)
(* the owner advertises itself with (apps/server/runtime/endpoint-file.ts, *)
(* apps/server/composition/app.ts, apps/server/main.ts).                   *)
(*                                                                         *)
(* Hard links are the only atomic step the processes share.  A lock file   *)
(* is written complete before it is linked to its name and never changed,  *)
(* so its inode is identified by the owner record in it: device and inode  *)
(* of two paths agree when their records do.  Candidate files carry a      *)
(* fresh token in their name and touch nobody else; they are left out.     *)
(***************************************************************************)

CONSTANTS
  Process,     \* backend processes; one that ended may start again
  Pid,         \* process ids of the operating system
  Token,       \* UUIDs
  None,        \* no file, no record
  Attempt,     \* the attempts that fit before the handoff deadline
  CrashStages, \* where a process may be killed
  ReusePids    \* whether a new process may get the pid in a stale lock

Owner == [pid : Pid, token : Token]

\* A process that is not running has left or died ("off"), or gave up with an
\* error ("failed").  The reclaiming stages are those of removeOwner.
Reclaiming == {"verify", "compare", "remove", "unclaim", "removed"}
Running    == {"publish", "read", "probe", "claim", "republish", "retry",
               "held", "serving", "closing"} \cup Reclaiming
Stage      == {"off", "failed"} \cup Running

ASSUME NoneAssumption  == None \notin Owner \cup Pid \cup Token
ASSUME CrashAssumption == CrashStages \subseteq Running

VARIABLES
  lock,     \* backend.lock: the owner record it holds, or None
  claims,   \* backend.lock.reclaim.<token>: the record linked there, or None
  endpoint, \* the endpoint file: the record of the process it advertises
  stage,    \* where each process is
  pid,      \* its process id, or None while it is not running
  mine,     \* the lease it holds, or None
  target,   \* the record it observed and is about to remove, or None
  leaving,  \* whether it removes its own record, to release the lock
  attempts  \* the attempts it has left before the deadline

files == <<lock, claims, endpoint>>
vars  == <<files, stage, pid, mine, target, leaving, attempts>>

Live(p)  == stage[p] \in Running
Alive(n) == \E p \in Process : pid[p] = n

\* A UUID is drawn once: it is none of those on record anywhere.
OnRecord(t) ==
  \/ claims[t] # None
  \/ \E r \in {lock, endpoint} : r # None /\ r.token = t
  \/ \E p \in Process : \E r \in {mine[p], target[p]} : r # None /\ r.token = t
Fresh == {t \in Token : ~OnRecord(t)}

Init ==
  /\ lock = None /\ endpoint = None
  /\ claims = [t \in Token |-> None]
  /\ stage = [p \in Process |-> "off"]
  /\ pid = [p \in Process |-> None]
  /\ mine = [p \in Process |-> None]
  /\ target = [p \in Process |-> None]
  /\ leaving = [p \in Process |-> FALSE]
  /\ attempts = [p \in Process |-> {}]

Go(p, next) == stage' = [stage EXCEPT ![p] = next]

Start(p) ==
  /\ ~Live(p)
  /\ \E n \in Pid :
       /\ ~Alive(n)
       /\ lock # None /\ ~ReusePids => lock.pid # n
       /\ pid' = [pid EXCEPT ![p] = n]
  /\ Go(p, "publish")
  /\ attempts' = [attempts EXCEPT ![p] = Attempt]
  /\ UNCHANGED <<files, mine, target, leaving>>

(***************************************************************************)
(* acquireLease.                                                           *)
(***************************************************************************)
\* Mutant: publishing renames the candidate over the lock instead of linking it.
NoLock_Overwritten == TRUE
NoLock == lock = None

Record(p, t) == [pid |-> pid[p], token |-> t]

\* link(candidate, lockPath) fails if the name exists.
Publish(p, from, busy) ==
  /\ stage[p] = from
  /\ IF NoLock
     THEN \E t \in Fresh :
            /\ lock' = Record(p, t)
            /\ mine' = [mine EXCEPT ![p] = Record(p, t)]
            /\ attempts' = [attempts EXCEPT ![p] = {}]
            /\ Go(p, "held")
     ELSE Go(p, busy) /\ UNCHANGED <<lock, mine, attempts>>
  /\ UNCHANGED <<claims, endpoint, pid, target, leaving>>

FirstPublish(p)  == Publish(p, "publish", "read")
SecondPublish(p) == Publish(p, "republish", "retry")

ReadOwner(p) ==
  /\ stage[p] = "read"
  /\ Go(p, IF lock = None THEN "retry" ELSE "probe")
  /\ target' = [target EXCEPT ![p] = lock]
  /\ UNCHANGED <<files, pid, mine, leaving, attempts>>

\* Mutants: the recorded owner is taken for dead, or for alive, without a probe.
SeemsAlive_Never(n)  == FALSE
SeemsAlive_Always(n) == TRUE
\* Any process that runs under the recorded pid counts as the owner.
SeemsAlive(n) == Alive(n)

Probe(p) ==
  /\ stage[p] = "probe"
  /\ IF SeemsAlive(target[p].pid)
     THEN Go(p, "retry") /\ target' = [target EXCEPT ![p] = None]
     ELSE Go(p, "claim") /\ UNCHANGED target
  /\ UNCHANGED <<files, pid, mine, leaving, attempts>>

(***************************************************************************)
(* removeOwner, of a stale owner or, on release, of one's own record.      *)
(***************************************************************************)
\* removeOwner is over and p is not to publish: it returns to the handoff or,
\* after a release, ends.  No record is held or observed any more.
StepBack(p) ==
  /\ Go(p, IF leaving[p] THEN "off" ELSE "retry")
  /\ pid'     = IF leaving[p] THEN [pid EXCEPT ![p] = None] ELSE pid
  /\ mine'    = [mine EXCEPT ![p] = None]
  /\ target'  = [target EXCEPT ![p] = None]
  /\ leaving' = [leaving EXCEPT ![p] = FALSE]

ClaimFree(t) == claims[t] = None

\* link(lockPath, claimPath) fails without a lock, or if the claim exists.
Claim(p) ==
  /\ stage[p] = "claim"
  /\ LET t == target[p].token
     IN IF lock # None /\ ClaimFree(t)
        THEN /\ claims' = [claims EXCEPT ![t] = lock]
             /\ Go(p, "verify")
             /\ UNCHANGED <<pid, mine, target, leaving>>
        ELSE StepBack(p) /\ UNCHANGED claims
  /\ UNCHANGED <<lock, endpoint, attempts>>

\* Both paths hold the expected record.  The claim is p's alone and does not
\* change between the two reads.
StillThere(p) == claims[target[p].token] = target[p] /\ lock = target[p]

Verify(p) ==
  /\ stage[p] = "verify"
  /\ Go(p, IF StillThere(p) THEN "compare" ELSE "unclaim")
  /\ UNCHANGED <<files, pid, mine, target, leaving, attempts>>

\* The two paths are links to one inode.
SameFile(p) == lock # None /\ claims[target[p].token] = lock

Compare(p) ==
  /\ stage[p] = "compare"
  /\ Go(p, IF SameFile(p) THEN "remove" ELSE "unclaim")
  /\ UNCHANGED <<files, pid, mine, target, leaving, attempts>>

\* unlink(lockPath), whatever is there by now.
Remove(p) ==
  /\ stage[p] = "remove"
  /\ Go(p, IF lock = None THEN "unclaim" ELSE "removed")
  /\ lock' = None
  /\ mine' = [mine EXCEPT ![p] = None]
  /\ UNCHANGED <<claims, endpoint, pid, target, leaving, attempts>>

\* The claim is removed on every way out of removeOwner.
Unclaim(p) ==
  /\ stage[p] \in {"unclaim", "removed"}
  /\ claims' = [claims EXCEPT ![target[p].token] = None]
  /\ IF stage[p] = "removed" /\ ~leaving[p]
     THEN /\ Go(p, "republish")
          /\ target' = [target EXCEPT ![p] = None]
          /\ UNCHANGED <<pid, mine, leaving>>
     ELSE StepBack(p)
  /\ UNCHANGED <<lock, endpoint, attempts>>

(***************************************************************************)
(* The startup handoff: an advertised endpoint or the deadline ends it.    *)
(***************************************************************************)
GivesUp(p) == endpoint # None \/ attempts[p] = {}

Retry(p) ==
  /\ stage[p] = "retry"
  /\ \/ /\ GivesUp(p)
        /\ Go(p, "failed")
        /\ pid' = [pid EXCEPT ![p] = None]
        /\ attempts' = [attempts EXCEPT ![p] = {}]
     \/ /\ ~GivesUp(p)
        /\ Go(p, "publish")
        /\ UNCHANGED pid
        /\ \E a \in attempts[p] : attempts' = [attempts EXCEPT ![p] = @ \ {a}]
  /\ UNCHANGED <<files, mine, target, leaving>>

(***************************************************************************)
(* The backend under the lease.                                            *)
(***************************************************************************)
Advertise(p) ==
  /\ stage[p] = "held"
  /\ endpoint' = mine[p]
  /\ Go(p, "serving")
  /\ UNCHANGED <<lock, claims, pid, mine, target, leaving, attempts>>

\* The last connection closed: the endpoint goes before the connections do.
Retract(p) ==
  /\ stage[p] = "serving"
  /\ endpoint' = None
  /\ Go(p, "closing")
  /\ UNCHANGED <<lock, claims, pid, mine, target, leaving, attempts>>

\* The scopes close, after an orderly end, a failure or an interruption: the
\* endpoint's finalizer removes the file (again), then the lock is released.
Leave(p) ==
  /\ stage[p] \in {"held", "serving", "closing"}
  /\ endpoint' = IF stage[p] = "held" THEN endpoint ELSE None
  /\ leaving' = [leaving EXCEPT ![p] = TRUE]
  /\ target' = [target EXCEPT ![p] = mine[p]]
  /\ Go(p, "claim")
  /\ UNCHANGED <<lock, claims, pid, mine, attempts>>

Crash(p) ==
  /\ stage[p] \in CrashStages
  /\ Go(p, "off")
  /\ pid'     = [pid EXCEPT ![p] = None]
  /\ attempts' = [attempts EXCEPT ![p] = {}]
  /\ mine'    = [mine EXCEPT ![p] = None]
  /\ target'  = [target EXCEPT ![p] = None]
  /\ leaving' = [leaving EXCEPT ![p] = FALSE]
  /\ UNCHANGED files

\* The steps a process takes by itself once it runs.
Work(p) ==
  \/ FirstPublish(p) \/ ReadOwner(p) \/ Probe(p) \/ Claim(p) \/ Verify(p)
  \/ Compare(p) \/ Remove(p) \/ Unclaim(p) \/ SecondPublish(p) \/ Retry(p)
  \/ Advertise(p)

Next == \E p \in Process : Start(p) \/ Work(p) \/ Retract(p) \/ Leave(p) \/ Crash(p)

Spec == Init /\ [][Next]_vars

(***************************************************************************)
(* Properties.                                                             *)
(***************************************************************************)
\* Every variable holds a value of its kind.
TypeOK ==
  /\ lock \in {None} \cup Owner
  /\ endpoint \in {None} \cup Owner
  /\ claims \in [Token -> {None} \cup Owner]
  /\ stage \in [Process -> Stage]
  /\ pid \in [Process -> {None} \cup Pid]
  /\ mine \in [Process -> {None} \cup Owner]
  /\ target \in [Process -> {None} \cup Owner]
  /\ leaving \in [Process -> BOOLEAN]
  /\ attempts \in [Process -> SUBSET Attempt]

\* A process that holds a lease is the owner on record: nobody who found an
\* older record stale ever removes or overwrites its lock.
LeaseIsOnRecord == \A p \in Process : mine[p] # None => lock = mine[p]

\* At most one process owns the state root.
MutualExclusion ==
  \A p, q \in Process : mine[p] # None /\ mine[q] # None => p = q

\* While a backend serves, the endpoint file names it and no other: neither a
\* predecessor's cleanup nor a rival's start takes the advertisement away.
ServingIsAdvertised == \A p \in Process : stage[p] = "serving" => endpoint = mine[p]

\* A record is removed under an exclusive claim: of the processes inside
\* removeOwner for one record, only one has come past the claim.
OneReclaimerPerRecord ==
  \A p, q \in Process :
    stage[p] \in Reclaiming /\ stage[q] \in Reclaiming /\ target[p] = target[q] => p = q

\* A process works by itself until it serves, waits to be asked to leave, or
\* ends; nothing makes it start, leave or crash.
FairSpec == Spec /\ \A p \in Process : WF_vars(Work(p))

\* The recorded owner is a process that no longer holds the lease.
Stale == lock # None /\ \A p \in Process : mine[p] # lock

\* A process that starts on the lock of a dead owner sees it recovered, by
\* itself or another, unless it is killed first ("recovers a lock whose owner
\* is no longer alive", apps/server/test/integration/state-root-lock.test.ts).
StaleLockRecovered ==
  \A p \in Process :
    (stage[p] = "publish" /\ Stale) ~> (~Stale \/ stage[p] = "off")
=============================================================================
