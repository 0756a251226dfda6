------------------------- MODULE StateRootLockProofs -------------------------
(***************************************************************************)
(* Safety of the state root lock for any number of processes, pids and     *)
(* tokens, and any choice of where processes are killed.                   *)
(*                                                                         *)
(* Mutual exclusion alone is not inductive.  The argument is: a reclaimer  *)
(* past its claim is alone with its target (ClaimIsExclusive); from the    *)
(* verification on the target is still in the lock, because nobody can     *)
(* publish over it and nobody else can remove it (TargetIsInPlace); and    *)
(* the target is never the lease of somebody else, because its owner was   *)
(* seen dead and new leases carry new tokens (TargetIsNotHeld).            *)
(***************************************************************************)
EXTENDS StateRootLock, TLAPS

\* A process has a pid exactly while it runs, and shares it with nobody.
PidsAreLive   == \A p \in Process : pid[p] # None <=> Live(p)
PidsAreUnique == \A p, q \in Process : pid[p] # None /\ pid[p] = pid[q] => p = q

\* A lease is the record in the lock, and names its holder.
LeaseNamesHolder == \A p \in Process : mine[p] # None => lock = mine[p] /\ mine[p].pid = pid[p]

\* Where leases are held.
Releasing == {"claim", "verify", "compare", "remove", "unclaim"}
LeaseStages == \A p \in Process :
  /\ stage[p] \in {"held", "serving", "closing"} => mine[p] # None
  /\ mine[p] # None => stage[p] \in {"held", "serving", "closing"} \cup Releasing

TargetIsKnown == \A p \in Process :
  stage[p] \in {"probe", "claim"} \cup Reclaiming => target[p] # None

\* A reclaimer past the link holds the claim of its target, alone.
ClaimIsHeld == \A p \in Process :
  stage[p] \in Reclaiming => claims[target[p].token] # None
ClaimIsExclusive == \A p, q \in Process :
  stage[p] \in Reclaiming /\ stage[q] \in Reclaiming /\ target[p].token = target[q].token => p = q

TargetIsInPlace == \A p \in Process :
  stage[p] \in {"compare", "remove"} => lock = target[p]

TargetIsNotHeld == \A p, q \in Process :
  stage[p] \in {"claim"} \cup Reclaiming /\ mine[q] = target[p] => p = q

\* The inductive invariant.
IInv ==
  /\ TypeOK
  /\ PidsAreLive /\ PidsAreUnique
  /\ LeaseNamesHolder /\ LeaseStages
  /\ TargetIsKnown /\ ClaimIsHeld /\ ClaimIsExclusive
  /\ TargetIsInPlace /\ TargetIsNotHeld
  /\ ServingIsAdvertised

(***************************************************************************)
(* Records and the initial state.                                          *)
(***************************************************************************)
\* A record is not None, and its fields are a pid and a token.
LEMMA Records ==
  \A r \in Owner : r # None /\ r.pid \in Pid /\ r.token \in Token /\ r.pid # None
BY NoneAssumption DEF Owner

\* The initial state satisfies the inductive invariant.
LEMMA InitIInv == Init => IInv
BY NoneAssumption
DEF Init, IInv, TypeOK, PidsAreLive, PidsAreUnique, LeaseNamesHolder, LeaseStages,
    TargetIsKnown, ClaimIsHeld, ClaimIsExclusive, TargetIsInPlace, TargetIsNotHeld,
    ServingIsAdvertised, Live, Running, Reclaiming, Stage

\* A lease has one holder: two would share the record in the lock, and its pid.
LEMMA OneHolder == IInv => MutualExclusion
BY Records DEF IInv, TypeOK, PidsAreUnique, LeaseNamesHolder, MutualExclusion

\* Distinct reclaimers work on distinct records.
LEMMA OneReclaimer == IInv => OneReclaimerPerRecord
BY DEF IInv, ClaimIsExclusive, OneReclaimerPerRecord

(***************************************************************************)
(* One lemma per action.  Their steps are the same throughout: types, pids,*)
(* leases, the claims and targets of reclaimers, the advertisement.        *)
(***************************************************************************)
\* A process starts under a pid nobody has.
LEMMA StartKeeps == ASSUME IInv, NEW p \in Process, Start(p) PROVE IInv'
<1>1. TypeOK'
  BY DEF IInv, TypeOK, Start, Go, files, Running, Reclaiming, Stage
<1>2. PidsAreLive' /\ PidsAreUnique'
  BY DEF IInv, TypeOK, PidsAreLive, PidsAreUnique, Alive, Start, Go, files,
       Live, Running, Reclaiming
<1>3. LeaseNamesHolder' /\ LeaseStages'
  BY DEF IInv, TypeOK, LeaseNamesHolder, LeaseStages, PidsAreLive, Live,
       Running, Reclaiming, Start, Go, files, Releasing
<1>4. TargetIsKnown' /\ ClaimIsHeld' /\ ClaimIsExclusive'
  BY DEF IInv, TypeOK, TargetIsKnown, ClaimIsHeld, ClaimIsExclusive, Start,
       Go, files, Reclaiming
<1>5. TargetIsInPlace' /\ TargetIsNotHeld'
  BY DEF IInv, TypeOK, TargetIsInPlace, TargetIsNotHeld, Start, Go, files,
       Reclaiming
<1>6. ServingIsAdvertised'
  BY DEF IInv, TypeOK, ServingIsAdvertised, Start, Go, files
<1>. QED BY <1>1, <1>2, <1>3, <1>4, <1>5, <1>6 DEF IInv

\* A publication finds no lock, so no reclaimer relies on one and nobody holds a lease.
LEMMA FirstPublishKeeps == ASSUME IInv, NEW p \in Process, FirstPublish(p) PROVE IInv'
<1>1. \A t \in Token :
       Record(p, t) \in Owner /\ Record(p, t).pid = pid[p] /\ Record(p, t).token = t
  BY DEF IInv, TypeOK, PidsAreLive, FirstPublish, Publish, Record, Owner,
       Live, Running
<1>2. TypeOK'
  BY <1>1 DEF IInv, TypeOK, NoLock, Fresh, FirstPublish, Publish, Go, files,
       Running, Reclaiming, Stage
<1>3. PidsAreLive' /\ PidsAreUnique'
  BY DEF IInv, TypeOK, PidsAreLive, PidsAreUnique, FirstPublish, Publish, Go,
       files, Live, Running, Reclaiming
<1>4. LeaseNamesHolder' /\ LeaseStages'
  BY <1>1, Records DEF IInv, TypeOK, LeaseNamesHolder, LeaseStages, NoLock,
       Fresh, FirstPublish, Publish, Go, files, Releasing
<1>5. TargetIsKnown' /\ ClaimIsHeld' /\ ClaimIsExclusive'
  BY DEF IInv, TypeOK, TargetIsKnown, ClaimIsHeld, ClaimIsExclusive,
       FirstPublish, Publish, Go, files, Reclaiming
<1>6. TargetIsInPlace' /\ TargetIsNotHeld'
  BY <1>1 DEF IInv, TypeOK, TargetIsInPlace, TargetIsNotHeld, NoLock,
       TargetIsKnown, Fresh, OnRecord, FirstPublish, Publish, Go, files,
       Reclaiming
<1>7. ServingIsAdvertised'
  BY DEF IInv, TypeOK, ServingIsAdvertised, FirstPublish, Publish, Go, files
<1>. QED BY <1>2, <1>3, <1>4, <1>5, <1>6, <1>7 DEF IInv

\* The second publication of an attempt is like the first.
LEMMA SecondPublishKeeps == ASSUME IInv, NEW p \in Process, SecondPublish(p) PROVE IInv'
<1>1. \A t \in Token :
       Record(p, t) \in Owner /\ Record(p, t).pid = pid[p] /\ Record(p, t).token = t
  BY DEF IInv, TypeOK, PidsAreLive, SecondPublish, Publish, Record, Owner,
       Live, Running
<1>2. TypeOK'
  BY <1>1 DEF IInv, TypeOK, NoLock, Fresh, SecondPublish, Publish, Go, files,
       Running, Reclaiming, Stage
<1>3. PidsAreLive' /\ PidsAreUnique'
  BY DEF IInv, TypeOK, PidsAreLive, PidsAreUnique, SecondPublish, Publish, Go,
       files, Live, Running, Reclaiming
<1>4. LeaseNamesHolder' /\ LeaseStages'
  BY <1>1, Records DEF IInv, TypeOK, LeaseNamesHolder, LeaseStages, NoLock,
       Fresh, SecondPublish, Publish, Go, files, Releasing
<1>5. TargetIsKnown' /\ ClaimIsHeld' /\ ClaimIsExclusive'
  BY DEF IInv, TypeOK, TargetIsKnown, ClaimIsHeld, ClaimIsExclusive,
       SecondPublish, Publish, Go, files, Reclaiming
<1>6. TargetIsInPlace' /\ TargetIsNotHeld'
  BY <1>1 DEF IInv, TypeOK, TargetIsInPlace, TargetIsNotHeld, NoLock,
       TargetIsKnown, Fresh, OnRecord, SecondPublish, Publish, Go, files,
       Reclaiming
<1>7. ServingIsAdvertised'
  BY DEF IInv, TypeOK, ServingIsAdvertised, SecondPublish, Publish, Go, files
<1>. QED BY <1>2, <1>3, <1>4, <1>5, <1>6, <1>7 DEF IInv

\* Reading the lock changes no file.
LEMMA ReadOwnerKeeps == ASSUME IInv, NEW p \in Process, ReadOwner(p) PROVE IInv'
<1>1. TypeOK'
  BY DEF IInv, TypeOK, ReadOwner, Go, files, Running, Reclaiming, Stage
<1>2. PidsAreLive' /\ PidsAreUnique'
  BY DEF IInv, TypeOK, PidsAreLive, PidsAreUnique, ReadOwner, Go, files, Live,
       Running, Reclaiming
<1>3. LeaseNamesHolder' /\ LeaseStages'
  BY DEF IInv, TypeOK, LeaseNamesHolder, LeaseStages, ReadOwner, Go, files,
       Releasing
<1>4. TargetIsKnown' /\ ClaimIsHeld' /\ ClaimIsExclusive'
  BY NoneAssumption DEF IInv, TypeOK, TargetIsKnown, ClaimIsHeld,
       ClaimIsExclusive, ReadOwner, Go, files, Reclaiming
<1>5. TargetIsInPlace' /\ TargetIsNotHeld'
  BY DEF IInv, TypeOK, TargetIsInPlace, TargetIsNotHeld, ReadOwner, Go, files,
       Reclaiming
<1>6. ServingIsAdvertised'
  BY DEF IInv, TypeOK, ServingIsAdvertised, ReadOwner, Go, files
<1>. QED BY <1>1, <1>2, <1>3, <1>4, <1>5, <1>6 DEF IInv

\* A target is only claimed if its owner is dead, hence no holder.
LEMMA ProbeKeeps == ASSUME IInv, NEW p \in Process, Probe(p) PROVE IInv'
<1>1. TypeOK'
  BY DEF IInv, TypeOK, Probe, Go, files, Running, Reclaiming, Stage
<1>2. PidsAreLive' /\ PidsAreUnique'
  BY DEF IInv, TypeOK, PidsAreLive, PidsAreUnique, Probe, Go, files, Live,
       Running, Reclaiming
<1>3. LeaseNamesHolder' /\ LeaseStages'
  BY DEF IInv, TypeOK, LeaseNamesHolder, LeaseStages, Probe, Go, files,
       Releasing
<1>4. TargetIsKnown' /\ ClaimIsHeld' /\ ClaimIsExclusive'
  BY DEF IInv, TypeOK, TargetIsKnown, ClaimIsHeld, ClaimIsExclusive, Probe,
       Go, files, Reclaiming
<1>5. TargetIsInPlace' /\ TargetIsNotHeld'
  BY DEF IInv, TypeOK, TargetIsInPlace, TargetIsNotHeld, SeemsAlive, Alive,
       LeaseNamesHolder, LeaseStages, TargetIsKnown, Probe, Go, files,
       Reclaiming
<1>6. ServingIsAdvertised'
  BY DEF IInv, TypeOK, ServingIsAdvertised, Probe, Go, files
<1>. QED BY <1>1, <1>2, <1>3, <1>4, <1>5, <1>6 DEF IInv

\* A claim is taken where none was; a denied reclaimer holds nothing.
LEMMA ClaimKeeps == ASSUME IInv, NEW p \in Process, Claim(p) PROVE IInv'
<1>1. TypeOK'
  BY DEF IInv, TypeOK, Claim, StepBack, Go, files, Running, Reclaiming, Stage
<1>2. PidsAreLive' /\ PidsAreUnique'
  BY DEF IInv, TypeOK, PidsAreLive, PidsAreUnique, Claim, StepBack, Go, files,
       Live, Running, Reclaiming
<1>3. LeaseNamesHolder' /\ LeaseStages'
  BY DEF IInv, TypeOK, LeaseNamesHolder, LeaseStages, Claim, StepBack, Go,
       files, Releasing
<1>4. TargetIsKnown' /\ ClaimIsHeld' /\ ClaimIsExclusive'
  BY Records DEF IInv, TypeOK, TargetIsKnown, ClaimIsHeld, ClaimIsExclusive,
       ClaimFree, Claim, StepBack, Go, files, Reclaiming
<1>5. TargetIsInPlace' /\ TargetIsNotHeld'
  BY DEF IInv, TypeOK, TargetIsInPlace, TargetIsNotHeld, TargetIsKnown, Claim,
       StepBack, Go, files, Reclaiming
<1>6. ServingIsAdvertised'
  BY DEF IInv, TypeOK, ServingIsAdvertised, Claim, StepBack, Go, files
<1>. QED BY <1>1, <1>2, <1>3, <1>4, <1>5, <1>6 DEF IInv

\* From here on the target is in the lock.
LEMMA VerifyKeeps == ASSUME IInv, NEW p \in Process, Verify(p) PROVE IInv'
<1>1. TypeOK'
  BY DEF IInv, TypeOK, Verify, Go, files, Running, Reclaiming, Stage
<1>2. PidsAreLive' /\ PidsAreUnique'
  BY DEF IInv, TypeOK, PidsAreLive, PidsAreUnique, Verify, Go, files, Live,
       Running, Reclaiming
<1>3. LeaseNamesHolder' /\ LeaseStages'
  BY DEF IInv, TypeOK, LeaseNamesHolder, LeaseStages, Verify, Go, files,
       Releasing
<1>4. TargetIsKnown' /\ ClaimIsHeld' /\ ClaimIsExclusive'
  BY DEF IInv, TypeOK, TargetIsKnown, ClaimIsHeld, ClaimIsExclusive, Verify,
       Go, files, Reclaiming
<1>5. TargetIsInPlace' /\ TargetIsNotHeld'
  BY DEF IInv, TypeOK, TargetIsInPlace, TargetIsNotHeld, StillThere, Verify,
       Go, files, Reclaiming
<1>6. ServingIsAdvertised'
  BY DEF IInv, TypeOK, ServingIsAdvertised, Verify, Go, files
<1>. QED BY <1>1, <1>2, <1>3, <1>4, <1>5, <1>6 DEF IInv

\* The comparison of inodes changes nothing the verification established.
LEMMA CompareKeeps == ASSUME IInv, NEW p \in Process, Compare(p) PROVE IInv'
<1>1. TypeOK'
  BY DEF IInv, TypeOK, Compare, Go, files, Running, Reclaiming, Stage
<1>2. PidsAreLive' /\ PidsAreUnique'
  BY DEF IInv, TypeOK, PidsAreLive, PidsAreUnique, Compare, Go, files, Live,
       Running, Reclaiming
<1>3. LeaseNamesHolder' /\ LeaseStages'
  BY DEF IInv, TypeOK, LeaseNamesHolder, LeaseStages, Compare, Go, files,
       Releasing
<1>4. TargetIsKnown' /\ ClaimIsHeld' /\ ClaimIsExclusive'
  BY DEF IInv, TypeOK, TargetIsKnown, ClaimIsHeld, ClaimIsExclusive, Compare,
       Go, files, Reclaiming
<1>5. TargetIsInPlace' /\ TargetIsNotHeld'
  BY DEF IInv, TypeOK, TargetIsInPlace, TargetIsNotHeld, Compare, Go, files,
       Reclaiming
<1>6. ServingIsAdvertised'
  BY DEF IInv, TypeOK, ServingIsAdvertised, Compare, Go, files
<1>. QED BY <1>1, <1>2, <1>3, <1>4, <1>5, <1>6 DEF IInv

\* What is unlinked is the target, which nobody else holds and nobody else removes.
LEMMA RemoveKeeps == ASSUME IInv, NEW p \in Process, Remove(p) PROVE IInv'
<1>1. TypeOK'
  BY DEF IInv, TypeOK, Remove, Go, files, Running, Reclaiming, Stage
<1>2. PidsAreLive' /\ PidsAreUnique'
  BY DEF IInv, TypeOK, PidsAreLive, PidsAreUnique, Remove, Go, files, Live,
       Running, Reclaiming
<1>3. LeaseNamesHolder' /\ LeaseStages'
  BY DEF IInv, TypeOK, LeaseNamesHolder, LeaseStages, TargetIsInPlace,
       TargetIsNotHeld, Reclaiming, TargetIsKnown, Remove, Go, files,
       Releasing
<1>4. TargetIsKnown' /\ ClaimIsHeld' /\ ClaimIsExclusive'
  BY DEF IInv, TypeOK, TargetIsKnown, ClaimIsHeld, ClaimIsExclusive, Remove,
       Go, files, Reclaiming
<1>5. TargetIsInPlace' /\ TargetIsNotHeld'
  BY DEF IInv, TypeOK, TargetIsInPlace, TargetIsNotHeld, ClaimIsExclusive,
       TargetIsKnown, Remove, Go, files, Reclaiming
<1>6. ServingIsAdvertised'
  BY DEF IInv, TypeOK, ServingIsAdvertised, Remove, Go, files
<1>. QED BY <1>1, <1>2, <1>3, <1>4, <1>5, <1>6 DEF IInv

\* Only the remover's own claim goes.
LEMMA UnclaimKeeps == ASSUME IInv, NEW p \in Process, Unclaim(p) PROVE IInv'
<1>1. TypeOK'
  BY DEF IInv, TypeOK, Unclaim, StepBack, Go, files, Running, Reclaiming,
       Stage
<1>2. PidsAreLive' /\ PidsAreUnique'
  BY DEF IInv, TypeOK, PidsAreLive, PidsAreUnique, Unclaim, StepBack, Go,
       files, Live, Running, Reclaiming
<1>3. LeaseNamesHolder' /\ LeaseStages'
  BY DEF IInv, TypeOK, LeaseNamesHolder, LeaseStages, Unclaim, StepBack, Go,
       files, Releasing
<1>4. TargetIsKnown' /\ ClaimIsHeld' /\ ClaimIsExclusive'
  BY Records DEF IInv, TypeOK, TargetIsKnown, ClaimIsHeld, ClaimIsExclusive,
       Unclaim, StepBack, Go, files, Reclaiming
<1>5. TargetIsInPlace' /\ TargetIsNotHeld'
  BY DEF IInv, TypeOK, TargetIsInPlace, TargetIsNotHeld, TargetIsKnown,
       Unclaim, StepBack, Go, files, Reclaiming
<1>6. ServingIsAdvertised'
  BY DEF IInv, TypeOK, ServingIsAdvertised, Unclaim, StepBack, Go, files
<1>. QED BY <1>1, <1>2, <1>3, <1>4, <1>5, <1>6 DEF IInv

\* A start that gives up holds nothing.
LEMMA RetryKeeps == ASSUME IInv, NEW p \in Process, Retry(p) PROVE IInv'
<1>1. TypeOK'
  BY DEF IInv, TypeOK, Retry, Go, files, Running, Reclaiming, Stage
<1>2. PidsAreLive' /\ PidsAreUnique'
  BY DEF IInv, TypeOK, PidsAreLive, PidsAreUnique, Retry, Go, files, Live,
       Running, Reclaiming
<1>3. LeaseNamesHolder' /\ LeaseStages'
  BY DEF IInv, TypeOK, LeaseNamesHolder, LeaseStages, Retry, Go, files,
       Releasing
<1>4. TargetIsKnown' /\ ClaimIsHeld' /\ ClaimIsExclusive'
  BY DEF IInv, TypeOK, TargetIsKnown, ClaimIsHeld, ClaimIsExclusive, Retry,
       Go, files, Reclaiming
<1>5. TargetIsInPlace' /\ TargetIsNotHeld'
  BY DEF IInv, TypeOK, TargetIsInPlace, TargetIsNotHeld, Retry, Go, files,
       Reclaiming
<1>6. ServingIsAdvertised'
  BY DEF IInv, TypeOK, ServingIsAdvertised, Retry, Go, files
<1>. QED BY <1>1, <1>2, <1>3, <1>4, <1>5, <1>6 DEF IInv

\* Only the holder advertises.
LEMMA AdvertiseKeeps == ASSUME IInv, NEW p \in Process, Advertise(p) PROVE IInv'
<1>1. TypeOK'
  BY DEF IInv, TypeOK, Advertise, Go, files, Running, Reclaiming, Stage
<1>2. PidsAreLive' /\ PidsAreUnique'
  BY DEF IInv, TypeOK, PidsAreLive, PidsAreUnique, Advertise, Go, files, Live,
       Running, Reclaiming
<1>3. LeaseNamesHolder' /\ LeaseStages'
  BY DEF IInv, TypeOK, LeaseNamesHolder, LeaseStages, Advertise, Go, files,
       Releasing
<1>4. TargetIsKnown' /\ ClaimIsHeld' /\ ClaimIsExclusive'
  BY DEF IInv, TypeOK, TargetIsKnown, ClaimIsHeld, ClaimIsExclusive,
       Advertise, Go, files, Reclaiming
<1>5. TargetIsInPlace' /\ TargetIsNotHeld'
  BY DEF IInv, TypeOK, TargetIsInPlace, TargetIsNotHeld, Advertise, Go, files,
       Reclaiming
<1>6. ServingIsAdvertised'
  BY OneHolder DEF IInv, TypeOK, ServingIsAdvertised, MutualExclusion,
       LeaseStages, Advertise, Go, files
<1>. QED BY <1>1, <1>2, <1>3, <1>4, <1>5, <1>6 DEF IInv

\* Only the holder retracts.
LEMMA RetractKeeps == ASSUME IInv, NEW p \in Process, Retract(p) PROVE IInv'
<1>1. TypeOK'
  BY DEF IInv, TypeOK, Retract, Go, files, Running, Reclaiming, Stage
<1>2. PidsAreLive' /\ PidsAreUnique'
  BY DEF IInv, TypeOK, PidsAreLive, PidsAreUnique, Retract, Go, files, Live,
       Running, Reclaiming
<1>3. LeaseNamesHolder' /\ LeaseStages'
  BY DEF IInv, TypeOK, LeaseNamesHolder, LeaseStages, Retract, Go, files,
       Releasing
<1>4. TargetIsKnown' /\ ClaimIsHeld' /\ ClaimIsExclusive'
  BY DEF IInv, TypeOK, TargetIsKnown, ClaimIsHeld, ClaimIsExclusive, Retract,
       Go, files, Reclaiming
<1>5. TargetIsInPlace' /\ TargetIsNotHeld'
  BY DEF IInv, TypeOK, TargetIsInPlace, TargetIsNotHeld, Retract, Go, files,
       Reclaiming
<1>6. ServingIsAdvertised'
  BY OneHolder DEF IInv, TypeOK, ServingIsAdvertised, MutualExclusion,
       LeaseStages, Retract, Go, files
<1>. QED BY <1>1, <1>2, <1>3, <1>4, <1>5, <1>6 DEF IInv

\* The holder turns to its own record.
LEMMA LeaveKeeps == ASSUME IInv, NEW p \in Process, Leave(p) PROVE IInv'
<1>1. TypeOK'
  BY DEF IInv, TypeOK, Leave, Go, files, Running, Reclaiming, Stage
<1>2. PidsAreLive' /\ PidsAreUnique'
  BY DEF IInv, TypeOK, PidsAreLive, PidsAreUnique, Leave, Go, files, Live,
       Running, Reclaiming
<1>3. LeaseNamesHolder' /\ LeaseStages'
  BY DEF IInv, TypeOK, LeaseNamesHolder, LeaseStages, Leave, Go, files,
       Releasing
<1>4. TargetIsKnown' /\ ClaimIsHeld' /\ ClaimIsExclusive'
  BY DEF IInv, TypeOK, TargetIsKnown, ClaimIsHeld, ClaimIsExclusive,
       LeaseStages, Leave, Go, files, Reclaiming
<1>5. TargetIsInPlace' /\ TargetIsNotHeld'
  BY OneHolder DEF IInv, TypeOK, TargetIsInPlace, TargetIsNotHeld,
       MutualExclusion, LeaseStages, Leave, Go, files, Reclaiming
<1>6. ServingIsAdvertised'
  BY OneHolder DEF IInv, TypeOK, ServingIsAdvertised, MutualExclusion,
       LeaseStages, Leave, Go, files
<1>. QED BY <1>1, <1>2, <1>3, <1>4, <1>5, <1>6 DEF IInv

\* A killed process leaves files behind, but no lease.
LEMMA CrashKeeps == ASSUME IInv, NEW p \in Process, Crash(p) PROVE IInv'
<1>1. TypeOK'
  BY DEF IInv, TypeOK, Crash, Go, files, Running, Reclaiming, Stage
<1>2. PidsAreLive' /\ PidsAreUnique'
  BY DEF IInv, TypeOK, PidsAreLive, PidsAreUnique, Crash, Go, files, Live,
       Running, Reclaiming
<1>3. LeaseNamesHolder' /\ LeaseStages'
  BY DEF IInv, TypeOK, LeaseNamesHolder, LeaseStages, Crash, Go, files,
       Releasing
<1>4. TargetIsKnown' /\ ClaimIsHeld' /\ ClaimIsExclusive'
  BY DEF IInv, TypeOK, TargetIsKnown, ClaimIsHeld, ClaimIsExclusive, Crash,
       Go, files, Reclaiming
<1>5. TargetIsInPlace' /\ TargetIsNotHeld'
  BY Records DEF IInv, TypeOK, TargetIsInPlace, TargetIsNotHeld,
       TargetIsKnown, Crash, Go, files, Reclaiming
<1>6. ServingIsAdvertised'
  BY DEF IInv, TypeOK, ServingIsAdvertised, Crash, Go, files
<1>. QED BY <1>1, <1>2, <1>3, <1>4, <1>5, <1>6 DEF IInv

(***************************************************************************)
(* The theorems.                                                           *)
(***************************************************************************)
\* Every step of the system, and every stutter, preserves the invariant.
LEMMA NextKeeps == IInv /\ [Next]_vars => IInv'
<1>. SUFFICES ASSUME IInv, [Next]_vars PROVE IInv'
  OBVIOUS
<1>1. CASE UNCHANGED vars
  BY <1>1 DEF vars, files, IInv, TypeOK, PidsAreLive, PidsAreUnique, LeaseNamesHolder,
     LeaseStages, TargetIsKnown, ClaimIsHeld, ClaimIsExclusive, TargetIsInPlace,
     TargetIsNotHeld, ServingIsAdvertised, Live
<1>2. ASSUME NEW p \in Process, Work(p) PROVE IInv'
  BY <1>2, FirstPublishKeeps, ReadOwnerKeeps, ProbeKeeps, ClaimKeeps, VerifyKeeps,
     CompareKeeps, RemoveKeeps, UnclaimKeeps, SecondPublishKeeps, RetryKeeps,
     AdvertiseKeeps DEF Work
<1>. QED
  BY <1>1, <1>2, StartKeeps, RetractKeeps, LeaveKeeps, CrashKeeps DEF Next

\* The inductive invariant holds in every state of every behaviour.
THEOREM Invariance == Spec => []IInv
BY InitIInv, NextKeeps, PTL DEF Spec

\* Every variable keeps to its kind.
THEOREM TypeCorrectness == Spec => []TypeOK
<1>1. IInv => TypeOK
  BY DEF IInv
<1>. QED BY <1>1, Invariance, PTL

\* However many starters race, whichever pids come back and wherever processes
\* are killed, at most one process owns the state root.
THEOREM AtMostOneOwner == Spec => []MutualExclusion
BY OneHolder, Invariance, PTL

\* The record of an owner is never removed or overwritten by another process.
THEOREM LeaseStaysOnRecord == Spec => []LeaseIsOnRecord
<1>1. IInv => LeaseIsOnRecord
  BY DEF IInv, LeaseNamesHolder, LeaseIsOnRecord
<1>. QED BY <1>1, Invariance, PTL

\* A serving backend stays the one the endpoint file names.
THEOREM EndpointStays == Spec => []ServingIsAdvertised
<1>1. IInv => ServingIsAdvertised
  BY DEF IInv
<1>. QED BY <1>1, Invariance, PTL

\* Removal of one record is exclusive.
THEOREM ReclaimsAreExclusive == Spec => []OneReclaimerPerRecord
BY OneReclaimer, Invariance, PTL
==============================================================================
