----------------------------- MODULE ReleaseProofs -----------------------------
(***************************************************************************)
(* Safety of the tools around the build.                                   *)
(*                                                                         *)
(* Staging and certifying the packages, for any list of workspaces and any *)
(* number of runs and faults: where a workspace's directories are follows  *)
(* from how far the transaction got (ForwardOK), the rollback finds them   *)
(* as its phase says (RollbackOK), and hence a transaction that is over    *)
(* has left the old output or the new one (StagedOK).  A certification     *)
(* knows of every workspace it touched what to put back (CertifyOK).       *)
(*                                                                         *)
(* Binary certification, for any number of parts and mishaps: the cleanup  *)
(* has lost sight of nothing.  Until the guardian's job was reported the   *)
(* guardian is frozen before its children are looked for, so that none is  *)
(* found late; whoever knows of the group looks at it again at the end     *)
(* (SmokeInv).                                                             *)
(*                                                                         *)
(* The lint rule, for files of any length: every result of the sort        *)
(* respects the edges it was given (Respects), and an order that the rule  *)
(* may ask for is found statement by statement (NextIsFound); a comment    *)
(* moves with the statement it belongs to (RelocatedFacts).                *)
(***************************************************************************)
EXTENDS MCRelease, FiniteSetTheorems, TLAPS

Transactional == Packages!Transactional(at)
Here == disk[at]

\* Before anything is done in a workspace ...
UntouchedOK ==
    pc \in {"lookup", "prepare"} => Here = found /\ ~failed /\ ~untidy

\* ... where its directories are while the transaction goes on ...
ForwardOK ==
    pc \in Packages!Transaction \cup {"tidy"} =>
        /\ Transactional /\ ~failed /\ ~untidy
        /\ pc # "exists" => (hadTarget <=> found.target # Absent)
        /\ pc \in {"exists", "clean"} => Here = found /\ phase = "initial"
        /\ pc \in {"mkdir", "copy", "write", "backup"} =>
              Here.target = found.target /\ Here.previous = Absent /\ phase = "stale-cleaned"
        /\ pc = "backup" => hadTarget /\ Here.next = runs
        /\ pc = "promote" =>
              /\ Here.target = Absent /\ Here.next = runs /\ Here.previous = found.target
              /\ phase = IF hadTarget THEN "backed-up" ELSE "stale-cleaned"
        /\ pc \in {"confirm", "tidy"} =>
              /\ Here.target = runs /\ Here.next = Absent /\ Here.previous = found.target
              /\ phase = IF pc = "confirm" THEN "promoting" ELSE "promoted"

\* ... where the rollback finds them ...
UndoOK ==
    pc = "undo" =>
        /\ phase # "initial" => (hadTarget <=> found.target # Absent)
        /\ phase = "initial" =>
              Here.target = found.target /\ Here.previous \in Packages!Left(found.previous)
        /\ phase = "stale-cleaned" => Here.target = found.target /\ Here.previous = Absent
        /\ phase = "backing-up" =>
              \/ Here.target = found.target /\ Here.previous = Absent
              \/ Here.target = Absent /\ Here.previous = found.target
        /\ phase \in {"backing-up", "backed-up"} => hadTarget
        /\ phase \in {"backed-up", "promoting"} => Here.previous = found.target
        /\ phase # "promoted"

RollbackOK ==
    /\ pc \in {"undo", "drop", "restore", "sweep"} => Transactional /\ failed
    /\ UndoOK
    /\ pc = "drop" =>
          IF restores THEN Here.previous = found.target
          ELSE found.target = Absent /\ Here.previous = Absent
    /\ pc = "restore" => restores /\ Here.previous = found.target
    /\ pc = "sweep" /\ ~untidy =>
          Here.target = found.target /\ Here.previous \in Packages!Left(found.previous)

\* ... and where the stage leaves them.
StagedOK ==
    /\ pc \in Packages!InPlace => ~Transactional /\ ~failed /\ ~untidy
    /\ Packages!StageIsAtomic
    /\ pc = "staged" /\ ~failed /\ ~untidy => Here.target = runs
    /\ pc = "pack" => ~failed /\ ~untidy /\ Here.target = runs

\* A certification goes on only over what it has cleaned up.
CertifyOK ==
    job = "certify" =>
        /\ pc # "idle" =>
              /\ \A i \in 1 .. at - 1 : disk[i] = Packages!Nothing
              /\ pc # "lookup" => found = Packages!Nothing
              /\ ~failed => \A i \in 1 .. at - 1 : packed[i] = runs
        /\ pc \in {"inspect", "cleanup", "consume"} /\ ~failed => packed[at] = runs
        /\ pc = "consume" => at = Len(Workspaces) /\ ~failed /\ ~untidy /\ Here = found

Boxes == [target : Packages!Directories, next : Packages!Directories,
          previous : Packages!Directories]

ReleaseTypes ==
    /\ disk \in [Packages!Index -> Boxes] /\ found \in Boxes
    /\ packed \in [Packages!Index -> Packages!Directories]
    /\ runs \in 0 .. MaxRuns /\ at \in Packages!Index /\ phase \in Packages!Phases

ReleaseInv ==
    /\ ReleaseTypes
    /\ UntouchedOK /\ ForwardOK /\ RollbackOK /\ StagedOK /\ CertifyOK
    /\ CertificationIsClean

Gone == guardian \in {"none", "exited"}

\* The guardian is ended without a look at the group behind it.
EndsGuardian == {"termGuardian", "probeTerm", "killGuardian", "probeKill", "reap"}

KnownOK ==
    /\ step = "release" => evidence
    /\ step \in {"term", "lookTerm", "kill", "lookKill"} => Binaries!Known \/ part # 1
    /\ part # 1 => Gone

FrozenOK ==
    tidy =>
        /\ step = "discover" => guardian # "running"
        /\ step \in EndsGuardian /\ ~Binaries!Known => guardian # "running" /\ group = {}

EndOK ==
    /\ step \in {"spawn", "serve"} => Gone /\ group = {} /\ ~artifacts
    /\ tidy =>
        /\ step \in {"lookReap", "lookArtifacts", "verdict", "over"} => Gone
        /\ step \in {"lookArtifacts", "verdict", "over"} => group = {}
        /\ step \in {"verdict", "over"} => ~artifacts

SmokeInv ==
    /\ part \in Nat \ {0} /\ (step = "spawn" => part = 1)
    /\ KnownOK /\ FrozenOK /\ EndOK

-----------------------------------------------------------------------------
(* Binary certification. *)

LEMMA InitSmokeInv == Binaries!SmokeInit => SmokeInv
BY DEF Binaries!SmokeInit, Binaries!Fresh, SmokeInv, KnownOK, FrozenOK, EndOK, Gone, EndsGuardian

\* The processes: none starts once the guardian cannot start it.
LEMMA ProcessesKeep ==
    ASSUME SmokeInv, Binaries!Processes
    PROVE  SmokeInv'
<1>1. /\ UNCHANGED <<part, step, evidence, discovered, released, broken, tidy>>
      /\ guardian = "running" \/ UNCHANGED guardian
      /\ guardian' \in {"stopped", guardian}
      /\ guardian # "running" /\ group = {} => group' = {} /\ (~artifacts => ~artifacts')
  BY DEF Binaries!Processes, Binaries!StartJob, Binaries!Report, Binaries!StopSelf,
         Binaries!SpawnBackend, Binaries!Advertise, Binaries!CommandEnds, Binaries!BackendEnds,
         Binaries!Coordinator, Binaries!known
<1>. QED
  BY <1>1 DEF SmokeInv, KnownOK, FrozenOK, EndOK, Gone, EndsGuardian, Binaries!Known

\* The body of a part.
LEMMA BodyKeeps ==
    ASSUME SmokeInv, Binaries!Does \/ Binaries!BodyFails \/ Binaries!SpawnFails
    PROVE  SmokeInv'
<1>. USE DEF SmokeInv, KnownOK, FrozenOK, EndOK, Gone, EndsGuardian, Binaries!Known,
             Binaries!Guarded, Binaries!CleanupStarts, Binaries!Goes, Binaries!world,
             Binaries!known
<1>1. CASE Binaries!BodyFails
  BY <1>1 DEF Binaries!BodyFails, Binaries!Body
<1>2. CASE Binaries!SpawnFails
  BY <1>2 DEF Binaries!SpawnFails
<1>3. CASE Binaries!SpawnGuardian
  BY <1>3 DEF Binaries!SpawnGuardian, Binaries!Then
<1>4. CASE Binaries!StoppedEvidence
  BY <1>4 DEF Binaries!StoppedEvidence, Binaries!Then
<1>5. CASE Binaries!Acknowledge
  BY <1>5 DEF Binaries!Acknowledge, Binaries!Then
<1>6. CASE Binaries!EndpointPublication \/ Binaries!ObserveDeparture
  BY <1>6 DEF Binaries!EndpointPublication, Binaries!ObserveDeparture, Binaries!Then
<1>7. CASE Binaries!ReleaseGuardian
  BY <1>7 DEF Binaries!ReleaseGuardian, Binaries!Then, Binaries!Continued
<1>8. CASE Binaries!Join
  BY <1>8 DEF Binaries!Join, Binaries!Then
<1>9. CASE Binaries!Serve
  BY <1>9 DEF Binaries!Serve, Binaries!Then
<1>10. CASE Binaries!AwaitEndpoint \/ Binaries!RunCommand
  BY <1>10 DEF Binaries!AwaitEndpoint, Binaries!RunCommand, Binaries!Then
<1>11. CASE Binaries!WaitForExit
  BY <1>11 DEF Binaries!WaitForExit, Binaries!Then
<1>. QED
  BY <1>1, <1>2, <1>3, <1>4, <1>5, <1>6, <1>7, <1>8, <1>9, <1>10, <1>11 DEF Binaries!Does

\* What a look found out is part of the outcome.
LEMMA LookOutcomes ==
    /\ Binaries!ProbeTerm =>
          /\ UNCHANGED <<part, guardian, group, artifacts, evidence, discovered>>
          /\ step = "probeTerm" /\ step' \in {"killGuardian", "reap"}
          /\ tidy' => tidy
    /\ Binaries!ProbeKill =>
          /\ UNCHANGED <<part, guardian, group, artifacts, evidence, discovered>>
          /\ step = "probeKill" /\ step' = "reap"
          /\ tidy' => tidy
    /\ Binaries!Reap =>
          /\ UNCHANGED <<part, guardian, group, artifacts, evidence, discovered>>
          /\ step = "reap" /\ step' = IF Binaries!Known THEN "lookReap" ELSE "lookArtifacts"
          /\ tidy' => tidy /\ guardian = "exited"
    /\ Binaries!LookReap =>
          /\ UNCHANGED <<part, guardian, group, artifacts, evidence, discovered>>
          /\ step = "lookReap" /\ step' = "lookArtifacts"
          /\ tidy' => tidy /\ group = {}
    /\ Binaries!LookArtifacts =>
          /\ UNCHANGED <<part, guardian, group, artifacts, evidence, discovered>>
          /\ step = "lookArtifacts" /\ step' = "verdict"
          /\ tidy' => tidy /\ ~artifacts
    /\ Binaries!Discover =>
          /\ UNCHANGED <<part, guardian, group, artifacts, evidence>>
          /\ step = "discover" /\ step' \in {"term", "termGuardian"}
          /\ step' = "term" => discovered'
          /\ tidy' => tidy /\ (~discovered' => group = {})
<1>. USE DEF Binaries!Look, Binaries!Goes, Binaries!KeepBody, Binaries!GuardianLives
<1>1. ASSUME Binaries!ProbeTerm
      PROVE  /\ UNCHANGED <<part, guardian, group, artifacts, evidence, discovered>>
             /\ step = "probeTerm" /\ step' \in {"killGuardian", "reap"}
             /\ tidy' => tidy
  <2>1. UNCHANGED <<part, guardian, group, artifacts, evidence, discovered>>
    BY <1>1 DEF Binaries!ProbeTerm, Binaries!world, Binaries!known
  <2>2. step = "probeTerm" /\ step' \in {"killGuardian", "reap"}
    BY <1>1 DEF Binaries!ProbeTerm
  <2>4. tidy' => tidy
    BY <1>1, Zenon DEF Binaries!ProbeTerm
  <2>. QED BY <2>1, <2>2, <2>4
<1>2. ASSUME Binaries!ProbeKill
      PROVE  /\ UNCHANGED <<part, guardian, group, artifacts, evidence, discovered>>
             /\ step = "probeKill" /\ step' = "reap"
             /\ tidy' => tidy
  <2>1. UNCHANGED <<part, guardian, group, artifacts, evidence, discovered>>
    BY <1>2 DEF Binaries!ProbeKill, Binaries!world, Binaries!known
  <2>2. step = "probeKill" /\ step' = "reap"
    BY <1>2 DEF Binaries!ProbeKill
  <2>4. tidy' => tidy
    BY <1>2, Zenon DEF Binaries!ProbeKill
  <2>. QED BY <2>1, <2>2, <2>4
<1>3. ASSUME Binaries!Reap
      PROVE  /\ UNCHANGED <<part, guardian, group, artifacts, evidence, discovered>>
             /\ step = "reap" /\ step' = IF Binaries!Known THEN "lookReap" ELSE "lookArtifacts"
             /\ tidy' => tidy /\ guardian = "exited"
  <2>1. UNCHANGED <<part, guardian, group, artifacts, evidence, discovered>>
    BY <1>3 DEF Binaries!Reap, Binaries!world, Binaries!known
  <2>2. step = "reap" /\ step' = IF Binaries!Known THEN "lookReap" ELSE "lookArtifacts"
    BY <1>3 DEF Binaries!Reap
  <2>4. tidy' => tidy /\ guardian = "exited"
    BY <1>3, Zenon DEF Binaries!Reap
  <2>. QED BY <2>1, <2>2, <2>4
<1>4. ASSUME Binaries!LookReap
      PROVE  /\ UNCHANGED <<part, guardian, group, artifacts, evidence, discovered>>
             /\ step = "lookReap" /\ step' = "lookArtifacts"
             /\ tidy' => tidy /\ group = {}
  <2>1. UNCHANGED <<part, guardian, group, artifacts, evidence, discovered>>
    BY <1>4 DEF Binaries!LookReap, Binaries!world, Binaries!known
  <2>2. step = "lookReap" /\ step' = "lookArtifacts"
    BY <1>4 DEF Binaries!LookReap
  <2>4. tidy' => tidy /\ group = {}
    BY <1>4, Zenon DEF Binaries!LookReap
  <2>. QED BY <2>1, <2>2, <2>4
<1>5. ASSUME Binaries!LookArtifacts
      PROVE  /\ UNCHANGED <<part, guardian, group, artifacts, evidence, discovered>>
             /\ step = "lookArtifacts" /\ step' = "verdict"
             /\ tidy' => tidy /\ ~artifacts
  <2>1. UNCHANGED <<part, guardian, group, artifacts, evidence, discovered>>
    BY <1>5 DEF Binaries!LookArtifacts, Binaries!world, Binaries!known
  <2>2. step = "lookArtifacts" /\ step' = "verdict"
    BY <1>5 DEF Binaries!LookArtifacts
  <2>4. tidy' => tidy /\ ~artifacts
    BY <1>5, Zenon DEF Binaries!LookArtifacts
  <2>. QED BY <2>1, <2>2, <2>4
<1>6. ASSUME Binaries!Discover
      PROVE  /\ UNCHANGED <<part, guardian, group, artifacts, evidence>>
             /\ step = "discover" /\ step' \in {"term", "termGuardian"}
             /\ step' = "term" => discovered'
             /\ tidy' => tidy /\ (~discovered' => group = {})
  <2>1. UNCHANGED <<part, guardian, group, artifacts, evidence>>
    BY <1>6 DEF Binaries!Discover, Binaries!world, Binaries!known
  <2>2. step = "discover" /\ step' \in {"term", "termGuardian"}
    BY <1>6 DEF Binaries!Discover
  <2>3. step' = "term" => discovered'
    BY <1>6 DEF Binaries!Discover
  <2>4. tidy' => tidy /\ (~discovered' => group = {})
    BY <1>6, Zenon DEF Binaries!Discover
  <2>. QED BY <2>1, <2>2, <2>3, <2>4
<1>. QED BY <1>1, <1>2, <1>3, <1>4, <1>5, <1>6

\* The cleanup of the part with the guardian.
LEMMA GuardianCleanupKeeps ==
    ASSUME SmokeInv, Binaries!CleanupGuardianOwnership
    PROVE  SmokeInv'
<1>. USE DEF SmokeInv, KnownOK, FrozenOK, EndOK, Gone, EndsGuardian, Binaries!Known,
             Binaries!Guarded, Binaries!Goes, Binaries!KeepBody, Binaries!world, Binaries!known
<1>0. part = 1
  BY DEF Binaries!CleanupGuardianOwnership
<1>1. CASE Binaries!Freeze
  BY <1>0, <1>1 DEF Binaries!Freeze, Binaries!Attempt
<1>2. CASE Binaries!Discover
  BY <1>0, <1>2, LookOutcomes
<1>3. CASE Binaries!Term
  BY <1>0, <1>3 DEF Binaries!Term, Binaries!Attempt
<1>4. CASE Binaries!LookTerm
  BY <1>0, <1>4 DEF Binaries!LookTerm, Binaries!Look, Binaries!AfterGroup
<1>5. CASE Binaries!KillGroup
  BY <1>0, <1>5 DEF Binaries!KillGroup, Binaries!Attempt
<1>6. CASE Binaries!LookKill
  BY <1>0, <1>6 DEF Binaries!LookKill, Binaries!Look, Binaries!AfterGroup
<1>7. CASE Binaries!TermGuardian
  BY <1>0, <1>7 DEF Binaries!TermGuardian, Binaries!SignalGuardian, Binaries!Attempt
<1>8. CASE Binaries!ProbeTerm
  BY <1>0, <1>8, LookOutcomes
<1>9. CASE Binaries!KillGuardian
  BY <1>0, <1>9 DEF Binaries!KillGuardian, Binaries!SignalGuardian, Binaries!Attempt
<1>10. CASE Binaries!ProbeKill
  BY <1>0, <1>10, LookOutcomes
<1>11. CASE Binaries!ReleaseOnce
  BY <1>0, <1>11 DEF Binaries!ReleaseOnce, Binaries!GuardianLives, Binaries!Continued
<1>12. CASE Binaries!Reap
  BY <1>0, <1>12, LookOutcomes
<1>13. CASE Binaries!LookReap
  BY <1>0, <1>13, LookOutcomes
<1>14. CASE Binaries!LookArtifacts
  BY <1>0, <1>14, LookOutcomes
<1>. QED
  BY <1>1, <1>2, <1>3, <1>4, <1>5, <1>6, <1>7, <1>8, <1>9, <1>10, <1>11, <1>12, <1>13, <1>14
     DEF Binaries!CleanupGuardianOwnership

\* ... and of the others.
LEMMA ServerCleanupKeeps ==
    ASSUME SmokeInv, Binaries!CleanupDirectServer
    PROVE  SmokeInv'
<1>. USE DEF SmokeInv, KnownOK, FrozenOK, EndOK, Gone, EndsGuardian, Binaries!Known,
             Binaries!Guarded, Binaries!Goes, Binaries!KeepBody, Binaries!world, Binaries!known
<1>0. part # 1
  BY DEF Binaries!CleanupDirectServer
<1>1. CASE Binaries!LookFirst
  BY <1>0, <1>1 DEF Binaries!LookFirst, Binaries!Look
<1>2. CASE Binaries!Term
  BY <1>0, <1>2 DEF Binaries!Term, Binaries!Attempt
<1>3. CASE Binaries!LookTerm
  BY <1>0, <1>3 DEF Binaries!LookTerm, Binaries!Look
<1>4. CASE Binaries!KillGroup
  BY <1>0, <1>4 DEF Binaries!KillGroup, Binaries!Attempt
<1>5. CASE Binaries!LookReap
  BY <1>0, <1>5, LookOutcomes
<1>6. CASE Binaries!LookArtifacts
  BY <1>0, <1>6, LookOutcomes
<1>. QED
  BY <1>1, <1>2, <1>3, <1>4, <1>5, <1>6 DEF Binaries!CleanupDirectServer

LEMMA SmokeStepKeeps == SmokeInv /\ [Binaries!SmokeNext]_Binaries!smokeVars => SmokeInv'
<1>. SUFFICES ASSUME SmokeInv, [Binaries!SmokeNext]_Binaries!smokeVars PROVE SmokeInv'
  OBVIOUS
<1>1. CASE Binaries!Verdict
  BY <1>1 DEF Binaries!Verdict, Binaries!Goes, Binaries!world, Binaries!known, Binaries!Known,
              SmokeInv, KnownOK, FrozenOK, EndOK, Gone, EndsGuardian
<1>2. CASE UNCHANGED Binaries!smokeVars
  BY <1>2 DEF Binaries!smokeVars, Binaries!world, Binaries!known, Binaries!Known,
              SmokeInv, KnownOK, FrozenOK, EndOK, Gone, EndsGuardian
<1>. QED
  BY <1>1, <1>2, ProcessesKeep, BodyKeeps, GuardianCleanupKeeps, ServerCleanupKeeps
     DEF Binaries!SmokeNext

\* What the coordinator knows is enough to clean up by.
THEOREM SmokeInvariance == Binaries!SmokeSpec => []SmokeInv
<1>. QED BY InitSmokeInv, SmokeStepKeeps, PTL DEF Binaries!SmokeSpec

\* A part starts on a clean machine, and a certification whose cleanup reports
\* no failure leaves neither a process nor a file behind.
THEOREM CleanupIsComplete == Binaries!SmokeSpec => []NothingSurvives
<1>1. SmokeInv => NothingSurvives
  BY DEF SmokeInv, EndOK, Gone, NothingSurvives, Binaries!NothingSurvives
<1>. QED BY <1>1, SmokeInvariance, PTL

-----------------------------------------------------------------------------
(* Staging and certifying the packages. *)

LEMMA IndexBounds ==
    /\ Len(Workspaces) \in Nat \ {0}
    /\ Packages!Index = 1 .. Len(Workspaces) /\ 1 \in Packages!Index
BY WorkspacesAssumption DEF Packages!Index

LEMMA NothingIsBox ==
    /\ Absent \in Packages!Directories /\ Half \in Packages!Directories
    /\ Packages!Nothing \in Boxes
BY DEF Packages!Directories, Packages!Nothing, Boxes

\* What an operation puts into the workspace at work changes no other.
LEMMA PutsThere ==
    ASSUME ReleaseTypes, NEW d \in Boxes, Packages!Puts(d), UNCHANGED at
    PROVE  /\ disk' \in [Packages!Index -> Boxes] /\ Here' = d
           /\ \A i \in Packages!Index : i # at => disk'[i] = disk[i]
BY DEF ReleaseTypes, Packages!Puts, Here

\* What is between the lookup and the end of the stage.
Staging == {"prepare", "undo", "drop", "restore", "sweep", "tidy", "staged"}
           \cup Packages!Transaction \cup Packages!InPlace

\* While a workspace is staged the certification of the others stands.
LEMMA StagingKeeps ==
    ASSUME ReleaseInv, Packages!KeepRun, UNCHANGED packed,
           \A i \in Packages!Index : i # at => disk'[i] = disk[i],
           pc \in Staging, pc' \in Staging, failed => failed'
    PROVE  CertifyOK' /\ CertificationIsClean'
<1>1. /\ at \in Packages!Index /\ Packages!Index = 1 .. Len(Workspaces)
      /\ Len(Workspaces) \in Nat
  BY IndexBounds DEF ReleaseInv, ReleaseTypes
<1>2. /\ UNCHANGED <<runs, job, at, found, packed>>
      /\ pc # "idle" /\ pc # "lookup" /\ pc' # "idle" /\ pc' # "lookup"
      /\ pc' \notin {"inspect", "cleanup", "consume"}
  BY DEF Packages!KeepRun, Staging, Packages!Transaction, Packages!InPlace
<1>3. \A i \in 1 .. at - 1 : disk'[i] = disk[i]
  BY <1>1
<1>. QED
  BY <1>2, <1>3 DEF ReleaseInv, CertifyOK, CertificationIsClean, Packages!CertificationIsClean,
     Packages!PackedIsWhole, Packages!CertificationLeavesNoTrace

LEMMA InitReleaseInv == Packages!ReleaseInit \/ PackagesAtRest => ReleaseInv
<1>. SUFFICES ASSUME Packages!ReleaseInit \/ PackagesAtRest PROVE ReleaseInv
  OBVIOUS
<1>1. [Packages!Nothing EXCEPT !.target = 0] \in Boxes
  BY BoundsAssumption, NothingIsBox DEF Packages!Nothing, Boxes, Packages!Directories
<1>2. /\ ReleaseTypes
      /\ pc = "idle" /\ job = "none" /\ packed = [i \in Packages!Index |-> Absent]
  <2>1. 0 \in 0 .. MaxRuns
    BY BoundsAssumption
  <2>2. CASE Packages!ReleaseInit
    BY <1>1, <2>1, <2>2, IndexBounds, NothingIsBox
       DEF Packages!ReleaseInit, ReleaseTypes, Packages!Phases
  <2>3. CASE PackagesAtRest
    BY <2>1, <2>3, IndexBounds, NothingIsBox DEF PackagesAtRest, ReleaseTypes, Packages!Phases
  <2>. QED BY <2>2, <2>3
<1>. QED
  BY <1>2 DEF ReleaseInv, UntouchedOK, ForwardOK, RollbackOK, UndoOK, StagedOK, CertifyOK,
     CertificationIsClean, Packages!CertificationIsClean, Packages!PackedIsWhole,
     Packages!CertificationLeavesNoTrace, Packages!StageIsAtomic, Packages!Transaction,
     Packages!InPlace

StageOK == UntouchedOK /\ ForwardOK /\ RollbackOK /\ StagedOK

\* Before the transaction.
LEMMA PrepareKeeps ==
    ASSUME ReleaseInv, Packages!Prepare \/ Packages!PrepareFails
    PROVE  ReleaseTypes' /\ StageOK' /\ CertifyOK' /\ CertificationIsClean'
<1>1. /\ UNCHANGED <<disk, runs, job, at, found, packed, untidy>> /\ pc = "prepare"
      /\ pc' \in {"exists", "make", "staged"} /\ (failed => failed')
      /\ pc' = "exists" => Transactional /\ phase' = "initial" /\ UNCHANGED failed
      /\ pc' = "make" => ~Transactional /\ UNCHANGED failed
      /\ pc' = "staged" => failed'
      /\ phase' \in {phase, "initial"}
  BY DEF Packages!Prepare, Packages!PrepareFails, Packages!KeepRun, Packages!Goes,
         Packages!stageVars, Transactional
<1>2. ReleaseTypes'
  BY <1>1 DEF ReleaseInv, ReleaseTypes, Packages!Phases
<1>3. Here = found /\ ~failed /\ ~untidy /\ Here.previous \in Packages!Left(found.previous)
  BY <1>1 DEF ReleaseInv, UntouchedOK, Packages!Left
<1>4. StageOK'
  BY <1>1, <1>3 DEF StageOK, UntouchedOK, ForwardOK, RollbackOK, UndoOK, StagedOK, Here,
     Transactional, Packages!Transactional, Packages!StageIsAtomic, Packages!Transaction,
     Packages!InPlace, Packages!Left
<1>5. CertifyOK' /\ CertificationIsClean'
  BY <1>1, StagingKeeps DEF Packages!KeepRun, Staging, Packages!Transaction, Packages!InPlace
<1>. QED BY <1>2, <1>4, <1>5

\* A step of the transaction ...
LEMMA StepKeeps ==
    ASSUME ReleaseInv, Packages!Step
    PROVE  ReleaseTypes' /\ StageOK' /\ CertifyOK' /\ CertificationIsClean'
<1>. DEFINE d == Packages!Done(pc, Here)
<1>1. /\ UNCHANGED <<runs, job, at, found, packed, failed, untidy>>
      /\ pc \in Packages!Transaction
      /\ pc' = IF pc = "write" /\ ~hadTarget THEN "promote" ELSE Packages!After[pc]
      /\ phase' = CASE pc = "clean"   -> "stale-cleaned"
                    [] pc = "backup"  -> "backed-up"
                    [] pc = "promote" -> "promoting"
                    [] pc = "confirm" -> "promoted"
                    [] OTHER -> phase
      /\ Packages!Puts(d)
  BY DEF Packages!Step, Packages!KeepRun, Packages!Goes, Here
<1>2. (pc = "exists" => (hadTarget' <=> Here.target # Absent)) /\ (pc # "exists" => hadTarget' = hadTarget)
  BY DEF Packages!Step, Here
<1>3. Here \in Boxes /\ runs \in Packages!Directories /\ found \in Boxes
  BY DEF ReleaseInv, ReleaseTypes, Here, Packages!Directories
<1>4. d \in Boxes
  BY <1>1, <1>3, NothingIsBox DEF Packages!Done, Boxes, Packages!Transaction
<1>5. /\ disk' \in [Packages!Index -> Boxes] /\ Here' = d
      /\ \A i \in Packages!Index : i # at => disk'[i] = disk[i]
  BY <1>1, <1>4, PutsThere DEF ReleaseInv
<1>6. ReleaseTypes'
  BY <1>1, <1>5 DEF ReleaseInv, ReleaseTypes, Packages!Phases, Packages!Transaction
<1>. DEFINE next == IF pc = "write" /\ ~hadTarget THEN "promote" ELSE Packages!After[pc]
<1>7. /\ Transactional' /\ ~failed' /\ ~untidy'
      /\ pc' \in {"clean", "mkdir", "copy", "write", "backup", "promote", "confirm", "tidy"}
  BY <1>1 DEF ReleaseInv, ForwardOK, Transactional, Packages!Transactional, Packages!After,
     Packages!Transaction
<1>8. ForwardOK'
  <2>1. CASE pc = "exists"
    BY <1>1, <1>2, <1>3, <1>5, <1>7, <2>1 DEF ReleaseInv, ForwardOK, Packages!After, Packages!Done,
       Packages!Transaction
  <2>2. CASE pc = "clean"
    <3>1. Here = found /\ (hadTarget <=> found.target # Absent)
      BY <2>2 DEF ReleaseInv, ForwardOK, Packages!Transaction
    <3>2. Here'.target = Here.target /\ Here'.previous = Absent
      BY <1>3, <1>5, <2>2 DEF Packages!Done, Boxes
    <3>3. /\ pc' = "mkdir" /\ phase' = "stale-cleaned" /\ UNCHANGED <<found, runs>>
          /\ hadTarget' = hadTarget
      BY <1>1, <1>2, <2>2 DEF Packages!After
    <3>. QED BY <1>7, <2>2, <3>1, <3>2, <3>3 DEF ForwardOK
  <2>3. CASE pc \in {"mkdir", "copy"}
    BY <1>1, <1>2, <1>3, <1>5, <1>7, <2>3 DEF ReleaseInv, ForwardOK, Packages!After, Packages!Done,
       Packages!Transaction, Boxes
  <2>4. CASE pc = "write"
    BY <1>1, <1>2, <1>3, <1>5, <1>7, <2>4 DEF ReleaseInv, ForwardOK, Packages!After, Packages!Done,
       Packages!Transaction, Boxes
  <2>5. CASE pc = "backup"
    <3>1. /\ Here.target = found.target /\ Here.next = runs
          /\ hadTarget /\ found.target # Absent
      BY <2>5 DEF ReleaseInv, ForwardOK, Packages!Transaction
    <3>2. /\ Here'.target = Absent /\ Here'.next = Here.next
          /\ Here'.previous = Here.target
      BY <1>3, <1>5, <2>5 DEF Packages!Done, Boxes
    <3>3. /\ pc' = "promote" /\ phase' = "backed-up" /\ UNCHANGED <<found, runs>>
          /\ hadTarget' = hadTarget
      BY <1>1, <1>2, <2>5 DEF Packages!After
    <3>. QED BY <1>7, <2>5, <3>1, <3>2, <3>3 DEF ForwardOK
  <2>6. CASE pc = "promote"
    <3>1. /\ Here.next = runs /\ Here.previous = found.target
          /\ hadTarget <=> found.target # Absent
      BY <2>6 DEF ReleaseInv, ForwardOK, Packages!Transaction
    <3>2. /\ Here'.target = Here.next /\ Here'.next = Absent
          /\ Here'.previous = Here.previous
      BY <1>3, <1>5, <2>6 DEF Packages!Done, Boxes
    <3>3. /\ pc' = "confirm" /\ phase' = "promoting" /\ UNCHANGED <<found, runs>>
          /\ hadTarget' = hadTarget
      BY <1>1, <1>2, <2>6 DEF Packages!After
    <3>. QED BY <1>7, <2>6, <3>1, <3>2, <3>3 DEF ForwardOK
  <2>7. CASE pc = "confirm"
    BY <1>1, <1>2, <1>3, <1>5, <1>7, <2>7 DEF ReleaseInv, ForwardOK, Packages!After, Packages!Done,
       Packages!Transaction, Boxes
  <2>. QED
    BY <1>1, <2>1, <2>2, <2>3, <2>4, <2>5, <2>6, <2>7 DEF Packages!Transaction
<1>9. StageOK'
  BY <1>7, <1>8 DEF StageOK, UntouchedOK, RollbackOK, UndoOK, StagedOK, Packages!StageIsAtomic,
     Packages!InPlace
<1>10. CertifyOK' /\ CertificationIsClean'
  BY <1>1, <1>5, <1>7, StagingKeeps DEF Packages!KeepRun, Staging, Packages!Transaction
<1>. QED BY <1>6, <1>9, <1>10

\* ... one that fails ...
LEMMA StepFailsKeeps ==
    ASSUME ReleaseInv, Packages!StepFails
    PROVE  ReleaseTypes' /\ StageOK' /\ CertifyOK' /\ CertificationIsClean'
<1>1. /\ UNCHANGED <<runs, job, at, found, packed, hadTarget>>
      /\ pc \in Packages!Transaction /\ pc' = "undo" /\ failed'
  BY DEF Packages!StepFails, Packages!KeepRun, Packages!Goes
<1>2. PICK d : /\ Packages!Puts(d)
               /\ \/ d = Here /\ pc = "promote" /\ hadTarget /\ UNCHANGED phase
                  \/ /\ d \in Packages!Undone(pc, Here)
                     /\ phase' = CASE pc = "backup"  -> "backing-up"
                                   [] pc = "promote" -> "promoting"
                                   [] OTHER -> phase
  BY DEF Packages!StepFails, Here
<1>3. /\ Here \in Boxes /\ found \in Boxes /\ runs \in Packages!Directories
      /\ Transactional' /\ at \in Packages!Index
  BY <1>1 DEF ReleaseInv, ReleaseTypes, Here, Packages!Directories, ForwardOK, Transactional,
     Packages!Transactional
<1>4. \/ d = Here
      \/ pc = "clean" /\ d \in Boxes /\ d.target = Here.target
            /\ d.previous \in Packages!Left(Here.previous)
      \/ pc # "clean" /\ d = Packages!Done(pc, Here)
  <2>1. CASE pc = "clean"
    <3>1. \/ d = Here
          \/ \E n \in Packages!Left(Here.next), q \in Packages!Left(Here.previous) :
                d = [target |-> Here.target, next |-> n, previous |-> q]
      BY <1>2, <2>1 DEF Packages!Undone
    <3>2. \A b \in Packages!Directories : Packages!Left(b) \subseteq Packages!Directories
      BY NothingIsBox DEF Packages!Left
    <3>. QED BY <1>3, <2>1, <3>1, <3>2 DEF Boxes
  <2>2. CASE pc # "clean"
    BY <1>2, <2>2 DEF Packages!Undone
  <2>. QED BY <2>1, <2>2
<1>5. Packages!Done(pc, Here) \in Boxes
  BY <1>1, <1>3, NothingIsBox DEF Packages!Done, Boxes, Packages!Transaction
<1>6. d \in Boxes
  BY <1>3, <1>4, <1>5
<1>7. /\ disk' \in [Packages!Index -> Boxes] /\ Here' = d
      /\ \A i \in Packages!Index : i # at => disk'[i] = disk[i]
  BY <1>1, <1>2, <1>6, PutsThere DEF ReleaseInv
<1>8. phase' \in {phase, "backing-up", "promoting"}
  BY <1>2
<1>9. ReleaseTypes'
  BY <1>1, <1>7, <1>8 DEF ReleaseInv, ReleaseTypes, Packages!Phases
<1>10. UndoOK'
  <2>1. CASE pc = "exists"
    <3>1. Here = found /\ phase' = "initial" /\ Here' = Here
      BY <1>1, <1>2, <1>4, <1>7, <2>1 DEF ReleaseInv, ForwardOK, Packages!Done
    <3>. QED BY <1>1, <3>1 DEF UndoOK, Packages!Left
  <2>2. CASE pc = "clean"
    <3>1. Here = found /\ phase' = "initial"
      BY <1>1, <1>2, <2>2 DEF ReleaseInv, ForwardOK
    <3>2. Here'.target = Here.target /\ Here'.previous \in Packages!Left(Here.previous)
      BY <1>4, <1>7, <2>2 DEF Packages!Left
    <3>. QED BY <1>1, <3>1, <3>2 DEF UndoOK
  <2>3. CASE pc \in {"mkdir", "copy", "write"}
    <3>1. /\ Here.target = found.target /\ Here.previous = Absent /\ phase' = "stale-cleaned"
          /\ hadTarget <=> found.target # Absent
      BY <1>1, <1>2, <2>3 DEF ReleaseInv, ForwardOK
    <3>2. Here'.target = Here.target /\ Here'.previous = Here.previous
      BY <1>3, <1>4, <1>7, <2>3 DEF Packages!Done, Boxes
    <3>. QED BY <1>1, <3>1, <3>2 DEF UndoOK
  <2>4. CASE pc = "backup"
    <3>1. /\ Here.target = found.target /\ Here.previous = Absent /\ phase' = "backing-up"
          /\ hadTarget /\ found.target # Absent
      BY <1>1, <1>2, <2>4 DEF ReleaseInv, ForwardOK
    <3>2. \/ Here' = Here
          \/ Here'.target = Absent /\ Here'.previous = Here.target
      BY <1>3, <1>4, <1>7, <2>4 DEF Packages!Done, Boxes
    <3>. QED BY <1>1, <3>1, <3>2 DEF UndoOK
  <2>5. CASE pc = "promote"
    <3>1. /\ Here.target = Absent /\ Here.previous = found.target
          /\ hadTarget <=> found.target # Absent
          /\ phase' = "promoting" \/ (hadTarget /\ phase' = "backed-up")
      BY <1>1, <1>2, <2>5 DEF ReleaseInv, ForwardOK
    <3>2. Here'.previous = Here.previous
      BY <1>3, <1>4, <1>7, <2>5 DEF Packages!Done, Boxes
    <3>. QED BY <1>1, <3>1, <3>2 DEF UndoOK
  <2>6. CASE pc = "confirm"
    <3>1. /\ Here.previous = found.target /\ phase' = "promoting"
          /\ hadTarget <=> found.target # Absent
      BY <1>1, <1>2, <2>6 DEF ReleaseInv, ForwardOK
    <3>2. Here' = Here
      BY <1>4, <1>7, <2>6 DEF Packages!Done
    <3>. QED BY <1>1, <3>1, <3>2 DEF UndoOK
  <2>. QED
    BY <1>1, <2>1, <2>2, <2>3, <2>4, <2>5, <2>6 DEF Packages!Transaction
<1>11. StageOK'
  BY <1>1, <1>3, <1>10 DEF StageOK, UntouchedOK, ForwardOK, RollbackOK, StagedOK,
     Packages!StageIsAtomic, Packages!InPlace, Packages!Transaction
<1>12. CertifyOK' /\ CertificationIsClean'
  BY <1>1, <1>7, StagingKeeps DEF Packages!KeepRun, Staging
<1>. QED BY <1>9, <1>11, <1>12

\* What is to be known of a step of the rollback.
LEMMA RollingBack ==
    ASSUME ReleaseInv, Transactional', failed',
           pc' \in {"drop", "restore", "sweep", "staged"},
           pc' = "drop" => IF restores' THEN Here'.previous = found'.target
                           ELSE found'.target = Absent /\ Here'.previous = Absent,
           pc' = "restore" => restores' /\ Here'.previous = found'.target,
           pc' = "sweep" /\ ~untidy' =>
              /\ Here'.target = found'.target
              /\ Here'.previous \in Packages!Left(found'.previous),
           pc' = "staged" => Packages!StageIsAtomic'
    PROVE  StageOK'
<1>1. /\ pc' \notin Packages!Transaction \cup {"tidy"} /\ pc' \notin Packages!InPlace
      /\ pc' \notin {"lookup", "prepare", "undo", "pack"}
  BY DEF Packages!Transaction, Packages!InPlace
<1>2. UntouchedOK' /\ ForwardOK'
  BY <1>1 DEF UntouchedOK, ForwardOK
<1>3. RollbackOK'
  BY <1>1 DEF RollbackOK, UndoOK, Packages!Left
<1>4. StagedOK'
  BY <1>1 DEF StagedOK, Packages!StageIsAtomic
<1>. QED BY <1>2, <1>3, <1>4 DEF StageOK

\* ... and its rollback: what it looks for, ...
LEMMA LookBackKeeps ==
    ASSUME ReleaseInv, Packages!LookBack \/ Packages!LookBackFails
    PROVE  ReleaseTypes' /\ StageOK' /\ CertifyOK' /\ CertificationIsClean'
<1>1. /\ UNCHANGED <<disk, runs, job, at, found, packed, phase, hadTarget, failed>>
      /\ pc = "undo" /\ pc' \in {"drop", "sweep", "staged"} /\ (pc' = "staged" => untidy')
  BY DEF Packages!LookBack, Packages!LookBackFails, Packages!KeepRun, Packages!Goes,
         Packages!stageVars
<1>2. pc' # "staged" =>
         /\ restores' <=> Packages!MayRestore(Here)
         /\ pc' = "drop" <=> restores' \/ Packages!Drops
  BY DEF Packages!LookBack, Packages!LookBackFails, Packages!Goes, Here
<1>3. ReleaseTypes' /\ Here' = Here /\ Transactional' /\ failed'
  BY <1>1 DEF ReleaseInv, ReleaseTypes, Here, RollbackOK, Transactional, Packages!Transactional
<1>4. UndoOK /\ phase \in Packages!Phases
  BY DEF ReleaseInv, RollbackOK, ReleaseTypes
<1>5. ASSUME pc' = "staged" PROVE StageOK'
  <2>1. Packages!StageIsAtomic'
    BY <1>1, <1>5 DEF Packages!StageIsAtomic
  <2>. QED BY <1>3, <1>5, <2>1, RollingBack
<1>6. ASSUME pc' = "drop" PROVE StageOK'
  <2>1. restores' => Here.previous = found.target
    BY <1>1, <1>2, <1>4, <1>6 DEF Packages!MayRestore, Packages!OwnsPrevious, UndoOK, Packages!Phases
  <2>2. ~restores' => found.target = Absent /\ Here.previous = Absent
    BY <1>1, <1>2, <1>4, <1>6 DEF Packages!Drops, UndoOK, Packages!Phases
  <2>. QED
    BY <1>1, <1>3, <1>6, <2>1, <2>2, RollingBack
<1>7. ASSUME pc' = "sweep" PROVE StageOK'
  <2>1. ~Packages!MayRestore(Here) /\ ~Packages!Drops
    BY <1>1, <1>2, <1>7
  <2>2. Here.target = found.target /\ Here.previous \in Packages!Left(found.previous)
    BY <1>1, <1>4, <2>1 DEF Packages!MayRestore, Packages!OwnsPrevious, Packages!Drops, UndoOK,
       Packages!Phases, Packages!Left
  <2>. QED
    BY <1>1, <1>3, <1>7, <2>2, RollingBack
<1>8. CertifyOK' /\ CertificationIsClean'
  BY <1>1, StagingKeeps DEF Packages!KeepRun, Staging
<1>. QED BY <1>1, <1>3, <1>5, <1>6, <1>7, <1>8

\* ... what it moves ...
LEMMA DropKeeps ==
    ASSUME ReleaseInv, Packages!DropTarget
    PROVE  ReleaseTypes' /\ StageOK' /\ CertifyOK' /\ CertificationIsClean'
<1>1. /\ UNCHANGED <<runs, job, at, found, packed, phase, hadTarget, restores, failed>>
      /\ pc = "drop" /\ pc' \in {"restore", "sweep"} /\ (pc' = "restore" => restores)
  BY DEF Packages!DropTarget, Packages!KeepRun, Packages!Goes, Packages!stageVars
<1>2. PICK t \in Packages!Directories :
         /\ Packages!Puts([Here EXCEPT !.target = t])
         /\ pc' = "sweep" /\ ~untidy' => t = Absent /\ ~restores
  <2>1. Here.target \in Packages!Directories
    BY DEF ReleaseInv, ReleaseTypes, Here, Boxes
  <2>2. Packages!Left(Here.target) \subseteq Packages!Directories
    BY <2>1, NothingIsBox DEF Packages!Left
  <2>. QED BY <2>2, NothingIsBox DEF Packages!DropTarget, Packages!Goes, Here
<1>. DEFINE d == [Here EXCEPT !.target = t]
<1>3. d \in Boxes /\ d.target = t /\ d.previous = Here.previous
  BY DEF ReleaseInv, ReleaseTypes, Here, Boxes
<1>4. /\ disk' \in [Packages!Index -> Boxes] /\ Here' = d
      /\ \A i \in Packages!Index : i # at => disk'[i] = disk[i]
  BY <1>1, <1>2, <1>3, PutsThere DEF ReleaseInv
<1>5. /\ failed' /\ Transactional' /\ ReleaseTypes'
      /\ IF restores THEN Here.previous = found.target
         ELSE found.target = Absent /\ Here.previous = Absent
  BY <1>1, <1>4 DEF ReleaseInv, RollbackOK, ReleaseTypes, Transactional, Packages!Transactional
<1>6. StageOK'
  BY <1>1, <1>2, <1>3, <1>4, <1>5, RollingBack DEF Packages!Left
<1>7. CertifyOK' /\ CertificationIsClean'
  BY <1>1, <1>4, StagingKeeps DEF Packages!KeepRun, Staging
<1>. QED BY <1>5, <1>6, <1>7

LEMMA RestoreKeeps ==
    ASSUME ReleaseInv, Packages!RestoreTarget
    PROVE  ReleaseTypes' /\ StageOK' /\ CertifyOK' /\ CertificationIsClean'
<1>. DEFINE restored == [Here EXCEPT !.target = Here.previous, !.previous = Absent]
<1>1. /\ UNCHANGED <<runs, job, at, found, packed, phase, hadTarget, restores, failed>>
      /\ pc = "restore" /\ pc' = "sweep"
  BY DEF Packages!RestoreTarget, Packages!KeepRun, Packages!Goes, Packages!stageVars
<1>2. PICK d \in {Here, restored} : Packages!Puts(d) /\ (~untidy' => d = restored)
  BY DEF Packages!RestoreTarget, Here
<1>3. /\ d \in Boxes
      /\ restored.target = Here.previous /\ restored.previous = Absent
  BY <1>2, NothingIsBox DEF ReleaseInv, ReleaseTypes, Here, Boxes
<1>4. /\ disk' \in [Packages!Index -> Boxes] /\ Here' = d
      /\ \A i \in Packages!Index : i # at => disk'[i] = disk[i]
  BY <1>1, <1>2, <1>3, PutsThere DEF ReleaseInv
<1>5. failed' /\ Transactional' /\ ReleaseTypes' /\ Here.previous = found.target
  BY <1>1, <1>4 DEF ReleaseInv, RollbackOK, ReleaseTypes, Transactional, Packages!Transactional
<1>6. StageOK'
  BY <1>1, <1>2, <1>3, <1>4, <1>5, RollingBack DEF Packages!Left
<1>7. CertifyOK' /\ CertificationIsClean'
  BY <1>1, <1>4, StagingKeeps DEF Packages!KeepRun, Staging
<1>. QED BY <1>5, <1>6, <1>7

\* ... and what it removes, as the end of a transaction does.
LEMMA RemovesThere ==
    ASSUME ReleaseTypes, UNCHANGED at,
           NEW fields, fields \subseteq {"target", "next", "previous"}, Packages!Removes(fields)
    PROVE  /\ disk' \in [Packages!Index -> Boxes]
           /\ \A i \in Packages!Index : i # at => disk'[i] = disk[i]
           /\ untidy' \/ untidy' = untidy
           /\ ~untidy' =>
                /\ "target" \in fields => Here'.target = Absent
                /\ "next" \in fields => Here'.next = Absent
                /\ "previous" \in fields => Here'.previous = Absent
                /\ "target" \notin fields => Here'.target = Here.target
                /\ "previous" \notin fields => Here'.previous = Here.previous
<1>. DEFINE d == [f \in DOMAIN Here |-> IF f \in fields THEN Absent ELSE Here[f]]
<1>1. Here \in Boxes /\ DOMAIN Here = {"target", "next", "previous"}
  BY DEF ReleaseTypes, Here, Boxes
<1>2. /\ d \in Boxes
      /\ d.target = IF "target" \in fields THEN Absent ELSE Here.target
      /\ d.next = IF "next" \in fields THEN Absent ELSE Here.next
      /\ d.previous = IF "previous" \in fields THEN Absent ELSE Here.previous
  BY <1>1, NothingIsBox DEF Boxes
<1>3. \A e \in [DOMAIN Here -> Packages!Directories] : e \in Boxes
  BY <1>1 DEF Boxes
<1>. HIDE DEF d
<1>4. \/ Packages!Puts(d) /\ UNCHANGED untidy
      \/ untidy' /\ \E e \in [DOMAIN Here -> Packages!Directories] : Packages!Puts(e)
  BY DEF Packages!Removes, Here, d
<1>5. CASE Packages!Puts(d) /\ UNCHANGED untidy
  BY <1>2, <1>5, PutsThere
<1>6. CASE untidy' /\ \E e \in [DOMAIN Here -> Packages!Directories] : Packages!Puts(e)
  BY <1>3, <1>6, PutsThere
<1>. QED BY <1>4, <1>5, <1>6

LEMMA SweepKeeps ==
    ASSUME ReleaseInv, Packages!Sweep
    PROVE  ReleaseTypes' /\ StageOK' /\ CertifyOK' /\ CertificationIsClean'
<1>. DEFINE fields == {"next"} \cup IF restores THEN {"previous"} ELSE {}
<1>1. /\ UNCHANGED <<runs, job, at, found, packed, phase, hadTarget, restores, failed>>
      /\ pc = "sweep" /\ pc' = "staged" /\ Packages!Removes(fields)
  BY DEF Packages!Sweep, Packages!KeepRun, Packages!Goes, Packages!stageVars
<1>2. /\ disk' \in [Packages!Index -> Boxes]
      /\ \A i \in Packages!Index : i # at => disk'[i] = disk[i]
      /\ untidy' \/ untidy' = untidy
      /\ ~untidy' => /\ Here'.next = Absent /\ Here'.target = Here.target
                     /\ Here'.previous \in {Here.previous, Absent}
  BY <1>1, RemovesThere DEF ReleaseInv
<1>3. /\ failed' /\ Transactional' /\ ReleaseTypes'
      /\ ~untidy => Here.target = found.target /\ Here.previous \in Packages!Left(found.previous)
  BY <1>1, <1>2 DEF ReleaseInv, RollbackOK, ReleaseTypes, Transactional, Packages!Transactional
<1>4. Packages!StageIsAtomic'
  BY <1>1, <1>2, <1>3 DEF Packages!StageIsAtomic, Here, Packages!Left
<1>5. StageOK'
  BY <1>1, <1>3, <1>4, RollingBack
<1>6. CertifyOK' /\ CertificationIsClean'
  BY <1>1, <1>2, StagingKeeps DEF Packages!KeepRun, Staging
<1>. QED BY <1>3, <1>5, <1>6

LEMMA TidyKeeps ==
    ASSUME ReleaseInv, Packages!Tidy
    PROVE  ReleaseTypes' /\ StageOK' /\ CertifyOK' /\ CertificationIsClean'
<1>. DEFINE fields == {"next"} \cup IF Packages!OwnsPrevious THEN {"previous"} ELSE {}
<1>1. /\ UNCHANGED <<runs, job, at, found, packed, phase, hadTarget, restores, failed>>
      /\ pc = "tidy" /\ pc' = "staged" /\ Packages!Removes(fields)
  BY DEF Packages!Tidy, Packages!KeepRun, Packages!Goes, Packages!stageVars
<1>2. /\ disk' \in [Packages!Index -> Boxes]
      /\ \A i \in Packages!Index : i # at => disk'[i] = disk[i]
      /\ ~untidy' => /\ Here'.next = Absent /\ Here'.target = Here.target
                     /\ Packages!OwnsPrevious => Here'.previous = Absent
                     /\ ~Packages!OwnsPrevious => Here'.previous = Here.previous
  BY <1>1, RemovesThere DEF ReleaseInv
<1>3. /\ Transactional /\ ~failed /\ Here.target = runs /\ phase = "promoted"
      /\ hadTarget <=> found.target # Absent
      /\ Here.previous = found.target
  BY <1>1 DEF ReleaseInv, ForwardOK
<1>4. ReleaseTypes' /\ ~failed' /\ Transactional' /\ runs' = runs /\ at' = at
  BY <1>1, <1>2, <1>3 DEF ReleaseInv, ReleaseTypes, Transactional, Packages!Transactional
<1>5. ~untidy' => /\ Here'.target = runs /\ Here'.next = Absent /\ Here'.previous = Absent
  BY <1>2, <1>3 DEF Packages!OwnsPrevious
<1>6. ~untidy' => Here' = [Packages!Nothing EXCEPT !.target = runs]
  <2>1. Here' \in Boxes
    BY <1>4 DEF ReleaseTypes, Here
  <2>. QED BY <1>5, <2>1 DEF Boxes, Packages!Nothing
<1>7. StageOK'
  <2>1. Packages!StageIsAtomic'
    BY <1>4, <1>6 DEF Packages!StageIsAtomic, Here
  <2>. QED
    BY <1>1, <1>4, <1>5, <2>1 DEF StageOK, UntouchedOK, ForwardOK, RollbackOK, UndoOK, StagedOK,
       Packages!InPlace, Packages!Transaction
<1>8. CertifyOK' /\ CertificationIsClean'
  BY <1>1, <1>2, <1>3, StagingKeeps DEF Packages!KeepRun, Staging
<1>. QED BY <1>4, <1>7, <1>8

\* A library staged in place.
LEMMA InPlaceKeeps ==
    ASSUME ReleaseInv, Packages!InPlaceStep
    PROVE  ReleaseTypes' /\ StageOK' /\ CertifyOK' /\ CertificationIsClean'
<1>. DEFINE d == [Here EXCEPT !.target = IF pc = "finish" THEN runs ELSE Half]
<1>1. /\ UNCHANGED <<runs, job, at, found, packed, phase, hadTarget, restores, untidy>>
      /\ pc \in Packages!InPlace /\ pc' \in {"fill", "finish", "staged"}
      /\ Packages!Puts(d)
  BY DEF Packages!InPlaceStep, Packages!KeepRun, Packages!Goes, Packages!stageVars, Here,
         Packages!InPlace
<1>2. /\ ~failed /\ ~untidy /\ ~Transactional
  BY <1>1 DEF ReleaseInv, StagedOK
<1>3. failed' \/ (UNCHANGED failed /\ (pc' = "staged" => pc = "finish"))
  BY <1>1 DEF Packages!InPlaceStep, Packages!Goes, Packages!InPlace
<1>4. failed' => pc' = "staged"
  BY <1>2 DEF Packages!InPlaceStep, Packages!Goes
<1>5. d \in Boxes /\ (pc = "finish" => d.target = runs)
  BY NothingIsBox DEF ReleaseInv, ReleaseTypes, Here, Boxes, Packages!Directories
<1>6. /\ disk' \in [Packages!Index -> Boxes] /\ Here' = d
      /\ \A i \in Packages!Index : i # at => disk'[i] = disk[i]
  BY <1>1, <1>5, PutsThere DEF ReleaseInv
<1>7. ReleaseTypes' /\ ~Transactional' /\ ~untidy' /\ (~failed' /\ pc' = "staged" => Here'.target = runs')
  BY <1>1, <1>2, <1>3, <1>5, <1>6
     DEF ReleaseInv, ReleaseTypes, Transactional, Packages!Transactional
<1>8. StageOK'
  <2>1. Packages!StageIsAtomic'
    BY <1>7 DEF Packages!StageIsAtomic, Transactional
  <2>. QED
    BY <1>1, <1>4, <1>7, <2>1 DEF StageOK, UntouchedOK, ForwardOK, RollbackOK, UndoOK, StagedOK,
       Packages!InPlace, Packages!Transaction
<1>9. CertifyOK' /\ CertificationIsClean'
  BY <1>1, <1>2, <1>6, StagingKeeps DEF Packages!KeepRun, Staging, Packages!InPlace
<1>. QED BY <1>7, <1>8, <1>9

-----------------------------------------------------------------------------
(* Runs. *)

\* What neither stages nor is staged is free of the transaction.
LEMMA StageRests ==
    ASSUME pc' \in {"idle", "lookup", "prepare", "pack", "inspect", "cleanup", "consume"},
           UntouchedOK', pc' = "pack" => ~failed' /\ ~untidy' /\ Here'.target = runs'
    PROVE  StageOK'
BY DEF StageOK, ForwardOK, RollbackOK, UndoOK, StagedOK, Packages!StageIsAtomic,
       Packages!InPlace, Packages!Transaction

LEMMA StageEndsKeeps ==
    ASSUME ReleaseInv, Packages!StageEnds
    PROVE  ReleaseTypes' /\ StageOK' /\ CertifyOK' /\ CertificationIsClean'
<1>1. /\ UNCHANGED <<disk, runs, job, at, found, packed, phase, untidy>>
      /\ pc = "staged" /\ pc' \in {"pack", "idle", "cleanup"}
      /\ pc' = "idle" => job = "release"
  BY DEF Packages!StageEnds, Packages!KeepRun, Packages!Goes, Packages!stageVars
<1>2. /\ failed' <=> failed \/ untidy
      /\ pc' = "pack" => ~failed'
      /\ pc' = "cleanup" => failed'
  BY DEF Packages!StageEnds, Packages!Goes
<1>3. ReleaseTypes' /\ Here' = Here
  BY <1>1 DEF ReleaseInv, ReleaseTypes, Here
<1>4. pc' = "pack" => ~failed' /\ ~untidy' /\ Here'.target = runs'
  BY <1>1, <1>2, <1>3 DEF ReleaseInv, StagedOK
<1>5. StageOK'
  BY <1>1, <1>4, StageRests DEF UntouchedOK
<1>6. CertifyOK'
  BY <1>1, <1>2 DEF ReleaseInv, CertifyOK
<1>7. CertificationIsClean'
  BY <1>1 DEF ReleaseInv, CertificationIsClean, Packages!CertificationIsClean,
     Packages!PackedIsWhole, Packages!CertificationLeavesNoTrace
<1>. QED BY <1>3, <1>5, <1>6, <1>7

LEMMA PackKeeps ==
    ASSUME ReleaseInv, Packages!Pack \/ Packages!Inspect \/ Packages!PackFails
    PROVE  ReleaseTypes' /\ StageOK' /\ CertifyOK' /\ CertificationIsClean'
<1>1. /\ UNCHANGED <<disk, runs, job, at, found, phase, untidy>>
      /\ pc \in {"pack", "inspect"} /\ pc' \in {"idle", "inspect", "cleanup"}
      /\ job = "certify" => pc' # "idle"
      /\ failed' \/ UNCHANGED failed
  BY DEF Packages!Pack, Packages!Inspect, Packages!PackFails, Packages!KeepRun, Packages!Goes,
         Packages!stageVars
<1>2. \/ packed' = [packed EXCEPT ![at] = Here.target] /\ pc = "pack"
      \/ packed' = packed /\ (pc = "inspect" \/ failed')
  BY DEF Packages!Pack, Packages!Inspect, Packages!PackFails, Here
<1>3. ReleaseTypes' /\ Here' = Here
  BY <1>1, <1>2 DEF ReleaseInv, ReleaseTypes, Here, Boxes
<1>4. StageOK'
  BY <1>1, StageRests DEF UntouchedOK
<1>5. pc = "pack" => Here.target = runs
  BY DEF ReleaseInv, StagedOK
<1>6. /\ at \in 1 .. Len(Workspaces) /\ Packages!Index = 1 .. Len(Workspaces)
      /\ Len(Workspaces) \in Nat /\ packed \in [Packages!Index -> Packages!Directories]
  BY IndexBounds DEF ReleaseInv, ReleaseTypes
<1>7. /\ \A i \in Packages!Index : packed'[i] \in {Absent, runs}
      /\ \A i \in 1 .. at - 1 : packed'[i] = packed[i]
      /\ job = "certify" /\ ~failed' => packed'[at] = runs
  <2>1. \A i \in Packages!Index : packed[i] \in {Absent, runs}
    BY DEF ReleaseInv, CertificationIsClean, Packages!CertificationIsClean, Packages!PackedIsWhole
  <2>2. job = "certify" /\ pc = "inspect" /\ ~failed => packed[at] = runs
    BY DEF ReleaseInv, CertifyOK
  <2>. QED BY <1>1, <1>2, <1>5, <1>6, <2>1, <2>2
<1>8. CertifyOK'
  BY <1>1, <1>7 DEF ReleaseInv, CertifyOK
<1>9. CertificationIsClean'
  BY <1>1, <1>7 DEF CertificationIsClean, Packages!CertificationIsClean,
     Packages!PackedIsWhole, Packages!CertificationLeavesNoTrace
<1>. QED BY <1>3, <1>4, <1>8, <1>9

LEMMA BeginKeeps ==
    ASSUME ReleaseInv, Packages!Certify \/ \E i \in Packages!Index : Packages!Release(i)
    PROVE  ReleaseTypes' /\ StageOK' /\ CertifyOK' /\ CertificationIsClean'
<1>1. PICK i \in Packages!Index :
         /\ UNCHANGED <<disk, phase>> /\ runs < MaxRuns /\ runs' = runs + 1
         /\ at' = i /\ found' = disk[i] /\ failed' = FALSE /\ untidy' = FALSE
         /\ packed' = [w \in Packages!Index |-> Absent]
         /\ \/ job' = "certify" /\ i = 1 /\ pc' = "lookup"
            \/ job' = "release" /\ pc' = "prepare"
  <2>1. CASE Packages!Certify
    BY <2>1, IndexBounds DEF Packages!Certify, Packages!Begin, Packages!Goes, Packages!stageVars
  <2>2. CASE \E i \in Packages!Index : Packages!Release(i)
    BY <2>2 DEF Packages!Release, Packages!Begin, Packages!Goes, Packages!stageVars
  <2>. QED BY <2>1, <2>2
<1>2. ReleaseTypes' /\ Here' = found' /\ ~failed' /\ ~untidy'
  BY <1>1, BoundsAssumption, NothingIsBox DEF ReleaseInv, ReleaseTypes, Here
<1>3. StageOK'
  BY <1>1, <1>2, StageRests DEF UntouchedOK
<1>4. CertifyOK' /\ CertificationIsClean'
  BY <1>1 DEF CertifyOK, CertificationIsClean, Packages!CertificationIsClean,
     Packages!PackedIsWhole, Packages!CertificationLeavesNoTrace
<1>. QED BY <1>2, <1>3, <1>4

LEMMA LookupKeeps ==
    ASSUME ReleaseInv, Packages!Lookup
    PROVE  ReleaseTypes' /\ StageOK' /\ CertifyOK' /\ CertificationIsClean'
<1>1. /\ UNCHANGED <<disk, runs, job, at, found, packed, phase, untidy>> /\ pc = "lookup"
      /\ \/ Packages!StagePaths(Here) = {Absent} /\ pc' = "prepare" /\ UNCHANGED failed
         \/ pc' = "idle" /\ failed'
  BY DEF Packages!Lookup, Packages!KeepRun, Packages!Goes, Packages!stageVars, Here
<1>2. Here = found /\ ~failed /\ ~untidy /\ Here \in Boxes
  BY <1>1 DEF ReleaseInv, UntouchedOK, ReleaseTypes, Here
<1>3. Packages!StagePaths(Here) = {Absent} => found = Packages!Nothing
  <2>1. ASSUME NEW b \in Boxes, Packages!StagePaths(b) = {Absent}
        PROVE  b = Packages!Nothing
    <3>1. b.target \in Packages!StagePaths(b) /\ b.next \in Packages!StagePaths(b)
          /\ b.previous \in Packages!StagePaths(b)
      BY DEF Packages!StagePaths, Boxes
    <3>. QED BY <2>1, <3>1 DEF Boxes, Packages!Nothing
  <2>. QED BY <1>2, <2>1
<1>4. ReleaseTypes' /\ Here' = Here
  BY <1>1 DEF ReleaseInv, ReleaseTypes, Here
<1>5. StageOK'
  BY <1>1, <1>2, <1>4, StageRests DEF UntouchedOK
<1>6. CertifyOK'
  BY <1>1, <1>2, <1>3 DEF ReleaseInv, CertifyOK
<1>7. CertificationIsClean'
  <2>1. \A i \in Packages!Index : packed[i] \in {Absent, runs}
    BY DEF ReleaseInv, CertificationIsClean, Packages!CertificationIsClean, Packages!PackedIsWhole
  <2>2. job = "certify" => \A i \in 1 .. at - 1 : disk[i] = Packages!Nothing
    BY <1>1 DEF ReleaseInv, CertifyOK
  <2>. QED
    BY <1>1, <1>2, <2>1, <2>2 DEF CertificationIsClean, Packages!CertificationIsClean,
       Packages!PackedIsWhole, Packages!CertificationLeavesNoTrace, Here
<1>. QED BY <1>4, <1>5, <1>6, <1>7

LEMMA CleanupStageKeeps ==
    ASSUME ReleaseInv, Packages!CleanupStage
    PROVE  ReleaseTypes' /\ StageOK' /\ CertifyOK' /\ CertificationIsClean'
<1>1. /\ UNCHANGED <<runs, job, packed, phase>> /\ pc = "cleanup"
      /\ Packages!Removes(DOMAIN Here)
      /\ failed' <=> failed \/ untidy'
      /\ \/ /\ failed' \/ at = Len(Workspaces)
            /\ pc' = IF failed' THEN "idle" ELSE "consume"
            /\ UNCHANGED <<at, found>>
         \/ /\ ~failed' /\ at # Len(Workspaces)
            /\ pc' = "lookup" /\ at' = at + 1 /\ found' = disk[at + 1]
  BY DEF Packages!CleanupStage, Packages!Goes, Packages!stageVars, Here
<1>2. /\ at \in 1 .. Len(Workspaces) /\ Packages!Index = 1 .. Len(Workspaces)
      /\ Len(Workspaces) \in Nat /\ Here \in Boxes
      /\ DOMAIN Here = {"target", "next", "previous"}
  BY IndexBounds DEF ReleaseInv, ReleaseTypes, Here, Boxes
<1>3. /\ disk' \in [Packages!Index -> Boxes]
      /\ \A i \in Packages!Index : i # at => disk'[i] = disk[i]
      /\ ~untidy' => disk'[at] = Packages!Nothing
  <2>. DEFINE d == [f \in DOMAIN Here |-> IF f \in DOMAIN Here THEN Absent ELSE Here[f]]
  <2>1. d \in Boxes /\ d = Packages!Nothing
    BY <1>2, NothingIsBox DEF Boxes, Packages!Nothing
  <2>2. \A e \in [DOMAIN Here -> Packages!Directories] : e \in Boxes
    BY <1>2 DEF Boxes
  <2>. HIDE DEF d
  <2>3. \/ Packages!Puts(d)
        \/ untidy' /\ \E e \in [DOMAIN Here -> Packages!Directories] : Packages!Puts(e)
    BY <1>1 DEF Packages!Removes, Here, d
  <2>4. ASSUME NEW e \in Boxes, Packages!Puts(e)
        PROVE  /\ disk' \in [Packages!Index -> Boxes] /\ disk'[at] = e
               /\ \A i \in Packages!Index : i # at => disk'[i] = disk[i]
    BY <2>4 DEF ReleaseInv, ReleaseTypes, Packages!Puts
  <2>. QED BY <2>1, <2>2, <2>3, <2>4
<1>4. ReleaseTypes'
  BY <1>1, <1>2, <1>3 DEF ReleaseInv, ReleaseTypes
<1>5. pc' = "lookup" => Here' = found' /\ ~failed' /\ ~untidy'
  BY <1>1, <1>2, <1>3 DEF Here
<1>6. StageOK'
  BY <1>1, <1>5, StageRests DEF UntouchedOK
<1>7. job = "certify" =>
         /\ \A i \in 1 .. at - 1 : disk'[i] = Packages!Nothing
         /\ found = Packages!Nothing
         /\ ~failed => \A i \in 1 .. at : packed[i] = runs
  BY <1>1, <1>2, <1>3 DEF ReleaseInv, CertifyOK
<1>8. CertifyOK'
  <2>1. CASE pc' = "idle"
    BY <2>1 DEF CertifyOK
  <2>2. CASE pc' = "consume"
    BY <1>1, <1>2, <1>3, <1>7, <2>2 DEF CertifyOK, Here
  <2>3. CASE pc' = "lookup"
    BY <1>1, <1>2, <1>3, <1>7, <2>3 DEF CertifyOK
  <2>. QED BY <1>1, <2>1, <2>2, <2>3
<1>9. CertificationIsClean'
  <2>1. \A i \in Packages!Index : packed[i] \in {Absent, runs}
    BY DEF ReleaseInv, CertificationIsClean, Packages!CertificationIsClean, Packages!PackedIsWhole
  <2>2. pc' = "idle" => failed' /\ UNCHANGED <<at, found>>
    BY <1>1
  <2>. QED
    BY <1>1, <1>3, <1>7, <2>1, <2>2 DEF CertificationIsClean, Packages!CertificationIsClean,
       Packages!PackedIsWhole, Packages!CertificationLeavesNoTrace
<1>. QED BY <1>4, <1>6, <1>8, <1>9

LEMMA EndsKeep ==
    ASSUME ReleaseInv, Packages!Consume \/ Packages!Kill \/ UNCHANGED Packages!releaseVars
    PROVE  ReleaseInv'
<1>1. CASE Packages!Consume
  <2>1. /\ UNCHANGED <<disk, runs, job, at, found, packed, phase, untidy>>
        /\ pc = "consume" /\ pc' = "idle"
    BY <1>1 DEF Packages!Consume, Packages!KeepRun, Packages!Goes, Packages!stageVars
  <2>2. ReleaseTypes'
    BY <2>1 DEF ReleaseInv, ReleaseTypes
  <2>3. StageOK'
    BY <2>1, StageRests DEF UntouchedOK
  <2>4. CertifyOK'
    BY <2>1 DEF CertifyOK
  <2>5. CertificationIsClean'
    <3>1. \A i \in Packages!Index : packed[i] \in {Absent, runs}
      BY DEF ReleaseInv, CertificationIsClean, Packages!CertificationIsClean, Packages!PackedIsWhole
    <3>2. job = "certify" =>
             /\ Here = found /\ at = Len(Workspaces) /\ ~failed
             /\ \A i \in 1 .. at - 1 : disk[i] = Packages!Nothing /\ packed[i] = runs
             /\ packed[at] = runs
      BY <2>1 DEF ReleaseInv, CertifyOK
    <3>3. job = "certify" => \A i \in Packages!Index : packed[i] = runs
      BY <3>2, IndexBounds
    <3>. QED
      BY <2>1, <3>1, <3>2, <3>3 DEF CertificationIsClean, Packages!CertificationIsClean,
         Packages!PackedIsWhole, Packages!CertificationLeavesNoTrace, Here
  <2>. QED BY <2>2, <2>3, <2>4, <2>5 DEF ReleaseInv, StageOK
<1>2. CASE Packages!Kill
  <2>1. /\ UNCHANGED <<disk, runs, job, at, found, packed, phase>>
        /\ pc' = "idle" /\ untidy' = TRUE /\ failed' = TRUE
    BY <1>2 DEF Packages!Kill, Packages!KeepRun, Packages!stageVars
  <2>2. ReleaseTypes'
    BY <2>1 DEF ReleaseInv, ReleaseTypes
  <2>3. StageOK'
    BY <2>1, StageRests DEF UntouchedOK
  <2>4. CertifyOK'
    BY <2>1 DEF CertifyOK
  <2>5. CertificationIsClean'
    BY <2>1 DEF ReleaseInv, CertificationIsClean, Packages!CertificationIsClean,
       Packages!PackedIsWhole, Packages!CertificationLeavesNoTrace
  <2>. QED BY <2>2, <2>3, <2>4, <2>5 DEF ReleaseInv, StageOK
<1>3. CASE UNCHANGED Packages!releaseVars
  BY <1>3 DEF Packages!releaseVars, Packages!stageVars, ReleaseInv, ReleaseTypes, UntouchedOK,
     ForwardOK, RollbackOK, UndoOK, StagedOK, CertifyOK, CertificationIsClean,
     Packages!CertificationIsClean, Packages!PackedIsWhole, Packages!CertificationLeavesNoTrace,
     Packages!StageIsAtomic, Here, Transactional, Packages!Transactional, Packages!OwnsPrevious
<1>. QED BY <1>1, <1>2, <1>3

LEMMA ReleaseStepKeeps == ReleaseInv /\ [Packages!ReleaseNext]_Packages!releaseVars => ReleaseInv'
<1>. SUFFICES ASSUME ReleaseInv, [Packages!ReleaseNext]_Packages!releaseVars PROVE ReleaseInv'
  OBVIOUS
<1>1. ReleaseTypes' /\ StageOK' /\ CertifyOK' /\ CertificationIsClean' => ReleaseInv'
  BY DEF ReleaseInv, StageOK
<1>. QED
  BY <1>1, PrepareKeeps, StepKeeps, StepFailsKeeps, LookBackKeeps, DropKeeps, RestoreKeeps,
     SweepKeeps, TidyKeeps, InPlaceKeeps, StageEndsKeeps, PackKeeps, BeginKeeps, LookupKeeps,
     CleanupStageKeeps, EndsKeep DEF Packages!ReleaseNext

\* Where the directories of a workspace are at every operation of a run.
THEOREM ReleaseInvariance == Packages!ReleaseSpec => []ReleaseInv
<1>. QED BY InitReleaseInv, ReleaseStepKeeps, PTL DEF Packages!ReleaseSpec

\* A stage is all or nothing, whichever operations of it fail or are killed,
\* unless its rollback failed too.
THEOREM StagesAreAtomic == Packages!ReleaseSpec => []StageIsAtomic
<1>1. ReleaseInv => StageIsAtomic
  BY DEF ReleaseInv, StagedOK, StageIsAtomic
<1>. QED BY <1>1, ReleaseInvariance, PTL

\* Only whole output of the same run is packed, and a certification leaves
\* every workspace as it found it, for any list of workspaces.
THEOREM CertificationsAreClean == Packages!ReleaseSpec => []CertificationIsClean
<1>1. ReleaseInv => CertificationIsClean
  BY DEF ReleaseInv
<1>. QED BY <1>1, ReleaseInvariance, PTL

-----------------------------------------------------------------------------
(* The lint rule. *)

Statements == 1 .. Length

\* The comments of a file are of different looks and in one gap.
CommentsOK(comments) ==
    /\ IsFiniteSet(comments)
    /\ \A c \in comments : /\ c \in [gap : 0 .. Length, look : Order!Looks]
                           /\ c.look = "trailing" => c.gap > 0
                           /\ c.look = "leading" => c.gap < Length
                           /\ c.look = "banner" => c.gap = 0
    /\ \A c, d \in comments : c.gap = d.gap /\ (c.look = d.look => c = d)

\* A file as it was read.
FileOK(f) ==
    /\ f \in [body : {f.body}, kind : [Statements -> DOMAIN Order!Group],
              uses : SUBSET (Statements \X Statements), comments : {f.comments}]
    /\ f.body = [i \in Statements |-> i]
    /\ \A use \in f.uses : use[1] # use[2]
    /\ CommentsOK(f.comments)

\* Every nonempty set of numbers has a least one.
LEMMA Least ==
    ASSUME NEW T \in SUBSET Nat, T # {}
    PROVE  \E n \in T : \A m \in T : n <= m
<1>1. PICK n \in T : \A m \in T : ~(<<m, n>> \in OpToRel(<, Nat))
  BY NatLessThanWellFounded, WFMin
<1>2. \A m \in T : ~(m < n)
  BY <1>1 DEF OpToRel
<1>. QED BY <1>2

LEMMA Groups == \A kind \in DOMAIN Order!Group : Order!Group[kind] \in Nat
BY DEF Order!Group

\* A file lists its statements in order.
LEMMA FileFacts ==
    ASSUME NEW f, FileOK(f)
    PROVE  /\ \A i \in Statements : /\ f.body[i] = i
                                    /\ Order!GroupOf(f, i) \in Nat
                                    /\ Order!Place(f.body, i) = i
           /\ \A a, b \in Statements : Order!Before(f, a, b) <=> a < b
<1>1. \A i \in Statements : f.body[i] = i
  BY DEF FileOK
<1>2. \A i \in Statements : Order!GroupOf(f, i) \in Nat
  BY Groups DEF FileOK, Order!GroupOf
<1>3. \A i \in Statements : Order!Place(f.body, i) = i
  BY <1>1 DEF Order!Place, Order!Ids, Statements
<1>4. \A a, b \in Statements : Order!Before(f, a, b) <=> a < b
  BY <1>1 DEF Order!Before, Order!Ids, Statements
<1>. QED BY <1>1, <1>2, <1>3, <1>4

\* The result after n rounds, given those after fewer.
Round(f, edges, g, n) == IF n = 0 THEN <<>> ELSE Order!Extended(f, edges, g[n - 1])

IsSorted(f, edges, g, m) == g = [n \in 0 .. m |-> Round(f, edges, g, n)]

\* The recursive function of the sort exists.
LEMMA RoundsExist ==
    ASSUME NEW f, NEW edges
    PROVE  \A m \in Nat : \E g : IsSorted(f, edges, g, m)
<1>. DEFINE T == {m \in Nat : ~\E g : IsSorted(f, edges, g, m)}
<1>. SUFFICES ASSUME T # {} PROVE FALSE
  OBVIOUS
<1>1. T \in SUBSET Nat
  OBVIOUS
<1>2. PICK m \in T : \A k \in T : m <= k
  <2>. HIDE DEF T
  <2>. QED BY <1>1, Least
<1>3. m \in Nat /\ ~\E g : IsSorted(f, edges, g, m)
  OBVIOUS
<1>4. CASE m = 0
  <2>. DEFINE g == [n \in 0 .. 0 |-> <<>>]
  <2>1. g = [n \in 0 .. 0 |-> Round(f, edges, g, n)]
    BY DEF Round
  <2>. QED BY <1>3, <1>4, <2>1 DEF IsSorted
<1>5. CASE m # 0
  <2>1. m - 1 \in Nat /\ m - 1 \notin T
    BY <1>2, <1>3, <1>5
  <2>2. PICK h : IsSorted(f, edges, h, m - 1)
    BY <2>1
  <2>. DEFINE g == [n \in 0 .. m |-> IF n = m THEN Round(f, edges, h, m) ELSE h[n]]
  <2>3. \A n \in 0 .. m - 1 : h[n] = Round(f, edges, h, n) /\ g[n] = h[n]
    BY <2>2, <1>3 DEF IsSorted
  <2>4. ASSUME NEW n \in 0 .. m PROVE g[n] = Round(f, edges, g, n)
    <3>1. n # 0 => n - 1 \in 0 .. m - 1 /\ g[n - 1] = h[n - 1]
      BY <1>3, <2>3
    <3>2. Round(f, edges, g, n) = Round(f, edges, h, n)
      <4>. HIDE DEF g
      <4>. QED BY <3>1 DEF Round
    <3>3. n # m => n \in 0 .. m - 1
      BY <1>3
    <3>. QED BY <2>3, <3>2, <3>3
  <2>5. g = [n \in 0 .. m |-> g[n]]
    OBVIOUS
  <2>6. g = [n \in 0 .. m |-> Round(f, edges, g, n)]
    <3>. HIDE DEF g
    <3>. QED BY <2>4, <2>5
  <2>. QED BY <1>3, <2>6 DEF IsSorted
<1>. QED BY <1>4, <1>5

\* The sort, round by round.
LEMMA SortRounds ==
    ASSUME NEW f, NEW edges
    PROVE  \E sorted :
              /\ sorted[0] = <<>>
              /\ \A n \in 1 .. Length : sorted[n] = Order!Extended(f, edges, sorted[n - 1])
              /\ Order!StableTopologicalSort(f, edges) = sorted[Length]
<1>. DEFINE sorted == CHOOSE g : IsSorted(f, edges, g, Length)
<1>1. IsSorted(f, edges, sorted, Length)
  BY RoundsExist, BoundsAssumption
<1>2. Order!StableTopologicalSort(f, edges) = sorted[Length]
  BY DEF Order!StableTopologicalSort, Order!Gaps, IsSorted, Round
<1>. HIDE DEF sorted
<1>3. \A n \in 0 .. Length : sorted[n] = Round(f, edges, sorted, n)
  BY <1>1 DEF IsSorted
<1>4. sorted[0] = <<>>
  BY <1>3, BoundsAssumption DEF Round
<1>5. \A n \in 1 .. Length : sorted[n] = Order!Extended(f, edges, sorted[n - 1])
  <2>. TAKE n \in 1 .. Length
  <2>1. n \in 0 .. Length /\ n # 0
    BY BoundsAssumption
  <2>. QED BY <1>3, <2>1 DEF Round
<1>. QED BY <1>2, <1>4, <1>5

\* Of the statements that are ready, one comes before the others.
LEMMA FirstExists ==
    ASSUME NEW f, FileOK(f), NEW ready \in SUBSET Statements, ready # {}
    PROVE  \E a \in ready : \A b \in ready : Order!Precedes(f, a, b)
<1>. DEFINE groups == {Order!GroupOf(f, id) : id \in ready}
<1>1. groups \in SUBSET Nat /\ groups # {}
  BY FileFacts
<1>2. PICK g \in groups : \A h \in groups : g <= h
  <2>. HIDE DEF groups
  <2>. QED BY <1>1, Least
<1>. DEFINE lowest == {id \in ready : Order!GroupOf(f, id) = g}
<1>3. lowest \in SUBSET Nat /\ lowest # {}
  BY <1>2 DEF Statements
<1>4. PICK a \in lowest : \A b \in lowest : a <= b
  <2>. HIDE DEF lowest
  <2>. QED BY <1>3, Least
<1>5. a \in ready /\ Order!GroupOf(f, a) = g /\ g \in Nat
  BY <1>1, <1>2
<1>6. ASSUME NEW b \in ready PROVE Order!Precedes(f, a, b)
  <2>1. Order!GroupOf(f, b) \in Nat /\ g <= Order!GroupOf(f, b)
    BY <1>1, <1>2
  <2>2. Order!GroupOf(f, b) = g => a <= b
    BY <1>4
  <2>3. Order!Place(f.body, a) = a /\ Order!Place(f.body, b) = b
    BY <1>5, FileFacts
  <2>. QED BY <1>5, <2>1, <2>2, <2>3 DEF Order!Precedes
<1>. QED BY <1>5, <1>6

\* Each statement at most once, and behind everything that comes before it.
Respects(edges, result) ==
    /\ result \in Seq(Statements)
    /\ \A i, j \in 1 .. Len(result) : result[i] = result[j] => i = j
    /\ \A j \in 1 .. Len(result) : \A e \in edges :
          e[2] = result[j] => \E i \in 1 .. j - 1 : result[i] = e[1]

\* What a round adds, if it adds anything.
LEMMA Extension ==
    ASSUME NEW f, FileOK(f), NEW edges, NEW result \in Seq(Statements),
           Order!Ready(edges, result) # {}
    PROVE  \E a \in Order!Ready(edges, result) :
              /\ a \in Statements
              /\ \A b \in Order!Ready(edges, result) : Order!Precedes(f, a, b)
              /\ Order!Extended(f, edges, result) = Append(result, a)
<1>. DEFINE ready == Order!Ready(edges, result)
<1>1. ready \in SUBSET Statements
  BY DEF Order!Ready, Order!Ids, Statements
<1>2. Order!Extended(f, edges, result)
        = Append(result, CHOOSE a \in ready : \A b \in ready : Order!Precedes(f, a, b))
  BY DEF Order!Extended
<1>. HIDE DEF ready
<1>3. PICK a : a = CHOOSE x \in ready : \A b \in ready : Order!Precedes(f, x, b)
  OBVIOUS
<1>4. a \in ready /\ \A b \in ready : Order!Precedes(f, a, b)
  BY <1>1, <1>3, FirstExists DEF ready
<1>. QED BY <1>1, <1>2, <1>3, <1>4 DEF ready

LEMMA ExtendedKeeps ==
    ASSUME NEW f, FileOK(f), NEW edges, NEW result, Respects(edges, result)
    PROVE  Respects(edges, Order!Extended(f, edges, result))
<1>. DEFINE r == Order!Extended(f, edges, result)
<1>1. CASE Order!Ready(edges, result) = {}
  BY <1>1 DEF Order!Extended
<1>2. CASE Order!Ready(edges, result) # {}
  <2>1. result \in Seq(Statements)
    BY DEF Respects
  <2>2. PICK a \in Order!Ready(edges, result) : a \in Statements /\ r = Append(result, a)
    BY <1>2, <2>1, Extension
  <2>3. /\ DOMAIN result = 1 .. Len(result) /\ Len(result) \in Nat
        /\ r \in Seq(Statements) /\ Len(r) = Len(result) + 1
        /\ \A i \in 1 .. Len(result) : r[i] = result[i]
        /\ r[Len(result) + 1] = a
    BY <2>1, <2>2
  <2>4. \A i \in 1 .. Len(result) : result[i] # a
    BY <2>2, <2>3 DEF Order!Ready
  <2>5. \A e \in edges : e[2] = a => \E i \in 1 .. Len(result) : result[i] = e[1]
    BY <2>2, <2>3 DEF Order!Ready
  <2>. HIDE DEF r
  <2>6. ASSUME NEW i \in 1 .. Len(r), NEW j \in 1 .. Len(r), r[i] = r[j] PROVE i = j
    <3>1. /\ i \in 1 .. Len(result) \/ i = Len(result) + 1
          /\ j \in 1 .. Len(result) \/ j = Len(result) + 1
      BY <2>3
    <3>. QED BY <2>3, <2>4, <2>6, <3>1 DEF Respects
  <2>7. ASSUME NEW j \in 1 .. Len(r), NEW e \in edges, e[2] = r[j]
        PROVE  \E i \in 1 .. j - 1 : r[i] = e[1]
    <3>1. CASE j \in 1 .. Len(result)
      <4>1. PICK i \in 1 .. j - 1 : result[i] = e[1]
        BY <2>3, <2>7, <3>1 DEF Respects
      <4>2. i \in 1 .. Len(result)
        BY <2>3, <3>1
      <4>. QED BY <2>3, <4>1, <4>2
    <3>2. CASE j = Len(result) + 1
      <4>1. PICK i \in 1 .. Len(result) : result[i] = e[1]
        BY <2>3, <2>5, <2>7, <3>2
      <4>2. i \in 1 .. j - 1
        BY <2>3, <3>2
      <4>. QED BY <2>3, <4>1, <4>2
    <3>. QED BY <2>3, <3>1, <3>2
  <2>. QED BY <2>3, <2>6, <2>7 DEF Respects, r
<1>. QED BY <1>1, <1>2

LEMMA SortRespects ==
    ASSUME NEW f, FileOK(f), NEW edges
    PROVE  Respects(edges, Order!StableTopologicalSort(f, edges))
<1>1. PICK sorted :
         /\ sorted[0] = <<>>
         /\ \A n \in 1 .. Length : sorted[n] = Order!Extended(f, edges, sorted[n - 1])
         /\ Order!StableTopologicalSort(f, edges) = sorted[Length]
  BY SortRounds
<1>. DEFINE T == {n \in 0 .. Length : ~Respects(edges, sorted[n])}
<1>. SUFFICES ASSUME T # {} PROVE FALSE
  BY <1>1, BoundsAssumption
<1>2. T \in SUBSET Nat
  BY BoundsAssumption
<1>3. PICK n \in T : \A k \in T : n <= k
  <2>. HIDE DEF T
  <2>. QED BY <1>2, Least
<1>4. n \in 0 .. Length /\ ~Respects(edges, sorted[n])
  OBVIOUS
<1>5. CASE n = 0
  <2>1. <<>> \in Seq(Statements) /\ Len(<<>>) = 0
    OBVIOUS
  <2>2. sorted[n] = <<>>
    BY <1>1, <1>5
  <2>. QED BY <1>4, <2>1, <2>2 DEF Respects
<1>6. CASE n # 0
  <2>1. n \in 1 .. Length /\ n - 1 \in 0 .. Length /\ n - 1 \notin T
    BY <1>3, <1>4, <1>6, BoundsAssumption
  <2>2. Respects(edges, sorted[n - 1])
    BY <2>1
  <2>. QED BY <1>1, <1>4, <2>1, <2>2, ExtendedKeeps
<1>. QED BY <1>5, <1>6

\* A result that is not short is all the statements.
LEMMA AllAreSorted ==
    ASSUME NEW result \in [Statements -> Statements],
           \A i, j \in Statements : result[i] = result[j] => i = j
    PROVE  {result[i] : i \in Statements} = Statements
<1>1. IsFiniteSet(Statements)
  BY FS_Interval, BoundsAssumption DEF Statements
<1>2. result \in Injection(Statements, Statements)
  BY DEF Injection, IsInjective
<1>3. result \in Surjection(Statements, Statements)
  BY <1>1, <1>2, FS_Injection
<1>. QED BY <1>3 DEF Surjection

\* A sorted file whose groups are in order is what the rule asks for.
LEMMA SortIsRight ==
    ASSUME NEW f, FileOK(f), NEW result, Respects(Order!BuildEdges(f), result),
           Len(result) = Length, Order!Grouped(f, result)
    PROVE  Order!Expected(f, result) /\ Order!KeepsMeaning(f, result)
<1>1. /\ result \in [Statements -> Statements]
      /\ \A i, j \in Statements : result[i] = result[j] => i = j
  BY DEF Respects, Statements
<1>2. \A i \in Statements : result[i] \in Statements
  BY <1>1
<1>3. ASSUME NEW i \in Statements, NEW j \in Statements, i < j
      PROVE  <<result[j], result[i]>> \notin Order!BuildEdges(f)
  <2>1. SUFFICES ASSUME <<result[j], result[i]>> \in Order!BuildEdges(f) PROVE FALSE
    OBVIOUS
  <2>2. PICK k \in 1 .. i - 1 : result[k] = result[j]
    BY <2>1 DEF Respects, Statements
  <2>3. k \in Statements /\ k < i
    BY DEF Statements
  <2>. QED BY <1>1, <1>3, <2>2, <2>3 DEF Statements
<1>4. ASSUME NEW i \in Statements, NEW j \in Statements, i < j,
             ~Order!Before(f, result[i], result[j])
      PROVE  Order!Before(f, result[j], result[i])
  <2>1. result[i] # result[j] /\ i \in Int /\ j \in Int /\ result[i] \in Int /\ result[j] \in Int
    BY <1>1, <1>4 DEF Statements
  <2>. QED BY <1>2, <1>4, <2>1, FileFacts
<1>5. ASSUME NEW i \in Statements, NEW j \in Statements, i < j
      PROVE  /\ \/ Order!GroupOf(f, result[i]) = Order!GroupOf(f, result[j])
                \/ {f.kind[result[i]], f.kind[result[j]]} \subseteq Order!Runtime
                \/ {f.kind[result[i]], f.kind[result[j]]} \subseteq Order!Requests
                => Order!Before(f, result[i], result[j])
             /\ <<result[j], result[i]>> \notin f.uses
  <2>1. result[i] \in Order!Ids /\ result[j] \in Order!Ids
    BY <1>2 DEF Order!Ids, Statements
  <2>2. <<result[j], result[i]>> \notin Order!BuildEdges(f)
    BY <1>3, <1>5
  <2>3. /\ <<result[j], result[i]>> \notin f.uses
        /\ ~ /\ Order!Before(f, result[j], result[i])
             /\ \/ Order!GroupOf(f, result[j]) = Order!GroupOf(f, result[i])
                \/ {f.kind[result[j]], f.kind[result[i]]} \subseteq Order!Runtime
                \/ {f.kind[result[j]], f.kind[result[i]]} \subseteq Order!Requests
    BY <2>1, <2>2 DEF Order!BuildEdges
  <2>4. \A K : {f.kind[result[j]], f.kind[result[i]]} \subseteq K
                 <=> {f.kind[result[i]], f.kind[result[j]]} \subseteq K
    OBVIOUS
  <2>5. /\ \/ Order!GroupOf(f, result[i]) = Order!GroupOf(f, result[j])
           \/ {f.kind[result[i]], f.kind[result[j]]} \subseteq Order!Runtime
           \/ {f.kind[result[i]], f.kind[result[j]]} \subseteq Order!Requests
        => ~Order!Before(f, result[j], result[i])
    BY <2>3, <2>4
  <2>. QED BY <1>4, <1>5, <2>3, <2>5
<1>6. Order!Expected(f, result)
  <2>1. {result[i] : i \in Statements} = Statements
    BY <1>1, AllAreSorted
  <2>2. Order!Ids = Statements
    BY DEF Order!Ids, Statements
  <2>. QED BY <1>5, <2>1, <2>2 DEF Order!Expected
<1>7. Order!KeepsMeaning(f, result)
  <2>1. Order!Ids = Statements
    BY DEF Order!Ids, Statements
  <2>. QED BY <1>5, <2>1 DEF Order!KeepsMeaning
<1>. QED BY <1>6, <1>7

\* An order the rule may ask for is the one the sort finds: statement after
\* statement, what comes next is ready and before all that is.
LEMMA NextIsFound ==
    ASSUME NEW f, FileOK(f), NEW body \in [Statements -> Statements],
           \A i, j \in Statements : body[i] = body[j] => i = j,
           Order!Expected(f, body), Order!KeepsMeaning(f, body),
           NEW n \in Statements, NEW result \in Seq(Statements), Len(result) = n - 1,
           \A i \in 1 .. n - 1 : result[i] = body[i]
    PROVE  Order!Extended(f, Order!BuildEdges(f), result) = Append(result, body[n])
<1>. DEFINE edges == Order!BuildEdges(f)
            ready == Order!Ready(edges, result)
<1>1. Order!Ids = Statements /\ n \in Nat /\ n >= 1 /\ n <= Length
  BY BoundsAssumption DEF Order!Ids, Statements
<1>2. {result[i] : i \in DOMAIN result} = {body[i] : i \in 1 .. n - 1}
  <2>1. DOMAIN result = 1 .. n - 1
    OBVIOUS
  <2>. QED BY <2>1
<1>3. \A i \in 1 .. n - 1 : i \in Statements /\ i < n
  BY <1>1, BoundsAssumption DEF Statements
<1>4. \A id \in Statements : \E k \in Statements : body[k] = id
  BY <1>1 DEF Order!Expected
<1>5. body[n] \in ready
  <2>1. body[n] \notin {body[i] : i \in 1 .. n - 1}
    BY <1>1, <1>3 DEF Statements
  <2>2. ASSUME NEW e \in edges, e[2] = body[n] PROVE e[1] \in {body[i] : i \in 1 .. n - 1}
    <3>1. e \in Statements \X Statements /\ e = <<e[1], e[2]>>
      BY <1>1 DEF Order!BuildEdges
    <3>2. PICK k \in Statements : body[k] = e[1]
      BY <1>4, <3>1
    <3>3. k = n \/ n < k \/ k \in 1 .. n - 1
      BY <1>1 DEF Statements
    <3>4. k # n
      <4>1. SUFFICES ASSUME e[1] = e[2] PROVE FALSE
        BY <2>2, <3>2
      <4>2. ~Order!Before(f, e[1], e[2])
        BY <3>1, <4>1, FileFacts DEF Statements
      <4>3. e \notin f.uses
        BY <4>1 DEF FileOK
      <4>. QED BY <4>2, <4>3 DEF Order!BuildEdges
    <3>5. ~(n < k)
      <4>1. SUFFICES ASSUME n < k PROVE FALSE
        OBVIOUS
      <4>2. /\ Order!GroupOf(f, body[n]) = Order!GroupOf(f, body[k]) => Order!Before(f, body[n], body[k])
            /\ {f.kind[body[n]], f.kind[body[k]]} \subseteq Order!Runtime => Order!Before(f, body[n], body[k])
            /\ {f.kind[body[n]], f.kind[body[k]]} \subseteq Order!Requests => Order!Before(f, body[n], body[k])
            /\ <<body[k], body[n]>> \notin f.uses
        BY <1>1, <4>1 DEF Order!Expected, Order!KeepsMeaning
      <4>3. Order!Before(f, body[n], body[k]) => ~Order!Before(f, body[k], body[n])
        <5>1. body[n] \in Statements /\ body[k] \in Statements
          OBVIOUS
        <5>. QED BY <5>1, FileFacts DEF Statements
      <4>4. e = <<body[k], body[n]>>
        BY <2>2, <3>1, <3>2
      <4>5. \A K : {f.kind[body[k]], f.kind[body[n]]} \subseteq K
                     <=> {f.kind[body[n]], f.kind[body[k]]} \subseteq K
        OBVIOUS
      <4>6. /\ Order!Before(f, body[k], body[n])
            /\ \/ Order!GroupOf(f, body[k]) = Order!GroupOf(f, body[n])
               \/ {f.kind[body[k]], f.kind[body[n]]} \subseteq Order!Runtime
               \/ {f.kind[body[k]], f.kind[body[n]]} \subseteq Order!Requests
        BY <4>2, <4>4 DEF Order!BuildEdges
      <4>. QED BY <4>2, <4>3, <4>5, <4>6
    <3>. QED BY <3>2, <3>3, <3>4, <3>5
  <2>. QED BY <1>1, <1>2, <2>1, <2>2 DEF Order!Ready
<1>6. ASSUME NEW b \in ready PROVE Order!Precedes(f, body[n], b)
  <2>1. b \in Statements /\ b \notin {body[i] : i \in 1 .. n - 1}
    BY <1>1, <1>2 DEF Order!Ready
  <2>2. PICK k \in Statements : body[k] = b
    BY <1>4, <2>1
  <2>3. n < k \/ k = n
    BY <1>1, <2>1, <2>2 DEF Statements
  <2>4. /\ Order!GroupOf(f, body[n]) \in Nat /\ Order!GroupOf(f, b) \in Nat
        /\ Order!Place(f.body, body[n]) = body[n] /\ Order!Place(f.body, b) = b
    BY <2>1, FileFacts
  <2>5. CASE k = n
    BY <2>2, <2>4, <2>5 DEF Order!Precedes, Statements
  <2>6. CASE n < k
    <3>1. Order!GroupOf(f, body[n]) <= Order!GroupOf(f, b)
      BY <1>1, <2>2, <2>6 DEF Order!Expected, Order!Grouped
    <3>2. Order!GroupOf(f, body[n]) = Order!GroupOf(f, b) => Order!Before(f, body[n], b)
      BY <1>1, <2>2, <2>6 DEF Order!Expected
    <3>3. Order!Before(f, body[n], b) => body[n] <= b
      BY <2>1, FileFacts DEF Statements
    <3>. QED BY <2>4, <3>1, <3>2, <3>3 DEF Order!Precedes
  <2>. QED BY <2>3, <2>5, <2>6
<1>7. PICK a \in ready : /\ a \in Statements
                         /\ \A b \in ready : Order!Precedes(f, a, b)
                         /\ Order!Extended(f, edges, result) = Append(result, a)
  BY <1>5, Extension
<1>8. a = body[n]
  <2>1. Order!Precedes(f, a, body[n]) /\ Order!Precedes(f, body[n], a)
    BY <1>5, <1>6, <1>7
  <2>2. /\ Order!GroupOf(f, body[n]) \in Nat /\ Order!GroupOf(f, a) \in Nat
        /\ Order!Place(f.body, body[n]) = body[n] /\ Order!Place(f.body, a) = a
        /\ a \in Int /\ body[n] \in Int
    BY <1>7, FileFacts DEF Statements
  <2>. QED BY <2>1, <2>2 DEF Order!Precedes
<1>. QED BY <1>7, <1>8

LEMMA SortIsComplete ==
    ASSUME NEW f, FileOK(f), NEW body \in [Statements -> Statements],
           Order!Expected(f, body), Order!KeepsMeaning(f, body)
    PROVE  Order!StableTopologicalSort(f, Order!BuildEdges(f)) = body
<1>. DEFINE edges == Order!BuildEdges(f)
<1>1. PICK sorted :
         /\ sorted[0] = <<>>
         /\ \A n \in 1 .. Length : sorted[n] = Order!Extended(f, edges, sorted[n - 1])
         /\ Order!StableTopologicalSort(f, edges) = sorted[Length]
  BY SortRounds
<1>2. \A i, j \in Statements : body[i] = body[j] => i = j
  <2>1. IsFiniteSet(Statements)
    BY FS_Interval, BoundsAssumption DEF Statements
  <2>2. body \in Surjection(Statements, Statements)
    BY DEF Order!Expected, Order!Ids, Statements, Surjection
  <2>3. body \in Injection(Statements, Statements)
    BY <2>1, <2>2, FS_Surjection
  <2>. QED BY <2>3 DEF Injection, IsInjective
<1>. DEFINE Found(n) == /\ sorted[n] \in Seq(Statements) /\ Len(sorted[n]) = n
                        /\ \A i \in 1 .. n : sorted[n][i] = body[i]
            T == {n \in 0 .. Length : ~Found(n)}
<1>3. T = {}
  <2>. SUFFICES ASSUME T # {} PROVE FALSE
    OBVIOUS
  <2>1. T \in SUBSET Nat
    BY BoundsAssumption
  <2>2. PICK n \in T : \A k \in T : n <= k
    <3>. HIDE DEF T
    <3>. QED BY <2>1, Least
  <2>3. n \in 0 .. Length /\ ~Found(n)
    OBVIOUS
  <2>4. CASE n = 0
    <3>1. <<>> \in Seq(Statements) /\ Len(<<>>) = 0
      OBVIOUS
    <3>2. sorted[n] = <<>>
      BY <1>1, <2>4
    <3>3. Found(n)
      BY <2>4, <3>1, <3>2
    <3>. QED BY <2>3, <3>3
  <2>5. CASE n # 0
    <3>1. n \in 1 .. Length /\ n - 1 \in 0 .. Length /\ n - 1 \notin T
      BY <2>2, <2>3, <2>5, BoundsAssumption
    <3>2. Found(n - 1)
      BY <3>1
    <3>3. n \in Statements /\ n \in Nat /\ n >= 1
      BY <3>1 DEF Statements
    <3>4. sorted[n] = Append(sorted[n - 1], body[n])
      <4>1. sorted[n] = Order!Extended(f, edges, sorted[n - 1])
        BY <1>1, <3>1
      <4>2. PICK result : result = sorted[n - 1]
        OBVIOUS
      <4>3. /\ result \in Seq(Statements) /\ Len(result) = n - 1
            /\ \A i \in 1 .. n - 1 : result[i] = body[i]
        BY <3>2, <4>2
      <4>4. Order!Extended(f, Order!BuildEdges(f), result) = Append(result, body[n])
        <5>. HIDE DEF Found, T
        <5>. QED BY <1>2, <3>3, <4>3, NextIsFound
      <4>. QED BY <4>1, <4>2, <4>4
    <3>5. body[n] \in Statements
      BY <3>3
    <3>6. /\ sorted[n] \in Seq(Statements) /\ Len(sorted[n]) = n
          /\ \A i \in 1 .. n - 1 : sorted[n][i] = sorted[n - 1][i]
          /\ sorted[n][n] = body[n]
      BY <3>2, <3>3, <3>4, <3>5
    <3>7. Found(n)
      <4>1. \A i \in 1 .. n : i \in 1 .. n - 1 \/ i = n
        BY <3>3
      <4>. QED BY <3>2, <3>6, <4>1
    <3>. QED BY <2>3, <3>7
  <2>. QED BY <2>4, <2>5
<1>4. Found(Length)
  <2>1. Length \in 0 .. Length
    BY BoundsAssumption
  <2>. QED BY <1>3, <2>1
<1>5. sorted[Length] = body
  <2>1. sorted[Length] \in [Statements -> Statements]
    BY <1>4 DEF Statements
  <2>. QED BY <1>4, <2>1 DEF Statements
<1>. QED BY <1>1, <1>5

\* Where the comments of a file go when its statements are put in another order.
Carried(f, body, c) ==
    [c EXCEPT !.gap = IF c.look = "leading" THEN Order!Place(body, f.body[c.gap + 1]) - 1
                      ELSE Order!Place(body, f.body[c.gap])]

Inside(f, body) == {c \in f.comments : Order!InRange(f, Order!Moved(f, body), c)}

Relocated(f, body, c) == IF c \in Inside(f, body) THEN Carried(f, body, c) ELSE c

\* An order in which each statement has its place.
Rearranged(f, body) ==
    /\ body \in [Statements -> Statements] /\ body # f.body
    /\ \A id \in Statements : \E i \in Statements : body[i] = id

LEMMA PlaceFacts ==
    ASSUME NEW f, NEW body, Rearranged(f, body), NEW id \in Statements
    PROVE  Order!Place(body, id) \in Statements /\ body[Order!Place(body, id)] = id
BY DEF Rearranged, Order!Place, Order!Ids, Statements

\* The statements that move have a first and a last one; between them are all.
LEMMA MovedFacts ==
    ASSUME NEW f, FileOK(f), NEW body, Rearranged(f, body)
    PROVE  LET moved == Order!Moved(f, body)
           IN  /\ Order!Least(moved) \in Statements /\ Order!Greatest(moved) \in Statements
               /\ \A i \in Statements :
                     i < Order!Least(moved) \/ i > Order!Greatest(moved) => body[i] = i
<1>. DEFINE moved == Order!Moved(f, body)
<1>1. Order!Ids = Statements /\ Statements \subseteq Nat /\ \A i \in Statements : f.body[i] = i
  BY FileFacts, BoundsAssumption DEF Order!Ids, Statements
<1>2. moved \subseteq Statements /\ \A i \in Statements : i \in moved <=> body[i] # i
  BY <1>1 DEF Order!Moved
<1>3. moved # {}
  <2>1. SUFFICES ASSUME \A i \in Statements : body[i] = i PROVE FALSE
    BY <1>2
  <2>2. body = [i \in Statements |-> i]
    BY <2>1 DEF Rearranged
  <2>. QED BY <2>2 DEF Rearranged, FileOK
<1>. HIDE DEF moved
<1>4. PICK low \in moved : \A j \in moved : low <= j
  BY <1>1, <1>2, <1>3, Least
<1>5. PICK high \in moved : \A j \in moved : j <= high
  <2>. DEFINE left == {Length - i : i \in moved}
  <2>1. left \in SUBSET Nat /\ left # {}
    BY <1>2, <1>3, BoundsAssumption DEF Statements
  <2>2. PICK k \in left : \A j \in left : k <= j
    <3>. HIDE DEF left
    <3>. QED BY <2>1, Least
  <2>3. PICK h \in moved : k = Length - h
    OBVIOUS
  <2>4. ASSUME NEW j \in moved PROVE j <= h
    <3>1. Length - h <= Length - j
      BY <2>2, <2>3
    <3>. QED BY <1>2, <3>1, BoundsAssumption DEF Statements
  <2>. QED BY <2>3, <2>4
<1>6. Order!Least(moved) \in moved /\ \A j \in moved : Order!Least(moved) <= j
  BY <1>4 DEF Order!Least
<1>7. Order!Greatest(moved) \in moved /\ \A j \in moved : j <= Order!Greatest(moved)
  BY <1>5 DEF Order!Greatest
<1>8. ASSUME NEW i \in Statements, i < Order!Least(moved) \/ i > Order!Greatest(moved)
      PROVE  body[i] = i
  <2>1. Order!Least(moved) \in Nat /\ Order!Greatest(moved) \in Nat /\ i \in Nat
    BY <1>1, <1>2, <1>6, <1>7
  <2>2. i \notin moved
    BY <1>6, <1>7, <1>8, <2>1
  <2>. QED BY <1>2, <2>2
<1>. QED BY <1>2, <1>6, <1>7, <1>8 DEF moved

\* What the fix makes of a file, comment by comment: nothing it replaces is
\* anyone's but a statement's.
LEMMA Replacement ==
    ASSUME NEW f, FileOK(f), Order!MayReplace(f), NEW body, Rearranged(f, body)
    PROVE  LET g == Order!BuildReplacement(f, body)
           IN  /\ g.body = body /\ g.kind = f.kind /\ g.uses = f.uses
               /\ g.comments = {Relocated(f, body, c) : c \in f.comments}
<1>. DEFINE moved == Order!Moved(f, body)
            inside == {c \in f.comments : Order!InRange(f, moved, c)}
            after == (f.comments \ inside)
                       \cup {Carried(f, body, c) : c \in {d \in inside : Order!Owned(f, d)}}
            g == Order!BuildReplacement(f, body)
<1>1. g = [f EXCEPT !.body = body, !.comments = after]
  BY DEF Order!BuildReplacement, Carried
<1>2. g.body = body /\ g.kind = f.kind /\ g.uses = f.uses /\ g.comments = after
  <2>. HIDE DEF after, g
  <2>. QED BY <1>1 DEF FileOK
<1>3. Order!Least(moved) \in Statements /\ Order!Greatest(moved) \in Statements
  BY MovedFacts
<1>4. ASSUME NEW c \in inside PROVE Order!Owned(f, c)
  <2>1. SUFFICES ASSUME c.look = "banner" PROVE FALSE
    BY DEF Order!MayReplace, Order!Anchored
  <2>2. c.gap = 0
    BY <2>1 DEF FileOK, CommentsOK
  <2>. HIDE DEF moved
  <2>3. Order!InRange(f, moved, c)
    OBVIOUS
  <2>. QED BY <1>3, <2>1, <2>2, <2>3 DEF Order!InRange, Statements
<1>5. inside = Inside(f, body)
  BY DEF Inside
<1>6. after = {Relocated(f, body, c) : c \in f.comments}
  <2>1. {d \in inside : Order!Owned(f, d)} = inside
    BY <1>4
  <2>. HIDE DEF inside
  <2>. QED BY <1>5, <2>1 DEF Relocated, Inside
<1>. HIDE DEF after, g
<1>7. /\ g.body = body /\ g.kind = f.kind /\ g.uses = f.uses
      /\ g.comments = {Relocated(f, body, c) : c \in f.comments}
  BY <1>2, <1>6
<1>. QED BY <1>7 DEF g

\* A comment keeps its look, and its neighbour unless it is the banner.
LEMMA RelocatedFacts ==
    ASSUME NEW f, FileOK(f), Order!MayReplace(f), NEW body, Rearranged(f, body),
           NEW c \in f.comments, NEW g, g.body = body
    PROVE  /\ Relocated(f, body, c).look = c.look
           /\ c.look = "banner" \/
                 Order!Neighbour(g, Relocated(f, body, c)) = Order!Neighbour(f, c)
<1>. DEFINE moved == Order!Moved(f, body)
            d == Relocated(f, body, c)
            low == Order!Least(moved)
            high == Order!Greatest(moved)
<1>1. /\ c = [gap |-> c.gap, look |-> c.look] /\ c.gap \in Nat /\ c.gap <= Length
      /\ c.look = "trailing" => c.gap > 0
      /\ c.look = "leading" => c.gap < Length
  BY BoundsAssumption DEF FileOK, CommentsOK
<1>2. Carried(f, body, c)
        = [gap |-> Carried(f, body, c).gap, look |-> c.look]
  BY <1>1 DEF Carried
<1>3. d.look = c.look
  BY <1>2 DEF Relocated
<1>4. /\ low \in Statements /\ high \in Statements
      /\ \A i \in Statements : i < low \/ i > high => body[i] = i
  BY MovedFacts
<1>5. \A i \in Statements : f.body[i] = i
  BY FileFacts
<1>6. c \in Inside(f, body) <=>
         \/ low <= c.gap /\ c.gap < high
         \/ c.gap + 1 = low /\ Order!Owned(f, c) /\ c.look = "leading"
         \/ c.gap = high /\ c.look = "trailing"
  BY DEF Inside, Order!InRange
<1>. HIDE DEF d, low, high, moved
<1>7. CASE c.look = "leading"
  <2>1. c.gap + 1 \in Statements /\ Order!Owned(f, c)
    BY <1>1, <1>7, BoundsAssumption DEF Statements, Order!MayReplace, Order!Anchored
  <2>2. Order!Neighbour(f, c) = c.gap + 1
    BY <1>5, <1>7, <2>1 DEF Order!Neighbour
  <2>3. Order!Neighbour(g, d) = body[d.gap + 1]
    BY <1>3, <1>7 DEF Order!Neighbour
  <2>4. CASE c \in Inside(f, body)
    <3>1. d.gap = Order!Place(body, c.gap + 1) - 1
      BY <1>1, <1>5, <1>7, <2>1, <2>4 DEF d, Relocated, Carried
    <3>2. Order!Place(body, c.gap + 1) \in Statements /\ body[Order!Place(body, c.gap + 1)] = c.gap + 1
      BY <2>1, PlaceFacts
    <3>3. d.gap + 1 = Order!Place(body, c.gap + 1)
      BY <3>1, <3>2 DEF Statements
    <3>. QED BY <1>3, <2>2, <2>3, <3>2, <3>3 DEF d
  <2>5. CASE c \notin Inside(f, body)
    <3>1. d = c
      BY <2>5 DEF d, Relocated
    <3>2. c.gap + 1 < low \/ c.gap + 1 > high
      BY <1>1, <1>4, <1>6, <1>7, <2>1, <2>5 DEF Statements
    <3>3. body[c.gap + 1] = c.gap + 1
      BY <1>4, <2>1, <3>2
    <3>. QED BY <1>3, <2>2, <2>3, <3>1, <3>3 DEF d
  <2>. QED BY <2>4, <2>5
<1>8. CASE c.look = "trailing"
  <2>1. c.gap \in Statements
    BY <1>1, <1>8, BoundsAssumption DEF Statements
  <2>2. Order!Neighbour(f, c) = c.gap
    BY <1>5, <1>8, <2>1 DEF Order!Neighbour
  <2>3. Order!Neighbour(g, d) = body[d.gap]
    BY <1>3, <1>8 DEF Order!Neighbour
  <2>4. CASE c \in Inside(f, body)
    <3>1. d.gap = Order!Place(body, c.gap)
      BY <1>1, <1>5, <1>8, <2>1, <2>4 DEF d, Relocated, Carried
    <3>2. body[Order!Place(body, c.gap)] = c.gap
      BY <2>1, PlaceFacts
    <3>. QED BY <1>3, <2>2, <2>3, <3>1, <3>2 DEF d
  <2>5. CASE c \notin Inside(f, body)
    <3>1. d = c
      BY <2>5 DEF d, Relocated
    <3>2. c.gap < low \/ c.gap > high
      BY <1>1, <1>4, <1>6, <1>8, <2>1, <2>5 DEF Statements
    <3>3. body[c.gap] = c.gap
      BY <1>4, <2>1, <3>2
    <3>. QED BY <1>3, <2>2, <2>3, <3>1, <3>3 DEF d
  <2>. QED BY <2>4, <2>5
<1>9. CASE c.look = "banner"
  BY <1>3, <1>9 DEF d
<1>10. c.look = "leading" \/ c.look = "trailing" \/ c.look = "banner"
  BY DEF Order!MayReplace, Order!Owned, Order!Anchored
<1>. QED BY <1>7, <1>8, <1>9, <1>10

\* No comment is lost or doubled.
LEMMA CommentsStay ==
    ASSUME NEW f, FileOK(f), Order!MayReplace(f), NEW body, Rearranged(f, body)
    PROVE  Cardinality({Relocated(f, body, c) : c \in f.comments}) = Cardinality(f.comments)
<1>. DEFINE after == {Relocated(f, body, c) : c \in f.comments}
            move == [c \in f.comments |-> Relocated(f, body, c)]
<1>1. \A c \in f.comments : Relocated(f, body, c).look = c.look
  <2>1. PICK g : g = [body |-> body]
    OBVIOUS
  <2>2. g.body = body
    BY <2>1
  <2>. QED BY <2>2, RelocatedFacts
<1>2. \A c, d \in f.comments : Relocated(f, body, c) = Relocated(f, body, d) => c = d
  BY <1>1 DEF FileOK, CommentsOK
<1>3. move \in Bijection(f.comments, after)
  <2>1. move \in [f.comments -> after] /\ \A c \in f.comments : move[c] = Relocated(f, body, c)
    OBVIOUS
  <2>2. \A d \in after : \E c \in f.comments : move[c] = d
    OBVIOUS
  <2>. HIDE DEF move, after
  <2>. QED BY <1>2, <2>1, <2>2 DEF Bijection, Injection, Surjection, IsInjective
<1>4. ExistsBijection(f.comments, after)
  BY <1>3 DEF ExistsBijection
<1>5. IsFiniteSet(f.comments)
  BY DEF FileOK, CommentsOK
<1>. HIDE DEF after
<1>6. Cardinality(after) = Cardinality(f.comments)
  BY <1>4, <1>5, FS_Bijection
<1>. QED BY <1>6 DEF after

\* A file that was read, or one that was fixed as it should be.
OrderInv ==
    \/ was = Unfixed /\ FileOK(file)
    \/ Order!RightlyFixed(was, file) /\ ~Order!FirstViolation(file)

LEMMA LooksAreFinite == IsFiniteSet(Order!Looks)
<1>1. IsFiniteSet({"banner"})
  BY FS_Singleton
<1>2. IsFiniteSet({"banner"} \cup {"leading"})
  BY <1>1, FS_AddElement
<1>3. IsFiniteSet({"banner"} \cup {"leading"} \cup {"apart"})
  BY <1>2, FS_AddElement
<1>4. IsFiniteSet({"banner"} \cup {"leading"} \cup {"apart"} \cup {"trailing"})
  BY <1>3, FS_AddElement
<1>5. IsFiniteSet({"banner"} \cup {"leading"} \cup {"apart"} \cup {"trailing"} \cup {"tool"})
  BY <1>4, FS_AddElement
<1>6. Order!Looks = {"banner"} \cup {"leading"} \cup {"apart"} \cup {"trailing"} \cup {"tool"}
  BY DEF Order!Looks
<1>. QED BY <1>5, <1>6

\* The files a run starts with are files as they are read.
LEMMA CommentsAreRead ==
    ASSUME NEW comments \in Order!Comments, Order!Placed(comments)
    PROVE  CommentsOK(comments)
<1>1. PICK g \in 0 .. Length, looks \in SUBSET Order!Looks :
         comments = {[gap |-> g, look |-> l] : l \in looks}
  BY DEF Order!Comments, Order!Gaps
<1>2. IsFiniteSet(comments)
  <2>1. IsFiniteSet(looks)
    BY LooksAreFinite, FS_Subset
  <2>. DEFINE at1 == [l \in looks |-> [gap |-> g, look |-> l]]
  <2>2. at1 \in Surjection(looks, comments)
    <3>1. at1 \in [looks -> comments]
      BY <1>1
    <3>2. \A c \in comments : \E l \in looks : at1[l] = c
      BY <1>1
    <3>. QED BY <3>1, <3>2 DEF Surjection
  <2>. QED BY <2>1, <2>2, FS_Surjection
<1>3. ASSUME NEW c \in comments
      PROVE  c \in [gap : 0 .. Length, look : Order!Looks] /\ c.gap = g /\ c = [gap |-> g, look |-> c.look]
  BY <1>1
<1>4. \A c \in comments : /\ c.look = "trailing" => c.gap > 0
                          /\ c.look = "leading" => c.gap < Length
                          /\ c.look = "banner" => c.gap = 0
  BY DEF Order!Placed
<1>5. \A c, d \in comments : c.gap = d.gap /\ (c.look = d.look => c = d)
  BY <1>3
<1>. QED BY <1>2, <1>3, <1>4, <1>5 DEF CommentsOK

LEMMA NoComments == CommentsOK({})
BY FS_EmptySet DEF CommentsOK

LEMMA InitOrderInv == Order!OrderInit \/ OrderAtRest => OrderInv
<1>1. Order!Ids = Statements
  BY DEF Order!Ids, Statements
<1>2. ASSUME NEW kind \in [Statements -> DOMAIN Order!Group], NEW uses \in SUBSET Order!Uses(kind),
             NEW comments, CommentsOK(comments), was = Unfixed,
             file = [body |-> [i \in Statements |-> i], kind |-> kind, uses |-> uses,
                     comments |-> comments]
      PROVE  OrderInv
  <2>1. uses \subseteq Statements \X Statements /\ \A use \in uses : use[1] # use[2]
    BY <1>1 DEF Order!Uses
  <2>2. FileOK(file)
    BY <1>2, <2>1 DEF FileOK
  <2>. QED BY <1>2, <2>2 DEF OrderInv
<1>3. ASSUME Order!OrderInit PROVE OrderInv
  <2>1. PICK kind \in [Statements -> DOMAIN Order!Group] :
           \/ \E uses \in SUBSET Order!Uses(kind) :
                 file = [body |-> [i \in Statements |-> i], kind |-> kind, uses |-> uses, comments |-> {}]
           \/ \E comments \in Order!Comments :
                 /\ Order!Placed(comments)
                 /\ file = [body |-> [i \in Statements |-> i], kind |-> kind, uses |-> {},
                            comments |-> comments]
    BY <1>1, <1>3 DEF Order!OrderInit
  <2>2. was = Unfixed
    BY <1>3 DEF Order!OrderInit
  <2>. QED BY <1>2, <2>1, <2>2, CommentsAreRead, NoComments
<1>4. ASSUME OrderAtRest PROVE OrderInv
  <2>. DEFINE kind == [i \in Statements |-> "import"]
  <2>1. kind \in [Statements -> DOMAIN Order!Group]
    BY DEF Order!Group
  <2>2. was = Unfixed
    BY <1>4 DEF OrderAtRest
  <2>3. file = [body |-> [i \in Statements |-> i], kind |-> kind, uses |-> {}, comments |-> {}]
    BY <1>1, <1>4 DEF OrderAtRest
  <2>. HIDE DEF kind
  <2>. QED BY <1>2, <2>1, <2>2, <2>3, NoComments
<1>. QED BY <1>3, <1>4

\* The sort of a file, if it is not short, is one of its orders.
LEMMA SortRearranges ==
    ASSUME NEW f, FileOK(f), NEW result, Respects(Order!BuildEdges(f), result),
           Len(result) = Length, result # f.body
    PROVE  Rearranged(f, result)
<1>1. /\ result \in [Statements -> Statements]
      /\ \A i, j \in Statements : result[i] = result[j] => i = j
  BY DEF Respects, Statements
<1>2. {result[i] : i \in Statements} = Statements
  BY <1>1, AllAreSorted
<1>. QED BY <1>1, <1>2 DEF Rearranged

LEMMA OrderStepKeeps ==
    ASSUME OrderInv, [Order!OrderNext]_orderVars
    PROVE  OrderInv'
<1>1. CASE UNCHANGED orderVars
  BY <1>1 DEF orderVars, OrderInv, FileOK, CommentsOK, Order!RightlyFixed, Order!FirstViolation
<1>2. CASE Order!Fix
  <2>1. PICK f \in Order!AnalyzeModule(file) : file' = f /\ was' = file /\ was = Unfixed
    BY <1>2 DEF Order!Fix
  <2>. DEFINE sorted == Order!StableTopologicalSort(file, Order!BuildEdges(file))
  <2>2. /\ Order!FirstViolation(file)
        /\ Len(sorted) = Length /\ Order!Grouped(file, sorted) /\ sorted # file.body
        /\ Order!MayReplace(file)
        /\ file' = Order!BuildReplacement(file, sorted)
    BY <2>1 DEF Order!AnalyzeModule
  <2>3. FileOK(file)
    BY <2>1, <2>2 DEF OrderInv
  <2>4. Respects(Order!BuildEdges(file), sorted)
    BY <2>3, SortRespects
  <2>. HIDE DEF sorted
  <2>5. Rearranged(file, sorted)
    BY <2>2, <2>3, <2>4, SortRearranges
  <2>6. /\ file'.body = sorted /\ file'.kind = file.kind
        /\ file'.comments = {Relocated(file, sorted, c) : c \in file.comments}
    BY <2>2, <2>3, <2>5, Replacement
  <2>7. Order!Expected(file, sorted) /\ Order!KeepsMeaning(file, sorted)
    BY <2>2, <2>3, <2>4, SortIsRight
  <2>8. Cardinality(file'.comments) = Cardinality(file.comments)
    BY <2>2, <2>3, <2>5, <2>6, CommentsStay
  <2>9. ASSUME NEW c \in file.comments, c.look # "banner"
        PROVE  \E d \in file'.comments :
                  d.look = c.look /\ Order!Neighbour(file', d) = Order!Neighbour(file, c)
    <3>1. PICK g : g = file'
      OBVIOUS
    <3>2. /\ Relocated(file, sorted, c).look = c.look
          /\ Order!Neighbour(g, Relocated(file, sorted, c)) = Order!Neighbour(file, c)
      BY <2>2, <2>3, <2>5, <2>6, <2>9, <3>1, RelocatedFacts
    <3>. QED BY <2>6, <3>1, <3>2
  <2>10. Order!RightlyFixed(file, file')
    <3>1. \A S : Order!Cardinality(S) = Cardinality(S)
      BY DEF Order!Cardinality, Cardinality
    <3>. QED BY <2>6, <2>7, <2>8, <2>9, <3>1 DEF Order!RightlyFixed
  <2>11. ~Order!FirstViolation(file')
    BY <2>2, <2>6 DEF Order!FirstViolation, Order!Grouped, Order!GroupOf
  <2>. QED BY <2>1, <2>10, <2>11 DEF OrderInv
<1>. QED BY <1>1, <1>2 DEF Order!OrderNext

\* Whatever order would do is the one the sort finds.
LEMMA WithheldForAReason ==
    ASSUME NEW f, FileOK(f), Order!FirstViolation(f), Order!AnalyzeModule(f) = {}
    PROVE  Order!RightlyWithheld(f)
<1>. SUFFICES ASSUME Order!MayReplace(f), NEW body \in [Order!Ids -> Order!Ids],
                     Order!Expected(f, body), Order!KeepsMeaning(f, body),
                     ~Order!HasUnsafeAsiBoundary(f, body)
              PROVE  FALSE
  BY DEF Order!RightlyWithheld
<1>1. body \in [Statements -> Statements]
  BY DEF Order!Ids, Statements
<1>2. Order!StableTopologicalSort(f, Order!BuildEdges(f)) = body
  BY <1>1, SortIsComplete
<1>3. body \in Seq(Statements) /\ Len(body) = Length
  BY <1>1, BoundsAssumption DEF Statements
<1>4. Order!Grouped(f, body) /\ body # f.body
  BY DEF Order!Expected, Order!FirstViolation
<1>. QED BY <1>2, <1>3, <1>4 DEF Order!AnalyzeModule

LEMMA OrderIsRight ==
    ASSUME OrderInv
    PROVE  FixIsRight
<1>1. CASE was = Unfixed /\ FileOK(file)
  BY <1>1, WithheldForAReason DEF FixIsRight, Order!FixIsRight
<1>2. CASE Order!RightlyFixed(was, file) /\ ~Order!FirstViolation(file)
  BY <1>2 DEF FixIsRight, Order!FixIsRight
<1>. QED BY <1>1, <1>2 DEF OrderInv

\* The fix of a file keeps its meaning and its comments, and it is withheld for
\* the order only when no such order exists: the sort is sound and complete,
\* for files of any length and any references (module-order-analysis.mjs).
THEOREM FixesAreRight == Order!OrderSpec => []FixIsRight
<1>1. [Order!OrderNext]_Order!orderVars => [Order!OrderNext]_orderVars
  BY DEF orderVars, Order!orderVars
<1>. QED BY <1>1, InitOrderInv, OrderStepKeeps, OrderIsRight, PTL DEF Order!OrderSpec
-----------------------------------------------------------------------------
(* The tools side by side, as MCRelease runs them. *)

LEMMA OneToolSteps ==
    ASSUME [MCNext]_<<tool, packageVars, binaryVars, orderVars>>
    PROVE  /\ [Packages!ReleaseNext]_Packages!releaseVars
           /\ [Binaries!SmokeNext]_Binaries!smokeVars
           /\ [Order!OrderNext]_orderVars
<1>1. UNCHANGED packageVars => UNCHANGED Packages!releaseVars
  BY DEF packageVars, Packages!releaseVars, Packages!stageVars
<1>2. UNCHANGED binaryVars => UNCHANGED Binaries!smokeVars
  BY DEF binaryVars, Binaries!smokeVars, Binaries!world, Binaries!known
<1>. QED BY <1>1, <1>2 DEF MCNext

\* Whichever of the tools runs, all of this holds.
THEOREM ToolsAreSafe ==
    MCSpec => [](StageIsAtomic /\ CertificationIsClean /\ NothingSurvives /\ FixIsRight)
<1>1. MCInit => ReleaseInv /\ SmokeInv /\ OrderInv
  BY InitReleaseInv, InitSmokeInv, InitOrderInv DEF MCInit
<1>2. /\ ReleaseInv /\ SmokeInv /\ OrderInv
      /\ [MCNext]_<<tool, packageVars, binaryVars, orderVars>>
      => (ReleaseInv /\ SmokeInv /\ OrderInv)'
  BY OneToolSteps, ReleaseStepKeeps, SmokeStepKeeps, OrderStepKeeps
<1>3. ReleaseInv /\ SmokeInv /\ OrderInv
      => StageIsAtomic /\ CertificationIsClean /\ NothingSurvives /\ FixIsRight
  BY OrderIsRight DEF ReleaseInv, StagedOK, StageIsAtomic, SmokeInv, EndOK, Gone, NothingSurvives,
     Binaries!NothingSurvives
<1>. QED BY <1>1, <1>2, <1>3, PTL DEF MCSpec
=============================================================================
