--------------------------- MODULE PackageRelease ---------------------------
(***************************************************************************)
(* Staging a package for publication, and the certification that stages,   *)
(* packs and inspects every workspace.                                     *)
(*                                                                         *)
(*   1. `stage` replaces dist-publish as a whole: it builds the new output *)
(*      beside it, moves the old one away, moves the new one in, and rolls *)
(*      back whatever it did when a step fails or is interrupted.  Any     *)
(*      operation on the disk may fail, the rollback's own ones included,  *)
(*      a failed rename may have been done or not, and the process may be  *)
(*      killed between two of them.                                        *)
(*   2. A certification goes through the workspaces.  It refuses one with  *)
(*      output or residue of an earlier run; of the others it removes      *)
(*      everything it staged, however it ends.  Only the publishable pair  *)
(*      of workspaces has the transaction, the rest is written in place.   *)
(*                                                                         *)
(* The two copies of `stage` (packages/contracts and packages/client-ts)   *)
(* differ in their build and in the manifest they write.                   *)
(***************************************************************************)
EXTENDS Naturals, Sequences

CONSTANTS
    Workspaces, \* the workspaces in the order of certification
    Absent,     \* no directory
    Half,       \* a directory half written or half removed
    MaxRuns,    \* bound: releases and certifications
    MaxFaults   \* bound: operations that fail, are interrupted or killed

Publishable == {"contracts", "client-ts"}
Index == 1 .. Len(Workspaces)
Transactional(i) == Workspaces[i] \in Publishable

\* Or a directory is the whole output of a run; run 0 is an earlier one.
Directories == {Absent, Half} \cup 0 .. MaxRuns
Nothing == [target |-> Absent, next |-> Absent, previous |-> Absent]

VARIABLES
    disk,      \* dist-publish, .dist-publish.next and .dist-publish.previous of each
    runs,      \* runs so far
    job,       \* "none", "release" or "certify"
    at,        \* the workspace at work
    pc,        \* the next operation
    phase, hadTarget, restores, \* of the transaction
    failed,    \* the run fails
    untidy,    \* a rollback or a cleanup failed
    found,     \* the workspace's directories when the run came to it
    packed,    \* the output in the tarball of each workspace
    faults

stageVars == <<phase, hadTarget, restores>>
releaseVars == <<disk, runs, job, at, pc, stageVars, failed, untidy, found, packed, faults>>

Phases == {"initial", "stale-cleaned", "backing-up", "backed-up", "promoting", "promoted"}
Transaction == {"exists", "clean", "mkdir", "copy", "write", "backup", "promote", "confirm"}
InPlace == {"make", "fill", "finish"}
Stages == {"idle", "lookup", "prepare", "undo", "drop", "restore", "sweep", "tidy",
           "staged", "pack", "inspect", "cleanup", "consume"} \cup Transaction \cup InPlace

ReleaseTypeOK ==
    /\ disk \in [Index -> [target : Directories, next : Directories, previous : Directories]]
    /\ runs \in 0 .. MaxRuns /\ faults \in 0 .. MaxFaults
    /\ job \in {"none", "release", "certify"} /\ at \in Index /\ pc \in Stages
    /\ phase \in Phases /\ {hadTarget, restores, failed, untidy} \subseteq BOOLEAN
    /\ found \in [target : Directories, next : Directories, previous : Directories]
    /\ packed \in [Index -> Directories]

ReleaseInit ==
    /\ disk \in [Index -> {Nothing, [Nothing EXCEPT !.target = 0]}]
    /\ runs = 0 /\ job = "none" /\ at = 1 /\ pc = "idle"
    /\ phase = "initial" /\ hadTarget = FALSE /\ restores = FALSE
    /\ failed = FALSE /\ untidy = FALSE
    /\ found = Nothing /\ packed = [i \in Index |-> Absent] /\ faults = 0

-----------------------------------------------------------------------------
(* One operation of a run. *)

Fault == faults < MaxFaults /\ faults' = faults + 1
Goes(next) == pc' = next
Puts(directories) == disk' = [disk EXCEPT ![at] = directories]
KeepRun == UNCHANGED <<runs, job, at, found>>

\* A removal that failed may have removed all, some or nothing.
Left(d) == IF d = Absent THEN {Absent} ELSE {d, Half, Absent}

\* The build, dist and the manifest of the source package.
Prepare ==
    /\ pc = "prepare"
    /\ Goes(IF Transactional(at) THEN "exists" ELSE "make")
    /\ phase' = "initial" /\ hadTarget' = FALSE /\ restores' = FALSE
    /\ KeepRun /\ UNCHANGED <<disk, failed, untidy, packed, faults>>

PrepareFails ==
    /\ pc = "prepare" /\ Fault
    /\ failed' = TRUE
    /\ Goes("staged")
    /\ KeepRun /\ UNCHANGED <<disk, stageVars, untidy, packed>>

\* What the operations of the transaction do ...
Done(op, d) ==
    CASE op \in {"exists", "confirm"} -> d
      [] op = "clean"   -> [d EXCEPT !.next = Absent, !.previous = Absent]
      [] op \in {"mkdir", "copy"} -> [d EXCEPT !.next = Half]
      [] op = "write"   -> [d EXCEPT !.next = runs]
      [] op = "backup"  -> [d EXCEPT !.target = Absent, !.previous = d.target]
      [] op = "promote" -> [d EXCEPT !.target = d.next, !.next = Absent]

\* ... and what one that failed, or was interrupted, may have done.
Undone(op, d) ==
    CASE op = "clean" -> {[target |-> d.target, next |-> n, previous |-> p] :
                             n \in Left(d.next), p \in Left(d.previous)}
      [] OTHER -> {d, Done(op, d)}

After == [exists |-> "clean", clean |-> "mkdir", mkdir |-> "copy", copy |-> "write",
          write |-> "backup", backup |-> "promote", promote |-> "confirm", confirm |-> "tidy"]

\* An output that is not there is not backed up.
Step ==
    /\ pc \in Transaction
    /\ Puts(Done(pc, disk[at]))
    /\ Goes(IF pc = "write" /\ ~hadTarget THEN "promote" ELSE After[pc])
    /\ hadTarget' = IF pc = "exists" THEN disk[at].target # Absent ELSE hadTarget
    /\ phase' = CASE pc = "clean"   -> "stale-cleaned"
                  [] pc = "backup"  -> "backed-up"
                  [] pc = "promote" -> "promoting"
                  [] pc = "confirm" -> "promoted"
                  [] OTHER -> phase
    /\ KeepRun /\ UNCHANGED <<restores, failed, untidy, packed, faults>>

\* A failed rename leaves its own phase; an interruption after the backup, or
\* after the promotion, the one before.
StepFails ==
    /\ pc \in Transaction /\ Fault
    /\ \/ Puts(disk[at]) /\ pc = "promote" /\ hadTarget /\ UNCHANGED phase
       \/ /\ \E d \in Undone(pc, disk[at]) : Puts(d)
          /\ phase' = CASE pc = "backup"  -> "backing-up"
                        [] pc = "promote" -> "promoting"
                        [] OTHER -> phase
    /\ failed' = TRUE
    /\ Goes("undo")
    /\ KeepRun /\ UNCHANGED <<hadTarget, restores, untidy, packed>>

-----------------------------------------------------------------------------
(* The rollback, and the end of the transaction. *)

OwnsPrevious == hadTarget /\ phase \in {"backed-up", "promoting", "promoted"}

\* Mutant: an interrupted backup is not looked for.
MayRestore_PhaseOnly(d) == hadTarget /\ d.previous # Absent /\ OwnsPrevious

\* previous is the backup of this run, not the residue of another.
MayRestore(d) ==
    /\ hadTarget /\ d.previous # Absent
    /\ OwnsPrevious \/ (phase = "backing-up" /\ d.target = Absent)

Drops == ~hadTarget /\ phase \in {"promoting", "promoted"}

LookBack ==
    /\ pc = "undo"
    /\ restores' = MayRestore(disk[at])
    /\ Goes(IF restores' \/ Drops THEN "drop" ELSE "sweep")
    /\ KeepRun /\ UNCHANGED <<disk, phase, hadTarget, failed, untidy, packed, faults>>

\* The rollback gives up when it cannot look.
LookBackFails ==
    /\ pc = "undo" /\ Fault
    /\ untidy' = TRUE
    /\ Goes("staged")
    /\ KeepRun /\ UNCHANGED <<disk, stageVars, failed, packed>>

DropTarget ==
    /\ pc = "drop"
    /\ \/ /\ Puts([disk[at] EXCEPT !.target = Absent])
          /\ Goes(IF restores THEN "restore" ELSE "sweep")
          /\ UNCHANGED <<untidy, faults>>
       \/ /\ Fault
          /\ \E t \in Left(disk[at].target) : Puts([disk[at] EXCEPT !.target = t])
          /\ untidy' = TRUE
          /\ Goes("sweep")
    /\ KeepRun /\ UNCHANGED <<stageVars, failed, packed>>

RestoreTarget ==
    LET restored == [disk[at] EXCEPT !.target = disk[at].previous, !.previous = Absent]
    IN  /\ pc = "restore"
        /\ \/ Puts(restored) /\ UNCHANGED <<untidy, faults>>
           \/ /\ Fault
              /\ \E d \in {disk[at], restored} : Puts(d)
              /\ untidy' = TRUE
        /\ Goes("sweep")
        /\ KeepRun /\ UNCHANGED <<stageVars, failed, packed>>

\* Every removal is attempted, whatever became of the ones before.
Removes(fields) ==
    \/ /\ Puts([f \in DOMAIN disk[at] |-> IF f \in fields THEN Absent ELSE disk[at][f]])
       /\ UNCHANGED <<untidy, faults>>
    \/ /\ Fault
       /\ \E d \in [DOMAIN disk[at] -> Directories] :
             /\ \A f \in DOMAIN d : IF f \in fields THEN d[f] \in Left(disk[at][f])
                                    ELSE d[f] = disk[at][f]
             /\ Puts(d)
       /\ untidy' = TRUE

Sweep ==
    /\ pc = "sweep"
    /\ Removes({"next"} \cup IF restores THEN {"previous"} ELSE {})
    /\ Goes("staged")
    /\ KeepRun /\ UNCHANGED <<stageVars, failed, packed>>

Tidy ==
    /\ pc = "tidy"
    /\ Removes({"next"} \cup IF OwnsPrevious THEN {"previous"} ELSE {})
    /\ Goes("staged")
    /\ KeepRun /\ UNCHANGED <<stageVars, failed, packed>>

\* A library is staged in place, with nothing to undo.
InPlaceStep ==
    /\ pc \in InPlace
    /\ Puts([disk[at] EXCEPT !.target = IF pc = "finish" THEN runs ELSE Half])
    /\ \/ /\ Goes(CASE pc = "make" -> "fill" [] pc = "fill" -> "finish" [] OTHER -> "staged")
          /\ UNCHANGED <<failed, faults>>
       \/ Fault /\ failed' = TRUE /\ Goes("staged")
    /\ KeepRun /\ UNCHANGED <<stageVars, untidy, packed>>

-----------------------------------------------------------------------------
(* Runs. *)

\* A cleanup that failed fails the stage.  A release may be a stage only.
StageEnds ==
    /\ pc = "staged"
    /\ failed' = (failed \/ untidy)
    /\ \/ ~failed' /\ Goes("pack")
       \/ job = "release" /\ Goes("idle")
       \/ job = "certify" /\ failed' /\ Goes("cleanup")
    /\ KeepRun /\ UNCHANGED <<disk, stageVars, untidy, packed, faults>>

\* npm packs whatever the directory holds.
Pack ==
    /\ pc = "pack"
    /\ packed' = [packed EXCEPT ![at] = disk[at].target]
    /\ Goes(IF job = "certify" THEN "inspect" ELSE "idle")
    /\ KeepRun /\ UNCHANGED <<disk, stageVars, failed, untidy, faults>>

Inspect ==
    /\ pc = "inspect"
    /\ Goes("cleanup")
    /\ KeepRun /\ UNCHANGED <<disk, stageVars, failed, untidy, packed, faults>>

PackFails ==
    /\ pc \in {"pack", "inspect"} /\ Fault
    /\ failed' = TRUE
    /\ Goes(IF job = "certify" THEN "cleanup" ELSE "idle")
    /\ KeepRun /\ UNCHANGED <<disk, stageVars, untidy, packed>>

Begin(kind, i) ==
    /\ pc = "idle" /\ runs < MaxRuns
    /\ runs' = runs + 1 /\ job' = kind /\ at' = i
    /\ found' = disk[i] /\ failed' = FALSE /\ untidy' = FALSE
    /\ packed' = [w \in Index |-> Absent]
    /\ UNCHANGED <<disk, stageVars, faults>>

Release(i) == Transactional(i) /\ Begin("release", i) /\ Goes("prepare")
Certify == Begin("certify", 1) /\ Goes("lookup")

\* Mutant: only the output itself is looked for.
StagePaths_TargetOnly(d) == {d.target}
StagePaths(d) == {d[f] : f \in DOMAIN d}

\* Output it does not own is left alone, and ends the certification.
Lookup ==
    /\ pc = "lookup"
    /\ IF StagePaths(disk[at]) = {Absent}
       THEN Goes("prepare") /\ UNCHANGED failed
       ELSE Goes("idle") /\ failed' = TRUE
    /\ KeepRun /\ UNCHANGED <<disk, stageVars, untidy, packed, faults>>

CleanupStage ==
    /\ pc = "cleanup"
    /\ Removes(DOMAIN disk[at])
    /\ failed' = (failed \/ untidy')
    /\ IF failed' \/ at = Len(Workspaces)
       THEN Goes(IF failed' THEN "idle" ELSE "consume") /\ UNCHANGED <<at, found>>
       ELSE Goes("lookup") /\ at' = at + 1 /\ found' = disk[at + 1]
    /\ UNCHANGED <<runs, job, stageVars, packed>>

\* The versions are compared, the tarballs installed, imported and compiled
\* against, away from the workspaces.
Consume ==
    /\ pc = "consume"
    /\ Goes("idle")
    /\ \/ UNCHANGED <<failed, faults>>
       \/ Fault /\ failed' = TRUE
    /\ KeepRun /\ UNCHANGED <<disk, stageVars, untidy, packed>>

Kill ==
    /\ pc # "idle" /\ Fault
    /\ pc' = "idle" /\ failed' = TRUE /\ untidy' = TRUE
    /\ KeepRun /\ UNCHANGED <<disk, stageVars, packed>>

ReleaseNext ==
    \/ Prepare \/ PrepareFails \/ Step \/ StepFails
    \/ LookBack \/ LookBackFails \/ DropTarget \/ RestoreTarget \/ Sweep \/ Tidy
    \/ InPlaceStep \/ StageEnds \/ Pack \/ Inspect \/ PackFails
    \/ Certify \/ Lookup \/ CleanupStage \/ Consume \/ Kill
    \/ \E i \in Index : Release(i)

ReleaseSpec == ReleaseInit /\ [][ReleaseNext]_releaseVars

-----------------------------------------------------------------------------
(* A stage is all or nothing: one that succeeds leaves its whole output    *)
(* and no residue, one that fails leaves the output that was there before, *)
(* unless its rollback failed too (`stage` of prepare-publish.ts).         *)
StageIsAtomic ==
    pc = "staged" /\ Transactional(at) /\ ~untidy =>
        IF failed
        THEN /\ disk[at].target = found.target /\ disk[at].next \in {Absent, found.next}
             /\ disk[at].previous \in Left(found.previous)
        ELSE disk[at] = [Nothing EXCEPT !.target = runs]

(* Whatever is packed is the whole output of the same run, and a           *)
(* certification that succeeds has packed every workspace.                 *)
PackedIsWhole ==
    /\ \A i \in Index : packed[i] \in {Absent, runs}
    /\ pc = "idle" /\ job = "certify" /\ ~failed => \A i \in Index : packed[i] = runs

(* A certification leaves every workspace as it found it: what somebody    *)
(* staged before is still there, what it staged itself is gone, however it *)
(* ends, unless a removal failed (runWorkspaceLifecycle, cleanupStage).    *)
CertificationLeavesNoTrace ==
    pc = "idle" /\ job = "certify" /\ ~untidy =>
        disk[at] = found /\ \A i \in 1 .. at - 1 : disk[i] = Nothing

(* What a certification says of the packages is so, and it is all it did.  *)
CertificationIsClean == PackedIsWhole /\ CertificationLeavesNoTrace
=============================================================================
