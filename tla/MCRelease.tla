------------------------------ MODULE MCRelease ------------------------------
(***************************************************************************)
(* The tools around the build: the lint rule's fix, the certification of   *)
(* the binaries, and staging, packing and certifying the packages.  They   *)
(* are separate programs: a behaviour runs one of them.                    *)
(***************************************************************************)
EXTENDS Naturals, Sequences

CONSTANTS
    Workspaces, Absent, Half, MaxRuns, MaxFaults,
    Parts, MaxMishaps,
    Length, MaxUses, Unfixed

ASSUME WorkspacesAssumption == Workspaces \in Seq(STRING) /\ Workspaces # <<>>
ASSUME BoundsAssumption == MaxRuns \in Nat /\ MaxFaults \in Nat /\ Length \in Nat

VARIABLES
    tool,  \* the program that runs
    disk, runs, job, at, pc, phase, hadTarget, restores, failed, untidy, found, packed, faults,
    part, step, guardian, shellJob, group, held, termed, artifacts, evidence, discovered,
    released, broken, tidy, mishaps,
    file, was

Packages == INSTANCE PackageRelease
Binaries == INSTANCE BinarySmoke
            WITH pc <- step, job <- shellJob, failed <- broken, faults <- mishaps,
                 MaxFaults <- MaxMishaps
Order    == INSTANCE ModuleOrder

packageVars == <<disk, runs, job, at, pc, phase, hadTarget, restores, failed, untidy, found,
                 packed, faults>>
binaryVars  == <<part, step, guardian, shellJob, group, held, termed, artifacts, evidence,
                 discovered, released, broken, tidy, mishaps>>
orderVars   == <<file, was>>

\* A workspace staged in a transaction and one staged in place.
Two == <<"contracts", "ink-input">>

PackagesAtRest ==
    /\ disk = [i \in Packages!Index |-> Packages!Nothing]
    /\ runs = 0 /\ job = "none" /\ at = 1 /\ pc = "idle"
    /\ phase = "initial" /\ hadTarget = FALSE /\ restores = FALSE
    /\ failed = FALSE /\ untidy = FALSE /\ found = Packages!Nothing
    /\ packed = [i \in Packages!Index |-> Absent] /\ faults = 0

OrderAtRest ==
    /\ was = Unfixed
    /\ file = [body |-> [i \in Order!Ids |-> i], kind |-> [i \in Order!Ids |-> "import"],
               uses |-> {}, comments |-> {}]

MCInit ==
    \/ tool = "packages" /\ Packages!ReleaseInit /\ Binaries!SmokeInit /\ OrderAtRest
    \/ tool = "binaries" /\ PackagesAtRest /\ Binaries!SmokeInit /\ OrderAtRest
    \/ tool = "order" /\ PackagesAtRest /\ Binaries!SmokeInit /\ Order!OrderInit

MCNext ==
    \/ tool = "packages" /\ Packages!ReleaseNext /\ UNCHANGED <<tool, binaryVars, orderVars>>
    \/ tool = "binaries" /\ Binaries!SmokeNext /\ UNCHANGED <<tool, packageVars, orderVars>>
    \/ tool = "order" /\ Order!OrderNext /\ UNCHANGED <<tool, packageVars, binaryVars>>

MCSpec == MCInit /\ [][MCNext]_<<tool, packageVars, binaryVars, orderVars>>

-----------------------------------------------------------------------------
(* The properties of the instances, by their names there.                  *)

\* PackageRelease: a stage is all or nothing.
StageIsAtomic == Packages!StageIsAtomic

\* PackageRelease: only whole output is packed, and everything is cleaned up.
CertificationIsClean == Packages!CertificationIsClean

\* BinarySmoke: a cleanup that reports no failure left nothing behind.
NothingSurvives == Binaries!NothingSurvives

\* ModuleOrder: the fix keeps the meaning, and is withheld only for a reason.
FixIsRight == Order!FixIsRight
=============================================================================
