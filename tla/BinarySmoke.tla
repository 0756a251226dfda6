----------------------------- MODULE BinarySmoke -----------------------------
(***************************************************************************)
(* The certification of the built binaries (scripts/binary-smoke.ts): the  *)
(* processes it starts, what it observes of them, and the cleanup that     *)
(* follows every part of it, however that part ended.                      *)
(*                                                                         *)
(*   1. A guardian, a shell with job control, starts the command line      *)
(*      stopped, in a process group of its own, and reports the group; the *)
(*      coordinator lets it go on.  The command spawns a backend in its    *)
(*      group and ends; the backend lingers and leaves.  The guardian      *)
(*      stops itself when its job is done, until it is released.           *)
(*   2. Then commands that find a server the coordinator started itself.   *)
(*   3. The cleanup signals TERM, waits, looks, signals KILL, waits and    *)
(*      looks again; before the guardian reported, it freezes it first and *)
(*      looks for its children.  Any of its steps may fail; all are tried, *)
(*      and every failure is part of the outcome.                          *)
(* What the process library stops when the program's scope closes, after   *)
(* the outcome is known, is left out.                                      *)
(***************************************************************************)
EXTENDS Naturals

CONSTANTS
    Parts,      \* parts of the certification; the first has the guardian
    MaxFaults   \* bound: steps of the coordinator that fail

VARIABLES
    part, pc,
    guardian,   \* "none", "running", "stopped" by itself, "frozen", "exited"
    job,        \* the guardian's job is "unstarted", "started", "reported" or "done"
    group,      \* processes in the job's group: the command and the backend
    held,       \* they are stopped
    termed,     \* ... and have a TERM to react to
    artifacts,  \* endpoint and lock files
    evidence,   \* the coordinator knows the group from the guardian
    discovered, \* ... or from the process table
    released,   \* the guardian's release is reserved
    failed,     \* a step of the part failed
    tidy,       \* no step of the cleanup did
    faults

world == <<guardian, job, group, held, termed, artifacts>>
known == <<evidence, discovered, released>>
smokeVars == <<part, pc, world, known, failed, tidy, faults>>

Guarded == part = 1
Body == {"spawn", "evidence", "acknowledge", "endpoint", "departure", "continue", "join",
         "serve", "await", "command", "exit"}
Cleanup == {"freeze", "discover", "look", "term", "lookTerm", "kill", "lookKill",
            "termGuardian", "probeTerm", "killGuardian", "probeKill",
            "release", "reap", "lookReap", "lookArtifacts", "verdict"}

SmokeTypeOK ==
    /\ part \in 1 .. Parts /\ pc \in Body \cup Cleanup \cup {"over"}
    /\ guardian \in {"none", "running", "stopped", "frozen", "exited"}
    /\ job \in {"unstarted", "started", "reported", "done"}
    /\ group \subseteq {"command", "backend"}
    /\ {held, termed, artifacts, evidence, discovered, released, failed, tidy} \subseteq BOOLEAN
    /\ faults \in 0 .. MaxFaults

Fresh ==
    /\ guardian = "none" /\ job = "unstarted" /\ group = {} /\ held = FALSE
    /\ termed = FALSE /\ evidence = FALSE /\ discovered = FALSE /\ released = FALSE

SmokeInit ==
    /\ part = 1 /\ pc = "spawn" /\ Fresh /\ artifacts = FALSE
    /\ failed = FALSE /\ tidy = TRUE /\ faults = 0

-----------------------------------------------------------------------------
(* The processes: scripts/fixtures/job-control.sh and the two binaries. *)

Coordinator == <<part, pc, known, failed, tidy, faults>>

StartJob ==
    /\ guardian = "running" /\ job = "unstarted"
    /\ job' = "started" /\ group' = {"command"} /\ held' = TRUE
    /\ UNCHANGED <<guardian, termed, artifacts, Coordinator>>

Report ==
    /\ guardian = "running" /\ job = "started"
    /\ job' = "reported"
    /\ UNCHANGED <<guardian, group, held, termed, artifacts, Coordinator>>

\* Its job has ended: the guardian stops itself.
StopSelf ==
    /\ guardian = "running" /\ job = "reported" /\ "command" \notin group
    /\ job' = "done" /\ guardian' = "stopped"
    /\ UNCHANGED <<group, held, termed, artifacts, Coordinator>>

\* The command finds no backend, spawns one and waits for it.
SpawnBackend ==
    /\ Guarded /\ group = {"command"} /\ ~held /\ ~artifacts
    /\ group' = group \cup {"backend"}
    /\ UNCHANGED <<guardian, job, held, termed, artifacts, Coordinator>>

Advertise ==
    /\ "backend" \in group /\ ~held /\ ~termed /\ ~artifacts
    /\ artifacts' = TRUE
    /\ UNCHANGED <<guardian, job, group, held, termed, Coordinator>>

CommandEnds ==
    /\ "command" \in group /\ ~held
    /\ group' = group \ {"command"}
    /\ UNCHANGED <<guardian, job, held, termed, artifacts, Coordinator>>

\* Idle or on TERM, or because it cannot serve: it removes its own files, unless
\* it fails to.
BackendEnds ==
    /\ "backend" \in group /\ ~held
    /\ group' = group \ {"backend"}
    /\ artifacts' \in {FALSE, artifacts}
    /\ UNCHANGED <<guardian, job, held, termed, Coordinator>>

Processes == StartJob \/ Report \/ StopSelf \/ SpawnBackend \/ Advertise \/ CommandEnds \/ BackendEnds

-----------------------------------------------------------------------------
(* The body of a part. *)

Goes(next) == pc' = next
Fault == faults < MaxFaults /\ faults' = faults + 1
CleanupStarts == IF ~Guarded THEN "look" ELSE IF evidence THEN "term" ELSE "freeze"

\* Something did not work, or took too long.
BodyFails ==
    /\ pc \in Body \ {"spawn", "serve"} /\ Fault
    /\ failed' = TRUE
    /\ Goes(CleanupStarts)
    /\ UNCHANGED <<part, world, known, tidy>>

\* What could not be started needs no cleanup.
SpawnFails ==
    /\ pc \in {"spawn", "serve"} /\ Fault
    /\ failed' = TRUE
    /\ Goes("over")
    /\ UNCHANGED <<part, world, known, tidy>>

Then(here, next) ==
    /\ pc = here /\ Goes(next)
    /\ UNCHANGED <<part, failed, tidy, faults>>

SpawnGuardian ==
    /\ Then("spawn", "evidence")
    /\ guardian' = "running"
    /\ UNCHANGED <<job, group, held, termed, artifacts, known>>

StoppedEvidence ==
    /\ Then("evidence", "acknowledge") /\ job = "reported"
    /\ evidence' = TRUE
    /\ UNCHANGED <<world, discovered, released>>

\* CONT is lost on a job that has not stopped itself yet.
Acknowledge ==
    /\ Then("acknowledge", "endpoint")
    /\ held' \in {FALSE, held}
    /\ UNCHANGED <<guardian, job, group, termed, artifacts, known>>

EndpointPublication ==
    /\ Then("endpoint", "departure") /\ artifacts
    /\ UNCHANGED <<world, known>>

ObserveDeparture ==
    /\ Then("departure", "continue") /\ group = {} /\ ~artifacts
    /\ UNCHANGED <<world, known>>

\* ... and so it is on the guardian.
Continued == IF guardian = "stopped" THEN "exited" ELSE guardian

ReleaseGuardian ==
    /\ Then("continue", "join")
    /\ released' = TRUE /\ guardian' = Continued
    /\ UNCHANGED <<job, group, held, termed, artifacts, evidence, discovered>>

\* The guardian's output ends with it; no deadline.
Join ==
    /\ Then("join", CleanupStarts) /\ guardian = "exited"
    /\ UNCHANGED <<world, known>>

Serve ==
    /\ Then("serve", "await")
    /\ group' = {"backend"}
    /\ UNCHANGED <<guardian, job, held, termed, artifacts, known>>

AwaitEndpoint ==
    /\ Then("await", "command") /\ artifacts
    /\ UNCHANGED <<world, known>>

RunCommand ==
    /\ Then("command", "exit")
    /\ UNCHANGED <<world, known>>

\* The server is gone and so are its files.
WaitForExit ==
    /\ Then("exit", CleanupStarts) /\ group = {} /\ ~artifacts
    /\ UNCHANGED <<world, known>>

Does == \/ SpawnGuardian \/ StoppedEvidence \/ Acknowledge \/ EndpointPublication
        \/ ObserveDeparture \/ ReleaseGuardian \/ Join
        \/ Serve \/ AwaitEndpoint \/ RunCommand \/ WaitForExit

-----------------------------------------------------------------------------
(* The cleanup: cleanupGuardianOwnership and cleanupDirectServer. *)

KeepBody == UNCHANGED <<part, failed>>

\* An attempt at a signal: it is delivered, or the failure is kept.
Attempt(here, next, delivered) ==
    /\ pc = here /\ Goes(next)
    /\ \/ delivered /\ UNCHANGED <<tidy, faults>>
       \/ UNCHANGED world /\ tidy' = FALSE /\ Fault
    /\ KeepBody

Known == evidence \/ discovered
AfterGroup == IF evidence THEN "release" ELSE "termGuardian"

\* A look at the processes: yes, no, or no answer, which counts as yes.
Look(here, alive, yes, no, record) ==
    /\ pc = here
    /\ \/ ~alive /\ Goes(no) /\ UNCHANGED <<tidy, faults>>
       \/ alive /\ Goes(yes) /\ tidy' = (tidy /\ ~record) /\ UNCHANGED faults
       \/ Fault /\ Goes(yes) /\ tidy' = FALSE
    /\ KeepBody /\ UNCHANGED <<world, known>>

Freeze ==
    /\ Attempt("freeze", "discover",
               /\ guardian' = IF guardian \in {"running", "stopped"} THEN "frozen" ELSE guardian
               /\ UNCHANGED <<job, group, held, termed, artifacts>>)
    /\ UNCHANGED known

Discover ==
    /\ pc = "discover"
    /\ \/ /\ discovered' = (group # {}) /\ UNCHANGED <<tidy, faults>>
          /\ Goes(IF discovered' THEN "term" ELSE "termGuardian")
       \/ /\ Fault /\ tidy' = FALSE
          /\ Goes("termGuardian") /\ UNCHANGED discovered
    /\ KeepBody /\ UNCHANGED <<world, evidence, released>>

LookFirst == Look("look", group # {}, "term", "lookReap", FALSE)

\* A stopped process does not see the TERM.
Term ==
    /\ Attempt("term", "lookTerm",
               termed' = TRUE /\ UNCHANGED <<guardian, job, group, held, artifacts>>)
    /\ UNCHANGED known

LookTerm == Look("lookTerm", group # {}, "kill", IF Guarded THEN AfterGroup ELSE "lookReap", FALSE)

KillGroup ==
    /\ Attempt("kill", IF Guarded THEN "lookKill" ELSE "lookReap",
               group' = {} /\ UNCHANGED <<guardian, job, held, termed, artifacts>>)
    /\ UNCHANGED known

LookKill == Look("lookKill", group # {}, AfterGroup, AfterGroup, evidence)

SignalGuardian(here, next, dies) ==
    /\ Attempt(here, next,
               /\ guardian' \in IF dies THEN {"exited"} ELSE
                                IF guardian = "running" THEN {"running", "exited"} ELSE {guardian}
               /\ UNCHANGED <<job, group, held, termed, artifacts>>)
    /\ UNCHANGED known

GuardianLives == guardian # "exited"
TermGuardian == SignalGuardian("termGuardian", "probeTerm", FALSE)
ProbeTerm == Look("probeTerm", GuardianLives, "killGuardian", "reap", FALSE)
KillGuardian == SignalGuardian("killGuardian", "probeKill", TRUE)
ProbeKill == Look("probeKill", GuardianLives, "reap", "reap", TRUE)

\* Only a guardian that lives is released, and only if it was not before; a
\* delivery that fails gives the reservation back.
ReleaseOnce ==
    /\ pc = "release" /\ Goes("reap")
    /\ \/ ~GuardianLives /\ UNCHANGED <<guardian, released, tidy, faults>>
       \/ /\ GuardianLives /\ UNCHANGED <<tidy, faults>>
          /\ released' = TRUE
          /\ guardian' = IF released THEN guardian ELSE Continued
       \/ /\ Fault /\ tidy' = FALSE
          /\ \/ UNCHANGED <<guardian, released>>
             \/ GuardianLives /\ released' = TRUE
                /\ guardian' = IF released THEN guardian ELSE Continued
    /\ KeepBody /\ UNCHANGED <<job, group, held, termed, artifacts, evidence, discovered>>

\* Mutant: a guardian that outlives its second is not part of the outcome.
Reap_Unrecorded == Look("reap", GuardianLives,
             IF Known THEN "lookReap" ELSE "lookArtifacts",
             IF Known THEN "lookReap" ELSE "lookArtifacts", FALSE)
\* Waits a second for the guardian's exit, then asks whether it is dead.
Reap == Look("reap", GuardianLives,
             IF Known THEN "lookReap" ELSE "lookArtifacts",
             IF Known THEN "lookReap" ELSE "lookArtifacts", TRUE)

LookReap == Look("lookReap", group # {}, "lookArtifacts", "lookArtifacts", TRUE)
LookArtifacts == Look("lookArtifacts", artifacts, "verdict", "verdict", TRUE)

\* The part's failure and the cleanup's are both kept; the next part starts if
\* there was neither.
Verdict ==
    /\ pc = "verdict"
    /\ IF failed \/ ~tidy \/ part = Parts
       THEN Goes("over") /\ UNCHANGED <<part, world, known>>
       ELSE /\ part' = part + 1 /\ Goes("serve")
            /\ evidence' = FALSE /\ discovered' = FALSE /\ released' = FALSE
            /\ termed' = FALSE /\ held' = FALSE
            /\ UNCHANGED <<guardian, job, group, artifacts>>
    /\ UNCHANGED <<failed, tidy, faults>>

CleanupGuardianOwnership ==
    /\ Guarded
    /\ \/ Freeze \/ Discover \/ Term \/ LookTerm \/ KillGroup \/ LookKill
       \/ TermGuardian \/ ProbeTerm \/ KillGuardian \/ ProbeKill
       \/ ReleaseOnce \/ Reap \/ LookReap \/ LookArtifacts

CleanupDirectServer ==
    /\ ~Guarded
    /\ LookFirst \/ Term \/ LookTerm \/ KillGroup \/ LookReap \/ LookArtifacts

SmokeNext ==
    \/ Processes \/ Does \/ BodyFails \/ SpawnFails
    \/ CleanupGuardianOwnership \/ CleanupDirectServer \/ Verdict

SmokeSpec == SmokeInit /\ [][SmokeNext]_smokeVars

-----------------------------------------------------------------------------
(* A part starts only when nothing is left of the one before, and a        *)
(* certification that reports no failure of its cleanup has left neither   *)
(* a process nor a file behind, whichever step of the part failed and      *)
(* however the processes took the signals.                                 *)
NothingSurvives ==
    pc \in {"spawn", "serve"} \/ (pc = "over" /\ tidy) =>
        guardian \in {"none", "exited"} /\ group = {} /\ ~artifacts
=============================================================================
