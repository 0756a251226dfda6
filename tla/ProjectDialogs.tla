--------------------------- MODULE ProjectDialogs ---------------------------
(***************************************************************************)
(* A surface of the desktop's page on which the user changes a project,    *)
(* with the mutation hook behind it.  "kind" says which one:               *)
(*                                                                         *)
(*   "create", "rename", "directory", "delete"   the list of projects      *)
(*   "paletteRename", "metadata"                 dialogs of the palette    *)
(*   "paletteCreate", "navigate", "archive"      entries of the palette    *)
(*                                                                         *)
(*   1. A submission supersedes the one before it, which is interrupted;   *)
(*      only the latest one of a mounted component says how it ended.      *)
(*   2. A success closes the surface, whatever it is open for by then; a   *)
(*      failure is shown by the hook, by the dialog that submitted or by   *)
(*      the palette.                                                       *)
(*   3. Closing a dialog of the hook clears its error and its pending mark,*)
(*      and lets the mutation go on.                                       *)
(*   4. A defect ends the page's boot, and with it the runner of all.      *)
(***************************************************************************)
EXTENDS Naturals

CONSTANTS
    Kinds,          \* the surfaces looked at
    Projects,       \* what a surface can be open for
    Nobody,         \* not a project
    MaxInvocations  \* bound: submissions and unmounts

Invocations == 1 .. MaxInvocations

VARIABLES
    kind,       \* the surface of this behaviour
    mounted,    \* the component is mounted
    running,    \* the runner's fibers may run: the boot has not ended
    target,     \* the project the surface is open for, or Nobody
    field,      \* the project whose name the text field shows, or Nobody
    touched,    \* the user typed into the field
    since,      \* the last invocation when the surface was opened
    invocation, \* the hook's counter
    active,     \* the invocation whose cancellation the hook keeps, or 0
    fiber,      \* the fiber of each invocation
    pending,    \* the hook's pending mark
    error       \* the invocation whose failure is shown, or 0

surfaceVars == <<target, field, touched, since>>
hookVars == <<invocation, active, fiber, pending, error>>
dialogVars == <<kind, mounted, running, surfaceVars, hookVars>>

FormKinds == {"create", "rename", "directory", "delete", "paletteRename"}
PaletteKinds == {"paletteCreate", "navigate", "archive"}

DialogTypeOK ==
    /\ kind \in Kinds /\ Kinds \subseteq FormKinds \cup PaletteKinds \cup {"metadata"}
    /\ mounted \in BOOLEAN /\ running \in BOOLEAN /\ touched \in BOOLEAN
    /\ {target, field} \subseteq Projects \cup {Nobody}
    /\ {since, invocation, active, error} \subseteq 0 .. MaxInvocations
    /\ fiber \in [Invocations -> {"none", "running", "interrupted", "ended"}]
    /\ pending \in BOOLEAN

DialogInit ==
    /\ kind \in Kinds
    /\ mounted = TRUE /\ running = TRUE
    /\ target = Nobody /\ field = Nobody /\ touched = FALSE /\ since = 0
    /\ invocation = 0 /\ active = 0 /\ fiber = [i \in Invocations |-> "none"]
    /\ pending = FALSE /\ error = 0

-----------------------------------------------------------------------------
(* The surface. *)

\* A keyed dialog, or one that is only mounted while it is open, starts with
\* the name of its project; the palette's rename dialog is mounted once.
InitialField(p) == IF kind = "paletteRename" THEN field ELSE p

Open(p) ==
    /\ mounted /\ target = Nobody
    /\ target' = p /\ field' = InitialField(p)
    /\ touched' = FALSE /\ since' = invocation
    /\ error' = IF kind = "metadata" THEN 0 ELSE error
    /\ UNCHANGED <<kind, mounted, running, invocation, active, fiber, pending>>

Type ==
    /\ mounted /\ target # Nobody /\ ~touched
    /\ touched' = TRUE /\ field' = Nobody
    /\ UNCHANGED <<kind, mounted, running, target, since, hookVars>>

\* The user dismisses it: the hook is reset, the palette's own error cleared.
Dismiss ==
    /\ mounted /\ target # Nobody /\ kind # "create"
    /\ target' = Nobody
    /\ error' = 0
    /\ pending' = IF kind \in FormKinds THEN FALSE ELSE pending
    /\ UNCHANGED <<kind, mounted, running, field, touched, since, invocation, active, fiber>>

\* The hotkey closes the palette and leaves its error.
Toggle ==
    /\ mounted /\ target # Nobody /\ kind \in PaletteKinds
    /\ target' = Nobody
    /\ UNCHANGED <<kind, mounted, running, field, touched, since, hookVars>>

-----------------------------------------------------------------------------
(* The hook. *)

Interrupted(fibers, i) ==
    [j \in Invocations |-> IF j = i /\ fibers[j] = "running" THEN "interrupted" ELSE fibers[j]]

\* The delete button is disabled while a deletion is pending; entries of the
\* archive command close the palette at once.
Submit ==
    /\ mounted /\ target # Nobody /\ invocation < MaxInvocations
    /\ kind = "delete" => ~pending
    /\ invocation' = invocation + 1
    /\ fiber' = [Interrupted(fiber, active) EXCEPT
                    ![invocation + 1] = IF running THEN "running" ELSE "interrupted"]
    /\ active' = invocation + 1
    /\ pending' = TRUE
    /\ error' = IF kind \in FormKinds THEN 0 ELSE error
    /\ target' = IF kind = "archive" THEN Nobody ELSE target
    /\ UNCHANGED <<kind, mounted, running, field, touched, since>>

\* Mutant: every invocation of a mounted hook says how it ended.
Heeded_Superseded(i) == mounted

\* The exit of an invocation is heeded if it is the latest of a mounted hook.
Heeded(i) == mounted /\ i = invocation

\* The dialog for metadata shows only what it submitted itself.
Shows(i) == kind = "metadata" => i > since /\ target # Nobody

Succeeds(i) ==
    /\ fiber[i] \in {"running", "interrupted"}
    /\ fiber' = [fiber EXCEPT ![i] = "ended"]
    /\ IF Heeded(i)
       THEN /\ active' = 0 /\ pending' = FALSE
            /\ target' = IF kind = "archive" THEN target ELSE Nobody
            /\ error' = IF kind = "paletteCreate" THEN 0 ELSE error
       ELSE UNCHANGED <<active, pending, target, error>>
    /\ UNCHANGED <<kind, mounted, running, field, touched, since, invocation>>

Fails(i) ==
    /\ fiber[i] \in {"running", "interrupted"}
    /\ fiber' = [fiber EXCEPT ![i] = "ended"]
    /\ IF Heeded(i)
       THEN /\ active' = 0 /\ pending' = FALSE
            /\ error' = IF Shows(i) THEN i ELSE error
       ELSE UNCHANGED <<active, pending, error>>
    /\ UNCHANGED <<kind, mounted, running, surfaceVars, invocation>>

\* Only interrupted: there is nothing to show.
EndsInterrupted(i) ==
    /\ fiber[i] = "interrupted"
    /\ fiber' = [fiber EXCEPT ![i] = "ended"]
    /\ IF Heeded(i) THEN active' = 0 /\ pending' = FALSE ELSE UNCHANGED <<active, pending>>
    /\ UNCHANGED <<kind, mounted, running, surfaceVars, invocation, error>>

\* The boot ends, by a defect of one mutation or otherwise: every fiber of the
\* runner is interrupted.  The invocation that died has had no say.
RunnerCloses(died) ==
    /\ running
    /\ died # 0 => fiber[died] \in {"running", "interrupted"}
    /\ running' = FALSE
    /\ fiber' = [i \in Invocations |->
                    IF i = died THEN "ended"
                    ELSE IF fiber[i] = "running" THEN "interrupted" ELSE fiber[i]]
    /\ UNCHANGED <<kind, mounted, surfaceVars, invocation, active, pending, error>>

\* The route changes, or the page shows the error of the boot.
Unmount ==
    /\ mounted /\ invocation < MaxInvocations
    /\ mounted' = FALSE
    /\ invocation' = invocation + 1
    /\ fiber' = Interrupted(fiber, active)
    /\ active' = 0
    /\ UNCHANGED <<kind, running, surfaceVars, pending, error>>

Mount ==
    /\ ~mounted /\ running
    /\ mounted' = TRUE
    /\ target' = Nobody /\ field' = Nobody /\ touched' = FALSE /\ since' = 0
    /\ pending' = FALSE /\ error' = 0
    /\ UNCHANGED <<kind, running, invocation, active, fiber>>

DialogNext ==
    \/ \E p \in Projects : Open(p)
    \/ Type \/ Dismiss \/ Toggle \/ Submit \/ Unmount \/ Mount
    \/ \E i \in Invocations : Succeeds(i) \/ Fails(i) \/ EndsInterrupted(i)
    \/ \E i \in 0 .. MaxInvocations : RunnerCloses(i)

DialogSpec == DialogInit /\ [][DialogNext]_dialogVars

-----------------------------------------------------------------------------
(* A failure the hook shows is the one of the latest submission of the     *)
(* mounted component; what was superseded or left behind shows nothing     *)
(* (useOwnedMutation).                                                     *)
OnlyLatestShown ==
    mounted /\ kind \in FormKinds /\ error # 0 => error = invocation /\ ~pending

(* Of all mutations at most the latest runs on: the others, and those of   *)
(* an unmounted component, were interrupted; and a pending mark stands for *)
(* a mutation that has not ended, while the page's runner lives.           *)
OneMutationRuns ==
    /\ \A i \in Invocations : fiber[i] = "running" => mounted /\ active = i /\ i = invocation
    /\ mounted /\ pending /\ running =>
          active = invocation /\ fiber[invocation] \in {"running", "interrupted"}

(* The latest submission has the surface to itself.                        *)
LatestOnly == OnlyLatestShown /\ OneMutationRuns

(* A dialog opens with the name of the project it is open for.             *)
PrefillsCurrentName == target # Nobody /\ ~touched => field = target
=============================================================================
