---------------------------- MODULE MCInterfaces ----------------------------
(***************************************************************************)
(* The two interfaces: the desktop's main process with its pages' ports, a *)
(* surface of a page, and the terminal's.  They meet in the backend only,  *)
(* so a behaviour runs one of them and leaves the others at rest.          *)
(***************************************************************************)
EXTENDS DesktopApp

CONSTANTS
    Kinds, Projects, Nobody, MaxInvocations,
    Overlays, MaxEffects, MaxLists

ASSUME NobodyAssumption == Nobody \notin Projects
ASSUME BoundsAssumption == MaxInvocations \in Nat /\ MaxEffects \in Nat

VARIABLES
    part,   \* the part that runs
    kind, mounted, running, target, field, touched, since, invocation, active, fiber,
    pending, error,
    terminal, snapshot, lists, rendered, heard, focus, overlay, selectedId, selectedIndex,
    draft, filled, queue, nextId, committed, flushed, processed, ran, flight, errorLine

Dialogs  == INSTANCE ProjectDialogs
Terminal == INSTANCE TerminalUi WITH stage <- terminal, error <- errorLine

dialogVars   == <<kind, mounted, running, target, field, touched, since, invocation, active,
                  fiber, pending, error>>
terminalVars == <<terminal, snapshot, lists, rendered, heard, focus, overlay, selectedId,
                  selectedIndex, draft, filled, queue, nextId, committed, flushed, processed,
                  ran, flight, errorLine>>

DesktopAtRest ==
    /\ window = "none" /\ alive = FALSE
    /\ document = 0 /\ navigating = FALSE /\ deserted = {}
    /\ boot = [p \in Pages |-> "none"] /\ answered = {}
    /\ stage = [p \in Pages |-> "none"] /\ permits = <<>>
    /\ current = 0 /\ victim = 0
    /\ mainEnd = [p \in Pages |-> "none"]
    /\ farEnd = [p \in Pages |-> "none"]
    /\ server = [p \in Pages |-> "none"]
    /\ app = "quit" /\ shutdown = FALSE /\ failure = FALSE
    /\ backend = [b \in Backends |-> "none"]

DialogsAtRest ==
    /\ kind = "create" /\ mounted = FALSE /\ running = FALSE
    /\ target = Nobody /\ field = Nobody /\ touched = FALSE /\ since = 0
    /\ invocation = 0 /\ active = 0
    /\ fiber = [i \in Dialogs!Invocations |-> "none"]
    /\ pending = FALSE /\ error = 0

TerminalAtRest ==
    /\ terminal = "disposed" /\ snapshot = <<>> /\ lists = 0
    /\ rendered = <<>> /\ heard = <<>> /\ committed = <<>> /\ flushed = TRUE /\ processed = {}
    /\ focus = "list" /\ overlay = Terminal!NoOverlay
    /\ selectedId = Nobody /\ selectedIndex = 0 /\ draft = FALSE /\ filled = FALSE
    /\ queue = <<>> /\ nextId = 0 /\ ran = <<>>
    /\ flight = [e \in Terminal!Effects |-> "none"] /\ errorLine = FALSE

MCInit ==
    \/ part = "desktop" /\ Init /\ DialogsAtRest /\ TerminalAtRest
    \/ part = "dialogs" /\ DesktopAtRest /\ Dialogs!DialogInit /\ TerminalAtRest
    \/ part = "terminal" /\ DesktopAtRest /\ DialogsAtRest /\ Terminal!TerminalInit

MCNext ==
    \/ part = "desktop" /\ Next /\ UNCHANGED <<part, dialogVars, terminalVars>>
    \/ part = "dialogs" /\ Dialogs!DialogNext /\ UNCHANGED <<part, vars, terminalVars>>
    \/ part = "terminal" /\ Terminal!TerminalNext /\ UNCHANGED <<part, vars, dialogVars>>

\* Each part's own fairness: at rest nothing is owed.
MCSpec ==
    /\ MCInit /\ [][MCNext]_<<part, vars, dialogVars, terminalVars>>
    /\ Fairness /\ Terminal!TerminalFairness

-----------------------------------------------------------------------------
(* The properties of the instances, by their names there.                  *)

\* ProjectDialogs: the latest submission has the surface to itself.
LatestOnly == Dialogs!LatestOnly

\* TerminalUi: every effect a key asked for is run once, in order.
EffectsRunOnce == Terminal!EffectsRunOnce

\* TerminalUi: the selection and the overlay are about the list on screen.
SelectionIsListed == Terminal!SelectionIsListed

\* TerminalUi: the mutation of an effect that was asked for ends.
EffectsEnd == Terminal!EffectsEnd
=============================================================================
