----------------------------- MODULE DesktopApp -----------------------------
(***************************************************************************)
(* The main process of the desktop around its window: one scope that holds *)
(* the application's listeners, the client runtime and the window's scope, *)
(* and is closed in reverse.                                               *)
(*                                                                         *)
(*   1. The runtime is made first; the window opens when Electron is ready.*)
(*   2. before-quit is prevented, and remembered, until the scope is       *)
(*      closed; only then the process asks to quit itself.                 *)
(*   3. The scope ends by a quit, a failure of the window or of a callback,*)
(*      or a signal.  The window's scope is closed once, whoever asks.     *)
(*   4. A packaged application waits for the backends it forked, 5 seconds *)
(*      at most, then kills them.                                          *)
(***************************************************************************)
EXTENDS DesktopPorts

CONSTANTS
    Backends,   \* backend processes the packaged application may fork
    Darwin      \* macOS: closing the last window does not quit

VARIABLES
    app,        \* stage of the application's scope
    shutdown,   \* a quit was asked for while it could still be heeded
    failure,    \* a dispatched closing failed
    backend     \* what became of each forked backend

appVars == <<app, shutdown, failure, backend>>
vars == <<portsVars, appVars>>

Apps == {"starting", "up", "closing", "disposing", "lingering", "released", "quit"}

TypeOK ==
    /\ PortsTypeOK
    /\ app \in Apps
    /\ shutdown \in BOOLEAN /\ failure \in BOOLEAN
    /\ backend \in [Backends -> {"none", "running", "exited", "killed"}]

Init ==
    /\ PortsInit
    /\ app = "starting" /\ shutdown = FALSE /\ failure = FALSE
    /\ backend = [b \in Backends |-> "none"]

\* Both listeners are registered before the runtime and released after it.
Heeded == app \notin {"released", "quit"}

\* before-quit: prevented and remembered.
QuitAsked == shutdown' = (shutdown \/ Heeded)

\* window-all-closed quits, but not on macOS.
AllClosed == IF Darwin THEN UNCHANGED shutdown ELSE QuitAsked

-----------------------------------------------------------------------------
\* The window opens and starts to load its first page.
OpenWindow ==
    /\ app = "starting"
    /\ app' = "up"
    /\ window' = "open" /\ alive' = TRUE
    /\ navigating' = TRUE /\ permits' = Append(permits, Navigation)
    /\ UNCHANGED <<document, deserted, boot, answered, stage, current, victim,
                   portVars, shutdown, failure, backend>>

\* The scope starts to close; closing the window's scope comes first.
End ==
    /\ app' = "closing"
    /\ window' = IF window = "open" THEN "asked" ELSE window
    /\ UNCHANGED <<alive, pageVars, brokerVars, portVars, shutdown, failure, backend>>

\* Mutant: only a failure ends the scope.
EndsOnRequest_FailureOnly == app \in {"starting", "up"} /\ failure /\ End

EndsOnRequest == app \in {"starting", "up"} /\ (shutdown \/ failure) /\ End

\* Electron is not ready, the first page does not load, or a signal comes.
EndsOnFailure == app \in {"starting", "up"} /\ End

\* The user quits.  With the listeners gone nothing holds the quit back.
UserQuits ==
    /\ app # "quit"
    /\ QuitAsked
    /\ app' = IF Heeded THEN app ELSE "quit"
    /\ UNCHANGED <<portsVars, failure, backend>>

UserClosesWindow == UserCloses /\ AllClosed /\ UNCHANGED <<app, failure, backend>>

WindowDestroyed ==
    /\ Destroyed
    /\ IF alive THEN AllClosed ELSE UNCHANGED shutdown
    /\ UNCHANGED <<app, failure, backend>>

\* The closing that a navigation dispatched fails after all it had to release.
ClosingFails ==
    /\ Holds(Navigation)
    /\ ClosePrevious
    /\ failure' = TRUE
    /\ UNCHANGED <<app, shutdown, backend>>

\* Mutant: the runtime goes as soon as the scope starts to close.
StartDisposing_Early ==
    /\ app = "closing"
    /\ app' = "disposing"
    /\ UNCHANGED <<portsVars, shutdown, failure, backend>>

\* The window's scope is closed: the runtime comes next.
StartDisposing ==
    /\ app = "closing" /\ window \in {"none", "closed"}
    /\ app' = "disposing"
    /\ UNCHANGED <<portsVars, shutdown, failure, backend>>

Disposed ==
    /\ app = "disposing"
    /\ app' = "lingering"
    /\ UNCHANGED <<portsVars, shutdown, failure, backend>>

Running == {b \in Backends : backend[b] = "running"}

BackendsGone ==
    /\ app = "lingering" /\ Running = {}
    /\ app' = "released"
    /\ UNCHANGED <<portsVars, shutdown, failure, backend>>

LingerTimesOut ==
    /\ app = "lingering"
    /\ backend' = [b \in Backends |-> IF b \in Running THEN "killed" ELSE backend[b]]
    /\ app' = "released"
    /\ UNCHANGED <<portsVars, shutdown, failure>>

\* The listeners are released and the callbacks ended: authorized to quit.
Quit ==
    /\ app = "released"
    /\ app' = "quit"
    /\ UNCHANGED <<portsVars, shutdown, failure, backend>>

\* The client session finds no backend and forks one, while the runtime lives.
SpawnBackend(b) ==
    /\ app \in {"starting", "up", "closing", "disposing"}
    /\ backend[b] = "none"
    /\ backend' = [backend EXCEPT ![b] = "running"]
    /\ UNCHANGED <<portsVars, app, shutdown, failure>>

BackendExits(b) ==
    /\ backend[b] = "running"
    /\ backend' = [backend EXCEPT ![b] = "exited"]
    /\ UNCHANGED <<portsVars, app, shutdown, failure>>

-----------------------------------------------------------------------------
OwnStep ==
    \/ OpenWindow \/ EndsOnRequest \/ WindowDestroyed \/ StartDisposing
    \/ Disposed \/ BackendsGone \/ LingerTimesOut \/ Quit

Surprise ==
    \/ EndsOnFailure \/ UserQuits \/ UserClosesWindow \/ ClosingFails
    \/ \E b \in Backends : SpawnBackend(b) \/ BackendExits(b)

Ports(step) == app # "quit" /\ step /\ UNCHANGED appVars

Next ==
    \/ app # "quit" /\ (OwnStep \/ Surprise)
    \/ Ports(MainStep \/ PageStep \/ PortsSurprise)

Spec == Init /\ [][Next]_vars

\* The process and the loaded page go on; what users, backends and failures do
\* is not owed.  All of it is finite, so that one condition for each will do.
Fairness ==
    /\ WF_vars(OwnStep)
    /\ WF_vars(Ports(MainStep))
    /\ WF_vars(Ports(PageStep))

FairSpec == Spec /\ Fairness

-----------------------------------------------------------------------------
(* A server never outlives the runtime it calls: the window's scope is     *)
(* closed, ports and servers with it, before the runtime is disposed.      *)
ServersHaveRuntime ==
    app \in {"disposing", "lingering", "released", "quit"} =>
        \A p \in Pages : server[p] \notin {"starting", "running", "idle"} /\ mainEnd[p] # "open"

(* When the process quits, nothing is left behind: the window is gone, no  *)
(* job is at the semaphore, and every forked backend has ended or been     *)
(* told to.                                                                *)
QuitLeavesNothing ==
    app = "quit" => window \in {"none", "closed"} /\ ~alive /\ permits = <<>> /\ Running = {}

(* Resources end in the order in which they depend on each other.          *)
NothingOutlivesItsOwner == ServersHaveRuntime /\ QuitLeavesNothing

(* A quit that was asked for, and held back, happens.                      *)
QuitHappens == shutdown ~> app = "quit"
=============================================================================
