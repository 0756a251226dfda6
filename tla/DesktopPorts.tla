---------------------------- MODULE DesktopPorts ----------------------------
(***************************************************************************)
(* The message ports of the desktop window.  Every page the window loads   *)
(* asks the main process for one port; the main process keeps one RPC      *)
(* server at a time, for the page that asked last.                         *)
(*                                                                         *)
(*   1. A page asks with a fresh nonce and waits for a grant that carries  *)
(*      it.  A grant for another nonce, or one that comes after the page   *)
(*      gave up, is not taken: its port lies about until it is collected.  *)
(*   2. A semaphore orders the port jobs: requests of pages, the closings  *)
(*      that navigations dispatch, and the one of the window's own scope.  *)
(*      Whoever holds it first takes the scope of the previous port away   *)
(*      from "current" and closes it.                                      *)
(*   3. A request then makes the channel, serves the main end and posts    *)
(*      the other end to the page.  A step that fails undoes them all; the *)
(*      far end only if it was not handed over.                            *)
(*   4. The window closes in order: stop listening to pages, interrupt     *)
(*      their requests and wait for them, ignore navigations, close the    *)
(*      port under the semaphore, destroy the window.                      *)
(***************************************************************************)
EXTENDS Naturals, Sequences, FiniteSets, Queues

CONSTANT MaxPages       \* bound: pages the window loads, the first included

ASSUME MaxPagesAssumption == MaxPages \in Nat \ {0}

Pages == 1 .. MaxPages

\* The jobs of the semaphore: a page's request, a navigation, the window's end.
Navigation == 0
WindowEnd == MaxPages + 1

VARIABLES
    window,     \* stage of the window's scope
    alive,      \* the BrowserWindow exists
    document,   \* the page in the window, 0 before the first
    navigating, \* did-start-navigation was seen, the new page not yet
    deserted,   \* pages that stayed although a navigation away had started
    boot,       \* what each page's boot has reached
    answered,   \* pages whose port carries a first snapshot
    stage,      \* what the main process does with each page's request
    permits,    \* the jobs at the semaphore, first come first; the head holds it
    current,    \* the page whose port scope the broker holds, or 0
    victim,     \* the page whose port scope the head is closing, or 0
    mainEnd,    \* the end of each page's port in the main process
    farEnd,     \* ... and the one made for the page
    server      \* the RPC server on each main end

pageVars == <<document, navigating, deserted, boot, answered>>
brokerVars == <<stage, permits, current, victim>>
portVars == <<mainEnd, farEnd, server>>
portsVars == <<window, alive, pageVars, brokerVars, portVars>>

Windows == {"none", "open", "asked", "stopped", "drained", "closed"}
Boots == {"none", "loading", "asking", "syncing", "mounted", "failed", "gone"}
Stages == {"none", "sent", "waiting", "closing", "making", "connecting",
           "granting", "undoing", "done"}

PortsTypeOK ==
    /\ window \in Windows
    /\ alive \in BOOLEAN /\ navigating \in BOOLEAN
    /\ document \in 0 .. MaxPages
    /\ deserted \subseteq Pages /\ answered \subseteq Pages
    /\ boot \in [Pages -> Boots]
    /\ stage \in [Pages -> Stages]
    /\ permits \in Seq(0 .. WindowEnd)
    /\ {current, victim} \subseteq 0 .. MaxPages
    /\ mainEnd \in [Pages -> {"none", "open", "closed"}]
    /\ farEnd \in [Pages -> {"none", "main", "moving", "page", "dropped", "closed"}]
    /\ server \in [Pages -> {"none", "starting", "running", "idle", "stopped"}]

PortsInit ==
    /\ window = "none" /\ alive = FALSE
    /\ document = 0 /\ navigating = FALSE /\ deserted = {}
    /\ boot = [p \in Pages |-> "none"] /\ answered = {}
    /\ stage = [p \in Pages |-> "none"] /\ permits = <<>>
    /\ current = 0 /\ victim = 0
    /\ mainEnd = [p \in Pages |-> "none"]
    /\ farEnd = [p \in Pages |-> "none"]
    /\ server = [p \in Pages |-> "none"]

-----------------------------------------------------------------------------
(* The window's scope and the semaphore. *)

Listening == window \in {"open", "asked"}            \* ipc binding active
Active == window \in {"open", "asked", "stopped"}    \* navigations heeded

Holds(job) == permits # <<>> /\ Head(permits) = job

\* Mutant: the requests of pages do not wait for each other.
InTransaction_Unordered(p, step) == stage[p] = step
InTransaction(p, step) == Holds(p) /\ stage[p] = step

\* What is left of the far ends when the page that held them is torn down.
FarEndsWithout(p) ==
    [q \in Pages |-> IF farEnd[q] = "dropped" \/ (q = p /\ farEnd[q] = "page")
                     THEN "closed" ELSE farEnd[q]]

\* The unload of the page in the window, if there is one.
Unload ==
    /\ boot' = [p \in Pages |-> IF p = document THEN "gone" ELSE boot[p]]
    /\ farEnd' = FarEndsWithout(document)

\* Mutant: the port is left to the server, which is interrupted.
EndScope_PortKept(p) ==
    /\ server' = [server EXCEPT ![p] = IF @ = "none" THEN @ ELSE "stopped"]
    /\ UNCHANGED mainEnd

\* The end of a port scope: its server is interrupted, its main end closed.
EndScope(p) ==
    /\ server' = [server EXCEPT ![p] = IF @ = "none" THEN @ ELSE "stopped"]
    /\ mainEnd' = [mainEnd EXCEPT ![p] = IF @ = "none" THEN @ ELSE "closed"]

-----------------------------------------------------------------------------
(* Pages: navigation, the request for a port, the boot. *)

\* did-start-navigation of another document: the open port is to be closed.
NavigationStarts ==
    /\ alive /\ ~navigating /\ document < MaxPages
    /\ navigating' = TRUE
    /\ permits' = IF Active THEN Append(permits, Navigation) ELSE permits
    /\ UNCHANGED <<window, alive, document, deserted, boot, answered, stage,
                   current, victim, portVars>>

NavigationCommits ==
    /\ navigating
    /\ navigating' = FALSE
    /\ document' = document + 1
    /\ boot' = [p \in Pages |-> IF p = document THEN "gone"
                                ELSE IF p = document + 1 THEN "loading" ELSE boot[p]]
    /\ farEnd' = FarEndsWithout(document)
    /\ UNCHANGED <<window, alive, deserted, answered, brokerVars, mainEnd, server>>

\* A navigation to a foreign address is prevented after it has started.
NavigationPrevented ==
    /\ navigating /\ document # 0 /\ document \notin deserted    \* bound: once a page
    /\ navigating' = FALSE
    /\ deserted' = deserted \cup {document}
    /\ UNCHANGED <<window, alive, document, boot, answered, brokerVars, portVars>>

Ask(p) ==
    /\ boot[p] = "loading"
    /\ boot' = [boot EXCEPT ![p] = "asking"]
    /\ stage' = [stage EXCEPT ![p] = "sent"]
    /\ UNCHANGED <<window, alive, document, navigating, deserted, answered,
                   permits, current, victim, portVars>>

\* A grant reaches the window's page: taken if it answers the page's nonce.
TakesGrant(p) == document = p /\ boot[p] = "asking"

Deliver(p) ==
    /\ farEnd[p] = "moving"
    /\ farEnd' = [farEnd EXCEPT ![p] = IF ~alive THEN "closed"
                                       ELSE IF TakesGrant(p) THEN "page" ELSE "dropped"]
    /\ boot' = IF alive /\ TakesGrant(p) THEN [boot EXCEPT ![p] = "syncing"] ELSE boot
    /\ UNCHANGED <<window, alive, document, navigating, deserted, answered,
                   brokerVars, mainEnd, server>>

Collect(p) ==
    /\ farEnd[p] = "dropped"
    /\ farEnd' = [farEnd EXCEPT ![p] = "closed"]
    /\ UNCHANGED <<window, alive, pageVars, brokerVars, mainEnd, server>>

FirstSnapshot(p) ==
    /\ boot[p] = "syncing" /\ p \in answered
    /\ boot' = [boot EXCEPT ![p] = "mounted"]
    /\ UNCHANGED <<window, alive, document, navigating, deserted, answered,
                   brokerVars, portVars>>

\* The boot's scope ends: the page shows the error and closes its port.
BootEnds(p) ==
    /\ boot' = [boot EXCEPT ![p] = "failed"]
    /\ farEnd' = [farEnd EXCEPT ![p] = IF @ = "page" THEN "closed" ELSE @]
    /\ UNCHANGED <<window, alive, document, navigating, deserted, answered,
                   brokerVars, mainEnd, server>>

BootTimesOut(p) == boot[p] \in {"asking", "syncing"} /\ BootEnds(p)

SyncFails(p) == boot[p] \in {"syncing", "mounted"} /\ BootEnds(p)

-----------------------------------------------------------------------------
(* Requests in the main process. *)

\* The sender must be the window's main frame.  A request that a page sent
\* before it went may pass or not, as the frame outlives the page or not.
Admitted(p) == Listening /\ alive /\ (p = document \/ boot[p] = "gone")

RequestArrives(p) ==
    /\ stage[p] = "sent"
    /\ \A q \in 1 .. p - 1 : stage[q] # "sent"
    /\ \/ /\ Admitted(p)
          /\ stage' = [stage EXCEPT ![p] = "waiting"]
          /\ permits' = Append(permits, p)
       \/ /\ ~Admitted(p) \/ boot[p] = "gone"
          /\ stage' = [stage EXCEPT ![p] = "done"]
          /\ UNCHANGED permits
    /\ UNCHANGED <<window, alive, pageVars, current, victim, portVars>>

\* Under the permit, the scope of the previous port is taken out of "current".
Begin(p) ==
    /\ InTransaction(p, "waiting")
    /\ victim' = current /\ current' = 0
    /\ stage' = [stage EXCEPT ![p] = IF current = 0 THEN "making" ELSE "closing"]
    /\ UNCHANGED <<window, alive, pageVars, permits, portVars>>

\* Mutant: a closing that finds no port keeps the semaphore.
CloserBegins_PermitKept ==
    /\ Holds(Navigation) \/ Holds(WindowEnd)
    /\ victim = 0
    /\ victim' = current /\ current' = 0
    /\ UNCHANGED <<window, alive, pageVars, permits, stage, portVars>>

CloserBegins ==
    /\ Holds(Navigation) \/ Holds(WindowEnd)
    /\ victim = 0
    /\ victim' = current /\ current' = 0
    /\ permits' = IF current = 0 THEN Tail(permits) ELSE permits
    /\ UNCHANGED <<window, alive, pageVars, stage, portVars>>

ClosePrevious ==
    /\ victim # 0
    /\ EndScope(victim)
    /\ victim' = 0
    /\ IF Head(permits) \in Pages
       THEN stage' = [stage EXCEPT ![Head(permits)] = "making"] /\ UNCHANGED permits
       ELSE permits' = Tail(permits) /\ UNCHANGED stage
    /\ UNCHANGED <<window, alive, pageVars, current, farEnd>>

MakeChannel(p) ==
    /\ InTransaction(p, "making")
    /\ mainEnd' = [mainEnd EXCEPT ![p] = "open"]
    /\ farEnd' = [farEnd EXCEPT ![p] = "main"]
    /\ current' = p
    /\ stage' = [stage EXCEPT ![p] = "connecting"]
    /\ UNCHANGED <<window, alive, pageVars, permits, victim, server>>

Connect(p) ==
    /\ InTransaction(p, "connecting")
    /\ server' = [server EXCEPT ![p] = "starting"]
    /\ stage' = [stage EXCEPT ![p] = "granting"]
    /\ UNCHANGED <<window, alive, pageVars, permits, current, victim, mainEnd, farEnd>>

\* Posting to a destroyed window throws.  An interruption that is pending when
\* the grant has gone out fails the transaction after the hand-over.
Grant(p) ==
    /\ InTransaction(p, "granting")
    /\ farEnd' = IF alive THEN [farEnd EXCEPT ![p] = "moving"] ELSE farEnd
    /\ \/ /\ alive
          /\ stage' = [stage EXCEPT ![p] = "done"]
          /\ permits' = Tail(permits)
       \/ /\ ~alive \/ window = "stopped"
          /\ stage' = [stage EXCEPT ![p] = "undoing"]
          /\ UNCHANGED permits
    /\ UNCHANGED <<window, alive, pageVars, current, victim, mainEnd, server>>

Abort(p) ==
    /\ window = "stopped"
    /\ \E step \in {"making", "connecting", "granting"} : InTransaction(p, step)
    /\ stage' = [stage EXCEPT ![p] = "undoing"]
    /\ UNCHANGED <<window, alive, pageVars, permits, current, victim, portVars>>

Undo(p) ==
    /\ InTransaction(p, "undoing")
    /\ current' = 0
    /\ EndScope(p)
    /\ farEnd' = [farEnd EXCEPT ![p] = IF @ = "main" THEN "closed" ELSE @]
    /\ stage' = [stage EXCEPT ![p] = "done"]
    /\ permits' = Tail(permits)
    /\ UNCHANGED <<window, alive, pageVars, victim>>

-----------------------------------------------------------------------------
(* The RPC server on a port. *)

ServerStarts(p) ==
    /\ server[p] = "starting"
    /\ server' = [server EXCEPT ![p] = "running"]
    /\ UNCHANGED <<window, alive, pageVars, brokerVars, mainEnd, farEnd>>

\* No client session, hence no context for the handlers: the port is closed.
ServerFails(p) ==
    /\ server[p] = "starting"
    /\ EndScope(p)
    /\ UNCHANGED <<window, alive, pageVars, brokerVars, farEnd>>

ServerAnswers(p) ==
    /\ server[p] = "running" /\ mainEnd[p] = "open"
    /\ farEnd[p] = "page" /\ p \notin answered
    /\ answered' = answered \cup {p}
    /\ UNCHANGED <<window, alive, document, navigating, deserted, boot,
                   brokerVars, portVars>>

\* The far end is closed: the protocol's scope closes the main end.
RemoteClosed(p) ==
    /\ server[p] = "running" /\ farEnd[p] = "closed"
    /\ server' = [server EXCEPT ![p] = "idle"]
    /\ mainEnd' = [mainEnd EXCEPT ![p] = "closed"]
    /\ UNCHANGED <<window, alive, pageVars, brokerVars, farEnd>>

-----------------------------------------------------------------------------
(* The end of the window. *)

\* The 'closed' event dispatches the closing of the window's scope.
UserCloses ==
    /\ alive /\ document # 0
    /\ alive' = FALSE /\ navigating' = FALSE
    /\ Unload
    /\ window' = IF window = "open" THEN "asked" ELSE window
    /\ UNCHANGED <<document, deserted, answered, brokerVars, mainEnd, server>>

\* The binding is off; requests that wait are interrupted, those at work will be.
StopIpc ==
    /\ window = "asked"
    /\ window' = "stopped"
    /\ permits' = Without(permits, {p \in Pages : stage[p] = "waiting"})
    /\ stage' = [p \in Pages |-> IF stage[p] = "waiting" THEN "done" ELSE stage[p]]
    /\ UNCHANGED <<alive, pageVars, current, victim, portVars>>

Drained ==
    /\ window = "stopped"
    /\ \A i \in 1 .. Len(permits) : permits[i] \notin Pages
    /\ window' = "drained"
    /\ permits' = Append(permits, WindowEnd)
    /\ UNCHANGED <<alive, pageVars, stage, current, victim, portVars>>

Destroyed ==
    /\ window = "drained"
    /\ \A i \in 1 .. Len(permits) : permits[i] # WindowEnd
    /\ window' = "closed"
    /\ alive' = FALSE /\ navigating' = FALSE
    /\ Unload
    /\ UNCHANGED <<document, deserted, answered, brokerVars, mainEnd, server>>

-----------------------------------------------------------------------------
MainStep ==
    \/ CloserBegins \/ ClosePrevious \/ StopIpc \/ Drained
    \/ \E p \in Pages :
          \/ RequestArrives(p) \/ Begin(p) \/ MakeChannel(p) \/ Connect(p)
          \/ Grant(p) \/ Undo(p) \/ ServerStarts(p) \/ RemoteClosed(p)

PageStep ==
    \/ NavigationCommits
    \/ \E p \in Pages : Ask(p) \/ Deliver(p) \/ FirstSnapshot(p) \/ BootTimesOut(p)

PortsSurprise ==
    \/ NavigationStarts \/ NavigationPrevented
    \/ \E p \in Pages : \/ Abort(p) \/ ServerFails(p) \/ ServerAnswers(p)
                        \/ SyncFails(p) \/ Collect(p)

-----------------------------------------------------------------------------
(* At most one port is open, and somebody answers for it: it is the one of *)
(* "current" or the one being closed under the semaphore.  Nothing is open *)
(* once the window's scope is closed (openRpcPort, closeRpcPort).          *)
PortsAreOwned ==
    LET open == {p \in Pages : \/ mainEnd[p] = "open"
                               \/ server[p] \in {"starting", "running", "idle"}}
    IN  /\ open \subseteq {current, victim}
        /\ victim # 0 => current = 0 /\ permits # <<>>
        /\ window = "closed" => open = {}

(* A page that shows the projects has its own server at the other end of   *)
(* its port, unless the window or a navigation is taking it down: no late  *)
(* request or closing of an earlier page cuts it off.                      *)
MountedIsServed ==
    \A p \in Pages \ deserted :
        boot[p] = "mounted" /\ p = document /\ ~navigating /\ alive /\ Listening =>
            /\ current = p /\ server[p] = "running"
            /\ mainEnd[p] = "open" /\ farEnd[p] = "page"

(* Whoever waits for the semaphore gets through or is interrupted, and the *)
(* port of a page that is gone does not stay open: every holder gives the  *)
(* semaphore back, also one whose transaction fails, and the next page's   *)
(* request, a navigation or the window's end closes what is left.          *)
Waits(p) == stage[p] \in {"waiting", "closing", "making", "connecting", "granting", "undoing"}
Lingers(p) == boot[p] = "gone" /\ mainEnd[p] = "open"
PortsPassOn == (\E p \in Pages : Waits(p) \/ Lingers(p)) ~> (\A p \in Pages : ~Waits(p) /\ ~Lingers(p))
=============================================================================
