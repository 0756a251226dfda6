---------------------------- MODULE ClientSession ----------------------------
(***************************************************************************)
(* The session a client keeps with its backend                             *)
(* (packages/client-ts/client-session.ts): a loop acquires a client,       *)
(* publishes it, waits until its connection is lost, and starts over.  The *)
(* disconnect hook runs on the transport's fiber, at any moment; it and    *)
(* the publication of one connection attempt exclude each other by the     *)
(* attempt's lifecycle semaphore.                                          *)
(*                                                                         *)
(* acquireClient makes up to Tries connection attempts in the scope of one *)
(* epoch (FindOrSpawn finds their endpoints); only the last becomes the    *)
(* client, and the others live on until the scope closes.                  *)
(***************************************************************************)
EXTENDS SessionState

vars == <<phase, last, tries, hook, lost, granted, clients, status, ready>>

Attempt == 1..MaxAttempts

\* A hook waits for the permit, or holds it between clearing the current
\* client and reporting it.
HookState == {"idle", "waiting", "reporting"}

\* With "publishing" the loop holds the permit between the two SubscriptionRefs.
LoopPhase == {"acquiring", "connecting", "acquired", "publishing", "live",
              "backoff", "closing", "ended", "clearing", "closed"}

Init ==
  /\ phase = "acquiring"
  /\ last = 0 /\ tries = 0
  /\ hook = [a \in Attempt |-> "idle"]
  /\ lost = {} /\ granted = {}
  /\ clients = 0 /\ status = "disconnected"
  /\ ready = "pending"

(***************************************************************************)
(* acquireClient.                                                          *)
(***************************************************************************)
\* An endpoint was found: protocolLayer makes the attempt's record.
Connect ==
  /\ phase = "acquiring" /\ last < MaxAttempts
  /\ last' = last + 1 /\ tries' = tries + 1
  /\ phase' = "connecting"
  /\ UNCHANGED <<hook, lost, granted, clients, status, ready>>

\* The backend sent its presence.
Presence ==
  /\ phase = "connecting"
  /\ phase' = "acquired"
  /\ UNCHANGED <<last, tries, hook, lost, granted, clients, status, ready>>

\* A fiber of the epoch's scope ends with it: no hook runs on.
CloseScope == hook' = [a \in Attempt |-> "idle"]

\* The epoch failed; the first outcome of ready stays.
EpochFails ==
  /\ phase' = "backoff"
  /\ CloseScope
  /\ ready' = IF ready = "pending" THEN "failed" ELSE ready
  /\ UNCHANGED <<last, tries, lost, granted, clients, status>>

AttemptLeft == tries < Tries

\* No presence in time: another attempt, if one is left.
Stale ==
  /\ phase = "connecting" /\ AttemptLeft
  /\ phase' = "acquiring"
  /\ UNCHANGED <<last, tries, hook, lost, granted, clients, status, ready>>

\* No backend, or no attempt left.
AcquireFails ==
  /\ \/ phase = "acquiring"
     \/ phase = "connecting" /\ ~AttemptLeft
  /\ EpochFails

(***************************************************************************)
(* Publication, under the permit.                                          *)
(***************************************************************************)
PermitFree(a) == hook[a] # "reporting" /\ ~(phase = "publishing" /\ a = last)

Publishable(a) == a \notin lost

Publish ==
  /\ phase = "acquired" /\ PermitFree(last) /\ Publishable(last)
  /\ granted' = granted \cup {last}
  /\ clients' = last
  /\ phase' = "publishing"
  /\ UNCHANGED <<last, tries, hook, lost, status, ready>>

ReportConnected ==
  /\ phase = "publishing"
  /\ status' = "connected"
  /\ ready' = IF ready = "pending" THEN "done" ELSE ready
  /\ phase' = "live"
  /\ UNCHANGED <<last, tries, hook, lost, granted, clients>>

\* The connection was lost before it could be published.
PublishTooLate ==
  /\ phase = "acquired" /\ PermitFree(last) /\ ~Publishable(last)
  /\ EpochFails

(***************************************************************************)
(* onDisconnect.                                                           *)
(***************************************************************************)
\* The connection of an attempt in the epoch's scope is lost.
Disconnects(a) ==
  /\ phase \in {"acquiring", "connecting", "acquired", "publishing", "live", "closing"}
  /\ a \in last - tries + 1..last /\ hook[a] = "idle"
  /\ hook' = [hook EXCEPT ![a] = "waiting"]
  /\ UNCHANGED <<phase, last, tries, lost, granted, clients, status, ready>>

\* Mutant: every attempt's hook takes the current client away.
Current_Any(a) == TRUE
Current(a) == a \in granted

\* Of an attempt that was never published, or is lost already, nothing is current.
Ignore(a) ==
  /\ hook[a] = "waiting" /\ PermitFree(a)
  /\ a \in lost \/ ~Current(a)
  /\ lost' = lost \cup {a}
  /\ hook' = [hook EXCEPT ![a] = "idle"]
  /\ UNCHANGED <<phase, last, tries, granted, clients, status, ready>>

Invalidate(a) ==
  /\ hook[a] = "waiting" /\ PermitFree(a)
  /\ a \notin lost /\ Current(a)
  /\ clients' = 0
  /\ hook' = [hook EXCEPT ![a] = "reporting"]
  /\ UNCHANGED <<phase, last, tries, lost, granted, status, ready>>

ReportReconnecting(a) ==
  /\ hook[a] = "reporting"
  /\ status' = "reconnecting"
  /\ lost' = lost \cup {a}
  /\ hook' = [hook EXCEPT ![a] = "idle"]
  /\ UNCHANGED <<phase, last, tries, granted, clients, ready>>

(***************************************************************************)
(* The loop.                                                               *)
(***************************************************************************)
Over == last \in lost

\* Deferred.await(attempt.disconnected) returns.
EpochOver == phase = "live" /\ Over /\ EpochFails

\* Mutant: the loop ends with its first lost connection.
MayRetry_Once == last = 0
MayRetry == phase = "backoff"

\* The reconnect schedule has no end, and does not look at ready.
Retry ==
  /\ phase = "backoff" /\ MayRetry
  /\ phase' = "acquiring"
  /\ tries' = 0
  /\ UNCHANGED <<last, hook, lost, granted, clients, status, ready>>

(***************************************************************************)
(* The end of the session's scope: with the client, or because makeSession *)
(* failed with ready.  Finalizers run in reverse order, so the loop, its   *)
(* epoch's scope and the hooks in it end before the status is cleared.     *)
(***************************************************************************)
Close ==
  /\ phase \notin {"closing", "ended", "clearing", "closed"}
  /\ phase' = "closing"
  /\ UNCHANGED <<last, tries, hook, lost, granted, clients, status, ready>>

LoopEnds ==
  /\ phase = "closing"
  /\ phase' = "ended"
  /\ CloseScope
  /\ UNCHANGED <<last, tries, lost, granted, clients, status, ready>>

\* Mutant: the finalizer does not wait for the loop.
LoopGone_Unawaited == phase \in {"closing", "ended"}
LoopGone == phase = "ended"

Clear ==
  /\ LoopGone
  /\ clients' = 0
  /\ phase' = "clearing"
  /\ UNCHANGED <<last, tries, hook, lost, granted, status, ready>>

ReportDisconnected ==
  /\ phase = "clearing"
  /\ status' = "disconnected"
  /\ phase' = "closed"
  /\ UNCHANGED <<last, tries, hook, lost, granted, clients, ready>>

HookRuns(a) == Ignore(a) \/ Invalidate(a) \/ ReportReconnecting(a)
LoopRuns == Publish \/ ReportConnected \/ PublishTooLate \/ EpochOver \/ Retry
Acquires == Connect \/ Presence \/ Stale \/ AcquireFails
Closes == LoopEnds \/ Clear \/ ReportDisconnected

Next ==
  \/ Acquires \/ LoopRuns \/ Close \/ Closes
  \/ \E a \in Attempt : Disconnects(a) \/ HookRuns(a)

Spec == Init /\ [][Next]_vars

\* Effect's scheduler runs every fiber that can run; an acquisition ends by
\* its timeouts, and one tried again and again finds a backend (which is
\* FindOrSpawn's EveryoneMeets).  Nothing has to disconnect or to send its
\* presence, and nobody has to close.
Fairness ==
  /\ WF_vars(LoopRuns) /\ WF_vars(Acquires) /\ WF_vars(Closes)
  /\ SF_vars(Connect)
  /\ \A a \in Attempt : WF_vars(HookRuns(a))

FairSpec == Spec /\ Fairness

(***************************************************************************)
(* Properties.                                                             *)
(***************************************************************************)
\* Every variable holds a value of its kind.
TypeOK ==
  /\ phase \in LoopPhase /\ last \in 0..MaxAttempts /\ tries \in 0..Tries
  /\ tries <= last
  /\ hook \in [Attempt -> HookState]
  /\ lost \subseteq 1..last /\ granted \subseteq 1..last
  /\ clients \in 0..last
  /\ status \in {"connected", "reconnecting", "disconnected"}
  /\ ready \in {"pending", "done", "failed"}

\* A session that is reconnecting connects again or is closed, unless no
\* attempt is left to the model.
Reconnects ==
  status = "reconnecting" ~> status # "reconnecting" \/ last = MaxAttempts
=============================================================================
