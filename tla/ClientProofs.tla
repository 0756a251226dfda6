----------------------------- MODULE ClientProofs -----------------------------
(***************************************************************************)
(* Safety of what a client does below its interface once it has found a    *)
(* backend: the session, for any number of connection attempts, in one     *)
(* acquisition and over all epochs, and the synchronisation, for a log, a  *)
(* session and faults of any length.                                       *)
(*                                                                         *)
(* The session: what a subscriber sees is right because hooks cannot reach *)
(* beyond their epoch: a hook belongs to an attempt of the epoch whose     *)
(* scope is open (HooksInScope), of these at most the last was ever        *)
(* published (OnlyLastGranted), and so a hook that takes a client away     *)
(* takes its own (ReportsOwnLoss).                                         *)
(*                                                                         *)
(* The synchronisation: at most one epoch fiber is active.  It holds the   *)
(* fold of a prefix of the log, and while it streams its cursor is the seq *)
(* of that fold, so that an event passes the gate only if it is the next   *)
(* one (EpochOK).  The status loop is right about the epoch once it has    *)
(* taken every status, and about what the sink was told as long as neither *)
(* of the two fibers makes its calls in the middle of the other's (LoopOK).*)
(***************************************************************************)
EXTENDS MCClient, SequenceTheorems, TLAPS

(***************************************************************************)
(* The session.                                                            *)
(***************************************************************************)
ScopeAttempts == last - tries + 1..last
ScopeOpen == {"acquiring", "connecting", "acquired", "publishing", "live", "closing"}
Acquiring == {"acquiring", "connecting", "acquired"}

\* Another attempt of the acquisition is left whenever one may be made.
TriesAreLeft == phase = "acquiring" => Session!AttemptLeft

\* An attempt that has its presence was made.
AcquiredIsOne == phase \in {"connecting", "acquired"} => tries # 0

HooksInScope == \A a \in Session!Attempt : hook[a] # "idle" => a \in ScopeAttempts /\ phase \in ScopeOpen

OnlyLastGranted == \A a \in granted : a \in ScopeAttempts => a = last /\ phase \notin Acquiring

ReportsOwnLoss == \A a \in Session!Attempt :
  hook[a] = "reporting" => a \in granted /\ a \notin lost /\ clients = 0

Published == phase \in {"publishing", "live"} => last \in granted
Publishing == phase = "publishing" => clients = last /\ last \notin lost

ClosedIsClear == phase = "closed" => status = "disconnected"

\* The inductive invariant.
SessionInv ==
  /\ Session!TypeOK /\ TriesAreLeft /\ AcquiredIsOne
  /\ HooksInScope /\ OnlyLastGranted /\ ReportsOwnLoss
  /\ Published /\ Publishing /\ ClosedIsClear
  /\ ClientIsWatched /\ LiveIsServed

\* Nobody is connected at first.
LEMMA InitSessionInv == Session!Init => SessionInv
BY TriesAssumption, MaxAttemptsAssumption
DEF Session!Init, SessionInv, Session!TypeOK, TriesAreLeft, AcquiredIsOne, HooksInScope,
    OnlyLastGranted, ReportsOwnLoss,
    Published, Publishing, ClosedIsClear, ClientIsWatched, LiveIsServed, Session!Attempt,
    Session!HookState, Session!LoopPhase, Session!AttemptLeft

\* Making attempts, of one epoch, touches neither the client nor a hook.
LEMMA AcquiresKeep == ASSUME SessionInv, Session!Acquires PROVE SessionInv'
<1>. USE TriesAssumption, MaxAttemptsAssumption
     DEF Session!Acquires, Session!Connect, Session!Presence, Session!Stale, Session!AcquireFails,
         Session!EpochFails, Session!CloseScope, Session!AttemptLeft
<1>1. Session!TypeOK' /\ TriesAreLeft'
  <2>1. last \in Nat /\ last' \in Nat /\ last <= last'
    BY DEF SessionInv, Session!TypeOK
  <2>2. 1..last \subseteq 1..last' /\ 0..last \subseteq 0..last'
    BY <2>1
  <2>3. lost' \subseteq 1..last' /\ granted' \subseteq 1..last' /\ clients' \in 0..last'
    BY <2>2 DEF SessionInv, Session!TypeOK
  <2>4. TriesAreLeft' /\ tries' \in 0..Tries /\ tries' <= last' /\ last' \in 0..MaxAttempts
    BY DEF SessionInv, Session!TypeOK, TriesAreLeft
  <2>5. /\ phase' \in Session!LoopPhase /\ hook' \in [Session!Attempt -> Session!HookState]
        /\ status' \in {"connected", "reconnecting", "disconnected"}
        /\ ready' \in {"pending", "done", "failed"}
    BY DEF SessionInv, Session!TypeOK, Session!Attempt, Session!HookState, Session!LoopPhase
  <2>. QED BY <2>3, <2>4, <2>5 DEF Session!TypeOK
<1>2. HooksInScope' /\ OnlyLastGranted'
  BY DEF SessionInv, Session!TypeOK, HooksInScope, OnlyLastGranted, ScopeAttempts, ScopeOpen,
         Acquiring, Session!Attempt
<1>3. AcquiredIsOne' /\ ReportsOwnLoss' /\ Published' /\ Publishing' /\ ClosedIsClear'
  BY DEF SessionInv, Session!TypeOK, AcquiredIsOne, ReportsOwnLoss, Published, Publishing, ClosedIsClear
<1>4. ClientIsWatched' /\ LiveIsServed'
  BY DEF SessionInv, Session!TypeOK, ClientIsWatched, LiveIsServed
<1>. QED BY <1>1, <1>2, <1>3, <1>4 DEF SessionInv

\* The loop publishes an attempt nobody took away, and leaves one that is lost.
LEMMA ConnectionLoopKeeps == ASSUME SessionInv, Session!LoopRuns PROVE SessionInv'
<1>. USE TriesAssumption, MaxAttemptsAssumption
     DEF Session!LoopRuns, Session!Publish, Session!ReportConnected, Session!PublishTooLate,
         Session!EpochOver, Session!Retry, Session!EpochFails,
         Session!CloseScope, Session!AttemptLeft, Session!Over, Session!MayRetry, Session!Publishable,
         Session!PermitFree
<1>1. Session!TypeOK' /\ TriesAreLeft'
  <2>1. phase = "acquired" => last \in 1..last
    BY DEF SessionInv, Session!TypeOK, AcquiredIsOne
  <2>2. UNCHANGED <<last, lost>> /\ granted' \subseteq granted \cup {last}
        /\ clients' \in {clients, last} /\ (granted' # granted \/ clients' # clients => last \in 1..last)
    BY <2>1 
  <2>3. TriesAreLeft' /\ tries' \in 0..Tries /\ tries' <= last' /\ last' \in 0..MaxAttempts
    BY DEF SessionInv, Session!TypeOK, TriesAreLeft
  <2>4. /\ phase' \in Session!LoopPhase /\ hook' \in [Session!Attempt -> Session!HookState]
        /\ status' \in {"connected", "reconnecting", "disconnected"}
        /\ ready' \in {"pending", "done", "failed"}
    BY DEF SessionInv, Session!TypeOK, Session!Attempt, Session!HookState, Session!LoopPhase
  <2>. QED BY <2>2, <2>3, <2>4 DEF SessionInv, Session!TypeOK
<1>2. HooksInScope' /\ OnlyLastGranted'
  BY DEF SessionInv, Session!TypeOK, HooksInScope, OnlyLastGranted, ScopeAttempts, ScopeOpen,
         Acquiring, Session!Attempt
<1>3. AcquiredIsOne' /\ ReportsOwnLoss' /\ Published' /\ Publishing' /\ ClosedIsClear'
  BY DEF SessionInv, Session!TypeOK, AcquiredIsOne, ReportsOwnLoss, HooksInScope, OnlyLastGranted,
         Published, Publishing, ClosedIsClear, Acquiring, Session!Attempt
<1>4. ClientIsWatched' /\ LiveIsServed'
  BY DEF SessionInv, Session!TypeOK, ClientIsWatched, LiveIsServed, Published, Publishing
<1>. QED BY <1>1, <1>2, <1>3, <1>4 DEF SessionInv

\* The end of the session's scope.
LEMMA CloseKeeps == ASSUME SessionInv, Session!Close \/ Session!Closes PROVE SessionInv'
<1>. USE DEF Session!Close, Session!Closes, Session!LoopEnds, Session!LoopGone, Session!Clear,
             Session!ReportDisconnected, Session!CloseScope
<1>1. Session!TypeOK' /\ TriesAreLeft'
  <2>1. /\ UNCHANGED <<last, tries, lost, granted, ready>>
        /\ clients' \in 0..last
        /\ phase' \in Session!LoopPhase /\ phase' # "acquiring"
        /\ hook' \in [Session!Attempt -> Session!HookState]
        /\ status' \in {"connected", "reconnecting", "disconnected"}
    BY DEF SessionInv, Session!TypeOK, Session!Attempt, Session!HookState, Session!LoopPhase
  <2>. QED BY <2>1 DEF SessionInv, Session!TypeOK, TriesAreLeft
<1>2. HooksInScope' /\ OnlyLastGranted'
  BY DEF SessionInv, Session!TypeOK, HooksInScope, OnlyLastGranted, ScopeAttempts, ScopeOpen,
         Acquiring, Session!Attempt
<1>3. AcquiredIsOne' /\ ReportsOwnLoss' /\ Published' /\ Publishing' /\ ClosedIsClear'
  BY DEF SessionInv, Session!TypeOK, AcquiredIsOne, ReportsOwnLoss, Published, Publishing, ClosedIsClear
<1>4. ClientIsWatched' /\ LiveIsServed'
  BY DEF SessionInv, Session!TypeOK, ClientIsWatched, LiveIsServed
<1>. QED BY <1>1, <1>2, <1>3, <1>4 DEF SessionInv

\* A hook that finds something to take away is that of the last attempt.
LEMMA HookIsLast ==
  ASSUME SessionInv, NEW a \in Session!Attempt, hook[a] # "idle", a \in granted
  PROVE  a = last /\ phase \in {"publishing", "live", "closing"}
BY DEF SessionInv, HooksInScope, OnlyLastGranted, ScopeOpen, Acquiring

\* A lost connection and the steps of its hook.
LEMMA HookKeeps ==
  ASSUME SessionInv, NEW a \in Session!Attempt, Session!Disconnects(a) \/ Session!HookRuns(a)
  PROVE  SessionInv'
<1>. USE DEF Session!Disconnects, Session!HookRuns, Session!Ignore, Session!Invalidate,
             Session!ReportReconnecting, Session!Current, Session!PermitFree
<1>1. Session!TypeOK' /\ TriesAreLeft'
  <2>1. a \in 1..last
    <3>1. a \in ScopeAttempts
      BY DEF SessionInv, HooksInScope, ScopeAttempts
    <3>. QED BY <3>1 DEF SessionInv, Session!TypeOK, ScopeAttempts
  <2>2. /\ UNCHANGED <<phase, last, tries, granted, ready>>
        /\ clients' \in {clients, 0} /\ lost' \in {lost, lost \cup {a}}
        /\ hook' \in [Session!Attempt -> Session!HookState]
        /\ status' \in {"connected", "reconnecting", "disconnected"}
    BY DEF SessionInv, Session!TypeOK, Session!Attempt, Session!HookState
  <2>. QED BY <2>1, <2>2 DEF SessionInv, Session!TypeOK, TriesAreLeft, Session!AttemptLeft
<1>2. HooksInScope' /\ OnlyLastGranted'
  BY DEF SessionInv, Session!TypeOK, HooksInScope, OnlyLastGranted, ScopeAttempts, ScopeOpen,
         Acquiring, Session!Attempt
<1>3. ReportsOwnLoss'
  BY HookIsLast DEF SessionInv, Session!TypeOK, ReportsOwnLoss, HooksInScope, OnlyLastGranted,
                    ScopeOpen,
                    Acquiring
<1>4. AcquiredIsOne' /\ Published' /\ Publishing' /\ ClosedIsClear'
  BY HookIsLast DEF SessionInv, Session!TypeOK, AcquiredIsOne, Published, Publishing, ClosedIsClear,
                    ReportsOwnLoss,
                    HooksInScope, ScopeOpen
<1>5. ClientIsWatched'
  <2>1. clients' # 0 => clients' = clients /\ (lost' = lost \/ a # last)
    BY DEF SessionInv, Session!TypeOK, ClientIsWatched, ReportsOwnLoss
  <2>. QED BY <2>1 DEF SessionInv, ClientIsWatched
<1>6. LiveIsServed'
  <2>1. CASE a = last
    BY <2>1 DEF SessionInv, Session!TypeOK, LiveIsServed
  <2>2. CASE a # last
    <3>1. phase = "live" => last \in Session!Attempt
      BY MaxAttemptsAssumption DEF SessionInv, Session!TypeOK, Published, Session!Attempt
    <3>2. clients' = clients
      BY <2>2, HookIsLast
    <3>. QED BY <2>2, <3>1, <3>2 DEF SessionInv, Session!TypeOK, LiveIsServed
  <2>. QED BY <2>1, <2>2
<1>. QED BY <1>1, <1>2, <1>3, <1>4, <1>5, <1>6 DEF SessionInv

\* Every step keeps the invariant.
LEMMA SessionStepKeeps == SessionInv /\ [Session!Next]_(Session!vars) => SessionInv'
<1>. SUFFICES ASSUME SessionInv, [Session!Next]_(Session!vars) PROVE SessionInv'
  OBVIOUS
<1>1. CASE Session!Next
  BY <1>1, AcquiresKeep, ConnectionLoopKeeps, CloseKeeps, HookKeeps DEF Session!Next
<1>2. CASE UNCHANGED Session!vars
  BY <1>2 DEF Session!vars, SessionInv, Session!TypeOK, TriesAreLeft, Session!AttemptLeft,
              AcquiredIsOne, HooksInScope,
       OnlyLastGranted, ReportsOwnLoss, Published, Publishing, ClosedIsClear, ClientIsWatched,
       LiveIsServed, ScopeAttempts
<1>. QED BY <1>1, <1>2

\* The inductive invariant holds in every reachable state.
THEOREM SessionInvariance == Session!Spec => []SessionInv
BY InitSessionInv, SessionStepKeeps, PTL DEF Session!Spec

\* Whoever is handed a client is handed that of the attempt the loop watches,
\* which is not lost (client-session.ts: publish and onDisconnect).
THEOREM WatchedClients == Session!Spec => []ClientIsServed
<1>1. SessionInv => ClientIsServed
  BY DEF SessionInv, ClientIsServed
<1>. QED BY <1>1, SessionInvariance, PTL

(***************************************************************************)
(* What subscribers are told.                                              *)
(***************************************************************************)
\* The status follows the client, and a closed session rests.
LEMMA StepsTellTheTruth ==
  ASSUME SessionInv, Session!Next
  PROVE  /\ status' = "reconnecting" /\ status # "reconnecting" => clients' = 0
         /\ status' = "connected" /\ status # "connected" => clients' # 0
         /\ ready' = "done" /\ ready # "done" => clients' # 0
         /\ phase = "closed" => UNCHANGED <<clients, status>>
<1>1. CASE Session!Acquires
  BY <1>1 DEF Session!Acquires, Session!Connect, Session!Presence, Session!Stale, Session!AcquireFails,
              Session!EpochFails
<1>2. CASE Session!LoopRuns
  BY <1>2 DEF Session!LoopRuns, Session!Publish, Session!ReportConnected, Session!PublishTooLate,
              Session!EpochOver, Session!Retry, Session!EpochFails,
              Session!MayRetry, SessionInv, Session!TypeOK, Published, Publishing
<1>3. CASE Session!Close \/ Session!Closes
  BY <1>3 DEF Session!Close, Session!Closes, Session!LoopEnds, Session!LoopGone, Session!Clear,
              Session!ReportDisconnected
<1>4. ASSUME NEW a \in Session!Attempt, Session!Disconnects(a) \/ Session!HookRuns(a)
      PROVE  /\ status' = "reconnecting" /\ status # "reconnecting" => clients' = 0
             /\ status' = status \/ status' = "reconnecting"
             /\ ready' = ready
             /\ phase # "closed"
  BY <1>4 DEF Session!Disconnects, Session!HookRuns, Session!Ignore, Session!Invalidate,
              Session!ReportReconnecting,
              SessionInv, Session!TypeOK, ReportsOwnLoss, HooksInScope, ScopeOpen
<1>. QED BY <1>1, <1>2, <1>3, <1>4 DEF Session!Next

\* "reconnecting" is said once the client is gone, "connected" once it is
\* there, and after the end nobody says anything any more (onDisconnect, the
\* finalizers of client-session.ts).
THEOREM StatusFollowsClient == Session!Spec => StatusIsTrue
<1>1. SessionInv /\ [Session!Next]_(Session!vars) =>
        [/\ status' = "reconnecting" /\ status # "reconnecting" => clients' = 0
         /\ status' = "connected" /\ status # "connected" => clients' # 0
         /\ ready' = "done" /\ ready # "done" => clients' # 0]_<<clients, status, ready>>
  BY StepsTellTheTruth DEF Session!vars
<1>2. SessionInv /\ [Session!Next]_(Session!vars) =>
        [phase = "closed" => UNCHANGED <<clients, status>>]_<<clients, status>>
  BY StepsTellTheTruth DEF Session!vars
<1>3. SessionInv => (phase = "closed" => clients = 0 /\ status = "disconnected")
  BY DEF SessionInv, ClientIsWatched, ClosedIsClear
<1>. QED BY <1>1, <1>2, <1>3, SessionInvariance, PTL
        DEF Session!Spec, StatusIsTrue, StatusAfterClient, ClosedForGood

(***************************************************************************)
(* The synchronisation.                                                    *)
(***************************************************************************)
Epoch == [phase : Phase, recovering : BOOLEAN, current : Snapshots, cursor : 0..MaxSeq]

\* An epoch, next to the log and the screen.
EpochOK(e, log, screen) ==
  /\ e.current = Snapshot(e.current.seq) /\ e.current.seq <= log
  /\ e.phase \in {"confirming", "streaming", "showing"} => e.cursor = e.current.seq
  /\ e.phase \in {"confirming", "reporting", "waiting"} => e.recovering
  /\ e.phase = "answered" => screen.seq <= e.current.seq + 1
  /\ e.phase \in {"confirming", "streaming", "showing"} => screen.seq <= e.current.seq

\* An epoch of a connected session, next to the status on screen.
ToldOK(e, word) ==
  /\ e.phase \in {"listing", "answered", "waiting"} =>
       word = IF e.recovering THEN "reconnecting" ELSE "connected"
  /\ e.phase \in {"streaming", "showing"} => word = "connected"

LastStatus == IF statuses = <<>> THEN loop.status ELSE statuses[Len(statuses)]

\* The epoch and the word on screen follow the status the loop took last.
EpochIsLoops ==
  /\ active # <<>> => loop.status = "connected"
  /\ statuses = <<>> /\ active = <<>> => loop.status # "connected"

WordIsLoops ==
  /\ \A i \in 1..Len(active) : ToldOK(active[i], told)
  /\ statuses = <<>> /\ active = <<>> => told = loop.status

LoopOK ==
  /\ LastStatus = session
  /\ outcome = "running" /\ loop.at = "pulling" => EpochIsLoops /\ (~suspends => WordIsLoops)
  /\ outcome = "running" /\ loop.at = "clearing" => (~suspends => told = loop.status)

\* The inductive invariant.
SyncInv ==
  /\ TypeOK /\ stored <= applied + 1
  /\ Len(active) <= 1 /\ \A i \in 1..Len(active) : EpochOK(active[i], stored, shown)
  /\ LoopOK
  /\ ShownReplaysLog

(***************************************************************************)
(* Snapshots and sequences.                                                *)
(***************************************************************************)
\* The fold of a prefix is a snapshot, and one more event folds the next prefix.
LEMMA Snapshots0 ==
  \A n \in 0..MaxSeq : Snapshot(n) \in Snapshots /\ Snapshot(n).seq = n
<1>. SUFFICES ASSUME NEW n \in 0..MaxSeq PROVE Snapshot(n) \in Snapshots /\ Snapshot(n).seq = n
  OBVIOUS
<1>1. Prefix(n) \in [1..n -> 1..MaxSeq] /\ n \in Nat
  BY BoundsAssumption DEF Prefix
<1>2. Prefix(n) \in Seq(1..MaxSeq)
  BY <1>1, SeqDef
<1>. QED BY <1>2 DEF Snapshot, Snapshots

LEMMA NextPrefix ==
  ASSUME NEW n \in 0..MaxSeq - 1
  PROVE  Append(Prefix(n), n + 1) = Prefix(n + 1)
<1>1. Prefix(n) \in Seq(Nat) /\ Prefix(n + 1) \in Seq(Nat)
  <2>1. n \in Nat /\ n + 1 \in Nat
    BY BoundsAssumption
  <2>2. Prefix(n) \in [1..n -> Nat] /\ Prefix(n + 1) \in [1..n + 1 -> Nat]
    BY <2>1 DEF Prefix
  <2>. QED BY <2>1, <2>2, SeqDef
<1>2. Len(Prefix(n)) = n /\ Len(Prefix(n + 1)) = n + 1
  BY BoundsAssumption DEF Prefix
<1>3. Append(Prefix(n), n + 1) \in Seq(Nat) /\ Len(Append(Prefix(n), n + 1)) = n + 1
  BY <1>1, <1>2, BoundsAssumption
<1>4. \A i \in 1..n + 1 : Append(Prefix(n), n + 1)[i] = Prefix(n + 1)[i]
  BY <1>1, <1>2, BoundsAssumption DEF Prefix
<1>. QED BY <1>1, <1>2, <1>3, <1>4, SeqEqual

\* Nothing is shown and no epoch runs at first.
LEMMA InitSyncInv == Init => SyncInv
<1>. SUFFICES ASSUME Init PROVE SyncInv
  OBVIOUS
<1>1. Snapshot(0) \in Snapshots /\ Snapshot(0).seq = 0
  BY Snapshots0, BoundsAssumption
<1>2. TypeOK
  BY <1>1, BoundsAssumption, EmptySeq DEF Init, TypeOK, Status
<1>3. LoopOK
  BY DEF Init, LoopOK, LastStatus, EpochIsLoops, WordIsLoops, Status
<1>. QED BY <1>1, <1>2, <1>3, BoundsAssumption DEF Init, SyncInv, ShownReplaysLog, TypeOK

\* The numbers and the screen.
LEMMA Seqs ==
  ASSUME SyncInv
  PROVE  /\ stored \in 0..MaxSeq /\ applied \in 0..MaxSeq /\ MaxSeq \in Nat
         /\ applied <= stored /\ stored <= applied + 1
         /\ shown \in Snapshots /\ shown.seq \in 0..MaxSeq /\ shown.seq <= stored
         /\ \A n \in 0..MaxSeq : Snapshot(n) \in Snapshots /\ Snapshot(n).seq = n
BY Snapshots0, BoundsAssumption DEF SyncInv, TypeOK, ShownReplaysLog, Snapshots

\* There is one epoch, or none.
LEMMA Epochs ==
  /\ TypeOK => active \in Seq(Epoch)
  /\ SyncInv => /\ \/ active = <<>> /\ Len(active) = 0
                   \/ active # <<>> /\ Len(active) = 1
                /\ \A i \in 1..Len(active) : active[i] \in Epoch /\ EpochOK(active[i], stored, shown)
<1>1. TypeOK => active \in Seq(Epoch)
  BY DEF TypeOK, Epoch
<1>2. ASSUME SyncInv
      PROVE  /\ \/ active = <<>> /\ Len(active) = 0
                \/ active # <<>> /\ Len(active) = 1
             /\ \A i \in 1..Len(active) : active[i] \in Epoch /\ EpochOK(active[i], stored, shown)
  <2>1. active \in Seq(Epoch) /\ Len(active) <= 1
    BY <1>1, <1>2 DEF SyncInv
  <2>2. \/ active = <<>> /\ Len(active) = 0
        \/ active # <<>> /\ Len(active) = 1
    <3>1. Len(active) \in Nat
      BY <2>1, LenProperties
    <3>2. CASE active = <<>>
      BY <3>2, EmptySeq
    <3>3. CASE active # <<>>
      <4>1. Len(active) # 0
        BY <2>1, <3>3, EmptySeq
      <4>2. Len(active) = 1
        BY <2>1, <3>1, <4>1
      <4>. QED BY <3>3, <4>2
    <3>. QED BY <3>2, <3>3
  <2>3. \A i \in 1..Len(active) : active[i] \in Epoch
    BY <2>1, ElementOfSeq
  <2>. QED BY <1>2, <2>2, <2>3 DEF SyncInv
<1>. QED BY <1>1, <1>2

\* A step of an epoch replaces it and no other.
LEMMA OneEpochMoves ==
  ASSUME TypeOK, NEW i \in 1..Len(active), NEW e \in Epoch, active' = [active EXCEPT ![i] = e]
  PROVE  /\ active' \in Seq(Epoch) /\ Len(active') = Len(active)
         /\ \A j \in 1..Len(active) : active'[j] = IF j = i THEN e ELSE active[j]
BY Epochs, ExceptSeq

(***************************************************************************)
(* The backend, the session and the status loop.                           *)
(***************************************************************************)
\* The log grows, the read model follows, the session changes.
LEMMA OutsideKeeps == ASSUME SyncInv, Store \/ Apply \/ SessionChanges PROVE SyncInv'
<1>. USE BoundsAssumption DEF Store, Apply, SessionChanges, backend, link, display
<1>1. TypeOK' /\ (stored <= applied + 1)'
  <2>1. statuses' \in Seq(Status)
    <3>1. statuses \in Seq(Status)
      BY DEF SyncInv, TypeOK
    <3>2. statuses' = statuses \/ \E new \in Status : statuses' = Append(statuses, new)
      OBVIOUS
    <3>. QED BY <3>1, <3>2
  <2>2. /\ UNCHANGED <<suspends, faults, outcome, loop, active, shown, told>>
        /\ session' \in Status /\ changes' \in 0..MaxChanges
    BY DEF SyncInv, TypeOK
  <2>3. stored' \in 0..MaxSeq /\ applied' \in 0..stored' /\ stored' <= applied' + 1
    BY DEF SyncInv, TypeOK
  <2>. QED BY <2>1, <2>2, <2>3 DEF SyncInv, TypeOK
<1>2. UNCHANGED <<suspends, outcome, loop, active, shown, told>> /\ stored <= stored'
  BY DEF SyncInv, TypeOK
<1>3. (Len(active) <= 1 /\ \A i \in 1..Len(active) : EpochOK(active[i], stored, shown))'
  <2>1. \A i \in 1..Len(active) : active[i].current.seq \in Nat
    BY Epochs DEF Epoch, Snapshots
  <2>2. stored \in Nat /\ stored' \in Nat
    BY <1>1 DEF SyncInv, TypeOK
  <2>. QED BY <1>2, <2>1, <2>2 DEF SyncInv, EpochOK
<1>4. LoopOK'
  <2>1. CASE SessionChanges
    <3>1. statuses' # <<>> /\ statuses'[Len(statuses')] = session'
      BY <2>1 DEF SyncInv, TypeOK
    <3>. QED BY <1>2, <2>1, <3>1 DEF SyncInv, LoopOK, LastStatus, EpochIsLoops, WordIsLoops
  <2>2. CASE Store \/ Apply
    BY <1>2, <2>2 DEF SyncInv, LoopOK, LastStatus, EpochIsLoops, WordIsLoops
  <2>. QED BY <2>1, <2>2
<1>5. ShownReplaysLog'
  BY <1>2 DEF SyncInv, TypeOK, ShownReplaysLog, Snapshots
<1>. QED BY <1>1, <1>3, <1>4, <1>5 DEF SyncInv

\* The loop takes a status, and restarts the epoch.
LEMMA StatusLoopKeeps ==
  ASSUME SyncInv, TakeStatus \/ RestartEpoch \/ StatusEnds \/ Fail
  PROVE  SyncInv'
<1>. USE BoundsAssumption DEF TakeStatus, RestartEpoch, StatusEnds, Fail, Cleared, backend, link,
                              display
<1>1. /\ UNCHANGED <<suspends, stored, applied, session, changes, faults, shown>>
      /\ active' \in {active, <<>>, <<NewEpoch>>} /\ told' \in Status
  <2>1. UNCHANGED <<suspends, stored, applied, session, changes, faults, shown>>
    OBVIOUS
  <2>2. Append(<<>>, NewEpoch) = <<NewEpoch>>
    OBVIOUS
  <2>3. active' \in {active, <<>>, <<NewEpoch>>}
    BY <2>2
  <2>4. told' \in Status
    <3>1. statuses \in Seq(Status) /\ told \in Status
      BY DEF SyncInv, TypeOK
    <3>2. statuses # <<>> => Head(statuses) \in Status
      BY <3>1
    <3>3. told' = told \/ (statuses # <<>> /\ told' = Head(statuses))
      OBVIOUS
    <3>. QED BY <3>1, <3>2, <3>3
  <2>. QED BY <2>1, <2>3, <2>4
<1>2. NewEpoch \in Epoch /\ EpochOK(NewEpoch, stored, shown)
  <2>1. Snapshot(0) \in Snapshots /\ Snapshot(0).seq = 0 /\ stored \in Nat /\ 0 \in 0..MaxSeq
    BY Seqs
  <2>2. NewEpoch \in Epoch
    BY <2>1 DEF NewEpoch, Epoch, Phase
  <2>. QED BY <2>1, <2>2 DEF NewEpoch, EpochOK
<1>3. TypeOK'
  <2>1. active' \in Seq(Epoch)
    <3>1. active \in Seq(Epoch) /\ <<>> \in Seq(Epoch) /\ <<NewEpoch>> \in Seq(Epoch)
      BY <1>2, Epochs, EmptySeq DEF SyncInv
    <3>. QED BY <1>1, <3>1
  <2>2. statuses' \in Seq(Status)
    <3>1. statuses \in Seq(Status)
      BY DEF SyncInv, TypeOK
    <3>2. statuses' = statuses \/ (statuses # <<>> /\ statuses' = Tail(statuses))
      OBVIOUS
    <3>. QED BY <3>1, <3>2
  <2>3. loop' \in [at : {"pulling", "clearing", "ended"}, status : Status]
    BY HeadTailProperties DEF SyncInv, TypeOK
  <2>4. outcome' \in {"running", "failed"}
    BY DEF SyncInv, TypeOK
  <2>. QED BY <1>1, <2>1, <2>2, <2>3, <2>4 DEF SyncInv, TypeOK, Epoch
<1>4. (Len(active) <= 1 /\ \A i \in 1..Len(active) : EpochOK(active[i], stored, shown))'
  <2>1. CASE active' = active
    BY <1>1, <2>1 DEF SyncInv
  <2>2. CASE active' = <<>>
    BY <2>2
  <2>3. CASE active' = <<NewEpoch>>
    <3>1. Len(active') = 1 /\ active'[1] = NewEpoch
      BY <2>3
    <3>. QED BY <1>1, <1>2, <3>1
  <2>. QED BY <1>1, <2>1, <2>2, <2>3
<1>5. LoopOK'
  <2>1. CASE TakeStatus
    <3>1. statuses \in Seq(Status) /\ statuses # <<>>
      BY <2>1 DEF SyncInv, TypeOK
    <3>2. Tail(statuses) = <<>> => Len(statuses) = 1
      <4>1. Len(Tail(statuses)) = Len(statuses) - 1 /\ Len(statuses) \in Nat
        BY <3>1, HeadTailProperties, LenProperties
      <4>2. Tail(statuses) = <<>> => Len(Tail(statuses)) = 0
        BY EmptySeq
      <4>. QED BY <4>1, <4>2
    <3>3. Tail(statuses) # <<>> => Tail(statuses)[Len(Tail(statuses))] = statuses[Len(statuses)]
      BY <3>1
    <3>4. Head(statuses) = statuses[1]
      BY <3>1
    <3>. QED BY <2>1, <3>1, <3>2, <3>3, <3>4 DEF SyncInv, LoopOK, LastStatus
  <2>2. CASE RestartEpoch
    <3>1. active' = IF loop.status = "connected" THEN <<NewEpoch>> ELSE <<>>
      BY <2>2
    <3>2. Len(<<NewEpoch>>) = 1 /\ <<NewEpoch>>[1] = NewEpoch /\ <<NewEpoch>> # <<>>
      OBVIOUS
    <3>3. LastStatus' = LastStatus /\ loop'.status = loop.status /\ loop'.at = "pulling"
      BY <2>2 DEF SyncInv, TypeOK, LastStatus
    <3>4. EpochIsLoops'
      BY <3>1, <3>2, <3>3 DEF EpochIsLoops
    <3>5. ~suspends => WordIsLoops'
      BY <2>2, <3>1, <3>2, <3>3 DEF SyncInv, LoopOK, WordIsLoops, ToldOK, NewEpoch
    <3>. QED BY <1>1, <3>3, <3>4, <3>5 DEF SyncInv, LoopOK
  <2>3. CASE StatusEnds \/ Fail
    BY <2>3 DEF SyncInv, TypeOK, LoopOK, LastStatus
  <2>. QED BY <2>1, <2>2, <2>3
<1>6. ShownReplaysLog'
  BY <1>1 DEF SyncInv, ShownReplaysLog
<1>. QED BY <1>1, <1>3, <1>4, <1>5, <1>6 DEF SyncInv

(***************************************************************************)
(* The epoch fiber.                                                        *)
(***************************************************************************)
\* What a step of an epoch has to establish.
LEMMA EpochStepKeeps ==
  ASSUME SyncInv, NEW i \in 1..Len(active), NEW e \in Epoch, Goes(i, e), outcome = "running",
         EpochMayRun, UNCHANGED <<suspends, stored, applied, session, changes, statuses, outcome, loop>>,
         faults' \in 0..MaxFaults, shown' \in Snapshots, told' \in Status,
         EpochOK(e, stored, shown'), ~suspends /\ ToldOK(active[i], told) => ToldOK(e, told'),
         ShownReplaysLog'
  PROVE  SyncInv'
<1>1. /\ active' \in Seq(Epoch) /\ Len(active') = Len(active)
      /\ \A j \in 1..Len(active) : active'[j] = IF j = i THEN e ELSE active[j]
  BY OneEpochMoves DEF SyncInv, Goes
<1>2. TypeOK'
  BY <1>1 DEF SyncInv, TypeOK, Epoch
<1>3. Len(active) = 1 /\ i = 1 /\ active # <<>> /\ active' # <<>>
  BY <1>1, Epochs, EmptySeq
<1>4. (Len(active) <= 1 /\ \A j \in 1..Len(active) : EpochOK(active[j], stored, shown))'
  BY <1>1, <1>3
<1>5. LoopOK'
  <2>1. LastStatus' = session'
    BY DEF SyncInv, LoopOK, LastStatus
  <2>2. outcome' = "running" /\ loop'.at = "pulling" => EpochIsLoops' /\ (~suspends' => WordIsLoops')
    BY <1>1, <1>3 DEF SyncInv, LoopOK, EpochIsLoops, WordIsLoops
  <2>3. outcome' = "running" /\ loop'.at = "clearing" => (~suspends' => told' = loop'.status)
    BY DEF EpochMayRun
  <2>. QED BY <2>1, <2>2, <2>3 DEF LoopOK
<1>. QED BY <1>2, <1>3, <1>4, <1>5, <1>1 DEF SyncInv

\* The list and its answer, and the steps that change nothing on screen.
LEMMA ListKeeps ==
  ASSUME SyncInv, NEW i \in 1..Len(active), AnswerList(i) \/ SourceFails(i) \/ Retry(i)
  PROVE  SyncInv'
<1>1. active[i] \in Epoch /\ EpochOK(active[i], stored, shown)
  BY Epochs
<1>2. PICK e :
        /\ Goes(i, e)
        /\ \/ /\ active[i].phase = "listing"
              /\ e = [active[i] EXCEPT !.phase = "answered", !.current = Snapshot(applied)]
           \/ e = [active[i] EXCEPT !.phase = "reporting", !.recovering = TRUE]
           \/ active[i].phase = "waiting" /\ e = [active[i] EXCEPT !.phase = "listing"]
  BY DEF AnswerList, SourceFails, Retry, Running
<1>3. e \in Epoch
  <2>1. Snapshot(applied) \in Snapshots /\ {"answered", "reporting", "listing"} \subseteq Phase
    BY Seqs DEF Phase
  <2>2. /\ [active[i] EXCEPT !.phase = "answered", !.current = Snapshot(applied)] \in Epoch
        /\ [active[i] EXCEPT !.phase = "reporting", !.recovering = TRUE] \in Epoch
        /\ [active[i] EXCEPT !.phase = "listing"] \in Epoch
    BY <1>1, <2>1 DEF Epoch
  <2>. QED BY <1>2, <2>2
<1>4. EpochOK(e, stored, shown)
  <2>1. CASE e = [active[i] EXCEPT !.phase = "answered", !.current = Snapshot(applied)]
    <3>1. e.phase = "answered" /\ e.current = Snapshot(applied)
      BY <1>1, <2>1 DEF Epoch
    <3>2. Snapshot(applied).seq = applied /\ applied <= stored /\ shown.seq <= applied + 1
      BY Seqs
    <3>. QED BY <3>1, <3>2 DEF EpochOK
  <2>2. CASE e = [active[i] EXCEPT !.phase = "reporting", !.recovering = TRUE]
    <3>1. e.phase = "reporting" /\ e.recovering /\ e.current = active[i].current
      BY <1>1, <2>2 DEF Epoch
    <3>. QED BY <1>1, <3>1 DEF EpochOK
  <2>3. CASE e = [active[i] EXCEPT !.phase = "listing"]
    <3>1. e.phase = "listing" /\ e.current = active[i].current
      BY <1>1, <2>3 DEF Epoch
    <3>. QED BY <1>1, <3>1 DEF EpochOK
  <2>. QED BY <1>2, <2>1, <2>2, <2>3
<1>5. ToldOK(active[i], told) => ToldOK(e, told)
  BY <1>1, <1>2 DEF Epoch, ToldOK
<1>6. /\ outcome = "running" /\ EpochMayRun /\ faults' \in 0..MaxFaults
      /\ UNCHANGED <<suspends, stored, applied, session, changes, statuses, outcome, loop, shown, told>>
  BY BoundsAssumption
  DEF AnswerList, SourceFails, Retry, Running, backend, link, display, SyncInv, TypeOK
<1>. QED BY <1>2, <1>3, <1>4, <1>5, <1>6, EpochStepKeeps DEF SyncInv, TypeOK, ShownReplaysLog

\* The steps that show a snapshot.
LEMMA ShowKeeps ==
  ASSUME SyncInv, NEW i \in 1..Len(active), ShowList(i) \/ ShowFold(i)
  PROVE  SyncInv'
<1>1. active[i] \in Epoch /\ EpochOK(active[i], stored, shown)
  BY Epochs
<1>2. PICK e : /\ Goes(i, e)
               /\ \/ /\ active[i].phase = "answered"
                     /\ e = [active[i] EXCEPT !.phase = IF active[i].recovering THEN "confirming" ELSE "streaming",
                                              !.cursor = active[i].current.seq]
                  \/ e = [active[i] EXCEPT !.phase = "streaming"] /\ active[i].phase = "showing"
  BY DEF ShowList, ShowFold, Running, FromSeq
<1>3. e \in Epoch /\ shown' = active[i].current /\ shown' \in Snapshots
  BY <1>1, <1>2 DEF Epoch, Phase, Snapshots, ShowList, ShowFold
<1>4. EpochOK(e, stored, shown') /\ ShownReplaysLog'
  <2>1. /\ e.current = active[i].current /\ e.cursor = e.current.seq
        /\ \/ e.phase = "streaming"
           \/ e.phase = "confirming" /\ e.recovering
    <3>1. CASE e = [active[i] EXCEPT !.phase = "streaming"] /\ active[i].phase = "showing"
      BY <1>1, <3>1 DEF Epoch, EpochOK
    <3>2. CASE e = [active[i] EXCEPT !.phase = IF active[i].recovering THEN "confirming" ELSE "streaming",
                                     !.cursor = active[i].current.seq]
      BY <1>1, <3>2 DEF Epoch
    <3>. QED BY <1>2, <3>1, <3>2
  <2>2. active[i].current = Snapshot(active[i].current.seq) /\ active[i].current.seq <= stored
    BY <1>1 DEF EpochOK
  <2>3. stored' = stored /\ shown'.seq <= e.current.seq
    BY <1>1, <1>3, <2>1, BoundsAssumption DEF Epoch, Snapshots, ShowList, ShowFold, backend
  <2>. QED BY <1>3, <2>1, <2>2, <2>3 DEF EpochOK, ShownReplaysLog
<1>5. ToldOK(active[i], told) => ToldOK(e, told)
  BY <1>1, <1>2 DEF Epoch, ToldOK
<1>6. /\ outcome = "running" /\ EpochMayRun
      /\ UNCHANGED <<suspends, stored, applied, session, changes, statuses, faults, outcome, loop, told>>
  BY DEF ShowList, ShowFold, Running, backend, link
<1>. QED BY <1>2, <1>3, <1>4, <1>5, <1>6, EpochStepKeeps DEF SyncInv, TypeOK

\* The steps that tell the sink how the epoch fares.
LEMMA TellKeeps ==
  ASSUME SyncInv, NEW i \in 1..Len(active), Confirm(i) \/ Report(i)
  PROVE  SyncInv'
<1>1. active[i] \in Epoch /\ EpochOK(active[i], stored, shown)
  BY Epochs
<1>2. PICK e : /\ Goes(i, e)
               /\ \/ /\ active[i].phase = "confirming" /\ told' = "connected"
                     /\ e = [active[i] EXCEPT !.phase = "streaming"]
                  \/ /\ active[i].phase = "reporting" /\ told' = "reconnecting"
                     /\ e = [active[i] EXCEPT !.phase = "waiting"]
  BY DEF Confirm, Report, Running, Reported
<1>3. e \in Epoch /\ EpochOK(e, stored, shown) /\ ToldOK(e, told') /\ told' \in Status
  BY <1>1, <1>2 DEF Epoch, Phase, EpochOK, ToldOK, Status
<1>4. /\ outcome = "running" /\ EpochMayRun
      /\ UNCHANGED <<suspends, stored, applied, session, changes, statuses, faults, outcome, loop, shown>>
  BY DEF Confirm, Report, Running, backend, link
<1>. QED BY <1>2, <1>3, <1>4, EpochStepKeeps DEF SyncInv, TypeOK, ShownReplaysLog

\* An event that passes the gate is the one after the fold.
LEMMA EventKeeps ==
  ASSUME SyncInv, NEW i \in 1..Len(active), NEW seq \in 1..MaxSeq, ReceiveEvent(i, seq)
  PROVE  SyncInv'
<1>. DEFINE current == active[i].current
            folded  == [projects |-> Append(current.projects, seq), seq |-> seq]
<1>1. active[i] \in Epoch /\ EpochOK(active[i], stored, shown)
  BY Epochs
<1>2. /\ active[i].phase = "streaming" /\ active[i].cursor = current.seq
      /\ current = Snapshot(current.seq) /\ current.seq \in 0..MaxSeq
      /\ seq <= stored /\ seq <= current.seq + 1
  BY <1>1 DEF ReceiveEvent, Running, EpochOK, Epoch, Snapshots
<1>3. CASE seq <= current.seq
  <2>1. PICK e : Goes(i, e) /\ e = [active[i] EXCEPT !.cursor = current.seq]
    BY <1>2, <1>3, BoundsAssumption DEF ReceiveEvent, Stale
  <2>2. e \in Epoch /\ e = active[i]
    BY <1>1, <1>2, <2>1 DEF Epoch
  <2>3. /\ outcome = "running" /\ EpochMayRun
        /\ UNCHANGED <<suspends, stored, applied, session, changes, statuses, faults, outcome, loop, shown, told>>
    BY DEF ReceiveEvent, Running, backend, link, display
  <2>. QED BY <1>1, <2>1, <2>2, <2>3, EpochStepKeeps DEF SyncInv, TypeOK, ShownReplaysLog
<1>4. CASE seq > current.seq
  <2>1. seq = current.seq + 1 /\ current.seq \in 0..MaxSeq - 1
    BY <1>2, <1>4, BoundsAssumption
  <2>2. current.projects = Prefix(current.seq)
    BY <1>2 DEF Snapshot
  <2>3. folded = Snapshot(seq) /\ Snapshot(seq) \in Snapshots /\ Snapshot(seq).seq = seq
    <3>1. Append(current.projects, seq) = Prefix(seq)
      BY <2>1, <2>2, NextPrefix
    <3>. QED BY <3>1, Seqs DEF Snapshot
  <2>4. PICK e : /\ Goes(i, e)
                 /\ e = [active[i] EXCEPT !.cursor = seq, !.current = folded, !.phase = "showing"]
    <3>1. ~Stale(seq, current) /\ seq > active[i].cursor
      BY <1>2, <1>4, BoundsAssumption DEF Stale
    <3>. QED BY <3>1 DEF ReceiveEvent
  <2>5. e \in Epoch
    <3>1. seq \in 0..MaxSeq /\ "showing" \in Phase
      BY BoundsAssumption DEF Phase
    <3>. QED BY <1>1, <2>3, <2>4, <3>1 DEF Epoch
  <2>6. EpochOK(e, stored, shown)
    <3>1. e.current = Snapshot(seq) /\ e.cursor = seq /\ e.phase = "showing"
      BY <1>1, <2>3, <2>4 DEF Epoch
    <3>2. shown.seq <= seq
      <4>1. shown.seq <= current.seq
        BY <1>1, <1>2 DEF EpochOK
      <4>. QED BY <4>1, <2>1, Seqs
    <3>. QED BY <1>2, <2>3, <3>1, <3>2 DEF EpochOK
  <2>7. ToldOK(active[i], told) => ToldOK(e, told)
    BY <1>1, <1>2, <2>4 DEF Epoch, ToldOK
  <2>8. /\ outcome = "running" /\ EpochMayRun
        /\ UNCHANGED <<suspends, stored, applied, session, changes, statuses, faults, outcome, loop, shown, told>>
    BY DEF ReceiveEvent, Running, backend, link, display
  <2>. QED BY <2>4, <2>5, <2>6, <2>7, <2>8, EpochStepKeeps DEF SyncInv, TypeOK, ShownReplaysLog
<1>. QED BY <1>2, <1>3, <1>4, BoundsAssumption

(***************************************************************************)
(* Every step keeps the invariant, and what follows from it.               *)
(***************************************************************************)
LEMMA SyncStepKeeps == SyncInv /\ [Next]_vars => SyncInv'
<1>. SUFFICES ASSUME SyncInv, [Next]_vars PROVE SyncInv'
  OBVIOUS
<1>1. CASE Store \/ Apply \/ SessionChanges
  BY <1>1, OutsideKeeps
<1>2. CASE TakeStatus \/ RestartEpoch \/ StatusEnds \/ Fail
  BY <1>2, StatusLoopKeeps
<1>3. ASSUME NEW i \in 1..Len(active), EpochRuns(i) \/ SourceFails(i) PROVE SyncInv'
  BY <1>3, ListKeeps, ShowKeeps, TellKeeps, EventKeeps DEF EpochRuns, Follow
<1>4. ASSUME NEW i \in 1..Len(active), NEW seq \in 1..MaxSeq, ReceiveEvent(i, seq) PROVE SyncInv'
  BY <1>4, EventKeeps
<1>5. CASE UNCHANGED vars
  BY <1>5 DEF vars, SyncInv, TypeOK, LoopOK, LastStatus, EpochIsLoops, WordIsLoops, ShownReplaysLog
<1>. QED BY <1>1, <1>2, <1>3, <1>4, <1>5 DEF Next

\* The inductive invariant holds in every reachable state.
THEOREM SyncInvariance == Spec => []SyncInv
BY InitSyncInv, SyncStepKeeps, PTL DEF Spec

\* Whatever is on screen is the fold of exactly the events up to its seq
\* (project-sync.ts: the gate of the epoch and its cursor).
THEOREM ScreenReplays == Spec => []ShownReplaysLog
<1>1. SyncInv => ShownReplaysLog
  BY DEF SyncInv
<1>. QED BY <1>1, SyncInvariance, PTL

LEMMA Settled == SyncInv => SettledAgrees
<1>1. ASSUME SyncInv, Quiet PROVE EpochFollowsSession
  <2>1. loop.status = session /\ EpochIsLoops
    BY <1>1 DEF SyncInv, LoopOK, LastStatus, Quiet
  <2>2. \/ active = <<>> /\ Len(active) = 0
        \/ active # <<>> /\ Len(active) = 1
    BY <1>1, Epochs
  <2>. QED BY <1>1, <2>1, <2>2 DEF EpochFollowsSession, EpochIsLoops, Quiet
<1>2. ASSUME SyncInv, Quiet, ~suspends PROVE StatusAgrees
  <2>1. loop.status = session /\ EpochIsLoops /\ WordIsLoops
    BY <1>2 DEF SyncInv, LoopOK, LastStatus, Quiet
  <2>2. CASE active = <<>>
    <3>1. 1..Len(active) = {}
      BY <2>2
    <3>. QED BY <1>2, <2>1, <2>2, <3>1 DEF StatusAgrees, WordIsLoops, Quiet
  <2>3. CASE active # <<>>
    <3>1. Len(active) = 1
      BY <1>2, <2>3, Epochs
    <3>2. session = "connected" /\ ToldOK(active[1], told)
      BY <2>1, <2>3, <3>1 DEF EpochIsLoops, WordIsLoops
    <3>3. active[1] \in Epoch /\ EpochOK(active[1], stored, shown) /\ active[1].phase \notin MidBurst
      BY <1>2, <3>1, Epochs DEF Quiet
    <3>4. told = IF Recovering(active[1]) THEN "reconnecting" ELSE session
      BY <3>2, <3>3 DEF ToldOK, EpochOK, Epoch, Phase, MidBurst, Recovering
    <3>. QED BY <3>1, <3>4 DEF StatusAgrees
  <2>. QED BY <2>2, <2>3
<1>. QED BY <1>1, <1>2 DEF SettledAgrees, EpochFollowsSession, StatusAgrees

\* When nothing is under way one epoch follows a connected session and none
\* any other, and the sink was told the truth (project-sync.ts: the status
\* loop and the reports of the epoch).
THEOREM Settles == Spec => []SettledAgrees
<1>. QED BY Settled, SyncInvariance, PTL

\* What a step does to the screen.
LEMMA StepsMoveOn ==
  ASSUME SyncInv, Next
  PROVE  \/ shown'.seq >= shown.seq
         \/ (\E i \in 1..Len(active) : ShowList(i)) /\ shown'.seq = shown.seq - 1
<1>1. shown.seq \in Nat
  BY BoundsAssumption DEF SyncInv, TypeOK, Snapshots
<1>2. ASSUME NEW i \in 1..Len(active), ShowList(i) \/ ShowFold(i)
      PROVE  shown'.seq >= shown.seq \/ (ShowList(i) /\ shown'.seq = shown.seq - 1)
  <2>1. active[i] \in Epoch /\ EpochOK(active[i], stored, shown) /\ shown' = active[i].current
    BY <1>2, Epochs DEF ShowList, ShowFold
  <2>2. active[i].current.seq \in Nat
    BY <2>1, BoundsAssumption DEF Epoch, Snapshots
  <2>3. ShowList(i) => shown.seq <= active[i].current.seq + 1
    BY <2>1 DEF ShowList, Running, EpochOK
  <2>4. ShowFold(i) => shown.seq <= active[i].current.seq
    BY <2>1 DEF ShowFold, Running, EpochOK
  <2>. QED BY <1>1, <1>2, <2>1, <2>2, <2>3, <2>4
<1>3. ASSUME ~\E i \in 1..Len(active) : ShowList(i) \/ ShowFold(i)
      PROVE  shown' = shown
  BY <1>3 DEF Next, Store, Apply, SessionChanges, TakeStatus, RestartEpoch, StatusEnds, Fail,
     EpochRuns, AnswerList, Confirm, Follow, ReceiveEvent, Report, Retry, SourceFails, display
<1>. QED BY <1>1, <1>2, <1>3

\* The screen goes back by one event at most, and only when a new list that
\* the read model answered replaces it (project-sync.ts, against stream.ts).
THEOREM ScreenMovesOn == Spec => ShownMovesOn
<1>1. SyncInv /\ [Next]_vars =>
        [ shown'.seq >= shown.seq
          \/ /\ \E i \in 1..Len(active) : ShowList(i)
             /\ shown'.seq = shown.seq - 1 ]_vars
  BY StepsMoveOn
<1>. QED BY <1>1, SyncInvariance, PTL DEF Spec, ShownMovesOn

(***************************************************************************)
(* The client's parts side by side, as MCClient runs them.                 *)
(***************************************************************************)
\* A part at rest satisfies its invariant.
LEMMA AtRest == (SessionAtRest => SessionInv) /\ (SyncAtRest => SyncInv)
<1>1. ASSUME SessionAtRest PROVE SessionInv
  <2>. USE <1>1, TriesAssumption, MaxAttemptsAssumption DEF SessionAtRest
  <2>1. Session!TypeOK
    BY DEF Session!TypeOK, Session!HookState, Session!LoopPhase
  <2>2. /\ TriesAreLeft /\ AcquiredIsOne /\ HooksInScope /\ OnlyLastGranted /\ ReportsOwnLoss
        /\ Published /\ Publishing /\ ClosedIsClear /\ ClientIsWatched /\ LiveIsServed
    BY DEF TriesAreLeft, AcquiredIsOne, HooksInScope, OnlyLastGranted, ReportsOwnLoss, Published,
           Publishing, ClosedIsClear, ClientIsWatched, LiveIsServed
  <2>. QED BY <2>1, <2>2 DEF SessionInv
<1>2. ASSUME SyncAtRest PROVE SyncInv
  <2>. USE <1>2, BoundsAssumption DEF SyncAtRest
  <2>1. Snapshot(0) \in Snapshots /\ Snapshot(0).seq = 0
    BY Snapshots0
  <2>2. TypeOK /\ Len(active) = 0
    <3>1. <<>> \in Seq(Status) /\ Len(active) = 0
      BY EmptySeq
    <3>2. active \in Seq(Epoch)
      BY EmptySeq
    <3>3. loop \in [at : {"pulling", "clearing", "ended"}, status : Status]
      BY DEF Status
    <3>4. /\ stored \in 0..MaxSeq /\ applied \in 0..stored
          /\ changes \in 0..MaxChanges /\ faults \in 0..MaxFaults
      OBVIOUS
    <3>5. suspends \in BOOLEAN /\ session \in Status /\ outcome \in {"running", "failed"} /\ told \in Status
      BY DEF Status
    <3>. QED BY <2>1, <3>1, <3>2, <3>3, <3>4, <3>5 DEF TypeOK, Epoch
  <2>3. LoopOK
    BY DEF LoopOK, LastStatus
  <2>. QED BY <2>1, <2>2, <2>3 DEF SyncInv, ShownReplaysLog
<1>. QED BY <1>1, <1>2

LEMMA OnePartSteps ==
  ASSUME [MCNext]_<<part, searchVars, sessionVars, vars>>
  PROVE  [Next]_vars /\ [Session!Next]_(Session!vars)
BY DEF MCNext, sessionVars, Session!vars

\* Whichever part runs: who is handed a client is handed the one the loop
\* watches, the screen is a fold of the log and moves on, and what is told of
\* the session is so.
THEOREM ClientsAreSafe ==
  MCSpec => /\ [](ClientIsServed /\ ShownReplaysLog /\ SettledAgrees)
            /\ StatusIsTrue /\ ShownMovesOn
<1>1. MCInit => SessionInv /\ SyncInv
  BY InitSessionInv, InitSyncInv, AtRest DEF MCInit
<1>2. /\ SessionInv /\ SyncInv
      /\ [MCNext]_<<part, searchVars, sessionVars, vars>>
      => (SessionInv /\ SyncInv)'
  BY OnePartSteps, SessionStepKeeps, SyncStepKeeps
<1>3. SessionInv /\ SyncInv => ClientIsServed /\ ShownReplaysLog /\ SettledAgrees
  BY Settled DEF SessionInv, SyncInv, ClientIsServed
<1>4. SessionInv /\ [MCNext]_<<part, searchVars, sessionVars, vars>> =>
        [/\ status' = "reconnecting" /\ status # "reconnecting" => clients' = 0
         /\ status' = "connected" /\ status # "connected" => clients' # 0
         /\ ready' = "done" /\ ready # "done" => clients' # 0]_<<clients, status, ready>>
  BY OnePartSteps, StepsTellTheTruth DEF Session!vars
<1>5. SessionInv /\ [MCNext]_<<part, searchVars, sessionVars, vars>> =>
        [phase = "closed" => UNCHANGED <<clients, status>>]_<<clients, status>>
  BY OnePartSteps, StepsTellTheTruth DEF Session!vars
<1>6. SessionInv => (phase = "closed" => clients = 0 /\ status = "disconnected")
  BY DEF SessionInv, ClientIsWatched, ClosedIsClear
<1>7. SyncInv /\ [MCNext]_<<part, searchVars, sessionVars, vars>> =>
        [ shown'.seq >= shown.seq
          \/ /\ \E i \in 1..Len(active) : ShowList(i)
             /\ shown'.seq = shown.seq - 1 ]_vars
  BY OnePartSteps, StepsMoveOn
<1>. QED BY <1>1, <1>2, <1>3, <1>4, <1>5, <1>6, <1>7, PTL
        DEF MCSpec, StatusIsTrue, StatusAfterClient, ClosedForGood, ShownMovesOn
=============================================================================
