----------------------------- MODULE ProjectSync -----------------------------
(***************************************************************************)
(* The client side of the read model: packages/contracts/project-sync.ts,  *)
(* which both interfaces run.  A status loop follows the session; while it *)
(* is connected one epoch fiber lists the projects, shows them, follows    *)
(* the Events stream from the listed seq and starts over, after a backoff, *)
(* whenever the source fails or ends.                                      *)
(*                                                                         *)
(* A project list is the sequence of the events folded into it, so that    *)
(* two lists are equal exactly when they fold the same events in the same  *)
(* order; the fold itself is ProjectFold.                                  *)
(***************************************************************************)
EXTENDS Naturals, Sequences

CONSTANTS
  MaxSeq,        \* bound on the stored events
  MaxChanges,    \* bound on the changes of the session's status
  MaxFaults      \* bound on the failures of list and Events

ASSUME BoundsAssumption == {MaxSeq, MaxChanges, MaxFaults} \subseteq Nat

VARIABLES
  suspends, \* may a sink call yield to the other fiber? (never changes)
  stored,   \* seq of the newest event in the backend's log
  applied,  \* seq of the backend's read model
  session,  \* status of the client session
  changes,  \* how often it has changed
  statuses, \* status changes the status loop has not taken
  faults,   \* failures of the source so far
  outcome,  \* "running", or "failed" once the sync has
  loop,     \* the status loop: where it is and the status it handles
  active,   \* the FiberSet of epoch fibers
  shown,    \* the snapshot the sink was given last
  told      \* the status the sink was given last

backend == <<suspends, stored, applied>>
link    == <<session, changes>>
display == <<shown, told>>
vars    == <<suspends, stored, applied, session, changes, statuses, faults, outcome, loop,
             active, shown, told>>

Status == {"connected", "reconnecting", "disconnected"}

\* An epoch fiber waits for the list's answer, for events, or for its next
\* try; in the other phases it has a sink call to make.
Phase    == {"listing", "answered", "confirming", "streaming", "showing",
             "reporting", "waiting"}
MidBurst == {"confirming", "showing", "reporting"}

Prefix(n)   == [i \in 1..n |-> i]
Snapshot(n) == [projects |-> Prefix(n), seq |-> n]

\* FiberSet.run of runEpochLoop: it asks for the list first.
NewEpoch == [phase |-> "listing", recovering |-> FALSE, current |-> Snapshot(0), cursor |-> 0]

Init ==
  /\ suspends \in BOOLEAN
  /\ stored \in 0..MaxSeq /\ applied = stored
  /\ session \in Status /\ changes = 0
  /\ statuses = <<session>>
  /\ faults = 0 /\ outcome = "running"
  /\ loop = [at |-> "pulling", status |-> session]
  /\ active = <<>>
  /\ shown = Snapshot(0) /\ told = "disconnected"

(***************************************************************************)
(* The backend and the session.                                            *)
(***************************************************************************)
Store ==
  /\ applied = stored /\ stored < MaxSeq
  /\ stored' = stored + 1
  /\ UNCHANGED <<suspends, applied, link, statuses, faults, outcome, loop, active, display>>

\* The Events backlog reads the log: between Store and Apply it is ahead of list.
Apply ==
  /\ applied < stored
  /\ applied' = stored
  /\ UNCHANGED <<suspends, stored, link, statuses, faults, outcome, loop, active, display>>

SessionChanges ==
  /\ changes < MaxChanges
  /\ changes' = changes + 1
  /\ session' \in Status
  /\ statuses' = Append(statuses, session')
  /\ UNCHANGED <<backend, faults, outcome, loop, active, display>>

(***************************************************************************)
(* The status loop.                                                        *)
(***************************************************************************)
LoopMayRun  == suspends \/ \A i \in 1..Len(active) : active[i].phase \notin MidBurst
EpochMayRun == suspends \/ loop.at # "clearing"

\* Take a status and tell the sink.
TakeStatus ==
  /\ outcome = "running" /\ loop.at = "pulling" /\ statuses # <<>> /\ LoopMayRun
  /\ told' = Head(statuses)
  /\ statuses' = Tail(statuses)
  /\ loop' = [at |-> "clearing", status |-> Head(statuses)]
  /\ UNCHANGED <<backend, link, faults, outcome, active, shown>>

\* Mutant: the epoch of the connection before goes on.
Cleared_Kept == active
\* FiberSet.clear interrupts every fiber of the set and waits for its end.
Cleared == <<>>

\* Then start an epoch, if the session is connected.
RestartEpoch ==
  /\ outcome = "running" /\ loop.at = "clearing"
  /\ active' = IF loop.status = "connected" THEN Append(Cleared, NewEpoch) ELSE Cleared
  /\ loop' = [loop EXCEPT !.at = "pulling"]
  /\ UNCHANGED <<backend, link, statuses, faults, outcome, display>>

\* The end of the status stream leaves the epoch to itself.
StatusEnds ==
  /\ outcome = "running" /\ loop.at = "pulling" /\ statuses = <<>>
  /\ loop' = [loop EXCEPT !.at = "ended"]
  /\ UNCHANGED <<backend, link, statuses, faults, outcome, active, display>>

\* Its failure, or a sink's, fails the sync; the scope interrupts the epoch.
Fail ==
  /\ outcome = "running"
  /\ \/ loop.at = "pulling"
     \/ \E i \in 1..Len(active) : active[i].phase \in MidBurst \cup {"answered"}
  /\ outcome' = "failed"
  /\ active' = <<>>
  /\ UNCHANGED <<backend, link, statuses, faults, loop, display>>

(***************************************************************************)
(* One epoch fiber.                                                        *)
(***************************************************************************)
Running(i, phase) ==
  outcome = "running" /\ EpochMayRun /\ active[i].phase = phase

Goes(i, epoch) == active' = [active EXCEPT ![i] = epoch]

\* The backend reads its read model; the answer is on its way.
AnswerList(i) ==
  /\ Running(i, "listing")
  /\ Goes(i, [active[i] EXCEPT !.phase = "answered", !.current = Snapshot(applied)])
  /\ UNCHANGED <<backend, link, statuses, faults, outcome, loop, display>>

FromSeq(snapshot) == snapshot.seq

\* Show the list; the Events call names its seq.
ShowList(i) ==
  /\ Running(i, "answered")
  /\ shown' = active[i].current
  /\ Goes(i, [active[i] EXCEPT
       !.phase  = IF active[i].recovering THEN "confirming" ELSE "streaming",
       !.cursor = FromSeq(active[i].current)])
  /\ UNCHANGED <<backend, link, statuses, faults, outcome, loop, told>>

\* A recovered epoch says so.
Confirm(i) ==
  /\ Running(i, "confirming")
  /\ told' = "connected"
  /\ Goes(i, [active[i] EXCEPT !.phase = "streaming"])
  /\ UNCHANGED <<backend, link, statuses, faults, outcome, loop, shown>>

\* Mutant: an event of the snapshot's own seq passes the gate.
Stale_Strict(seq, snapshot) == seq < snapshot.seq
\* The gate: an event the snapshot already folds.
Stale(seq, snapshot) == seq <= snapshot.seq

\* The source sends the next event after what it sent, or one again.
ReceiveEvent(i, seq) ==
  /\ Running(i, "streaming")
  /\ seq <= stored /\ seq <= active[i].cursor + 1
  /\ LET current == active[i].current
         cursor  == IF seq > active[i].cursor THEN seq ELSE active[i].cursor
         folded  == [projects |-> Append(current.projects, seq), seq |-> seq]
     IN Goes(i, IF Stale(seq, current)
                THEN [active[i] EXCEPT !.cursor = cursor]
                ELSE [active[i] EXCEPT !.cursor = cursor, !.current = folded,
                                       !.phase = "showing"])
  /\ UNCHANGED <<backend, link, statuses, faults, outcome, loop, display>>

ShowFold(i) ==
  /\ Running(i, "showing")
  /\ shown' = active[i].current
  /\ Goes(i, [active[i] EXCEPT !.phase = "streaming"])
  /\ UNCHANGED <<backend, link, statuses, faults, outcome, loop, told>>

\* list or Events fails, or Events ends, with or without a status change.
SourceFails(i) ==
  /\ \E phase \in {"listing", "answered", "streaming"} : Running(i, phase)
  /\ faults < MaxFaults
  /\ faults' = faults + 1
  /\ Goes(i, [active[i] EXCEPT !.phase = "reporting", !.recovering = TRUE])
  /\ UNCHANGED <<backend, link, statuses, outcome, loop, display>>

\* Mutant: the failure is retried without a word.
Reported_Silently == told
Reported == "reconnecting"

Report(i) ==
  /\ Running(i, "reporting")
  /\ told' = Reported
  /\ Goes(i, [active[i] EXCEPT !.phase = "waiting"])
  /\ UNCHANGED <<backend, link, statuses, faults, outcome, loop, shown>>

\* Mutant: an ended epoch is not tried again.
MayRetry_Never(i) == FALSE
MayRetry(i) == TRUE

\* The schedule never gives up.
Retry(i) ==
  /\ Running(i, "waiting") /\ MayRetry(i)
  /\ Goes(i, [active[i] EXCEPT !.phase = "listing"])
  /\ UNCHANGED <<backend, link, statuses, faults, outcome, loop, display>>

Follow(i) == \E seq \in 1..MaxSeq : seq = active[i].cursor + 1 /\ ReceiveEvent(i, seq)
EpochRuns(i) ==
  AnswerList(i) \/ ShowList(i) \/ Confirm(i) \/ Follow(i) \/ ShowFold(i) \/ Report(i) \/ Retry(i)

Next ==
  \/ Store \/ Apply \/ SessionChanges
  \/ TakeStatus \/ RestartEpoch \/ StatusEnds \/ Fail
  \/ \E i \in 1..Len(active) :
       \/ EpochRuns(i) \/ SourceFails(i)
       \/ \E seq \in 1..MaxSeq : ReceiveEvent(i, seq)

Spec == Init /\ [][Next]_vars

(***************************************************************************)
(* Properties.                                                             *)
(***************************************************************************)
Snapshots == [projects : Seq(1..MaxSeq), seq : 0..MaxSeq]

\* Every variable holds a value of its kind.
TypeOK ==
  /\ suspends \in BOOLEAN
  /\ stored \in 0..MaxSeq /\ applied \in 0..stored
  /\ session \in Status /\ changes \in 0..MaxChanges
  /\ statuses \in Seq(Status)
  /\ faults \in 0..MaxFaults /\ outcome \in {"running", "failed"}
  /\ loop \in [at : {"pulling", "clearing", "ended"}, status : Status]
  /\ active \in Seq([phase : Phase, recovering : BOOLEAN, current : Snapshots,
                     cursor : 0..MaxSeq])
  /\ shown \in Snapshots /\ told \in Status

\* Whatever is on screen is the fold of exactly the events up to its seq:
\* redelivered events, failed epochs and reconnections leave no trace.
ShownReplaysLog == shown = Snapshot(shown.seq) /\ shown.seq <= stored

\* The screen goes back only when a new list replaces it, and then by no more
\* than the one event the Events backlog had and the read model had not.
ShownMovesOn ==
  [][ shown'.seq >= shown.seq
      \/ /\ \E i \in 1..Len(active) : ShowList(i)
         /\ shown'.seq = shown.seq - 1 ]_vars

Quiet ==
  /\ outcome = "running" /\ loop.at = "pulling" /\ statuses = <<>>
  /\ \A i \in 1..Len(active) : active[i].phase \notin MidBurst

\* Once the loop has handled what the session reported, one epoch follows the
\* log if the session is connected, and none otherwise.
EpochFollowsSession ==
  Quiet => Len(active) = IF session = "connected" THEN 1 ELSE 0

Recovering(epoch) == epoch.recovering /\ epoch.phase \in {"listing", "answered", "waiting"}

\* And what the sink was told is the truth: the session's status, or, while a
\* connected session's epoch is between two tries, "reconnecting".  Only of
\* sinks that do not suspend (both of the program's): a status an epoch
\* reports while the loop's own call is suspended would stay on screen.
StatusAgrees ==
  Quiet /\ ~suspends => told = IF \E i \in 1..Len(active) : Recovering(active[i])
                  THEN "reconnecting" ELSE session

\* The epochs, the sink and the session agree when nothing is under way.
SettledAgrees == EpochFollowsSession /\ StatusAgrees

\* Scheduling the code relies on: fibers run on, calls are answered.
Fairness ==
  /\ WF_vars(Apply) /\ WF_vars(TakeStatus) /\ WF_vars(RestartEpoch)
  /\ \A i \in 1..MaxChanges + 1 : WF_vars(i <= Len(active) /\ EpochRuns(i))

FairSpec == Spec /\ Fairness

\* If the session comes to stay connected, its status stream stays open and
\* the sinks do not suspend, the screen ends up with the whole log and the
\* word "connected".
Converges ==
  <>[](~suspends /\ outcome = "running" /\ loop.at # "ended" /\ session = "connected")
    => <>[](shown = Snapshot(stored) /\ told = "connected")
=============================================================================
