----------------------------- MODULE TerminalUi -----------------------------
(***************************************************************************)
(* The terminal's user interface: one reducer for keys and for new lists,  *)
(* and effects that it only describes.                                     *)
(*                                                                         *)
(*   1. A key is routed with the list its handler was registered with, and *)
(*      reduced on the state all earlier actions left.                     *)
(*   2. What a key asks of the backend joins a queue of numbered effects.  *)
(*      After a render the pending ones are run, each once, and            *)
(*      acknowledged.                                                      *)
(*   3. After a render with another list the selection and the overlay are *)
(*      reconciled with it.                                                *)
(*   4. Mutations run side by side; the error line shows the last failure  *)
(*      since the last success.  When the interface is unmounted all of    *)
(*      them are cancelled and none reports any more.                      *)
(***************************************************************************)
EXTENDS Naturals, Sequences, SequencesExt, FiniteSetsExt, Queues

CONSTANTS
    Projects,   \* project ids
    Nobody,     \* not a project
    Overlays,   \* the kinds of overlay looked at
    MaxEffects, \* bound: effects asked for
    MaxLists    \* bound: lists the synchronisation publishes

OverlayKinds == {"rename", "directory", "metadata", "confirmDelete"}
TextOverlays == {"rename", "directory"}     \* those that a blank text keeps open
NoOverlay == [kind |-> "none", project |-> Nobody]
Effects == 0 .. MaxEffects - 1

VARIABLES
    stage,      \* the interface is "up", then "unmounted", then the runtime "disposed"
    snapshot,   \* the list of the last snapshot
    lists,      \* snapshots so far
    rendered,   \* the list of the last render
    heard,      \* the list the key handler was registered with
    focus, overlay, selectedId, selectedIndex,
    draft,      \* the name of the project to create is not blank
    filled,     \* ... nor the text of a rename or directory overlay
    queue,      \* numbers of the effects asked for and not acknowledged
    nextId,
    committed,  \* the queue of the last render
    flushed,    \* the last render's passive effects have run
    processed,  \* ids of effects that were run
    ran,        \* the effects that were run, in order
    flight,     \* the fiber of each effect's mutation
    error       \* the error line shows a failure

uiVars == <<focus, overlay, selectedId, selectedIndex, draft, filled>>
effectVars == <<queue, nextId>>
renderVars == <<rendered, heard, committed, flushed, processed>>
terminalVars == <<stage, snapshot, lists, uiVars, effectVars, renderVars, ran, flight, error>>

Lists == {s \in SeqOf(Projects, Cardinality(Projects)) : IsInjective(s)}

TerminalTypeOK ==
    /\ stage \in {"up", "unmounted", "disposed"}
    /\ {snapshot, rendered, heard} \subseteq Lists
    /\ lists \in 0 .. MaxLists
    /\ focus \in {"list", "create"} /\ {draft, filled} \subseteq BOOLEAN
    /\ Overlays \subseteq OverlayKinds
    /\ overlay \in {NoOverlay} \cup [kind : Overlays, project : Projects]
    /\ selectedId \in Projects \cup {Nobody}
    /\ selectedIndex \in 0 .. Cardinality(Projects)
    /\ {queue, committed, ran} \subseteq Seq(Effects)
    /\ nextId \in 0 .. MaxEffects /\ processed \subseteq Effects
    /\ flushed \in BOOLEAN /\ error \in BOOLEAN
    /\ flight \in [Effects -> {"none", "running", "cancelled", "ended"}]

TerminalInit ==
    /\ stage = "up" /\ snapshot = <<>> /\ lists = 0
    /\ rendered = <<>> /\ heard = <<>> /\ committed = <<>>
    /\ flushed = TRUE /\ processed = {}
    /\ focus = "list" /\ overlay = NoOverlay
    /\ selectedId = Nobody /\ selectedIndex = 0 /\ draft = FALSE /\ filled = FALSE
    /\ queue = <<>> /\ nextId = 0 /\ ran = <<>>
    /\ flight = [e \in Effects |-> "none"] /\ error = FALSE

-----------------------------------------------------------------------------
(* Keys: routed on the overlay, then on the focus, and reduced. *)

Creating == overlay.kind = "none" /\ focus = "create"
InList == overlay.kind = "none" /\ focus = "list"

Stay == UNCHANGED <<stage, snapshot, lists, renderVars, ran, flight, error>>

\* Text goes to the field that has the focus before any binding sees it.
EditField ==
    /\ \/ Creating /\ draft' = ~draft /\ UNCHANGED filled
       \/ overlay.kind \in TextOverlays /\ filled' = ~filled /\ UNCHANGED draft
    /\ UNCHANGED <<focus, overlay, selectedId, selectedIndex, effectVars>> /\ Stay

\* The effect joins the queue with the next number.
Ask ==
    /\ nextId < MaxEffects
    /\ queue' = Append(queue, nextId)
    /\ nextId' = nextId + 1

CloseOverlay == overlay' = NoOverlay /\ filled' = FALSE

\* Blank names and directories stay open; blank metadata clears.
SubmitOverlay ==
    /\ overlay.kind # "none"
    /\ overlay.kind \in TextOverlays => filled
    /\ Ask
    /\ CloseOverlay
    /\ UNCHANGED <<focus, selectedId, selectedIndex, draft>> /\ Stay

CancelOverlay ==
    /\ overlay.kind # "none"
    /\ CloseOverlay
    /\ UNCHANGED <<focus, selectedId, selectedIndex, draft, effectVars>> /\ Stay

SubmitCreate ==
    /\ Creating /\ draft
    /\ Ask
    /\ draft' = FALSE
    /\ UNCHANGED <<focus, overlay, selectedId, selectedIndex, filled>> /\ Stay

ClearCreate ==
    /\ Creating /\ draft
    /\ draft' = FALSE
    /\ UNCHANGED <<focus, overlay, selectedId, selectedIndex, filled, effectVars>> /\ Stay

\* Tab goes from the draft to the list, which keeps it, and back.
SwitchFocus ==
    /\ \/ Creating /\ focus' = "list"
       \/ InList /\ focus' = "create"
    /\ UNCHANGED <<overlay, selectedId, selectedIndex, draft, filled, effectVars>> /\ Stay

\* Commands act on the selected project, if the handler's list still has it.
At == CHOOSE i \in 1 .. Len(heard) : heard[i] = selectedId
HasSelection == InList /\ selectedId \in Range(heard)

Select ==
    /\ HasSelection
    /\ \E i \in {Max({At - 1, 1}), Min({At + 1, Len(heard)})} :
          selectedId' = heard[i] /\ selectedIndex' = i - 1
    /\ UNCHANGED <<focus, overlay, draft, filled, effectVars>> /\ Stay

\* A rename starts with the name, a directory blank.
OpenOverlay ==
    /\ HasSelection
    /\ \E k \in Overlays :
          /\ overlay' = [kind |-> k, project |-> selectedId]
          /\ filled' = (k = "rename")
    /\ UNCHANGED <<focus, selectedId, selectedIndex, draft, effectVars>> /\ Stay

ToggleArchive ==
    /\ HasSelection
    /\ Ask
    /\ UNCHANGED uiVars /\ Stay

Key ==
    /\ stage = "up"
    /\ \/ EditField \/ SubmitOverlay \/ CancelOverlay
       \/ SubmitCreate \/ ClearCreate \/ SwitchFocus
       \/ Select \/ OpenOverlay \/ ToggleArchive

-----------------------------------------------------------------------------
(* Snapshots, renders, and what runs after them. *)

Publish ==
    /\ stage = "up" /\ lists < MaxLists
    /\ snapshot' \in Lists \ {snapshot}
    /\ lists' = lists + 1
    /\ UNCHANGED <<stage, uiVars, effectVars, renderVars, ran, flight, error>>

\* The synchronisation failed or ended: no list comes any more.
SyncEnds ==
    /\ stage = "up" /\ lists < MaxLists
    /\ lists' = MaxLists
    /\ error' = TRUE
    /\ UNCHANGED <<stage, snapshot, uiVars, effectVars, renderVars, ran, flight>>

\* Mutant: a key that only asks for an effect does not render.
Outdated_ListOnly == rendered # snapshot
Outdated == rendered # snapshot \/ committed # queue

\* A render takes the current list and queue; passive effects come later.
Render ==
    /\ stage = "up" /\ flushed
    /\ Outdated
    /\ rendered' = snapshot /\ committed' = queue
    /\ flushed' = FALSE
    /\ UNCHANGED <<stage, snapshot, lists, uiVars, effectVars, heard, processed,
                   ran, flight, error>>

\* Mutant: an overlay stays open when its project is gone.
Reconcile_OverlayKept ==
    LET n == Len(rendered)
        place == IF selectedId \in Range(rendered)
                 THEN CHOOSE i \in 1 .. n : rendered[i] = selectedId
                 ELSE Min({selectedIndex + 1, n})
    IN  /\ selectedId' = IF n = 0 THEN Nobody ELSE rendered[place]
        /\ selectedIndex' = IF n = 0 THEN 0 ELSE place - 1
        /\ UNCHANGED <<focus, overlay, draft, filled>>

\* The selection follows its project, or moves to the neighbour at its place;
\* the overlay of a project that is gone closes.
Reconcile ==
    LET n == Len(rendered)
        place == IF selectedId \in Range(rendered)
                 THEN CHOOSE i \in 1 .. n : rendered[i] = selectedId
                 ELSE Min({selectedIndex + 1, n})
    IN  /\ selectedId' = IF n = 0 THEN Nobody ELSE rendered[place]
        /\ selectedIndex' = IF n = 0 THEN 0 ELSE place - 1
        /\ IF overlay.kind # "none" /\ overlay.project \notin Range(rendered)
           THEN CloseOverlay
           ELSE UNCHANGED <<overlay, filled>>
        /\ UNCHANGED <<focus, draft>>

\* Mutant: the whole queue is acknowledged, also what came since the render.
Acknowledged_All(done) == <<>>
Acknowledged(done) == Without(queue, Range(done))

\* The passive effects of the last render, in their order.
Flush ==
    LET todo == Without(committed, processed)
    IN  /\ stage = "up" /\ ~flushed
        /\ flushed' = TRUE
        /\ ran' = ran \o todo
        /\ flight' = [e \in Effects |-> IF e \in Range(todo) THEN "running" ELSE flight[e]]
        /\ queue' = Acknowledged(todo)
        /\ processed' = (processed \cup Range(todo)) \cap Range(committed)
        /\ IF heard # rendered THEN Reconcile ELSE UNCHANGED uiVars
        /\ heard' = rendered
        /\ UNCHANGED <<stage, snapshot, lists, nextId, rendered, committed, error>>

-----------------------------------------------------------------------------
(* Mutations and the end. *)

\* A report is heeded while the runner is active and the fiber not cancelled.
Reports(e) == stage = "up" /\ flight[e] = "running"

MutationEnds(e) ==
    /\ flight[e] \in {"running", "cancelled"}
    /\ flight' = [flight EXCEPT ![e] = "ended"]
    /\ error' \in IF Reports(e) THEN BOOLEAN ELSE {error}
    /\ UNCHANGED <<stage, snapshot, lists, uiVars, effectVars, renderVars, ran>>

Unmount ==
    /\ stage = "up"
    /\ stage' = "unmounted"
    /\ flight' = [e \in Effects |-> IF flight[e] = "running" THEN "cancelled" ELSE flight[e]]
    /\ UNCHANGED <<snapshot, lists, uiVars, effectVars, renderVars, ran, error>>

\* The runtime is disposed after the interface, whatever still runs in it.
Dispose ==
    /\ stage = "unmounted"
    /\ stage' = "disposed"
    /\ UNCHANGED <<snapshot, lists, uiVars, effectVars, renderVars, ran, flight, error>>

TerminalNext ==
    \/ Key \/ Publish \/ SyncEnds \/ Render \/ Flush \/ Unmount \/ Dispose
    \/ \E e \in Effects : MutationEnds(e)

TerminalSpec == TerminalInit /\ [][TerminalNext]_terminalVars

TerminalFairness ==
    /\ WF_terminalVars(Render \/ Flush)
    /\ WF_terminalVars(Dispose) /\ WF_terminalVars(\E e \in Effects : MutationEnds(e))

-----------------------------------------------------------------------------
(* Every effect a key asked for is run once, in the order asked for,       *)
(* however renders, acknowledgements and new lists interleave.             *)
EffectsRunOnce ==
    /\ \A i \in 1 .. Len(ran) : ran[i] = i - 1
    /\ Range(queue) \ processed \subseteq Len(ran) .. MaxEffects
    /\ Range(queue) \cup Range(ran) = 0 .. nextId - 1

(* Once the passive effects of the newest list have run, the selection is  *)
(* at its place in it and the overlay is about one of its projects, though *)
(* keys may have been routed with an older list in between.                *)
SelectionIsListed ==
    flushed /\ heard = snapshot =>
        /\ (selectedId = Nobody) <=> (snapshot = <<>>)
        /\ snapshot # <<>> => snapshot[selectedIndex + 1] = selectedId
        /\ overlay.kind # "none" => overlay.project \in Range(snapshot)

(* While the interface lives the effects that were asked for are run and   *)
(* their mutations end: nothing in the queue is forgotten.                 *)
EffectsEnd ==
    nextId > 0 ~> (stage # "up" \/ \A e \in 0 .. nextId - 1 : flight[e] = "ended")
=============================================================================
