----------------------------- MODULE EventStream -----------------------------
(***************************************************************************)
(* The Events stream of the backend (apps/server/rpc/stream.ts): a         *)
(* subscriber names the seq it has seen, and is sent the stored events     *)
(* after it, chunk by chunk (apps/server/db/event-store.ts), and then the  *)
(* live ones from the bus (apps/server/application/event-bus.ts), while    *)
(* the single committer keeps appending and publishing.                    *)
(***************************************************************************)
EXTENDS Naturals, Sequences

CONSTANTS
  Reader,      \* concurrent Events calls
  ChunkSize,   \* rows of one keyset fetch (EventScanChunkSize)
  MaxSeq       \* bound on the seqs of the log

ASSUME ChunkSizeAssumption == ChunkSize \in Nat \ {0}
ASSUME MaxSeqAssumption    == MaxSeq \in Nat

VARIABLES
  log,        \* seqs of the stored events, in order; seqs may skip numbers
  published,  \* how many of them the bus has carried
  stream      \* each reader's stream

vars == <<log, published, stream>>

Phase == {"closed", "fetching", "draining", "live"}

Closed(from) ==
  [ phase |-> "closed", from |-> from, cursor |-> 0, rows |-> <<>>, more |-> FALSE,
    lastReplayed |-> 0, inbox |-> <<>>, sent |-> <<>> ]

Last(seqs, default) == IF seqs = <<>> THEN default ELSE seqs[Len(seqs)]

Init ==
  /\ log = <<>> /\ published = 0
  /\ stream = [r \in Reader |-> Closed(0)]

(***************************************************************************)
(* The committer: append, then publish, never interrupted in between, one  *)
(* event at a time (the mutex and the commit of use-cases.ts).             *)
(***************************************************************************)
AppendEvent ==
  /\ published = Len(log)
  /\ \E seq \in Last(log, 0) + 1..MaxSeq : log' = Append(log, seq)
  /\ UNCHANGED <<published, stream>>

Subscribed(s) == s.phase # "closed"

\* An unbounded PubSub: every subscription of the moment gets the event.
Publish ==
  /\ published < Len(log)
  /\ published' = published + 1
  /\ stream' = [r \in Reader |->
       IF Subscribed(stream[r])
       THEN [stream[r] EXCEPT !.inbox = Append(@, log[published + 1])]
       ELSE stream[r]]
  /\ UNCHANGED log

(***************************************************************************)
(* One Events call.                                                        *)
(***************************************************************************)
Set(r, s) == stream' = [stream EXCEPT ![r] = s] /\ UNCHANGED <<log, published>>

\* Without a cursor: the bus only, from the next publication on.
OpenLive(r) ==
  /\ stream[r].phase = "closed"
  /\ LET from == IF published = 0 THEN 0 ELSE log[published]
     IN Set(r, [Closed(from) EXCEPT !.phase = "live", !.lastReplayed = 0])

\* With a cursor: subscribe first, then read the backlog.
OpenFrom(r, from) ==
  /\ stream[r].phase = "closed"
  /\ Set(r, [Closed(from) EXCEPT !.phase = "fetching", !.cursor = from,
                                 !.lastReplayed = from])

\* How many rows are not behind the cursor; the log is in the order of its seqs.
Passed(cursor) == CHOOSE n \in 0..Len(log) : \A i \in 1..Len(log) : i <= n <=> log[i] <= cursor

\* SELECT ... WHERE seq > cursor ORDER BY seq LIMIT ChunkSize.
Page(cursor) ==
  LET n == Passed(cursor)
  IN SubSeq(log, n + 1, IF Len(log) < n + ChunkSize THEN Len(log) ELSE n + ChunkSize)

\* Mutant: one seq is skipped between two pages.
NextCursor_OffByOne(cursor, page) == Last(page, cursor) + 1
\* The next page starts after the last row of this one.
NextCursor(cursor, page) == Last(page, cursor)

\* A page shorter than the chunk is the last one.
FetchPage(r) ==
  /\ stream[r].phase = "fetching"
  /\ LET page == Page(stream[r].cursor)
     IN Set(r, [stream[r] EXCEPT !.phase  = "draining",
                                 !.rows   = page,
                                 !.more   = Len(page) >= ChunkSize,
                                 !.cursor = NextCursor(@, page)])

\* Mutant: the seam is not recorded while the backlog flows.
Replayed_Forgotten(s, seq) == s.lastReplayed
Replayed(s, seq) == seq

EmitRow(r) ==
  /\ stream[r].phase = "draining" /\ stream[r].rows # <<>>
  /\ LET seq == Head(stream[r].rows)
     IN Set(r, [stream[r] EXCEPT !.rows = Tail(@),
                                 !.lastReplayed = Replayed(stream[r], seq),
                                 !.sent = Append(@, seq)])

EndPage(r) ==
  /\ stream[r].phase = "draining" /\ stream[r].rows = <<>>
  /\ Set(r, [stream[r] EXCEPT !.phase = IF stream[r].more THEN "fetching" ELSE "live"])

\* Stream.filter: an event already replayed is dropped.
TakeLive(r) ==
  /\ stream[r].phase = "live" /\ stream[r].inbox # <<>>
  /\ LET seq == Head(stream[r].inbox)
     IN Set(r, [stream[r] EXCEPT
          !.inbox = Tail(@),
          !.sent  = IF seq > stream[r].lastReplayed THEN Append(@, seq) ELSE @])

\* The client goes away; the subscription ends with the stream's scope.
Close(r) ==
  /\ stream[r].phase # "closed"
  /\ Set(r, Closed(stream[r].from))

\* The process dies: an event appended and not yet published stays in the log.
Crash ==
  /\ published' = Len(log)
  /\ stream' = [r \in Reader |-> Closed(stream[r].from)]
  /\ UNCHANGED log

Drain(r) == FetchPage(r) \/ EmitRow(r) \/ EndPage(r) \/ TakeLive(r)

Next ==
  \/ AppendEvent \/ Publish \/ Crash
  \/ \E r \in Reader :
       \/ OpenLive(r)
       \/ \E from \in 0..MaxSeq : OpenFrom(r, from)
       \/ Drain(r) \/ Close(r)

Spec == Init /\ [][Next]_vars

(***************************************************************************)
(* Properties.                                                             *)
(***************************************************************************)
Seqs == Seq(1..MaxSeq)

Stream == [ phase : Phase, from : 0..MaxSeq, cursor : 0..MaxSeq, rows : Seqs,
            more : BOOLEAN, lastReplayed : 0..MaxSeq, inbox : Seqs, sent : Seqs ]

\* Every variable holds a value of its kind.
TypeOK ==
  /\ log \in Seqs
  /\ published \in 0..Len(log)
  /\ stream \in [Reader -> Stream]

\* Whatever the interleaving of commits, page fetches and live deliveries,
\* each reader is sent the log after its cursor: in order, once, no gap.
Feed == INSTANCE OrderedFeed
  WITH from <- [r \in Reader |-> stream[r].from],
       sent <- [r \in Reader |-> stream[r].sent]
ImplementsOrderedFeed == Feed!Spec

\* Scheduling the code relies on: fibers run on, the commit is uninterruptible.
FairSpec == Spec /\ WF_vars(Publish) /\ \A r \in Reader : WF_vars(Drain(r))

\* An open stream is eventually sent every stored event after its cursor.
EventuallySent ==
  \A r \in Reader, seq \in 1..MaxSeq :
    (/\ Subscribed(stream[r]) /\ seq > stream[r].from
     /\ \E i \in 1..Len(log) : log[i] = seq)
      ~> (\/ ~Subscribed(stream[r])
          \/ \E j \in 1..Len(stream[r].sent) : stream[r].sent[j] = seq)
=============================================================================
