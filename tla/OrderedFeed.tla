----------------------------- MODULE OrderedFeed -----------------------------
(***************************************************************************)
(* What the Events stream promises a subscriber: every event of the log    *)
(* after its cursor, once, in log order, nothing skipped -- the comment of *)
(* EventStorePrimitives.scan in apps/server/db/event-store.ts, "no gap, no *)
(* duplicate", extended over the seam between backlog and live.            *)
(***************************************************************************)
EXTENDS Naturals, Sequences

CONSTANTS Reader, MaxSeq

VARIABLES
  log,   \* seqs of the stored events
  from,  \* each reader's cursor
  sent   \* what each reader was sent since it opened its stream

feed == <<log, from, sent>>

\* The seq a reader's stream is at: the last one it was sent, or its cursor.
Reached(r) == IF sent[r] = <<>> THEN from[r] ELSE sent[r][Len(sent[r])]

Init ==
  /\ log = <<>>
  /\ from \in [Reader -> 0..MaxSeq]
  /\ sent = [r \in Reader |-> <<>>]

Store ==
  /\ \E seq \in 1..MaxSeq :
       /\ \A i \in 1..Len(log) : log[i] < seq
       /\ log' = Append(log, seq)
  /\ UNCHANGED <<from, sent>>

\* Readers open, close and reopen their streams, alone or all at once.
Reset ==
  /\ \A r \in Reader : sent'[r] \in {sent[r], <<>>}
  /\ DOMAIN sent' = Reader
  /\ from' \in [Reader -> 0..MaxSeq]
  /\ \A r \in Reader : from'[r] # from[r] => sent'[r] = <<>>
  /\ UNCHANGED log

\* The first event of the log behind that seq.
Send(r) ==
  /\ \E n \in 1..Len(log) :
       /\ log[n] > Reached(r)
       /\ \A m \in 1..n - 1 : log[m] <= Reached(r)
       /\ sent' = [sent EXCEPT ![r] = Append(@, log[n])]
  /\ UNCHANGED <<log, from>>

Next == Store \/ Reset \/ \E r \in Reader : Send(r)

Spec == Init /\ [][Next]_feed
=============================================================================
