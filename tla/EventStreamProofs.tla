-------------------------- MODULE EventStreamProofs --------------------------
(***************************************************************************)
(* The Events stream keeps its promise for any number of subscribers, any  *)
(* chunk size and any log: it implements OrderedFeed.                      *)
(*                                                                         *)
(* A reader's place in the log is the seq it has reached.  The backlog's   *)
(* rows are the log's events right behind it (RowsOK).  The inbox holds    *)
(* the events published since the subscription, up to the last (InboxOK);  *)
(* it was opened before the last page was fetched, so once that page is    *)
(* through everything before the inbox has been sent, and what the inbox   *)
(* repeats of it is not beyond the seam that the filter knows (LiveOK).    *)
(***************************************************************************)
EXTENDS EventStream, SequenceTheorems, WellFoundedInduction, TLAPS

Ordered == \A i, j \in 1..Len(log) : i < j => log[i] < log[j]

At(s) == Last(s.sent, s.from)

\* How much of the log was published before the subscription's inbox starts.
Before(s) == published - Len(s.inbox)

InboxOK(s) ==
  /\ Len(s.inbox) <= published
  /\ \A i \in 1..Len(s.inbox) : s.inbox[i] = log[Before(s) + i]

RowsOK(s) ==
  \E k \in 0..Len(log) :
    /\ k + Len(s.rows) <= Len(log)
    /\ \A i \in 1..Len(s.rows) : s.rows[i] = log[k + i]
    /\ \A i \in 1..k : log[i] <= At(s)
    /\ s.rows # <<>> => log[k + 1] > At(s)
    /\ ~s.more => Before(s) <= k + Len(s.rows)

LiveOK(s) ==
  /\ \A i \in 1..Before(s) : log[i] <= At(s)
  /\ s.lastReplayed <= At(s)
  /\ At(s) <= s.lastReplayed \/ (Before(s) >= 1 /\ At(s) = log[Before(s)])

StreamOK(s) ==
  /\ s.phase = "closed" => s.sent = <<>>
  /\ s.phase # "closed" => InboxOK(s)
  /\ s.phase = "fetching" => s.cursor = At(s) /\ s.lastReplayed = At(s)
  /\ s.phase = "draining" => s.cursor = Last(s.rows, At(s)) /\ s.lastReplayed = At(s) /\ RowsOK(s)
  /\ s.phase = "live" => LiveOK(s)

\* The inductive invariant.
IInv == TypeOK /\ Ordered /\ \A r \in Reader : StreamOK(stream[r])

-----------------------------------------------------------------------------
(* Types. *)

LEMMA Typed ==
  ASSUME TypeOK
  PROVE  /\ MaxSeq \in Nat /\ ChunkSize \in Nat /\ ChunkSize >= 1
         /\ log \in Seq(1..MaxSeq) /\ Len(log) \in Nat /\ published \in 0..Len(log)
         /\ \A i \in 1..Len(log) : log[i] \in 1..MaxSeq
         /\ \A r \in Reader : stream[r] \in Stream
BY ChunkSizeAssumption, MaxSeqAssumption, LenProperties, ElementOfSeq DEF TypeOK, Seqs

LEMMA StreamTyped ==
  ASSUME NEW s \in Stream
  PROVE  /\ s.phase \in Phase /\ s.from \in 0..MaxSeq /\ s.cursor \in 0..MaxSeq
         /\ s.rows \in Seq(1..MaxSeq) /\ Len(s.rows) \in Nat
         /\ s.more \in BOOLEAN /\ s.lastReplayed \in 0..MaxSeq
         /\ s.inbox \in Seq(1..MaxSeq) /\ Len(s.inbox) \in Nat
         /\ s.sent \in Seq(1..MaxSeq)
         /\ At(s) \in 0..MaxSeq
         /\ s.sent # <<>> => At(s) = s.sent[Len(s.sent)]
<1>1. /\ s.phase \in Phase /\ s.from \in 0..MaxSeq /\ s.cursor \in 0..MaxSeq
      /\ s.rows \in Seq(1..MaxSeq)
      /\ s.more \in BOOLEAN /\ s.lastReplayed \in 0..MaxSeq
      /\ s.inbox \in Seq(1..MaxSeq) /\ s.sent \in Seq(1..MaxSeq)
  BY DEF Stream, Seqs
<1>2. Len(s.rows) \in Nat /\ Len(s.inbox) \in Nat /\ Len(s.sent) \in Nat
  BY <1>1, LenProperties
<1>3. s.sent # <<>> => Len(s.sent) \in 1..Len(s.sent)
  BY <1>1, <1>2, EmptySeq
<1>4. s.sent # <<>> => s.sent[Len(s.sent)] \in 1..MaxSeq
  BY <1>1, <1>3, ElementOfSeq
<1>. QED BY <1>1, <1>2, <1>4, MaxSeqAssumption DEF At, Last

\* A closed stream.
LEMMA ClosedTyped ==
  ASSUME NEW from \in 0..MaxSeq
  PROVE  /\ Closed(from) \in Stream /\ Closed(from).phase = "closed"
         /\ Closed(from).from = from /\ Closed(from).sent = <<>>
<1>1. <<>> \in Seqs /\ 0 \in 0..MaxSeq
  BY MaxSeqAssumption DEF Seqs
<1>. QED BY <1>1 DEF Closed, Stream, Phase

-----------------------------------------------------------------------------
(* One step leaves the other streams, and the place of each, alone. *)

\* The log grows at its end: what was said of its events stays true.
LEMMA LogGrows ==
  ASSUME IInv, AppendEvent
  PROVE  IInv'
<1>. PICK seq \in Last(log, 0) + 1..MaxSeq : log' = Append(log, seq)
  BY DEF AppendEvent
<1>1. published' = published /\ stream' = stream
  BY DEF AppendEvent
<1>2. /\ log \in Seq(1..MaxSeq) /\ Len(log) \in Nat /\ MaxSeq \in Nat
      /\ \A i \in 1..Len(log) : log[i] \in 1..MaxSeq
      /\ published \in 0..Len(log)
      /\ \A r \in Reader : stream[r] \in Stream
  BY Typed DEF IInv
<1>3. log # <<>> => Len(log) \in 1..Len(log)
  BY <1>2, EmptySeq
<1>4. Last(log, 0) \in Nat /\ \A i \in 1..Len(log) : log[i] <= Last(log, 0)
  <2>1. CASE log = <<>>
    BY <2>1, EmptySeq DEF Last
  <2>2. CASE log # <<>>
    <3>1. Last(log, 0) = log[Len(log)]
      BY <2>2 DEF Last
    <3>2. \A i \in 1..Len(log) : i # Len(log) => log[i] < log[Len(log)]
      BY <1>2, <1>3, <2>2 DEF IInv, Ordered
    <3>. QED BY <1>2, <1>3, <2>2, <3>1, <3>2
  <2>. QED BY <2>1, <2>2
<1>5. seq \in 1..MaxSeq /\ \A i \in 1..Len(log) : log[i] < seq
  BY <1>2, <1>4
<1>6. /\ log' \in Seq(1..MaxSeq) /\ Len(log') = Len(log) + 1 /\ log'[Len(log) + 1] = seq
      /\ \A i \in 1..Len(log) : log'[i] = log[i]
  BY <1>2, <1>5, AppendProperties
<1>7. TypeOK'
  BY <1>1, <1>2, <1>6 DEF IInv, TypeOK, Seqs
<1>8. Ordered'
  <2>. SUFFICES ASSUME NEW i \in 1..Len(log'), NEW j \in 1..Len(log'), i < j PROVE log'[i] < log'[j]
    BY DEF Ordered
  <2>1. i \in 1..Len(log) /\ (j \in 1..Len(log) \/ j = Len(log) + 1)
    BY <1>2, <1>6
  <2>. QED BY <1>5, <1>6, <2>1 DEF IInv, Ordered
<1>9. ASSUME NEW r \in Reader PROVE StreamOK(stream[r])'
  <2>. DEFINE s == stream[r]
  <2>1. s \in Stream /\ StreamOK(s)
    BY <1>2 DEF IInv
  <2>2. Len(s.inbox) \in Nat /\ Len(s.rows) \in Nat /\ stream'[r] = s
    BY <1>1, <2>1, StreamTyped
  <2>. HIDE DEF s
  <2>3. ASSUME InboxOK(s) PROVE /\ InboxOK(s)' /\ Before(s)' = Before(s) /\ Before(s) \in 0..Len(log)
    <3>1. s' = s /\ Before(s)' = Before(s)
      BY <1>1 DEF s, Before
    <3>2. Before(s) \in 0..Len(log) /\ published = Before(s) + Len(s.inbox)
      BY <1>2, <2>2, <2>3 DEF InboxOK, Before
    <3>3. ASSUME NEW i \in 1..Len(s.inbox) PROVE s.inbox[i] = log'[Before(s) + i]
      <4>1. Before(s) + i \in 1..Len(log)
        <5>1. PICK b \in Nat : b = Before(s)
          BY <1>2, <3>2
        <5>2. b + Len(s.inbox) <= Len(log)
          <6>1. published <= Len(log) /\ b + Len(s.inbox) = published
            BY <1>2, <3>2, <5>1
          <6>. QED BY <6>1
        <5>3. PICK m \in Nat, n \in Nat : m = Len(s.inbox) /\ n = Len(log)
          BY <1>2, <2>2
        <5>4. i \in 1..m /\ b + m <= n
          BY <5>2, <5>3
        <5>5. b + i \in 1..n
          BY <5>4
        <5>. QED BY <5>1, <5>3, <5>5
      <4>. QED BY <1>6, <2>3, <4>1 DEF InboxOK
    <3>. QED BY <1>1, <2>3, <3>1, <3>2, <3>3 DEF InboxOK
  <2>4. ASSUME InboxOK(s), LiveOK(s) PROVE LiveOK(s)'
    BY <1>1, <1>2, <1>6, <2>3, <2>4 DEF LiveOK, At, s
  <2>5. ASSUME InboxOK(s), RowsOK(s) PROVE RowsOK(s)'
    <3>1. PICK k \in 0..Len(log) :
             /\ k + Len(s.rows) <= Len(log)
             /\ \A i \in 1..Len(s.rows) : s.rows[i] = log[k + i]
             /\ \A i \in 1..k : log[i] <= At(s)
             /\ s.rows # <<>> => log[k + 1] > At(s)
             /\ ~s.more => Before(s) <= k + Len(s.rows)
      BY <2>5 DEF RowsOK
    <3>2. k \in 0..Len(log') /\ k + Len(s.rows) <= Len(log')
      BY <1>2, <1>6, <2>2, <3>1
    <3>3. \A i \in 1..Len(s.rows) : s.rows[i] = log'[k + i]
      BY <1>2, <1>6, <2>2, <3>1
    <3>4. \A i \in 1..k : log'[i] <= At(s)
      BY <1>2, <1>6, <2>2, <3>1
    <3>5. s.rows # <<>> => log'[k + 1] > At(s)
      <4>1. s.rows # <<>> => k + 1 \in 1..Len(log)
        <5>1. s.rows # <<>> => Len(s.rows) # 0
          BY <2>1, StreamTyped, EmptySeq
        <5>. QED BY <1>2, <2>2, <3>1, <5>1
      <4>. QED BY <1>6, <3>1, <4>1
    <3>6. s' = s /\ At(s)' = At(s) /\ (~s.more => Before(s)' <= k + Len(s.rows))
      BY <1>1, <2>3, <2>5, <3>1 DEF s, At
    <3>. QED BY <3>2, <3>3, <3>4, <3>5, <3>6 DEF RowsOK
  <2>6. s' = s /\ At(s)' = At(s)
    BY <1>1 DEF s, At
  <2>7. StreamOK(s)'
    BY <2>1, <2>3, <2>4, <2>5, <2>6 DEF StreamOK
  <2>. QED BY <2>7 DEF s
<1>. QED BY <1>7, <1>8, <1>9 DEF IInv

\* What is said of a stream is said of its value, the log and what is published.
LEMMA SameStreamOK ==
  ASSUME NEW q, NEW s, StreamOK(s), stream'[q] = s, log' = log, published' = published
  PROVE  StreamOK(stream[q])'
<1>1. At(stream[q])' = At(s) /\ Before(stream[q])' = Before(s)
  BY DEF At, Before
<1>2. InboxOK(s) => InboxOK(stream[q])'
  BY <1>1 DEF InboxOK
<1>3. RowsOK(s) => RowsOK(stream[q])'
  BY <1>1 DEF RowsOK
<1>4. LiveOK(s) => LiveOK(stream[q])'
  BY <1>1 DEF LiveOK
<1>. QED BY <1>1, <1>2, <1>3, <1>4 DEF StreamOK

\* A step of one reader: the others keep what they have.
LEMMA OneReader ==
  ASSUME IInv, NEW r \in Reader, NEW s \in Stream, Set(r, s), StreamOK(s)
  PROVE  IInv'
<1>1. /\ log' = log /\ published' = published /\ stream' = [stream EXCEPT ![r] = s]
      /\ s' = s
  BY DEF Set
<1>2. TypeOK' /\ Ordered'
  BY <1>1 DEF IInv, TypeOK, Ordered
<1>3. ASSUME NEW q \in Reader PROVE StreamOK(stream[q])'
  <2>1. CASE q = r
    <3>1. stream'[q] = s
      BY <1>1, <2>1 DEF IInv, TypeOK
    <3>. QED BY <1>1, <3>1, SameStreamOK
  <2>2. CASE q # r
    <3>1. stream'[q] = stream[q]
      BY <1>1, <2>2 DEF IInv, TypeOK
    <3>2. StreamOK(stream[q])
      BY DEF IInv
    <3>. QED BY <1>1, <3>1, <3>2, SameStreamOK
  <2>. QED BY <2>1, <2>2
<1>. QED BY <1>2, <1>3 DEF IInv

-----------------------------------------------------------------------------
(* The backlog. *)

\* The rows up to a cursor are counted: the log is in order.
LEMMA PassedCounts ==
  ASSUME TypeOK, Ordered, NEW cursor \in Nat
  PROVE  /\ Passed(cursor) \in 0..Len(log)
         /\ \A i \in 1..Len(log) : i <= Passed(cursor) <=> log[i] <= cursor
<1>1. Len(log) \in Nat /\ \A i \in 1..Len(log) : log[i] \in Nat
  BY Typed
<1>. DEFINE After == {i \in 1..Len(log) : log[i] > cursor}
<1>2. CASE After = {}
  <2>1. \A i \in 1..Len(log) : i <= Len(log) <=> log[i] <= cursor
    BY <1>1, <1>2
  <2>2. Len(log) \in 0..Len(log)
    BY <1>1
  <2>. QED BY <2>1, <2>2 DEF Passed
<1>3. CASE After # {}
  <2>1. \A m, n \in Nat : m < n => <<m, n>> \in OpToRel(<, Nat)
    BY DEF OpToRel
  <2>2. PICK n \in After : \A m \in After : ~(<<m, n>> \in OpToRel(<, Nat))
    <3>1. After \subseteq Nat
      BY <1>1
    <3>. HIDE DEF After
    <3>. QED BY <1>3, <3>1, NatLessThanWellFounded, WFMin
  <2>3. n \in 1..Len(log) /\ log[n] > cursor
    OBVIOUS
  <2>4. \A m \in 1..Len(log) : m < n => log[m] <= cursor
    <3>. SUFFICES ASSUME NEW m \in 1..Len(log), m < n, log[m] > cursor PROVE FALSE
      BY <1>1
    <3>1. m \in After /\ m \in Nat /\ n \in Nat
      BY <1>1, <2>3
    <3>. QED BY <2>1, <2>2, <3>1
  <2>5. \A m \in 1..Len(log) : m >= n => log[m] > cursor
    <3>. SUFFICES ASSUME NEW m \in 1..Len(log), m >= n PROVE log[m] > cursor
      OBVIOUS
    <3>1. m = n \/ log[n] < log[m]
      BY <1>1, <2>3 DEF Ordered
    <3>. QED BY <1>1, <2>3, <3>1
  <2>6. n - 1 \in 0..Len(log) /\ \A i \in 1..Len(log) : i <= n - 1 <=> log[i] <= cursor
    BY <1>1, <2>3, <2>4, <2>5
  <2>. QED BY <2>6 DEF Passed
<1>. QED BY <1>2, <1>3

\* A page is the next stretch of the log, and a short one ends it.
LEMMA PageRows ==
  ASSUME TypeOK, Ordered, NEW cursor \in Nat
  PROVE  LET k == Passed(cursor)
             page == Page(cursor)
         IN  /\ page \in Seq(1..MaxSeq) /\ Len(page) \in Nat
             /\ k + Len(page) <= Len(log)
             /\ \A i \in 1..Len(page) : page[i] = log[k + i]
             /\ Len(page) < ChunkSize => k + Len(page) = Len(log)
<1>. DEFINE k == Passed(cursor)
            n == IF Len(log) < k + ChunkSize THEN Len(log) ELSE k + ChunkSize
<1>1. /\ Len(log) \in Nat /\ ChunkSize \in Nat /\ ChunkSize >= 1
      /\ \A i \in 1..Len(log) : log[i] \in 1..MaxSeq
  BY Typed
<1>2. k \in 0..Len(log)
  BY PassedCounts
<1>. HIDE DEF k
<1>3. k + 1 \in Int /\ n \in k..Len(log) /\ n \in Int
  BY <1>1, <1>2
<1>4. \A i \in k + 1..n : log[i] \in 1..MaxSeq
  BY <1>1, <1>2, <1>3
<1>5. Page(cursor) = SubSeq(log, k + 1, n)
  BY DEF Page, k
<1>6. n - (k + 1) + 1 = n - k /\ (k + 1 <= n => n - k >= 1) /\ (~(k + 1 <= n) => n = k)
  BY <1>2, <1>3
<1>7. /\ Page(cursor) \in Seq(1..MaxSeq)
      /\ Len(Page(cursor)) = n - k
      /\ \A i \in 1..n - k : Page(cursor)[i] = log[(k + 1) + i - 1]
  <2>. HIDE DEF n
  <2>. QED BY <1>3, <1>4, <1>5, <1>6, SubSeqProperties
<1>8. \A i \in 1..n - k : (k + 1) + i - 1 = k + i
  BY <1>2
<1>9. n - k < ChunkSize => n = Len(log)
  BY <1>1, <1>2
<1>10. k + (n - k) = n /\ n - k \in Nat /\ n <= Len(log)
  BY <1>1, <1>2
<1>. QED BY <1>7, <1>8, <1>9, <1>10 DEF k

\* The rows that a stream has fetched are the log behind the seq it is at.
LEMMA FetchKeeps ==
  ASSUME IInv, NEW r \in Reader, FetchPage(r)
  PROVE  IInv'
<1>. DEFINE s == stream[r]
            page == Page(s.cursor)
            t == [s EXCEPT !.phase = "draining", !.rows = page, !.more = Len(page) >= ChunkSize,
                           !.cursor = NextCursor(@, page)]
<1>1. s \in Stream /\ StreamOK(s) /\ s.phase = "fetching"
  BY Typed DEF IInv, FetchPage
<1>2. s.cursor \in Nat /\ s.cursor = At(s) /\ s.lastReplayed = At(s) /\ InboxOK(s)
  BY <1>1, StreamTyped, MaxSeqAssumption DEF StreamOK
<1>3. Set(r, t)
  BY DEF FetchPage
<1>. HIDE DEF s
<1>4. /\ Passed(s.cursor) \in 0..Len(log)
      /\ \A i \in 1..Len(log) : i <= Passed(s.cursor) <=> log[i] <= s.cursor
      /\ page \in Seq(1..MaxSeq) /\ Len(page) \in Nat
      /\ Passed(s.cursor) + Len(page) <= Len(log)
      /\ \A i \in 1..Len(page) : page[i] = log[Passed(s.cursor) + i]
      /\ Len(page) < ChunkSize => Passed(s.cursor) + Len(page) = Len(log)
  BY <1>2, PassedCounts, PageRows DEF IInv
<1>5. ChunkSize \in Nat /\ Len(log) \in Nat /\ published \in 0..Len(log) /\ Len(s.inbox) \in Nat
      /\ \A i \in 1..Len(log) : log[i] \in 1..MaxSeq
  BY <1>1, Typed, StreamTyped DEF IInv
<1>. HIDE DEF page
<1>6. NextCursor(s.cursor, page) = Last(page, s.cursor) /\ NextCursor(s.cursor, page) \in 0..MaxSeq
  <2>1. page # <<>> => Len(page) \in 1..Len(page) /\ page[Len(page)] \in 1..MaxSeq
    <3>1. page # <<>> => Len(page) \in 1..Len(page)
      BY <1>4, EmptySeq
    <3>. QED BY <1>4, <3>1, ElementOfSeq
  <2>2. s.cursor \in 0..MaxSeq
    BY <1>1, StreamTyped
  <2>. QED BY <2>1, <2>2, MaxSeqAssumption DEF NextCursor, Last
<1>7. t \in Stream
  <2>1. "draining" \in Phase /\ page \in Seqs /\ (Len(page) >= ChunkSize) \in BOOLEAN
    BY <1>4 DEF Phase, Seqs
  <2>. QED BY <1>1, <1>6, <2>1 DEF Stream
<1>8. /\ t.phase = "draining" /\ t.rows = page /\ t.more = (Len(page) >= ChunkSize)
      /\ t.cursor = Last(page, At(s)) /\ t.lastReplayed = At(s) /\ t.inbox = s.inbox
      /\ t.sent = s.sent /\ t.from = s.from
  BY <1>1, <1>2, <1>6 DEF Stream
<1>. HIDE DEF t
<1>9. At(t) = At(s) /\ Before(t) = Before(s) /\ InboxOK(t)
  BY <1>2, <1>8 DEF At, Before, InboxOK
<1>10. RowsOK(t)
  <2>. DEFINE k == Passed(s.cursor)
  <2>1. k \in 0..Len(log) /\ k + Len(t.rows) <= Len(log) /\ \A i \in 1..Len(t.rows) : t.rows[i] = log[k + i]
    BY <1>4, <1>8
  <2>2. \A i \in 1..k : log[i] <= At(t)
    BY <1>2, <1>4, <1>5, <1>9
  <2>3. t.rows # <<>> => log[k + 1] > At(t)
    <3>1. t.rows # <<>> => k + 1 \in 1..Len(log)
      <4>1. t.rows # <<>> => Len(page) # 0
        BY <1>4, <1>8, EmptySeq
      <4>. QED BY <1>4, <1>5, <1>8, <4>1
    <3>. QED BY <1>2, <1>4, <1>5, <1>9, <3>1
  <2>4. ~t.more => Before(t) <= k + Len(t.rows)
    <3>1. Before(t) <= Len(log)
      BY <1>5, <1>9 DEF Before
    <3>2. ~t.more => Len(page) < ChunkSize
      <4>1. ~t.more => ~(Len(page) >= ChunkSize)
        BY <1>8, Zenon
      <4>. QED BY <1>4, <1>5, <4>1
    <3>3. ~t.more => k + Len(t.rows) = Len(log)
      BY <1>4, <1>8, <3>2
    <3>. QED BY <3>1, <3>3
  <2>. QED BY <2>1, <2>2, <2>3, <2>4 DEF RowsOK
<1>11. StreamOK(t)
  BY <1>8, <1>9, <1>10 DEF StreamOK
<1>. QED BY <1>3, <1>7, <1>11, OneReader

\* A stream that was sent one event more is at that event.
LEMMA AtSent ==
  ASSUME NEW s \in Stream, NEW t \in Stream, NEW seq \in 1..MaxSeq, t.sent = Append(s.sent, seq)
  PROVE  At(t) = seq
<1>1. s.sent \in Seq(1..MaxSeq)
  BY StreamTyped
<1>2. Len(t.sent) = Len(s.sent) + 1 /\ t.sent[Len(s.sent) + 1] = seq /\ Len(s.sent) \in Nat
  BY <1>1, AppendProperties, LenProperties
<1>3. t.sent # <<>>
  <2>1. t.sent \in Seq(1..MaxSeq)
    BY StreamTyped
  <2>. QED BY <1>2, <2>1, EmptySeq
<1>. QED BY <1>2, <1>3 DEF At, Last

\* The first and the other elements of a sequence that has one.
LEMMA FirstAndRest ==
  ASSUME NEW seqs \in Seq(1..MaxSeq), seqs # <<>>
  PROVE  /\ Len(seqs) \in Nat /\ Len(seqs) >= 1 /\ Head(seqs) = seqs[1] /\ Head(seqs) \in 1..MaxSeq
         /\ Tail(seqs) \in Seq(1..MaxSeq) /\ Len(Tail(seqs)) = Len(seqs) - 1
         /\ \A i \in 1..Len(seqs) - 1 : Tail(seqs)[i] = seqs[i + 1]
<1>1. Len(seqs) \in Nat /\ Len(seqs) # 0
  BY LenProperties, EmptySeq
<1>2. /\ Head(seqs) = seqs[1] /\ Tail(seqs) \in Seq(1..MaxSeq) /\ Len(Tail(seqs)) = Len(seqs) - 1
      /\ \A i \in 1..Len(Tail(seqs)) : Tail(seqs)[i] = seqs[i + 1]
  BY HeadTailProperties
<1>3. 1 \in 1..Len(seqs)
  BY <1>1
<1>4. seqs[1] \in 1..MaxSeq
  BY <1>3, ElementOfSeq
<1>. QED BY <1>1, <1>2, <1>4

\* The row at the head is the first event behind what the stream is at.
LEMMA RowIsNext ==
  ASSUME IInv, NEW r \in Reader, EmitRow(r)
  PROVE  LET s == stream[r]
         IN  \E k \in 0..Len(log) :
               /\ k + Len(s.rows) <= Len(log) /\ Len(s.rows) >= 1 /\ Len(s.rows) \in Nat
               /\ \A i \in 1..Len(s.rows) : s.rows[i] = log[k + i]
               /\ \A i \in 1..k : log[i] <= At(s)
               /\ ~s.more => Before(s) <= k + Len(s.rows)
               /\ k + 1 \in 1..Len(log)
               /\ Head(s.rows) = log[k + 1] /\ Head(s.rows) > At(s)
<1>. DEFINE s == stream[r]
<1>1. s \in Stream /\ StreamOK(s) /\ s.phase = "draining" /\ s.rows # <<>>
  BY Typed DEF IInv, EmitRow
<1>. HIDE DEF s
<1>2. PICK k \in 0..Len(log) :
         /\ k + Len(s.rows) <= Len(log)
         /\ \A i \in 1..Len(s.rows) : s.rows[i] = log[k + i]
         /\ \A i \in 1..k : log[i] <= At(s)
         /\ s.rows # <<>> => log[k + 1] > At(s)
         /\ ~s.more => Before(s) <= k + Len(s.rows)
  BY <1>1 DEF StreamOK, RowsOK
<1>3. Len(s.rows) \in Nat /\ Len(s.rows) >= 1 /\ Head(s.rows) = s.rows[1] /\ Len(log) \in Nat
  BY <1>1, StreamTyped, FirstAndRest, Typed DEF IInv
<1>4. 1 \in 1..Len(s.rows) /\ k + 1 \in 1..Len(log)
  BY <1>2, <1>3
<1>5. Head(s.rows) = log[k + 1] /\ Head(s.rows) > At(s)
  BY <1>1, <1>2, <1>3, <1>4
<1>. QED BY <1>2, <1>3, <1>4, <1>5 DEF s

LEMMA EmitKeeps ==
  ASSUME IInv, NEW r \in Reader, EmitRow(r)
  PROVE  IInv'
<1>. DEFINE s == stream[r]
            seq == Head(s.rows)
            rest == Tail(s.rows)
            t == [s EXCEPT !.rows = rest, !.lastReplayed = Replayed(s, seq), !.sent = Append(@, seq)]
<1>1. s \in Stream /\ StreamOK(s) /\ s.phase = "draining" /\ s.rows # <<>>
  BY Typed DEF IInv, EmitRow
<1>2. Set(r, t)
  BY DEF EmitRow
<1>3. PICK k \in 0..Len(log) :
         /\ k + Len(s.rows) <= Len(log) /\ Len(s.rows) >= 1 /\ Len(s.rows) \in Nat
         /\ \A i \in 1..Len(s.rows) : s.rows[i] = log[k + i]
         /\ \A i \in 1..k : log[i] <= At(s)
         /\ ~s.more => Before(s) <= k + Len(s.rows)
         /\ k + 1 \in 1..Len(log)
         /\ seq = log[k + 1] /\ seq > At(s)
  BY RowIsNext
<1>. HIDE DEF s
<1>4. /\ s.rows \in Seq(1..MaxSeq) /\ s.sent \in Seq(1..MaxSeq) /\ s.more \in BOOLEAN
      /\ At(s) \in 0..MaxSeq /\ Len(s.inbox) \in Nat
      /\ seq \in 1..MaxSeq /\ rest \in Seq(1..MaxSeq) /\ Len(rest) = Len(s.rows) - 1
      /\ \A i \in 1..Len(s.rows) - 1 : rest[i] = s.rows[i + 1]
  BY <1>1, StreamTyped, FirstAndRest
<1>5. Len(log) \in Nat /\ published \in 0..Len(log) /\ MaxSeq \in Nat
      /\ \A i \in 1..Len(log) : log[i] \in 1..MaxSeq
  BY Typed DEF IInv
<1>. HIDE DEF seq, rest
<1>6. Append(s.sent, seq) \in Seq(1..MaxSeq) /\ seq \in 0..MaxSeq
  BY <1>4, AppendProperties
<1>7. t \in Stream
  BY <1>1, <1>4, <1>6 DEF Stream, Seqs, Replayed
<1>8. /\ t.phase = "draining" /\ t.rows = rest /\ t.more = s.more /\ t.cursor = s.cursor
      /\ t.lastReplayed = seq /\ t.inbox = s.inbox /\ t.sent = Append(s.sent, seq) /\ t.from = s.from
  BY <1>1 DEF Stream, Replayed
<1>. HIDE DEF t
<1>9. At(t) = seq /\ Before(t) = Before(s) /\ (InboxOK(s) => InboxOK(t))
  BY <1>1, <1>4, <1>7, <1>8, AtSent DEF Before, InboxOK
<1>10. RowsOK(t)
  <2>. PICK m \in Nat, n \in Nat : m = Len(s.rows) /\ n = Len(log)
    BY <1>3, <1>5
  <2>0. k + m <= n /\ k + 1 \in 1..n /\ m >= 1 /\ Len(t.rows) = m - 1
    BY <1>3, <1>4, <1>8
  <2>1. k + 1 \in 0..Len(log) /\ (k + 1) + Len(t.rows) <= Len(log)
    <3>1. k \in Nat
      BY <1>5
    <3>2. k + 1 \in 0..n
      BY <2>0, <3>1
    <3>3. \A a, b \in Nat : (a + 1) + (b - 1) = a + b
      OBVIOUS
    <3>4. (k + 1) + (m - 1) = k + m
      BY <3>1, <3>3
    <3>. QED BY <2>0, <3>2, <3>4
  <2>2. ASSUME NEW i \in 1..Len(t.rows) PROVE t.rows[i] = log[(k + 1) + i]
    <3>1. i \in 1..m - 1 /\ i + 1 \in 1..m /\ k + (i + 1) = (k + 1) + i
      BY <2>0
    <3>2. t.rows[i] = s.rows[i + 1] /\ s.rows[i + 1] = log[k + (i + 1)]
      BY <1>3, <1>4, <1>8, <3>1
    <3>. QED BY <3>1, <3>2
  <2>3. ASSUME NEW i \in 1..k + 1 PROVE log[i] <= At(t)
    <3>1. i \in 1..k \/ i = k + 1
      OBVIOUS
    <3>2. i \in 1..Len(log)
      BY <1>3, <1>5, <3>1
    <3>3. log[i] \in Nat /\ seq \in Nat
      BY <1>4, <1>5, <3>2
    <3>4. i = k + 1 => log[i] = seq
      BY <1>3
    <3>5. i \in 1..k => log[i] <= At(s)
      BY <1>3
    <3>6. seq > At(s)
      BY <1>3
    <3>. QED BY <1>4, <1>5, <1>9, <3>1, <3>3, <3>4, <3>5, <3>6
  <2>4. t.rows # <<>> => log[(k + 1) + 1] > At(t)
    <3>. SUFFICES ASSUME t.rows # <<>> PROVE log[(k + 1) + 1] > At(t)
      OBVIOUS
    <3>1. Len(t.rows) # 0
      BY <1>4, <1>8, EmptySeq
    <3>2. (k + 1) + 1 \in 1..Len(log) /\ k + 1 < (k + 1) + 1
      <4>1. PICK l \in Nat : l = Len(t.rows)
        BY <1>3, <1>4, <1>8
      <4>2. (k + 1) + l <= Len(log) /\ l # 0
        BY <2>1, <3>1, <4>1
      <4>. QED BY <1>5, <4>2
    <3>3. log[k + 1] < log[(k + 1) + 1] /\ log[k + 1] \in Nat /\ log[(k + 1) + 1] \in Nat
      BY <1>3, <1>5, <3>2 DEF IInv, Ordered
    <3>. QED BY <1>3, <1>9, <3>3
  <2>5. ~t.more => Before(t) <= (k + 1) + Len(t.rows)
    <3>1. Len(t.rows) = Len(s.rows) - 1
      BY <1>4, <1>8
    <3>2. \A l \in Nat : (k + 1) + (l - 1) = k + l
      OBVIOUS
    <3>. QED BY <1>3, <1>8, <1>9, <3>1, <3>2
  <2>. QED BY <2>1, <2>2, <2>3, <2>4, <2>5 DEF RowsOK
<1>11. t.cursor = Last(t.rows, At(t))
  <2>1. s.cursor = s.rows[Len(s.rows)]
    BY <1>1 DEF StreamOK, Last
  <2>2. CASE t.rows = <<>>
    <3>1. Len(s.rows) = 1 /\ s.rows[1] = log[k + 1]
      BY <1>3, <1>4, <1>8, <2>2, EmptySeq
    <3>. QED BY <1>3, <1>8, <1>9, <2>1, <2>2, <3>1 DEF Last
  <2>3. CASE t.rows # <<>>
    <3>1. Len(t.rows) # 0
      BY <1>4, <1>8, <2>3, EmptySeq
    <3>2. Len(t.rows) \in 1..Len(s.rows) - 1 /\ Len(t.rows) + 1 = Len(s.rows)
      BY <1>3, <1>4, <1>8, <3>1
    <3>3. t.rows[Len(t.rows)] = s.rows[Len(s.rows)]
      BY <1>4, <1>8, <3>2
    <3>. QED BY <1>8, <2>1, <2>3, <3>3 DEF Last
  <2>. QED BY <2>2, <2>3
<1>12. StreamOK(t)
  BY <1>1, <1>8, <1>9, <1>10, <1>11 DEF StreamOK
<1>. QED BY <1>2, <1>7, <1>12, OneReader

\* The backlog is through: the inbox goes on where it ended, or overlaps it.
LEMMA EndKeeps ==
  ASSUME IInv, NEW r \in Reader, EndPage(r)
  PROVE  IInv'
<1>. DEFINE s == stream[r]
            t == [s EXCEPT !.phase = IF s.more THEN "fetching" ELSE "live"]
<1>1. s \in Stream /\ StreamOK(s) /\ s.phase = "draining" /\ s.rows = <<>> /\ Set(r, t)
  BY Typed DEF IInv, EndPage
<1>. HIDE DEF s
<1>2. t \in Stream
  BY <1>1 DEF Stream, Phase
<1>3. /\ t.phase = (IF s.more THEN "fetching" ELSE "live") /\ t.rows = s.rows /\ t.cursor = s.cursor
      /\ t.lastReplayed = s.lastReplayed /\ t.inbox = s.inbox /\ t.sent = s.sent /\ t.from = s.from
  BY <1>1 DEF Stream
<1>. HIDE DEF t
<1>4. At(t) = At(s) /\ Before(t) = Before(s) /\ InboxOK(t)
  BY <1>1, <1>3 DEF At, Before, InboxOK, StreamOK
<1>5. s.cursor = At(s) /\ s.lastReplayed = At(s) /\ RowsOK(s)
  BY <1>1 DEF StreamOK, Last
<1>6. CASE s.more
  BY <1>3, <1>4, <1>5, <1>6, <1>1, <1>2, OneReader DEF StreamOK
<1>7. CASE ~s.more
  <2>1. PICK k \in 0..Len(log) : (\A i \in 1..k : log[i] <= At(s)) /\ Before(s) <= k + Len(s.rows)
    BY <1>5, <1>7 DEF RowsOK
  <2>2. Len(s.rows) = 0
    BY <1>1
  <2>3. At(s) \in Nat /\ Before(s) \in Int
    BY <1>1, Typed, StreamTyped, MaxSeqAssumption DEF IInv, Before
  <2>4. \A i \in 1..Before(s) : log[i] <= At(s)
    BY <2>1, <2>2, <2>3
  <2>5. LiveOK(t)
    BY <1>3, <1>4, <1>5, <2>3, <2>4 DEF LiveOK
  <2>6. StreamOK(t)
    BY <1>3, <1>4, <1>7, <2>5 DEF StreamOK
  <2>. QED BY <1>1, <1>2, <2>6, OneReader
<1>. QED BY <1>6, <1>7

-----------------------------------------------------------------------------
(* The live events. *)

\* The event at the head of the inbox is the one behind those before the
\* inbox; the filter lets it through exactly when the stream is not at it yet.
LEMMA LiveIsNext ==
  ASSUME IInv, NEW r \in Reader, TakeLive(r)
  PROVE  LET s == stream[r]
         IN  \E b \in Nat :
               /\ b = Before(s) /\ b + 1 \in 1..Len(log) /\ b + Len(s.inbox) = published
               /\ Len(s.inbox) \in Nat /\ Len(s.inbox) >= 1
               /\ Head(s.inbox) = log[b + 1]
               /\ \A i \in 1..b : log[i] <= At(s) /\ log[i] < log[b + 1]
               /\ log[b + 1] > s.lastReplayed => log[b + 1] > At(s)
               /\ log[b + 1] <= s.lastReplayed => At(s) = s.lastReplayed
<1>. DEFINE s == stream[r]
<1>1. s \in Stream /\ StreamOK(s) /\ s.phase = "live" /\ s.inbox # <<>>
  BY Typed DEF IInv, TakeLive
<1>. HIDE DEF s
<1>2. InboxOK(s) /\ LiveOK(s)
  BY <1>1 DEF StreamOK
<1>3. Len(s.inbox) \in Nat /\ Len(s.inbox) >= 1 /\ Head(s.inbox) = s.inbox[1]
  BY <1>1, StreamTyped, FirstAndRest
<1>4. Len(log) \in Nat /\ published \in 0..Len(log) /\ \A i \in 1..Len(log) : log[i] \in 1..MaxSeq
  BY Typed DEF IInv
<1>5. PICK b \in Nat : b = Before(s) /\ b + Len(s.inbox) = published
  <2>1. Len(s.inbox) <= published /\ published \in Nat
    BY <1>2, <1>4 DEF InboxOK
  <2>2. published - Len(s.inbox) \in Nat /\ (published - Len(s.inbox)) + Len(s.inbox) = published
    BY <1>3, <2>1
  <2>. QED BY <2>2 DEF Before
<1>6. b + 1 \in 1..Len(log) /\ 1 \in 1..Len(s.inbox)
  BY <1>3, <1>4, <1>5
<1>7. Head(s.inbox) = log[b + 1]
  BY <1>2, <1>3, <1>5, <1>6 DEF InboxOK
<1>8. ASSUME NEW i \in 1..b PROVE log[i] <= At(s) /\ log[i] < log[b + 1]
  <2>1. i \in 1..Len(log) /\ i < b + 1
    BY <1>4, <1>6
  <2>2. log[i] < log[b + 1]
    BY <1>6, <2>1 DEF IInv, Ordered
  <2>3. log[i] <= At(s)
    BY <1>2, <1>5 DEF LiveOK
  <2>. QED BY <2>2, <2>3
<1>9. log[b + 1] \in Nat /\ At(s) \in Nat /\ s.lastReplayed \in Nat
  BY <1>1, <1>4, <1>6, StreamTyped, MaxSeqAssumption
<1>10. /\ s.lastReplayed <= At(s)
       /\ At(s) <= s.lastReplayed \/ (b >= 1 /\ At(s) = log[b])
  BY <1>2, <1>5 DEF LiveOK
<1>11. b >= 1 => log[b] < log[b + 1] /\ b \in 1..b
  BY <1>8
<1>12. b >= 1 => log[b] \in Nat
  BY <1>4, <1>6
<1>13. /\ log[b + 1] > s.lastReplayed => log[b + 1] > At(s)
       /\ log[b + 1] <= s.lastReplayed => At(s) = s.lastReplayed
  BY <1>9, <1>10, <1>11, <1>12
<1>. QED BY <1>3, <1>5, <1>6, <1>7, <1>8, <1>13 DEF s

LEMMA TakeKeeps ==
  ASSUME IInv, NEW r \in Reader, TakeLive(r)
  PROVE  IInv'
<1>. DEFINE s == stream[r]
            seq == Head(s.inbox)
            rest == Tail(s.inbox)
            sent == IF seq > s.lastReplayed THEN Append(s.sent, seq) ELSE s.sent
            t == [s EXCEPT !.inbox = rest, !.sent = sent]
<1>1. s \in Stream /\ StreamOK(s) /\ s.phase = "live" /\ s.inbox # <<>>
  BY Typed DEF IInv, TakeLive
<1>2. Set(r, t)
  BY DEF TakeLive
<1>3. PICK b \in Nat :
         /\ b = Before(s) /\ b + 1 \in 1..Len(log) /\ b + Len(s.inbox) = published
         /\ Len(s.inbox) \in Nat /\ Len(s.inbox) >= 1
         /\ seq = log[b + 1]
         /\ \A i \in 1..b : log[i] <= At(s) /\ log[i] < log[b + 1]
         /\ log[b + 1] > s.lastReplayed => log[b + 1] > At(s)
         /\ log[b + 1] <= s.lastReplayed => At(s) = s.lastReplayed
  BY LiveIsNext
<1>. HIDE DEF s
<1>4. /\ s.inbox \in Seq(1..MaxSeq) /\ s.sent \in Seq(1..MaxSeq)
      /\ At(s) \in 0..MaxSeq /\ s.lastReplayed \in 0..MaxSeq
      /\ seq \in 1..MaxSeq /\ rest \in Seq(1..MaxSeq) /\ Len(rest) = Len(s.inbox) - 1
      /\ \A i \in 1..Len(s.inbox) - 1 : rest[i] = s.inbox[i + 1]
  BY <1>1, StreamTyped, FirstAndRest
<1>5. At(s) \in Nat /\ s.lastReplayed \in Nat
  BY <1>4, MaxSeqAssumption
<1>6. Len(log) \in Nat /\ published \in 0..Len(log) /\ \A i \in 1..Len(log) : log[i] \in Nat
  BY Typed DEF IInv
<1>. HIDE DEF seq, rest
<1>7. sent \in Seq(1..MaxSeq)
  BY <1>4, <1>5, AppendProperties
<1>. HIDE DEF sent
<1>8. t \in Stream
  BY <1>1, <1>4, <1>5, <1>7 DEF Stream, Seqs
<1>9. /\ t.phase = "live" /\ t.lastReplayed = s.lastReplayed /\ t.inbox = rest /\ t.sent = sent
      /\ t.from = s.from
  BY <1>1 DEF Stream
<1>. HIDE DEF t
<1>10. At(t) = IF seq > s.lastReplayed THEN seq ELSE At(s)
  <2>1. CASE seq > s.lastReplayed
    BY <1>1, <1>4, <1>5, <1>8, <1>9, <2>1, AtSent DEF sent
  <2>2. CASE ~(seq > s.lastReplayed)
    BY <1>9, <2>2 DEF sent, At
  <2>. QED BY <2>1, <2>2
<1>11. PICK m \in Nat : m = Len(s.inbox) /\ m >= 1 /\ b + m = published /\ Len(t.inbox) = m - 1
  BY <1>3, <1>4, <1>5, <1>9
<1>12. Before(t) = b + 1
  BY <1>11 DEF Before
<1>13. InboxOK(t)
  <2>1. Len(t.inbox) <= published
    BY <1>11
  <2>2. ASSUME NEW i \in 1..Len(t.inbox) PROVE t.inbox[i] = log[(b + 1) + i]
    <3>1. i \in 1..m - 1 /\ i + 1 \in 1..m /\ b + (i + 1) = (b + 1) + i
      BY <1>11
    <3>2. t.inbox[i] = s.inbox[i + 1]
      BY <1>4, <1>5, <1>9, <1>11, <3>1
    <3>3. s.inbox[i + 1] = log[b + (i + 1)]
      BY <1>1, <1>3, <1>11, <3>1 DEF StreamOK, InboxOK
    <3>. QED BY <3>1, <3>2, <3>3
  <2>. QED BY <1>12, <2>1, <2>2 DEF InboxOK
<1>14. LiveOK(t)
  <2>1. seq \in Nat
    BY <1>4, <1>5
  <2>2. ASSUME NEW i \in 1..b + 1 PROVE log[i] <= At(t)
    <3>1. CASE i = b + 1
      <4>1. log[i] = seq
        BY <1>3, <3>1
      <4>. QED BY <1>3, <1>4, <1>5, <1>10, <2>1, <4>1
    <3>2. CASE i # b + 1
      <4>1. i \in 1..b /\ i \in 1..Len(log)
        BY <1>3, <1>6, <3>2
      <4>2. log[i] <= At(s) /\ log[i] < seq /\ log[i] \in Nat
        BY <1>3, <1>6, <4>1
      <4>. QED BY <1>4, <1>5, <1>10, <2>1, <4>2
    <3>. QED BY <3>1, <3>2
  <2>3. s.lastReplayed <= At(t)
    BY <1>1, <1>4, <1>5, <1>10, <2>1 DEF StreamOK, LiveOK
  <2>4. At(t) <= s.lastReplayed \/ At(t) = log[b + 1]
    <3>1. seq <= s.lastReplayed => At(s) = s.lastReplayed
      BY <1>3
    <3>2. seq > s.lastReplayed => At(t) = log[b + 1]
      BY <1>3, <1>10
    <3>. QED BY <1>4, <1>5, <1>10, <2>1, <3>1, <3>2
  <2>. QED BY <1>9, <1>12, <2>2, <2>3, <2>4 DEF LiveOK
<1>15. StreamOK(t)
  BY <1>9, <1>13, <1>14 DEF StreamOK
<1>. QED BY <1>2, <1>8, <1>15, OneReader

-----------------------------------------------------------------------------
(* Streams open, are handed an event, and close. *)

LEMMA EmptyInbox ==
  ASSUME TypeOK, NEW s \in Stream, s.inbox = <<>>
  PROVE  Before(s) = published /\ InboxOK(s) /\ published \in Nat
<1>1. Len(s.inbox) = 0 /\ published \in Nat
  BY Typed
<1>. QED BY <1>1 DEF Before, InboxOK

LEMMA OpenLiveKeeps ==
  ASSUME IInv, NEW r \in Reader, OpenLive(r)
  PROVE  IInv'
<1>. DEFINE from == IF published = 0 THEN 0 ELSE log[published]
            t == [Closed(from) EXCEPT !.phase = "live", !.lastReplayed = 0]
<1>1. /\ Len(log) \in Nat /\ published \in 0..Len(log) /\ MaxSeq \in Nat
      /\ \A i \in 1..Len(log) : log[i] \in 1..MaxSeq
  BY Typed DEF IInv
<1>2. from \in 0..MaxSeq
  BY <1>1
<1>3. Set(r, t)
  BY DEF OpenLive
<1>. HIDE DEF from
<1>4. t \in Stream
  <2>1. Closed(from) \in Stream /\ "live" \in Phase /\ 0 \in 0..MaxSeq
    BY <1>1, <1>2, ClosedTyped DEF Phase
  <2>. QED BY <2>1 DEF Stream
<1>5. /\ t.phase = "live" /\ t.from = from /\ t.lastReplayed = 0 /\ t.inbox = <<>> /\ t.sent = <<>>
  BY DEF Closed
<1>. HIDE DEF t
<1>6. At(t) = from /\ Before(t) = published /\ InboxOK(t)
  BY <1>4, <1>5, EmptyInbox DEF At, Last, IInv
<1>7. \A i \in 1..published : log[i] <= from
  <2>. SUFFICES ASSUME NEW i \in 1..published PROVE log[i] <= from
    OBVIOUS
  <2>1. i \in 1..Len(log) /\ published \in 1..Len(log) /\ published # 0
    BY <1>1
  <2>2. i = published \/ log[i] < log[published]
    BY <1>1, <2>1 DEF IInv, Ordered
  <2>3. log[i] \in Nat /\ from = log[published] /\ from \in Nat
    BY <1>1, <2>1 DEF from
  <2>. QED BY <2>2, <2>3
<1>8. published >= 1 => from = log[published]
  BY <1>1 DEF from
<1>9. published = 0 => from = 0
  BY DEF from
<1>10. LiveOK(t)
  BY <1>1, <1>2, <1>5, <1>6, <1>7, <1>8, <1>9 DEF LiveOK
<1>11. StreamOK(t)
  BY <1>5, <1>6, <1>10 DEF StreamOK
<1>. QED BY <1>3, <1>4, <1>11, OneReader

LEMMA OpenFromKeeps ==
  ASSUME IInv, NEW r \in Reader, NEW from \in 0..MaxSeq, OpenFrom(r, from)
  PROVE  IInv'
<1>. DEFINE t == [Closed(from) EXCEPT !.phase = "fetching", !.cursor = from, !.lastReplayed = from]
<1>1. Set(r, t)
  BY DEF OpenFrom
<1>2. t \in Stream
  <2>1. Closed(from) \in Stream /\ "fetching" \in Phase
    BY ClosedTyped DEF Phase
  <2>. QED BY <2>1 DEF Stream
<1>3. /\ t.phase = "fetching" /\ t.from = from /\ t.cursor = from /\ t.lastReplayed = from
      /\ t.inbox = <<>> /\ t.sent = <<>>
  BY DEF Closed
<1>. HIDE DEF t
<1>4. StreamOK(t)
  BY <1>2, <1>3, EmptyInbox DEF StreamOK, At, Last, IInv
<1>. QED BY <1>1, <1>2, <1>4, OneReader

LEMMA CloseKeeps ==
  ASSUME IInv, NEW r \in Reader, Close(r)
  PROVE  IInv'
<1>1. stream[r].from \in 0..MaxSeq
  BY Typed, StreamTyped DEF IInv
<1>2. Closed(stream[r].from) \in Stream /\ StreamOK(Closed(stream[r].from))
  BY <1>1, ClosedTyped DEF StreamOK
<1>. QED BY <1>2, OneReader DEF Close

LEMMA CrashKeeps ==
  ASSUME IInv, Crash
  PROVE  IInv'
<1>1. /\ log' = log /\ published' = Len(log) /\ Len(log) \in Nat
      /\ stream' = [r \in Reader |-> Closed(stream[r].from)]
  BY Typed DEF Crash, IInv
<1>2. ASSUME NEW r \in Reader
      PROVE  Closed(stream[r].from) \in Stream /\ StreamOK(Closed(stream[r].from))'
  <2>1. stream[r].from \in 0..MaxSeq
    BY Typed, StreamTyped DEF IInv
  <2>2. /\ Closed(stream[r].from) \in Stream /\ Closed(stream[r].from).phase = "closed"
        /\ Closed(stream[r].from).sent = <<>>
    BY <2>1, ClosedTyped
  <2>3. Closed(stream[r].from)'.phase = "closed" /\ Closed(stream[r].from)'.sent = <<>>
    BY <1>1 DEF Closed
  <2>. QED BY <2>2, <2>3 DEF StreamOK
<1>3. ASSUME NEW r \in Reader PROVE StreamOK(stream[r])'
  <2>1. /\ stream'[r].phase = "closed" /\ stream'[r].sent = <<>>
    BY <1>1 DEF Closed
  <2>. QED BY <2>1 DEF StreamOK
<1>4. TypeOK' /\ Ordered'
  BY <1>1, <1>2 DEF IInv, TypeOK, Ordered
<1>. QED BY <1>3, <1>4 DEF IInv

LEMMA PublishKeeps ==
  ASSUME IInv, Publish
  PROVE  IInv'
<1>1. /\ log' = log /\ published' = published + 1 /\ published < Len(log)
      /\ stream' = [r \in Reader |->
           IF Subscribed(stream[r])
           THEN [stream[r] EXCEPT !.inbox = Append(@, log[published + 1])]
           ELSE stream[r]]
  BY DEF Publish
<1>2. /\ Len(log) \in Nat /\ published \in 0..Len(log) /\ published + 1 \in 1..Len(log)
      /\ \A i \in 1..Len(log) : log[i] \in 1..MaxSeq
  BY <1>1, Typed DEF IInv
<1>3. Ordered' /\ published' \in 0..Len(log')
  BY <1>1, <1>2 DEF IInv, Ordered
<1>4. ASSUME NEW r \in Reader PROVE stream'[r] \in Stream /\ StreamOK(stream[r])'
  <2>. DEFINE s == stream[r]
              t == stream'[r]
  <2>1. s \in Stream /\ StreamOK(s)
    BY Typed DEF IInv
  <2>2. CASE ~Subscribed(s)
    <3>1. t = s /\ s.phase = "closed"
      BY <1>1, <2>2 DEF Subscribed
    <3>. QED BY <2>1, <3>1 DEF StreamOK
  <2>3. CASE Subscribed(s)
    <3>1. t = [s EXCEPT !.inbox = Append(@, log[published + 1])]
      BY <1>1, <2>3
    <3>. HIDE DEF s, t
    <3>2. /\ s.inbox \in Seq(1..MaxSeq) /\ Len(s.inbox) \in Nat
          /\ log[published + 1] \in 1..MaxSeq
      BY <1>2, <2>1, StreamTyped
    <3>3. /\ Append(s.inbox, log[published + 1]) \in Seq(1..MaxSeq)
          /\ Len(Append(s.inbox, log[published + 1])) = Len(s.inbox) + 1
          /\ Append(s.inbox, log[published + 1])[Len(s.inbox) + 1] = log[published + 1]
          /\ \A i \in 1..Len(s.inbox) : Append(s.inbox, log[published + 1])[i] = s.inbox[i]
      BY <3>2, AppendProperties
    <3>4. t \in Stream
      BY <2>1, <3>1, <3>3 DEF Stream, Seqs
    <3>5. /\ t.phase = s.phase /\ t.from = s.from /\ t.cursor = s.cursor /\ t.rows = s.rows
          /\ t.more = s.more /\ t.lastReplayed = s.lastReplayed /\ t.sent = s.sent
          /\ t.inbox = Append(s.inbox, log[published + 1])
      BY <2>1, <3>1 DEF Stream
    <3>6. Len(t.inbox) = Len(s.inbox) + 1 /\ t.inbox[Len(s.inbox) + 1] = log[published + 1]
          /\ \A i \in 1..Len(s.inbox) : t.inbox[i] = s.inbox[i]
      BY <3>3, <3>5
    <3>7. InboxOK(s)
      BY <2>1, <2>3 DEF StreamOK, Subscribed
    <3>8. PICK m \in Nat : m = Len(s.inbox) /\ m <= published
      BY <3>2, <3>7 DEF InboxOK
    <3>9. (published + 1) - Len(t.inbox) = Before(s) /\ Before(s) + m = published /\ Before(s) \in Nat
      BY <1>2, <3>6, <3>8 DEF Before
    <3>10. ASSUME NEW i \in 1..Len(t.inbox) PROVE t.inbox[i] = log[Before(s) + i]
      <4>1. i \in 1..m \/ i = m + 1
        BY <3>6, <3>8
      <4>2. CASE i \in 1..m
        BY <3>6, <3>7, <3>8, <4>2 DEF InboxOK
      <4>3. CASE i = m + 1
        <5>1. Before(s) + i = published + 1
          BY <3>9, <4>3
        <5>. QED BY <3>6, <3>8, <4>3, <5>1
      <4>. QED BY <4>1, <4>2, <4>3
    <3>11. Len(t.inbox) <= published + 1
      BY <1>2, <3>6, <3>8
    <3>12. stream[r]' = t /\ At(stream[r])' = At(s) /\ Before(stream[r])' = Before(s)
      BY <1>1, <3>5, <3>9 DEF At, Before, t
    <3>13. InboxOK(stream[r])'
      BY <1>1, <3>9, <3>10, <3>11, <3>12 DEF InboxOK
    <3>14. RowsOK(s) => RowsOK(stream[r])'
      BY <1>1, <3>5, <3>12 DEF RowsOK
    <3>15. LiveOK(s) => LiveOK(stream[r])'
      BY <1>1, <3>5, <3>12 DEF LiveOK
    <3>16. StreamOK(stream[r])'
      BY <2>1, <2>3, <3>5, <3>12, <3>13, <3>14, <3>15 DEF StreamOK, Subscribed
    <3>. QED BY <3>4, <3>16 DEF t
  <2>. QED BY <2>2, <2>3
<1>5. stream' = [r \in Reader |-> stream'[r]]
  BY <1>1
<1>6. stream' \in [Reader -> Stream]
  BY <1>4, <1>5
<1>7. log' \in Seqs
  BY <1>1 DEF IInv, TypeOK
<1>. QED BY <1>3, <1>4, <1>6, <1>7 DEF IInv, TypeOK

-----------------------------------------------------------------------------
(* The invariant, and the promise it carries. *)

LEMMA InitIInv == Init => IInv
<1>. SUFFICES ASSUME Init PROVE IInv
  OBVIOUS
<1>1. log = <<>> /\ published = 0 /\ stream = [r \in Reader |-> Closed(0)]
  BY DEF Init
<1>2. <<>> \in Seqs /\ Len(<<>>) = 0 /\ 0 \in 0..MaxSeq
  BY MaxSeqAssumption DEF Seqs
<1>3. Closed(0) \in Stream /\ StreamOK(Closed(0))
  BY <1>2, ClosedTyped DEF StreamOK
<1>. QED BY <1>1, <1>2, <1>3 DEF IInv, TypeOK, Ordered

LEMMA NextKeeps == IInv /\ [Next]_vars => IInv'
<1>. SUFFICES ASSUME IInv, [Next]_vars PROVE IInv'
  OBVIOUS
<1>1. CASE AppendEvent
  BY <1>1, LogGrows
<1>2. CASE Publish
  BY <1>2, PublishKeeps
<1>3. CASE Crash
  BY <1>3, CrashKeeps
<1>4. ASSUME NEW r \in Reader, OpenLive(r) PROVE IInv'
  BY <1>4, OpenLiveKeeps
<1>5. ASSUME NEW r \in Reader, NEW from \in 0..MaxSeq, OpenFrom(r, from) PROVE IInv'
  BY <1>5, OpenFromKeeps
<1>6. ASSUME NEW r \in Reader, Drain(r) PROVE IInv'
  BY <1>6, FetchKeeps, EmitKeeps, EndKeeps, TakeKeeps DEF Drain
<1>7. ASSUME NEW r \in Reader, Close(r) PROVE IInv'
  BY <1>7, CloseKeeps
<1>8. CASE UNCHANGED vars
  <2>1. log' = log /\ published' = published /\ stream' = stream
    BY <1>8 DEF vars
  <2>2. TypeOK' /\ Ordered'
    BY <2>1 DEF IInv, TypeOK, Ordered
  <2>. QED BY <2>1, <2>2, SameStreamOK DEF IInv
<1>. QED BY <1>1, <1>2, <1>3, <1>4, <1>5, <1>6, <1>7, <1>8 DEF Next

\* Every reachable state of the Events stream is well-typed, its log in the
\* order of its seqs, and each reader's rows, inbox and seam (the lastReplayed
\* of rpc/stream.ts) say where in the log the reader is.
THEOREM Invariance == Spec => []IInv
BY InitIInv, NextKeeps, PTL DEF Spec

LEMMA ResetFeeds ==
  ASSUME IInv, NEW r \in Reader, NEW t \in Stream, Set(r, t), t.sent = <<>>
  PROVE  Feed!Reset
<1>1. /\ log' = log /\ stream' = [stream EXCEPT ![r] = t] /\ stream \in [Reader -> Stream]
      /\ \A q \in Reader : stream[q].from \in 0..MaxSeq
  BY Typed, StreamTyped DEF Set, IInv, TypeOK
<1>2. \A q \in Reader : stream'[q] = IF q = r THEN t ELSE stream[q]
  BY <1>1
<1>3. t.from \in 0..MaxSeq
  BY StreamTyped
<1>. QED BY <1>1, <1>2, <1>3 DEF Feed!Reset

LEMMA StutterFeeds ==
  ASSUME IInv, NEW r \in Reader, NEW t, Set(r, t),
         t.from = stream[r].from, t.sent = stream[r].sent
  PROVE  UNCHANGED Feed!feed
<1>1. \A q \in Reader : stream'[q] = IF q = r THEN t ELSE stream[q]
  BY DEF Set, IInv, TypeOK
<1>2. log' = log
  BY DEF Set
<1>. QED BY <1>1, <1>2 DEF Feed!feed

LEMMA SendFeeds ==
  ASSUME IInv, NEW r \in Reader, NEW t, Set(r, t), NEW n \in 1..Len(log),
         t.from = stream[r].from, t.sent = Append(stream[r].sent, log[n]),
         log[n] > At(stream[r]), \A m \in 1..n - 1 : log[m] <= At(stream[r])
  PROVE  Feed!Send(r)
<1>1. \A q \in Reader : stream'[q] = IF q = r THEN t ELSE stream[q]
  BY DEF Set, IInv, TypeOK
<1>2. log' = log /\ [q \in Reader |-> stream'[q].from] = [q \in Reader |-> stream[q].from]
  BY <1>1 DEF Set
<1>3. Feed!Reached(r) = At(stream[r])
  BY DEF Feed!Reached, At, Last
<1>4. [q \in Reader |-> stream'[q].sent]
        = [[q \in Reader |-> stream[q].sent] EXCEPT ![r] = Append(@, log[n])]
  BY <1>1
<1>5. log[n] > Feed!Reached(r) /\ \A m \in 1..n - 1 : log[m] <= Feed!Reached(r)
  BY <1>3
<1>6. \E i \in 1..Len(log) :
        /\ log[i] > Feed!Reached(r)
        /\ \A m \in 1..i - 1 : log[m] <= Feed!Reached(r)
        /\ [q \in Reader |-> stream'[q].sent]
             = [[q \in Reader |-> stream[q].sent] EXCEPT ![r] = Append(@, log[i])]
  BY <1>4, <1>5, Zenon
<1>. QED BY <1>2, <1>6, Zenon DEF Feed!Send

LEMMA StoreFeeds ==
  ASSUME IInv, AppendEvent
  PROVE  Feed!Store
<1>. PICK seq \in Last(log, 0) + 1..MaxSeq : log' = Append(log, seq)
  BY DEF AppendEvent
<1>1. log \in Seq(1..MaxSeq) /\ Len(log) \in Nat /\ MaxSeq \in Nat
      /\ \A i \in 1..Len(log) : log[i] \in 1..MaxSeq
  BY Typed DEF IInv
<1>2. ASSUME NEW i \in 1..Len(log) PROVE log[i] <= Last(log, 0)
  <2>1. log # <<>> /\ Len(log) \in 1..Len(log)
    BY <1>1, EmptySeq
  <2>2. Last(log, 0) = log[Len(log)] /\ (i = Len(log) \/ log[i] < log[Len(log)])
    BY <1>1, <2>1 DEF IInv, Ordered, Last
  <2>. QED BY <1>1, <2>1, <2>2
<1>3. Last(log, 0) \in Nat
  <2>1. log # <<>> => Len(log) \in 1..Len(log)
    BY <1>1, EmptySeq
  <2>. QED BY <1>1, <2>1 DEF Last
<1>4. seq \in 1..MaxSeq /\ \A i \in 1..Len(log) : log[i] < seq
  BY <1>1, <1>2, <1>3
<1>5. UNCHANGED stream
  BY DEF AppendEvent
<1>. QED BY <1>4, <1>5 DEF Feed!Store

\* A step of one reader's stream is a step of the feed, or none.
LEMMA ReaderFeeds ==
  ASSUME IInv, NEW r \in Reader,
         \/ OpenLive(r) \/ \E from \in 0..MaxSeq : OpenFrom(r, from)
         \/ Drain(r) \/ Close(r)
  PROVE  Feed!Next \/ UNCHANGED Feed!feed
<1>. DEFINE s == stream[r]
<1>1. s \in Stream /\ StreamOK(s) /\ IInv' /\ stream' \in [Reader -> Stream]
  <2>1. [Next]_vars
    BY DEF Next
  <2>. QED BY <2>1, NextKeeps, Typed DEF IInv, TypeOK
<1>2. ASSUME NEW t, Set(r, t) PROVE t \in Stream /\ stream'[r] = t
  BY <1>1, <1>2 DEF Set, IInv, TypeOK
<1>3. CASE OpenLive(r)
  <2>. DEFINE t == [Closed(IF published = 0 THEN 0 ELSE log[published])
                      EXCEPT !.phase = "live", !.lastReplayed = 0]
  <2>1. Set(r, t) /\ t.sent = <<>>
    BY <1>3 DEF OpenLive, Closed
  <2>. QED BY <1>2, <2>1, ResetFeeds DEF Feed!Next
<1>4. ASSUME NEW from \in 0..MaxSeq, OpenFrom(r, from) PROVE Feed!Next
  <2>. DEFINE t == [Closed(from) EXCEPT !.phase = "fetching", !.cursor = from, !.lastReplayed = from]
  <2>1. Set(r, t) /\ t.sent = <<>>
    BY <1>4 DEF OpenFrom, Closed
  <2>. QED BY <1>2, <2>1, ResetFeeds DEF Feed!Next
<1>5. CASE Close(r)
  <2>1. Set(r, Closed(s.from)) /\ Closed(s.from).sent = <<>>
    BY <1>5 DEF Close, Closed
  <2>. QED BY <1>2, <2>1, ResetFeeds DEF Feed!Next
<1>6. CASE FetchPage(r)
  <2>. DEFINE page == Page(s.cursor)
              t == [s EXCEPT !.phase = "draining", !.rows = page, !.more = Len(page) >= ChunkSize,
                             !.cursor = NextCursor(@, page)]
  <2>1. Set(r, t)
    BY <1>6 DEF FetchPage
  <2>2. t.from = s.from /\ t.sent = s.sent
    <3>. HIDE DEF s, page
    <3>. QED BY <1>1 DEF Stream
  <2>. QED BY <2>1, <2>2, StutterFeeds
<1>7. CASE EndPage(r)
  <2>1. \E t : Set(r, t) /\ t.from = s.from /\ t.sent = s.sent
    BY <1>1, <1>7 DEF EndPage, Stream
  <2>. QED BY <2>1, StutterFeeds
<1>8. CASE EmitRow(r)
  <2>. DEFINE seq == Head(s.rows)
              t == [s EXCEPT !.rows = Tail(@), !.lastReplayed = Replayed(s, seq),
                             !.sent = Append(@, seq)]
  <2>1. Set(r, t) /\ t.from = s.from /\ t.sent = Append(s.sent, seq)
    BY <1>1, <1>8 DEF EmitRow, Stream
  <2>2. PICK k \in 0..Len(log) :
           /\ \A i \in 1..k : log[i] <= At(s)
           /\ k + 1 \in 1..Len(log) /\ seq = log[k + 1] /\ seq > At(s)
    BY <1>8, RowIsNext
  <2>3. (k + 1) - 1 = k
    OBVIOUS
  <2>. HIDE DEF s, t, seq
  <2>4. t.sent = Append(s.sent, log[k + 1]) /\ log[k + 1] > At(s)
        /\ \A m \in 1..(k + 1) - 1 : log[m] <= At(s)
    BY <2>1, <2>2, <2>3
  <2>5. Feed!Send(r)
    BY <2>1, <2>2, <2>4, SendFeeds DEF s
  <2>. QED BY <2>5 DEF Feed!Next
<1>9. CASE TakeLive(r)
  <2>. DEFINE seq == Head(s.inbox)
              t == [s EXCEPT !.inbox = Tail(@),
                             !.sent = IF seq > s.lastReplayed THEN Append(@, seq) ELSE @]
  <2>1. Set(r, t) /\ t.from = s.from
        /\ t.sent = IF seq > s.lastReplayed THEN Append(s.sent, seq) ELSE s.sent
    BY <1>1, <1>9 DEF TakeLive, Stream
  <2>2. PICK b \in Nat :
           /\ b + 1 \in 1..Len(log) /\ seq = log[b + 1]
           /\ \A i \in 1..b : log[i] <= At(s)
           /\ log[b + 1] > s.lastReplayed => log[b + 1] > At(s)
    BY <1>9, LiveIsNext
  <2>3. (b + 1) - 1 = b
    OBVIOUS
  <2>. HIDE DEF s, t, seq
  <2>4. CASE seq > s.lastReplayed
    <3>1. t.sent = Append(s.sent, log[b + 1]) /\ log[b + 1] > At(s)
          /\ \A m \in 1..(b + 1) - 1 : log[m] <= At(s)
      BY <2>1, <2>2, <2>3, <2>4
    <3>2. Feed!Send(r)
      BY <2>1, <2>2, <3>1, SendFeeds DEF s
    <3>. QED BY <3>2 DEF Feed!Next
  <2>5. CASE ~(seq > s.lastReplayed)
    <3>1. t.sent = s.sent
      BY <2>1, <2>5
    <3>. QED BY <2>1, <3>1, StutterFeeds DEF s
  <2>. QED BY <2>4, <2>5
<1>. QED BY <1>3, <1>4, <1>5, <1>6, <1>7, <1>8, <1>9 DEF Drain

\* Whatever the interleaving of appends, publications, page fetches, live
\* deliveries, reconnections and restarts, each reader of rpc/stream.ts is sent
\* the events after its cursor in log order, each once, none skipped: the
\* stream implements OrderedFeed, for any number of readers and any chunk size.
THEOREM Implementation == Spec => ImplementsOrderedFeed
<1>1. Init => Feed!Init
  <2>. SUFFICES ASSUME Init PROVE Feed!Init
    OBVIOUS
  <2>1. log = <<>> /\ stream = [r \in Reader |-> Closed(0)] /\ 0 \in 0..MaxSeq
    BY MaxSeqAssumption DEF Init
  <2>2. \A r \in Reader : stream[r].from = 0 /\ stream[r].sent = <<>>
    BY <2>1 DEF Closed
  <2>. QED BY <2>1, <2>2 DEF Feed!Init
<1>2. IInv /\ [Next]_vars => [Feed!Next]_(Feed!feed)
  <2>. SUFFICES ASSUME IInv, [Next]_vars PROVE Feed!Next \/ UNCHANGED Feed!feed
    OBVIOUS
  <2>1. CASE AppendEvent
    BY <2>1, StoreFeeds DEF Feed!Next
  <2>2. CASE Publish
    <3>1. \A r \in Reader : stream'[r].from = stream[r].from /\ stream'[r].sent = stream[r].sent
      <4>. SUFFICES ASSUME NEW r \in Reader
                    PROVE  stream'[r].from = stream[r].from /\ stream'[r].sent = stream[r].sent
        OBVIOUS
      <4>1. stream[r] \in Stream
        BY Typed DEF IInv
      <4>2. \/ stream'[r] = stream[r]
            \/ stream'[r] = [stream[r] EXCEPT !.inbox = Append(@, log[published + 1])]
        BY <2>2 DEF Publish
      <4>. QED BY <4>1, <4>2 DEF Stream
    <3>2. log' = log
      BY <2>2 DEF Publish
    <3>. QED BY <3>1, <3>2 DEF Feed!feed
  <2>3. CASE Crash
    <3>1. log' = log /\ \A r \in Reader : stream'[r].from = stream[r].from /\ stream'[r].sent = <<>>
      BY <2>3 DEF Crash, Closed
    <3>2. \A r \in Reader : stream[r].from \in 0..MaxSeq
      BY Typed, StreamTyped DEF IInv
    <3>3. Feed!Reset
      BY <3>1, <3>2 DEF Feed!Reset
    <3>. QED BY <3>3 DEF Feed!Next
  <2>4. ASSUME NEW r \in Reader,
               \/ OpenLive(r) \/ \E from \in 0..MaxSeq : OpenFrom(r, from)
               \/ Drain(r) \/ Close(r)
        PROVE  Feed!Next \/ UNCHANGED Feed!feed
    BY <2>4, ReaderFeeds
  <2>5. CASE UNCHANGED vars
    BY <2>5 DEF vars, Feed!feed
  <2>. QED BY <2>1, <2>2, <2>3, <2>4, <2>5 DEF Next
<1>. QED BY <1>1, <1>2, Invariance, PTL DEF Spec, ImplementsOrderedFeed, Feed!Spec
=============================================================================
