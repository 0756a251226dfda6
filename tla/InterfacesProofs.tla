--------------------------- MODULE InterfacesProofs ---------------------------
(***************************************************************************)
(* Safety of the two interfaces, for any number of pages, forked backends, *)
(* submissions, effects and lists.                                         *)
(*                                                                         *)
(* The semaphore: a page's request is at work only at the head, and the    *)
(* stage of the head says what "current" and "victim" hold (QueueOK,       *)
(* HeadOK).  Hence every open port is one of these two (PortsOK).  Once    *)
(* the window's last closing is queued no page is, and when it is through  *)
(* "current" is empty for good (WindowOK), which is why nothing is open    *)
(* when the runtime goes.                                                  *)
(*                                                                         *)
(* The page in the window: what it heard from the main process follows its *)
(* request (PageOK), and behind that request there is nothing in the queue *)
(* as long as no navigation starts, so that nothing cuts it off            *)
(* (DocumentOK).                                                           *)
(*                                                                         *)
(* A surface of the page: what it shows and what runs is about the latest  *)
(* submission, by itself inductive (DialogInv).                            *)
(*                                                                         *)
(* The terminal: the effects that were run and those that are queued are   *)
(* the numbers from 0 on, and what a render took is a front part of the    *)
(* queue (EffectsOK).  The selection and the overlay are about the list    *)
(* the key handler was registered with (SelectionOK).                      *)
(***************************************************************************)
EXTENDS MCInterfaces, SequenceTheorems, WellFoundedInduction, TLAPS

Working == {"closing", "making", "connecting", "granting", "undoing"}

QueueOK ==
    /\ \A i \in 1 .. Len(permits) :
          /\ permits[i] \in Pages =>
                \/ stage[permits[i]] = "waiting"
                \/ i = 1 /\ stage[permits[i]] \in Working
          /\ permits[i] = WindowEnd => i = Len(permits) /\ window = "drained"
    /\ \A i, j \in 1 .. Len(permits) :
          permits[i] \in Pages /\ permits[i] = permits[j] => i = j
    /\ \A p \in Pages : stage[p] \in Working => Holds(p)

HeadOK ==
    /\ victim # 0 =>
          /\ current = 0 /\ permits # <<>>
          /\ \A p \in Pages : Holds(p) => stage[p] = "closing"
    /\ \A p \in Pages :
          /\ stage[p] \in {"closing", "making"} => current = 0
          /\ stage[p] \in {"connecting", "granting"} => current = p
          /\ stage[p] = "undoing" => current \in {0, p}

Open(p) == mainEnd[p] = "open" \/ server[p] \in {"starting", "running", "idle"}

PortsOK ==
    \A p \in Pages :
        /\ Open(p) => p \in {current, victim}
        /\ stage[p] \in {"none", "sent", "waiting", "closing", "making"} =>
              mainEnd[p] = "none" /\ farEnd[p] = "none" /\ server[p] = "none"
        /\ stage[p] = "connecting" => mainEnd[p] = "open" /\ server[p] = "none"
        /\ stage[p] \in {"connecting", "granting"} => farEnd[p] = "main"
        /\ server[p] \in {"starting", "running"} => mainEnd[p] = "open"
        /\ farEnd[p] \in {"moving", "page", "dropped"} => stage[p] \in {"undoing", "done"}

WindowOK ==
    /\ window = "none" => document = 0 /\ permits = <<>> /\ ~alive
    /\ navigating => alive /\ document < MaxPages
    /\ window \in {"drained", "closed"} =>
          /\ \A i \in 1 .. Len(permits) : permits[i] \notin Pages
          /\ permits # <<>> => permits[Len(permits)] = WindowEnd
          /\ permits = <<>> => current = 0
    /\ window = "closed" => permits = <<>> /\ ~alive

PageOK ==
    \A p \in Pages :
        /\ p > document => boot[p] = "none" /\ stage[p] = "none"
        /\ p < document => boot[p] = "gone"
        /\ p = document /\ alive => boot[p] # "gone"
        /\ boot[p] = "loading" => stage[p] = "none"
        /\ boot[p] \in {"syncing", "mounted"} => farEnd[p] = "page"
        /\ boot[p] = "mounted" => p \in answered
        /\ p \in answered => farEnd[p] \in {"page", "closed"}

Settled(p) ==
    /\ p = document /\ p \notin deserted /\ ~navigating /\ alive /\ Listening
    /\ stage[p] \notin {"none", "sent"}

DocumentOK ==
    \A p \in Pages :
        Settled(p) =>
            /\ stage[p] # "undoing"
            /\ \A q \in 1 .. p - 1 : stage[q] # "sent"
            /\ stage[p] = "done" => permits = <<>>
            /\ stage[p] # "done" => permits # <<>> /\ permits[Len(permits)] = p
            /\ p \in answered /\ farEnd[p] = "page" => server[p] = "running"

PortsInv ==
    /\ PortsTypeOK /\ QueueOK /\ HeadOK /\ PortsOK
    /\ WindowOK /\ PageOK /\ DocumentOK

AppOK ==
    /\ app = "starting" => window = "none"
    /\ app \in {"disposing", "lingering", "released", "quit"} => window \in {"none", "closed"}
    /\ app \in {"released", "quit"} => Running = {}

\* The inductive invariant.
IInv ==
    /\ TypeOK /\ PortsInv /\ AppOK

-----------------------------------------------------------------------------
(* The queue. *)

\* One more job at the end.
LEMMA Appended ==
    ASSUME permits \in Seq(0 .. WindowEnd), NEW j \in 0 .. WindowEnd, permits' = Append(permits, j)
    PROVE  /\ permits' \in Seq(0 .. WindowEnd) /\ permits' # <<>>
           /\ Len(permits) \in Nat /\ Len(permits') = Len(permits) + 1
           /\ \A i \in 1 .. Len(permits) : permits'[i] = permits[i]
           /\ permits'[Len(permits) + 1] = j
           /\ permits # <<>> => Len(permits) >= 1 /\ Head(permits') = Head(permits)
<1>1. permits' \in Seq(0 .. WindowEnd) /\ permits' # <<>> /\ Len(permits') = Len(permits) + 1
  BY AppendProperties
<1>2. /\ \A i \in 1 .. Len(permits) : permits'[i] = permits[i]
      /\ permits'[Len(permits) + 1] = j
  BY AppendProperties
<1>3. Len(permits) \in Nat
  BY LenProperties
<1>4. permits # <<>> => Len(permits) >= 1
  BY EmptySeq, <1>3
<1>5. permits # <<>> => Head(permits') = Head(permits)
  BY <1>1, <1>2, <1>3, <1>4, HeadTailProperties
<1>. QED BY <1>1, <1>2, <1>3, <1>4, <1>5

\* The head gives the semaphore back.
LEMMA Tailed ==
    ASSUME permits \in Seq(0 .. WindowEnd), permits # <<>>, permits' = Tail(permits)
    PROVE  /\ permits' \in Seq(0 .. WindowEnd)
           /\ Len(permits) \in Nat /\ Len(permits) >= 1 /\ Len(permits') = Len(permits) - 1
           /\ \A i \in 1 .. Len(permits') : permits'[i] = permits[i + 1]
           /\ Head(permits) = permits[1]
           /\ permits' = <<>> <=> Len(permits) = 1
<1>1. permits' \in Seq(0 .. WindowEnd) /\ Len(permits') = Len(permits) - 1
  BY HeadTailProperties
<1>2. \A i \in 1 .. Len(permits') : permits'[i] = permits[i + 1]
  BY HeadTailProperties
<1>3. Len(permits) \in Nat /\ Len(permits) >= 1
  BY LenProperties, EmptySeq
<1>4. Head(permits) = permits[1]
  BY HeadTailProperties
<1>5. permits' = <<>> <=> Len(permits) = 1
  <2>1. permits' # <<>> => Len(permits') # 0
    BY <1>1, EmptySeq
  <2>2. permits' = <<>> => Len(permits') = 0
    BY EmptySeq
  <2>. QED BY <1>1, <1>3, <2>1, <2>2
<1>. QED BY <1>1, <1>2, <1>3, <1>4, <1>5

\* The jobs are numbers; pages are neither 0 nor the window's end.
LEMMA Jobs ==
    /\ MaxPages \in Nat /\ MaxPages >= 1
    /\ Pages \subseteq 0 .. WindowEnd /\ Pages \subseteq Nat
    /\ Navigation \in 0 .. WindowEnd /\ WindowEnd \in 0 .. WindowEnd
    /\ 0 \notin Pages /\ Navigation \notin Pages /\ WindowEnd \notin Pages /\ Navigation # WindowEnd
BY MaxPagesAssumption DEF Pages, Navigation, WindowEnd

LEMMA First ==
    ASSUME PortsInv
    PROVE  /\ permits \in Seq(0 .. WindowEnd) /\ Len(permits) \in Nat
           /\ permits # <<>> => Len(permits) >= 1
           /\ \A j : Holds(j) <=> permits # <<>> /\ permits[1] = j
<1>1. permits \in Seq(0 .. WindowEnd)
  BY DEF PortsInv, PortsTypeOK
<1>2. Len(permits) \in Nat /\ (permits # <<>> => Len(permits) >= 1)
  BY <1>1, LenProperties, EmptySeq
<1>3. permits # <<>> => Head(permits) = permits[1]
  BY <1>1, HeadTailProperties
<1>. QED BY <1>1, <1>2, <1>3 DEF Holds

\* The transaction at work is the head's, and the only one.
LEMMA AtWork ==
    ASSUME PortsInv, NEW p \in Pages, stage[p] \in Working
    PROVE  /\ permits # <<>> /\ permits[1] = p
           /\ \A q \in Pages \ {p} : stage[q] \notin Working
           /\ stage[p] # "closing" => victim = 0
<1>1. Holds(p)
  BY DEF PortsInv, QueueOK
<1>2. \A q \in Pages \ {p} : ~Holds(q)
  BY <1>1, First
<1>. QED BY <1>1, <1>2, First DEF PortsInv, QueueOK, HeadOK

\* The head leaves with nobody else at work: what remains of the queue.
LEMMA QueueAfterTail ==
    ASSUME PortsInv, permits # <<>>, permits' = Tail(permits), window' = window,
           NEW next \in Stages \ Working, NEW p,
           stage' = [stage EXCEPT ![p] = next],
           p \in Pages => p = permits[1] /\ stage[p] \in Working,
           p \notin Pages => permits[1] \notin Pages
    PROVE  /\ QueueOK' /\ permits' \in Seq(0 .. WindowEnd)
           /\ \A q \in Pages : stage'[q] \notin Working
           /\ permits' # <<>> => permits'[Len(permits')] = permits[Len(permits)] /\ Len(permits) # 1
           /\ permits' = <<>> => Len(permits) = 1 /\ permits[Len(permits)] = permits[1]
           /\ \A i \in 1 .. Len(permits') : \E j \in 1 .. Len(permits) : permits'[i] = permits[j]
<1>1. /\ permits' \in Seq(0 .. WindowEnd)
      /\ Len(permits) \in Nat /\ Len(permits) >= 1 /\ Len(permits') = Len(permits) - 1
      /\ \A i \in 1 .. Len(permits') : permits'[i] = permits[i + 1]
      /\ permits' = <<>> <=> Len(permits) = 1
  BY First, Tailed
<1>2. \A q \in Pages : stage'[q] \notin Working
  <2>1. CASE p \in Pages
    <3>1. \A q \in Pages \ {p} : stage[q] \notin Working
      BY <2>1, AtWork
    <3>. QED BY <2>1, <3>1 DEF PortsInv, PortsTypeOK
  <2>2. CASE p \notin Pages
    <3>1. \A q \in Pages : stage'[q] = stage[q] /\ ~Holds(q)
      BY <2>2, First DEF PortsInv, PortsTypeOK
    <3>. QED BY <3>1 DEF PortsInv, QueueOK
  <2>. QED BY <2>1, <2>2
<1>3. \A i \in 1 .. Len(permits') : permits'[i] \in Pages => stage'[permits'[i]] = "waiting"
  <2>. SUFFICES ASSUME NEW i \in 1 .. Len(permits'), permits'[i] \in Pages
                PROVE  stage'[permits'[i]] = "waiting"
    OBVIOUS
  <2>1. i + 1 \in 1 .. Len(permits) /\ i + 1 # 1 /\ permits'[i] = permits[i + 1] /\ 1 \in 1 .. Len(permits)
    BY <1>1
  <2>2. stage[permits[i + 1]] = "waiting"
    BY <2>1 DEF PortsInv, QueueOK
  <2>3. permits[i + 1] # p
    BY <2>1, <2>2 DEF Working
  <2>. QED BY <2>1, <2>2, <2>3 DEF PortsInv, PortsTypeOK
<1>4. \A i, j \in 1 .. Len(permits') : permits'[i] \in Pages /\ permits'[i] = permits'[j] => i = j
  <2>. SUFFICES ASSUME NEW i \in 1 .. Len(permits'), NEW j \in 1 .. Len(permits'),
                       permits'[i] \in Pages, permits'[i] = permits'[j]
                PROVE  i = j
    OBVIOUS
  <2>1. /\ i + 1 \in 1 .. Len(permits) /\ j + 1 \in 1 .. Len(permits)
        /\ permits'[i] = permits[i + 1] /\ permits'[j] = permits[j + 1]
    BY <1>1
  <2>2. i + 1 = j + 1
    BY <2>1 DEF PortsInv, QueueOK
  <2>. QED BY <2>2
<1>5. \A i \in 1 .. Len(permits') : permits'[i] = WindowEnd => i = Len(permits') /\ window' = "drained"
  <2>. SUFFICES ASSUME NEW i \in 1 .. Len(permits'), permits'[i] = WindowEnd
                PROVE  i = Len(permits') /\ window' = "drained"
    OBVIOUS
  <2>1. i + 1 \in 1 .. Len(permits) /\ permits'[i] = permits[i + 1]
    BY <1>1
  <2>2. i + 1 = Len(permits) /\ window = "drained"
    BY <2>1 DEF PortsInv, QueueOK
  <2>3. i \in Nat
    OBVIOUS
  <2>4. i = Len(permits')
    <3>1. \A k, m, n \in Nat : k + 1 = n /\ m = n - 1 => k = m
      OBVIOUS
    <3>2. Len(permits') \in Nat
      BY <1>1, LenProperties
    <3>. QED BY <1>1, <2>2, <2>3, <3>1, <3>2
  <2>. QED BY <2>2, <2>4
<1>6. QueueOK'
  BY <1>2, <1>3, <1>4, <1>5 DEF QueueOK
<1>7. permits' # <<>> => permits'[Len(permits')] = permits[Len(permits)] /\ Len(permits) # 1
  BY <1>1
<1>8. \A i \in 1 .. Len(permits') : \E j \in 1 .. Len(permits) : permits'[i] = permits[j]
  <2>. TAKE i \in 1 .. Len(permits')
  <2>1. i + 1 \in 1 .. Len(permits) /\ permits'[i] = permits[i + 1]
    BY <1>1
  <2>. QED BY <2>1
<1>. QED BY <1>1, <1>2, <1>6, <1>7, <1>8

\* A job that waits is appended: the queue keeps its order.
LEMMA QueueAfterAppend ==
    ASSUME PortsInv, NEW j \in 0 .. WindowEnd, permits' = Append(permits, j),
           j \in Pages => stage[j] = "sent" /\ stage' = [stage EXCEPT ![j] = "waiting"],
           j \notin Pages => stage' = stage,
           j = WindowEnd => window' = "drained",
           \A i \in 1 .. Len(permits) : permits[i] # WindowEnd
    PROVE  /\ QueueOK' /\ permits' \in Seq(0 .. WindowEnd) /\ permits' # <<>>
           /\ permits'[Len(permits')] = j
           /\ \A q \in Pages : Holds(q)' => Holds(q) \/ permits = <<>>
           /\ \A q \in Pages : Holds(q) => Holds(q)'
           /\ \A i \in 1 .. Len(permits') : permits'[i] = j \/ \E k \in 1 .. Len(permits) : permits'[i] = permits[k]
<1>1. /\ permits' \in Seq(0 .. WindowEnd) /\ permits' # <<>>
      /\ Len(permits) \in Nat /\ Len(permits') = Len(permits) + 1
      /\ \A i \in 1 .. Len(permits) : permits'[i] = permits[i]
      /\ permits'[Len(permits) + 1] = j
      /\ permits # <<>> => Len(permits) >= 1 /\ Head(permits') = Head(permits)
  BY First, Appended
<1>2. \A i \in 1 .. Len(permits') : i \in 1 .. Len(permits) \/ i = Len(permits) + 1
  BY <1>1
<1>3. \A i \in 1 .. Len(permits) : permits[i] # j \/ j \notin Pages
  BY DEF PortsInv, QueueOK, Working
<1>4. \A q \in Pages : stage'[q] \in Working => Holds(q)'
  <2>1. \A q \in Pages : stage'[q] \in Working => stage[q] \in Working
    BY DEF PortsInv, PortsTypeOK, Working
  <2>. QED BY <1>1, <2>1 DEF PortsInv, QueueOK, Holds
<1>5. \A i \in 1 .. Len(permits') : permits'[i] \in Pages =>
           stage'[permits'[i]] = "waiting" \/ (i = 1 /\ stage'[permits'[i]] \in Working)
  <2>. SUFFICES ASSUME NEW i \in 1 .. Len(permits'), permits'[i] \in Pages
                PROVE  stage'[permits'[i]] = "waiting" \/ (i = 1 /\ stage'[permits'[i]] \in Working)
    OBVIOUS
  <2>1. CASE i \in 1 .. Len(permits)
    <3>1. stage[permits[i]] = "waiting" \/ (i = 1 /\ stage[permits[i]] \in Working)
      BY <1>1, <2>1 DEF PortsInv, QueueOK
    <3>2. stage'[permits[i]] = stage[permits[i]]
      BY <1>1, <1>3, <2>1 DEF PortsInv, PortsTypeOK
    <3>. QED BY <1>1, <2>1, <3>1, <3>2
  <2>2. CASE i = Len(permits) + 1
    BY <1>1, <2>2 DEF PortsInv, PortsTypeOK
  <2>. QED BY <1>2, <2>1, <2>2
<1>6. \A i, k \in 1 .. Len(permits') : permits'[i] \in Pages /\ permits'[i] = permits'[k] => i = k
  BY <1>1, <1>2, <1>3 DEF PortsInv, QueueOK
<1>7. \A i \in 1 .. Len(permits') : permits'[i] = WindowEnd => i = Len(permits') /\ window' = "drained"
  BY <1>1, <1>2
<1>8. QueueOK'
  BY <1>4, <1>5, <1>6, <1>7 DEF QueueOK
<1>. QED BY <1>1, <1>2, <1>8 DEF Holds

-----------------------------------------------------------------------------
(* The semaphore's transactions. *)

\* The head starts, and goes on, with the queue as it is.
LEMMA WorkKeeps ==
    ASSUME PortsInv, NEW p \in Pages, Begin(p) \/ MakeChannel(p) \/ Connect(p) \/ Abort(p)
    PROVE  PortsInv'
<1>. USE DEF InTransaction, pageVars, portVars
<1>1. /\ permits # <<>> /\ permits[1] = p
      /\ stage[p] \in {"waiting", "making", "connecting", "granting"} /\ victim = 0
      /\ \A q \in Pages \ {p} : stage[q] \notin Working
  <2>1. Holds(p) /\ stage[p] \in {"waiting", "making", "connecting", "granting"}
    BY DEF Begin, MakeChannel, Connect, Abort
  <2>2. permits # <<>> /\ permits[1] = p
    BY <2>1, First
  <2>3. \A q \in Pages \ {p} : stage[q] \notin Working
    BY <2>2, First DEF PortsInv, QueueOK
  <2>4. victim = 0
    BY <2>1 DEF PortsInv, HeadOK
  <2>. QED BY <2>1, <2>2, <2>3, <2>4
<1>2. PICK next \in Working :
        /\ stage' = [stage EXCEPT ![p] = next]
        /\ next \in {"closing", "making"} => current' = 0 /\ stage[p] = "waiting"
        /\ next = "connecting" => stage[p] = "making"
        /\ next = "granting" => stage[p] = "connecting"
        /\ next = "undoing" => stage[p] # "waiting" /\ window = "stopped"
  BY DEF Begin, MakeChannel, Connect, Abort, Working
<1>3. UNCHANGED <<window, alive, pageVars, permits>>
  BY DEF Begin, MakeChannel, Connect, Abort, brokerVars
<1>4. PortsTypeOK'
  <2>1. stage' \in [Pages -> Stages]
    BY <1>2 DEF PortsInv, PortsTypeOK, Working, Stages
  <2>2. {current', victim'} \subseteq 0 .. MaxPages
    <3>1. p \in 0 .. MaxPages /\ 0 \in 0 .. MaxPages
      BY Jobs DEF Pages
    <3>2. current' \in {0, p, current} /\ victim' \in {current, victim}
      BY DEF Begin, MakeChannel, Connect, Abort
    <3>. QED BY <3>1, <3>2 DEF PortsInv, PortsTypeOK
  <2>3. /\ mainEnd' \in [Pages -> {"none", "open", "closed"}]
        /\ farEnd' \in [Pages -> {"none", "main", "moving", "page", "dropped", "closed"}]
        /\ server' \in [Pages -> {"none", "starting", "running", "idle", "stopped"}]
    BY DEF Begin, MakeChannel, Connect, Abort, PortsInv, PortsTypeOK
  <2>. QED BY <1>3, <2>1, <2>2, <2>3 DEF PortsInv, PortsTypeOK
<1>5. QueueOK'
  <2>1. \A q \in Pages \ {p} : stage'[q] = stage[q]
    BY <1>2 DEF PortsInv, PortsTypeOK
  <2>2. stage'[p] \in Working /\ Holds(p)'
    BY <1>2, <1>3, <1>1, First DEF PortsInv, PortsTypeOK, Holds
  <2>3. \A i \in 1 .. Len(permits) : permits[i] = p => i = 1
    BY <1>1, First DEF PortsInv, QueueOK
  <2>. QED BY <1>1, <1>3, <2>1, <2>2, <2>3 DEF PortsInv, QueueOK
<1>6. HeadOK'
  <2>1. \A q \in Pages \ {p} : stage'[q] \notin Working
    BY <1>1, <1>2 DEF PortsInv, PortsTypeOK
  <2>2. victim' # 0 => current' = 0 /\ stage'[p] = "closing"
    BY <1>1 DEF Begin, MakeChannel, Connect, Abort, PortsInv, PortsTypeOK
  <2>3. \A q \in Pages : Holds(q)' => q = p
    BY <1>1, <1>3, First DEF Holds
  <2>4. /\ stage'[p] \in {"closing", "making"} => current' = 0
        /\ stage'[p] \in {"connecting", "granting"} => current' = p
        /\ stage'[p] = "undoing" => current' \in {0, p}
    BY DEF Begin, MakeChannel, Connect, Abort, PortsInv, HeadOK, PortsTypeOK
  <2>. QED BY <1>1, <1>3, <2>1, <2>2, <2>3, <2>4 DEF HeadOK, Working
<1>7. PortsOK'
  BY <1>1, <1>2 DEF Begin, MakeChannel, Connect, Abort, PortsInv, PortsOK, HeadOK, PortsTypeOK, Open, Working
<1>8. WindowOK'
  <2>1. window \notin {"drained", "closed"}
    BY <1>1, First DEF PortsInv, WindowOK
  <2>. QED BY <1>1, <1>3, <2>1 DEF PortsInv, WindowOK
<1>9. PageOK'
  <2>1. \A q \in Pages : farEnd'[q] = farEnd[q] \/ (q = p /\ farEnd[q] = "none" /\ farEnd'[q] = "main")
    BY DEF Begin, MakeChannel, Connect, Abort, PortsInv, PortsOK, PortsTypeOK
  <2>. QED BY <1>1, <1>2, <1>3, <2>1 DEF PortsInv, PageOK, PortsTypeOK, Working
<1>10. DocumentOK'
  <2>1. \A q \in Pages : Settled(q)' => Settled(q)
    BY <1>1, <1>2, <1>3 DEF Settled, Listening, PortsInv, PortsTypeOK
  <2>2. \A q \in Pages : /\ farEnd'[q] = "page" => farEnd[q] = "page"
                         /\ server[q] = "running" => server'[q] = "running"
    BY DEF Begin, MakeChannel, Connect, Abort, PortsInv, PortsOK, PortsTypeOK
  <2>3. \A q \in Pages : Settled(q)' => stage'[q] # "undoing"
    BY <1>2, <2>1, <1>3 DEF Settled, Listening, PortsInv, PortsTypeOK, DocumentOK
  <2>4. \A q \in Pages : /\ stage'[q] = "sent" => stage[q] = "sent"
                         /\ stage'[q] = "done" <=> stage[q] = "done"
    BY <1>1, <1>2 DEF PortsInv, PortsTypeOK, Working
  <2>5. \A q \in Pages : 1 .. q - 1 \subseteq Pages
    BY MaxPagesAssumption DEF Pages
  <2>. SUFFICES ASSUME NEW q \in Pages, Settled(q)'
                PROVE  /\ stage'[q] # "undoing"
                       /\ \A o \in 1 .. q - 1 : stage'[o] # "sent"
                       /\ stage'[q] = "done" => permits' = <<>>
                       /\ stage'[q] # "done" => permits' # <<>> /\ permits'[Len(permits')] = q
                       /\ q \in answered' /\ farEnd'[q] = "page" => server'[q] = "running"
    BY DEF DocumentOK
  <2>6. /\ stage[q] # "undoing"
        /\ \A o \in 1 .. q - 1 : stage[o] # "sent"
        /\ stage[q] = "done" => permits = <<>>
        /\ stage[q] # "done" => permits # <<>> /\ permits[Len(permits)] = q
        /\ q \in answered /\ farEnd[q] = "page" => server[q] = "running"
    BY <2>1 DEF PortsInv, DocumentOK
  <2>. QED BY <1>3, <2>2, <2>3, <2>4, <2>5, <2>6
<1>. QED BY <1>4, <1>5, <1>6, <1>7, <1>8, <1>9, <1>10 DEF PortsInv

\* The head ends its transaction: granted, or undone.
LEMMA EndKeeps ==
    ASSUME PortsInv, NEW p \in Pages, Grant(p) \/ Undo(p), stage'[p] = "done"
    PROVE  PortsInv'
<1>. USE DEF InTransaction, pageVars, portVars
<1>1. /\ permits # <<>> /\ permits[1] = p
      /\ stage[p] \in {"granting", "undoing"} /\ victim = 0
      /\ \A q \in Pages \ {p} : stage[q] \notin Working
  <2>1. stage[p] \in {"granting", "undoing"}
    BY DEF Grant, Undo
  <2>. QED BY <2>1, AtWork DEF Working
<1>2. /\ stage' = [stage EXCEPT ![p] = "done"] /\ permits' = Tail(permits)
      /\ UNCHANGED <<window, alive, pageVars, victim>>
  BY DEF Grant, Undo, PortsInv, PortsTypeOK
<1>3. /\ QueueOK' /\ permits' \in Seq(0 .. WindowEnd)
      /\ \A q \in Pages : stage'[q] \notin Working
      /\ permits' # <<>> => permits'[Len(permits')] = permits[Len(permits)] /\ Len(permits) # 1
      /\ permits' = <<>> => Len(permits) = 1 /\ permits[Len(permits)] = permits[1]
  BY <1>1, <1>2, QueueAfterTail DEF Stages, Working
<1>4. current' \in {0, p} /\ (current' = p => Grant(p))
  BY <1>1, Jobs DEF Grant, Undo, PortsInv, HeadOK
<1>5. PortsTypeOK'
  <2>1. /\ mainEnd' \in [Pages -> {"none", "open", "closed"}]
        /\ farEnd' \in [Pages -> {"none", "main", "moving", "page", "dropped", "closed"}]
        /\ server' \in [Pages -> {"none", "starting", "running", "idle", "stopped"}]
    BY DEF Grant, Undo, EndScope, PortsInv, PortsTypeOK
  <2>2. stage' \in [Pages -> Stages]
    BY <1>2 DEF PortsInv, PortsTypeOK, Stages
  <2>3. current' \in 0 .. MaxPages /\ victim' \in 0 .. MaxPages
    <3>1. victim \in 0 .. MaxPages
      BY DEF PortsInv, PortsTypeOK
    <3>. QED BY <1>2, <1>4, <3>1, MaxPagesAssumption DEF Pages
  <2>. QED BY <1>2, <1>3, <2>1, <2>2, <2>3 DEF PortsInv, PortsTypeOK
<1>6. HeadOK'
  BY <1>1, <1>2, <1>3 DEF HeadOK, Working
<1>7. PortsOK'
  <2>1. CASE Grant(p)
    <3>1. UNCHANGED <<mainEnd, server, current>> /\ farEnd'[p] \in {farEnd[p], "moving"}
          /\ \A q \in Pages \ {p} : farEnd'[q] = farEnd[q] /\ stage'[q] = stage[q]
      BY <1>2, <2>1 DEF Grant, PortsInv, PortsTypeOK
    <3>. QED BY <1>1, <1>2, <3>1 DEF PortsInv, PortsOK, PortsTypeOK, Open
  <2>2. CASE Undo(p)
    <3>1. /\ current' = 0 /\ victim' = 0 /\ stage'[p] = "done"
          /\ mainEnd'[p] # "open" /\ server'[p] \in {"none", "stopped"}
          /\ \A q \in Pages \ {p} : /\ mainEnd'[q] = mainEnd[q] /\ farEnd'[q] = farEnd[q]
                                    /\ server'[q] = server[q] /\ stage'[q] = stage[q]
      BY <1>1, <1>2, <2>2 DEF Undo, EndScope, PortsInv, PortsTypeOK
    <3>2. \A q \in Pages \ {p} : ~Open(q)
      BY <1>1, <1>4, <2>2, Jobs DEF Undo, PortsInv, PortsOK, HeadOK
    <3>. QED BY <3>1, <3>2 DEF PortsInv, PortsOK, Open
  <2>. QED BY <2>1, <2>2
<1>8. WindowOK'
  <2>1. window \notin {"none", "drained", "closed"}
    BY <1>1, First DEF PortsInv, WindowOK
  <2>. QED BY <1>2, <2>1 DEF PortsInv, WindowOK
<1>9. PageOK'
  <2>1. \A q \in Pages : \/ farEnd'[q] = farEnd[q]
                         \/ q = p /\ farEnd'[q] \in {"moving", "closed"} /\ farEnd[q] \notin {"page", "closed"}
    <3>1. CASE Grant(p)
      BY <1>1, <3>1 DEF Grant, PortsInv, PortsOK, PortsTypeOK
    <3>2. CASE Undo(p)
      BY <3>2 DEF Undo, PortsInv, PortsTypeOK
    <3>. QED BY <3>1, <3>2
  <2>2. \A q \in Pages : stage'[q] = stage[q] \/ (q = p /\ stage[q] \notin {"none", "sent"})
    BY <1>1, <1>2 DEF PortsInv, PortsTypeOK
  <2>. QED BY <1>2, <2>1, <2>2 DEF PortsInv, PageOK
<1>10. DocumentOK'
  <2>1. \A q \in Pages : Settled(q)' => Settled(q) /\ stage[q] # "undoing"
    BY <1>1, <1>2 DEF Settled, Listening, PortsInv, PortsTypeOK, DocumentOK
  <2>. SUFFICES ASSUME NEW q \in Pages, Settled(q)'
                PROVE  /\ stage'[q] # "undoing"
                       /\ \A o \in 1 .. q - 1 : stage'[o] # "sent"
                       /\ stage'[q] = "done" => permits' = <<>>
                       /\ stage'[q] # "done" => permits' # <<>> /\ permits'[Len(permits')] = q
                       /\ q \in answered' /\ farEnd'[q] = "page" => server'[q] = "running"
    BY DEF DocumentOK
  <2>2. /\ \A o \in 1 .. q - 1 : stage[o] # "sent"
        /\ stage[q] # "done" /\ permits[Len(permits)] = q
        /\ q \in answered /\ farEnd[q] = "page" => server[q] = "running"
    BY <1>1, <2>1 DEF PortsInv, DocumentOK
  <2>3. \A o \in 1 .. q - 1 : stage'[o] # "sent"
    BY <1>2, <2>2, MaxPagesAssumption DEF PortsInv, PortsTypeOK, Pages
  <2>4. CASE q = p
    <3>1. Len(permits) = 1
      <4>1. 1 \in 1 .. Len(permits) /\ Len(permits) \in 1 .. Len(permits)
        BY <1>1, First
      <4>. QED BY <1>1, <2>2, <2>4, <4>1 DEF PortsInv, QueueOK
    <3>2. permits' = <<>> /\ stage'[q] = "done"
      BY <1>2, <1>3, <2>4, <3>1 DEF PortsInv, PortsTypeOK
    <3>3. farEnd'[q] # "page" \/ q \notin answered'
      BY <1>1, <1>2, <2>1, <2>4 DEF Grant, Undo, PortsInv, PortsOK, PortsTypeOK
    <3>. QED BY <2>3, <3>2, <3>3
  <2>5. CASE q # p
    <3>1. stage'[q] = stage[q] /\ farEnd'[q] = farEnd[q] /\ server'[q] = server[q] /\ answered' = answered
      BY <1>2, <2>5 DEF Grant, Undo, EndScope, PortsInv, PortsTypeOK
    <3>2. permits' # <<>>
      BY <1>1, <1>3, <2>2, <2>5
    <3>. QED BY <1>3, <2>1, <2>2, <2>3, <3>1, <3>2
  <2>. QED BY <2>4, <2>5
<1>. QED BY <1>3, <1>5, <1>6, <1>7, <1>8, <1>9, <1>10 DEF PortsInv

\* The grant fails: the head has still to undo what it did.
LEMMA GrantFailsKeeps ==
    ASSUME PortsInv, NEW p \in Pages, Grant(p), stage'[p] = "undoing"
    PROVE  PortsInv'
<1>. USE DEF InTransaction, pageVars, portVars
<1>1. /\ permits # <<>> /\ permits[1] = p /\ Holds(p)
      /\ stage[p] = "granting" /\ victim = 0 /\ current = p
      /\ \A q \in Pages \ {p} : stage[q] \notin Working
  <2>1. stage[p] = "granting" /\ Holds(p)
    BY DEF Grant
  <2>. QED BY <2>1, AtWork DEF Working, PortsInv, HeadOK
<1>2. /\ stage' = [stage EXCEPT ![p] = "undoing"] /\ permits' = permits
      /\ ~alive \/ window = "stopped"
      /\ UNCHANGED <<window, alive, pageVars, current, victim, mainEnd, server>>
  BY DEF Grant, PortsInv, PortsTypeOK
<1>3. /\ stage'[p] = "undoing" /\ farEnd'[p] \in {farEnd[p], "moving"}
      /\ \A q \in Pages \ {p} : stage'[q] = stage[q] /\ farEnd'[q] = farEnd[q]
  BY <1>2 DEF Grant, PortsInv, PortsTypeOK
<1>4. PortsTypeOK'
  BY <1>2 DEF Grant, PortsInv, PortsTypeOK, Stages
<1>5. QueueOK'
  <2>1. \A i \in 1 .. Len(permits) : permits[i] = p => i = 1
    BY <1>1, First DEF PortsInv, QueueOK
  <2>. QED BY <1>1, <1>2, <1>3, <2>1 DEF PortsInv, QueueOK, Holds, Working
<1>6. HeadOK'
  BY <1>1, <1>2, <1>3 DEF PortsInv, HeadOK, Holds
<1>7. PortsOK'
  BY <1>1, <1>2, <1>3 DEF PortsInv, PortsOK, Open
<1>8. WindowOK'
  BY <1>2 DEF PortsInv, WindowOK
<1>9. PageOK'
  BY <1>1, <1>2, <1>3 DEF PortsInv, PageOK, PortsOK
<1>10. DocumentOK'
  <2>1. \A q \in Pages : ~Settled(q)' \/ (q # p /\ Settled(q))
    BY <1>1, <1>2, <1>3 DEF Settled, Listening
  <2>2. \A q \in Pages : 1 .. q - 1 \subseteq Pages
    BY MaxPagesAssumption DEF Pages
  <2>3. \A o \in Pages : stage'[o] = "sent" => stage[o] = "sent"
    BY <1>3
  <2>. SUFFICES ASSUME NEW q \in Pages, Settled(q), q # p
                PROVE  /\ stage'[q] # "undoing"
                       /\ \A o \in 1 .. q - 1 : stage'[o] # "sent"
                       /\ stage'[q] = "done" => permits' = <<>>
                       /\ stage'[q] # "done" => permits' # <<>> /\ permits'[Len(permits')] = q
                       /\ q \in answered' /\ farEnd'[q] = "page" => server'[q] = "running"
    BY <2>1 DEF DocumentOK
  <2>. QED BY <1>2, <1>3, <2>2, <2>3 DEF PortsInv, DocumentOK
<1>. QED BY <1>4, <1>5, <1>6, <1>7, <1>8, <1>9, <1>10 DEF PortsInv

-----------------------------------------------------------------------------
(* Closings. *)

\* A page that has asked and been answered, in a queue from which jobs leave.
LEMMA DocumentFrame ==
    ASSUME PortsInv, NEW q \in Pages, Settled(q)', UNCHANGED <<window, alive, pageVars, farEnd>>,
           \A o \in Pages : stage'[o] = stage[o] \/ (stage[o] \in Working /\ stage'[o] \in Working \ {"undoing"}),
           server[q] = "running" /\ stage[q] = "done" => server'[q] = "running",
           permits = <<>> => permits' = <<>>,
           permits # <<>> /\ permits[Len(permits)] = q => permits' # <<>> /\ permits'[Len(permits')] = q
    PROVE  /\ stage'[q] # "undoing"
           /\ \A o \in 1 .. q - 1 : stage'[o] # "sent"
           /\ stage'[q] = "done" => permits' = <<>>
           /\ stage'[q] # "done" => permits' # <<>> /\ permits'[Len(permits')] = q
           /\ q \in answered' /\ farEnd'[q] = "page" => server'[q] = "running"
<1>1. Settled(q)
  BY DEF Settled, Listening, pageVars, Working
<1>2. /\ stage[q] # "undoing"
      /\ \A o \in 1 .. q - 1 : stage[o] # "sent"
      /\ stage[q] = "done" => permits = <<>>
      /\ stage[q] # "done" => permits # <<>> /\ permits[Len(permits)] = q
      /\ q \in answered /\ farEnd[q] = "page" => server[q] = "running"
  BY <1>1 DEF PortsInv, DocumentOK
<1>3. 1 .. q - 1 \subseteq Pages
  BY MaxPagesAssumption DEF Pages
<1>4. farEnd[q] = "page" => stage[q] = "done"
  BY <1>2 DEF PortsInv, PortsOK
<1>5. stage[q] = "done" <=> stage'[q] = "done"
  BY DEF Working
<1>6. \A o \in 1 .. q - 1 : stage'[o] # "sent"
  BY <1>2, <1>3 DEF Working
<1>7. stage'[q] # "undoing"
  BY <1>2
<1>8. q \in answered' /\ farEnd'[q] = "page" => server'[q] = "running"
  BY <1>2, <1>4 DEF pageVars
<1>. QED BY <1>2, <1>5, <1>6, <1>7, <1>8

LEMMA CloserBeginsKeeps ==
    ASSUME PortsInv, CloserBegins
    PROVE  PortsInv'
<1>. USE DEF CloserBegins, pageVars, portVars
<1>1. permits # <<>> /\ permits[1] \in {Navigation, WindowEnd} /\ \A p \in Pages : stage[p] \notin Working
  <2>1. permits # <<>> /\ permits[1] \in {Navigation, WindowEnd}
    BY First
  <2>. QED BY <2>1, First, Jobs DEF PortsInv, QueueOK
<1>2. permits' = permits \/ (current = 0 /\ permits' = Tail(permits))
  OBVIOUS
<1>3. /\ permits' \in Seq(0 .. WindowEnd) /\ QueueOK'
      /\ permits' # <<>> => permits'[Len(permits')] = permits[Len(permits)]
      /\ permits' = <<>> => permits[Len(permits)] = permits[1] /\ current = 0
      /\ \A i \in 1 .. Len(permits') : \E j \in 1 .. Len(permits) : permits'[i] = permits[j]
  <2>1. CASE permits' = permits
    BY <1>1, <2>1 DEF PortsInv, PortsTypeOK, QueueOK, Holds
  <2>2. CASE current = 0 /\ permits' = Tail(permits)
    <3>1. stage' = [stage EXCEPT ![0] = "none"]
      BY Jobs DEF PortsInv, PortsTypeOK
    <3>2. "none" \in Stages \ Working /\ 0 \notin Pages /\ permits[1] \notin Pages
      BY <1>1, Jobs DEF Stages, Working
    <3>. QED BY <1>1, <2>2, <3>1, <3>2, QueueAfterTail
  <2>. QED BY <1>2, <2>1, <2>2
<1>4. PortsTypeOK'
  BY <1>3, Jobs DEF PortsInv, PortsTypeOK
<1>5. HeadOK'
  BY <1>1, First, Jobs DEF PortsInv, HeadOK, Working, Holds
<1>6. PortsOK'
  BY <1>1 DEF PortsInv, PortsOK, Open, Working
<1>7. WindowOK'
  <2>1. window \notin {"none", "closed"}
    BY <1>1 DEF PortsInv, WindowOK
  <2>. QED BY <1>3, <2>1 DEF PortsInv, WindowOK
<1>8. PageOK'
  BY DEF PortsInv, PageOK
<1>9. DocumentOK'
  <2>1. ASSUME NEW q \in Pages, permits # <<>> /\ permits[Len(permits)] = q
        PROVE  permits' # <<>> /\ permits'[Len(permits')] = q
    BY <1>1, <1>3, <2>1, Jobs
  <2>. QED BY <1>1, <2>1, DocumentFrame DEF DocumentOK
<1>. QED BY <1>3, <1>4, <1>5, <1>6, <1>7, <1>8, <1>9 DEF PortsInv

LEMMA ClosePreviousKeeps ==
    ASSUME PortsInv, ClosePrevious
    PROVE  PortsInv'
<1>. USE DEF ClosePrevious, pageVars, portVars
<1>1. /\ permits # <<>> /\ current = 0 /\ victim \in Pages /\ Head(permits) = permits[1]
      /\ \A p \in Pages : Holds(p) => stage[p] = "closing"
      /\ \A p \in Pages : stage[p] \in Working => p = permits[1] /\ stage[p] = "closing"
  <2>1. permits # <<>> /\ current = 0 /\ \A p \in Pages : Holds(p) => stage[p] = "closing"
    BY DEF PortsInv, HeadOK
  <2>2. victim \in Pages
    BY MaxPagesAssumption DEF PortsInv, PortsTypeOK, Pages
  <2>3. Head(permits) = permits[1]
    BY <2>1, First, HeadTailProperties
  <2>. QED BY <2>1, <2>2, <2>3, First DEF PortsInv, QueueOK
<1>2. /\ mainEnd' \in [Pages -> {"none", "open", "closed"}]
      /\ server' \in [Pages -> {"none", "starting", "running", "idle", "stopped"}]
      /\ mainEnd'[victim] # "open" /\ server'[victim] \in {"none", "stopped"}
      /\ mainEnd[victim] = "none" => mainEnd'[victim] = "none"
      /\ server[victim] = "none" => server'[victim] = "none"
      /\ \A q \in Pages \ {victim} : mainEnd'[q] = mainEnd[q] /\ server'[q] = server[q]
  BY <1>1 DEF EndScope, PortsInv, PortsTypeOK
<1>3. /\ stage' \in [Pages -> Stages]
      /\ \A p \in Pages : \/ stage'[p] = stage[p]
                          \/ stage[p] = "closing" /\ stage'[p] = "making" /\ p = permits[1]
      /\ \A p \in Pages : stage'[p] \in Working => stage'[p] = "making" /\ Holds(p)'
      /\ permits' \in Seq(0 .. WindowEnd) /\ QueueOK'
      /\ permits' # <<>> => permits'[Len(permits')] = permits[Len(permits)]
      /\ permits' = <<>> => permits[Len(permits)] = permits[1] /\ permits[1] \notin Pages
      /\ \A i \in 1 .. Len(permits') : \E j \in 1 .. Len(permits) : permits'[i] = permits[j]
  <2>1. CASE permits[1] \in Pages
    <3>1. stage' = [stage EXCEPT ![permits[1]] = "making"] /\ permits' = permits
      BY <1>1, <2>1
    <3>2. stage[permits[1]] = "closing"
      BY <1>1, <2>1, First
    <3>3. /\ stage' \in [Pages -> Stages] /\ stage'[permits[1]] = "making"
          /\ \A p \in Pages : p # permits[1] => stage'[p] = stage[p]
      BY <2>1, <3>1 DEF PortsInv, PortsTypeOK, Stages
    <3>4. \A p \in Pages : stage'[p] \in Working => stage'[p] = "making" /\ Holds(p)'
      BY <1>1, <2>1, <3>1, <3>3 DEF Holds
    <3>5. QueueOK'
      <4>1. \A i \in 1 .. Len(permits) : permits[i] = permits[1] => i = 1
        BY <1>1, <2>1, First DEF PortsInv, QueueOK
      <4>. QED BY <3>1, <3>3, <3>4, <4>1 DEF PortsInv, QueueOK, Working
    <3>. QED BY <1>1, <2>1, <3>1, <3>2, <3>3, <3>4, <3>5, First
  <2>2. CASE permits[1] \notin Pages
    <3>1. permits' = Tail(permits) /\ stage' = stage
      BY <1>1, <2>2
    <3>2. stage' = [stage EXCEPT ![0] = "none"] /\ "none" \in Stages \ Working /\ 0 \notin Pages
      BY <3>1, Jobs DEF PortsInv, PortsTypeOK, Stages, Working
    <3>. QED BY <1>1, <2>2, <3>1, <3>2, QueueAfterTail DEF PortsInv, PortsTypeOK
  <2>. QED BY <2>1, <2>2
<1>4. PortsTypeOK'
  <2>1. /\ window' \in Windows /\ alive' \in BOOLEAN /\ navigating' \in BOOLEAN
        /\ document' \in 0 .. MaxPages /\ deserted' \subseteq Pages /\ answered' \subseteq Pages
        /\ boot' \in [Pages -> Boots]
        /\ farEnd' \in [Pages -> {"none", "main", "moving", "page", "dropped", "closed"}]
    BY <1>1 DEF EndScope, PortsInv, PortsTypeOK
  <2>2. current' \in 0 .. MaxPages /\ victim' \in 0 .. MaxPages
    BY <1>1, Jobs DEF PortsInv, PortsTypeOK
  <2>. QED BY <1>2, <1>3, <2>1, <2>2 DEF PortsTypeOK
<1>5. HeadOK'
  BY <1>1, <1>3 DEF HeadOK, Working
<1>6. PortsOK'
  <2>1. \A q \in Pages : ~Open(q)'
    <3>1. \A q \in Pages \ {victim} : ~Open(q)
      BY <1>1, Jobs DEF PortsInv, PortsOK
    <3>. QED BY <1>2, <3>1 DEF Open
  <2>2. \A q \in Pages : stage'[q] \notin {"connecting", "granting", "undoing"}
    BY <1>3 DEF Working
  <2>3. \A q \in Pages : stage'[q] \in {"none", "sent", "waiting", "closing", "making"} =>
          mainEnd'[q] = "none" /\ farEnd'[q] = "none" /\ server'[q] = "none"
    BY <1>1, <1>2, <1>3 DEF PortsInv, PortsOK
  <2>4. \A q \in Pages : farEnd'[q] \in {"moving", "page", "dropped"} => stage'[q] \in {"undoing", "done"}
    BY <1>1, <1>3 DEF PortsInv, PortsOK
  <2>5. \A q \in Pages : server'[q] \notin {"starting", "running"}
    BY <2>1 DEF Open
  <2>. QED BY <2>1, <2>2, <2>3, <2>4, <2>5 DEF PortsOK
<1>7. WindowOK'
  <2>1. window \notin {"none", "closed"}
    BY <1>1 DEF PortsInv, WindowOK
  <2>. QED BY <1>1, <1>3, <2>1 DEF PortsInv, WindowOK
<1>8. PageOK'
  BY <1>3 DEF PortsInv, PageOK
<1>9. DocumentOK'
  <2>1. ASSUME NEW q \in Pages, Settled(q)', permits # <<>> /\ permits[Len(permits)] = q
        PROVE  permits' # <<>> /\ permits'[Len(permits')] = q
    BY <1>3, <2>1
  <2>2. ASSUME NEW q \in Pages, Settled(q)', stage[q] = "done", server[q] = "running"
        PROVE  server'[q] = "running"
    <3>1. Settled(q)
      BY <2>2 DEF Settled, Listening
    <3>2. permits = <<>>
      BY <2>2, <3>1 DEF PortsInv, DocumentOK
    <3>. QED BY <1>1, <3>2
  <2>. QED BY <1>1, <1>3, <2>1, <2>2, DocumentFrame DEF DocumentOK, Working
<1>. QED BY <1>3, <1>4, <1>5, <1>6, <1>7, <1>8, <1>9 DEF PortsInv

-----------------------------------------------------------------------------
(* Requests, and what pages do with their ports. *)

LEMMA AskKeeps ==
    ASSUME PortsInv, NEW p \in Pages, Ask(p)
    PROVE  PortsInv'
<1>. USE DEF Ask, portVars
<1>1. boot[p] = "loading" /\ stage[p] = "none"
  BY DEF PortsInv, PageOK
<1>2. /\ boot'[p] = "asking" /\ stage'[p] = "sent"
      /\ \A q \in Pages \ {p} : boot'[q] = boot[q] /\ stage'[q] = stage[q]
  BY DEF PortsInv, PortsTypeOK
<1>3. PortsTypeOK'
  BY DEF PortsInv, PortsTypeOK, Boots, Stages
<1>4. QueueOK'
  <2>1. \A i \in 1 .. Len(permits) : permits[i] # p
    BY <1>1 DEF PortsInv, QueueOK, Working
  <2>. QED BY <1>2, <2>1 DEF PortsInv, QueueOK, Holds, Working
<1>5. HeadOK'
  BY <1>1, <1>2 DEF PortsInv, HeadOK, QueueOK, Working, Holds
<1>6. PortsOK' /\ WindowOK'
  BY <1>1, <1>2 DEF PortsInv, PortsOK, WindowOK, Open
<1>7. PageOK'
  BY <1>1, <1>2 DEF PortsInv, PageOK
<1>8. DocumentOK'
  <2>. SUFFICES ASSUME NEW q \in Pages, Settled(q)'
                PROVE  /\ stage'[q] # "undoing"
                       /\ \A o \in 1 .. q - 1 : stage'[o] # "sent"
                       /\ stage'[q] = "done" => permits' = <<>>
                       /\ stage'[q] # "done" => permits' # <<>> /\ permits'[Len(permits')] = q
                       /\ q \in answered' /\ farEnd'[q] = "page" => server'[q] = "running"
    BY DEF DocumentOK
  <2>1. q # p /\ Settled(q) /\ stage'[q] = stage[q]
    BY <1>2 DEF Settled, Listening
  <2>2. q = document /\ \A o \in 1 .. q - 1 : o \in Pages /\ boot[o] = "gone"
    BY <2>1, MaxPagesAssumption DEF Settled, PortsInv, PageOK, Pages
  <2>3. \A o \in 1 .. q - 1 : stage'[o] # "sent"
    BY <1>1, <1>2, <2>1, <2>2 DEF PortsInv, DocumentOK
  <2>. QED BY <2>1, <2>3 DEF PortsInv, DocumentOK
<1>. QED BY <1>3, <1>4, <1>5, <1>6, <1>7, <1>8 DEF PortsInv

LEMMA RequestKeeps ==
    ASSUME PortsInv, NEW p \in Pages, RequestArrives(p)
    PROVE  PortsInv'
<1>. USE DEF pageVars, portVars
<1>1. /\ stage[p] = "sent" /\ \A q \in 1 .. p - 1 : stage[q] # "sent"
      /\ UNCHANGED <<window, alive, pageVars, current, victim, portVars>>
  BY DEF RequestArrives
<1>2. \A q \in Pages : Settled(q) /\ q # p => q < p /\ p > document
  BY <1>1, MaxPagesAssumption DEF Settled, PortsInv, DocumentOK, Pages
<1>3. \A q \in Pages : q # p => ~Settled(q)
  BY <1>1, <1>2 DEF PortsInv, PageOK
<1>4. CASE Admitted(p) /\ stage' = [stage EXCEPT ![p] = "waiting"] /\ permits' = Append(permits, p)
  <2>1. \A i \in 1 .. Len(permits) : permits[i] # WindowEnd
    BY <1>4 DEF Admitted, Listening, PortsInv, QueueOK
  <2>2. /\ QueueOK' /\ permits' \in Seq(0 .. WindowEnd) /\ permits' # <<>>
        /\ permits'[Len(permits')] = p
        /\ \A q \in Pages : Holds(q)' => Holds(q) \/ permits = <<>>
    BY <1>1, <1>4, <2>1, Jobs, QueueAfterAppend
  <2>3. stage'[p] = "waiting" /\ \A q \in Pages \ {p} : stage'[q] = stage[q]
    BY <1>4 DEF PortsInv, PortsTypeOK
  <2>4. PortsTypeOK'
    BY <1>1, <1>4, <2>2 DEF PortsInv, PortsTypeOK, Stages
  <2>5. HeadOK'
    <3>1. ~Holds(p)
      BY <1>1, First DEF PortsInv, QueueOK, Working
    <3>. QED BY <1>1, <2>2, <2>3, <3>1 DEF PortsInv, HeadOK
  <2>6. PortsOK' /\ PageOK'
    BY <1>1, <2>3 DEF PortsInv, PortsOK, PageOK, Open
  <2>7. WindowOK'
    BY <1>1, <1>4 DEF Admitted, Listening, PortsInv, WindowOK
  <2>8. DocumentOK'
    <3>1. \A q \in Pages : Settled(q)' => q = p
      BY <1>1, <1>3, <2>3 DEF Settled, Listening
    <3>2. p \notin answered
      BY <1>1 DEF PortsInv, PageOK, PortsOK
    <3>3. \A q \in 1 .. p - 1 : q \in Pages /\ q # p
      BY MaxPagesAssumption DEF Pages
    <3>. QED BY <1>1, <2>2, <2>3, <3>1, <3>2, <3>3 DEF DocumentOK
  <2>. QED BY <2>2, <2>4, <2>5, <2>6, <2>7, <2>8 DEF PortsInv
<1>5. CASE (~Admitted(p) \/ boot[p] = "gone") /\ stage' = [stage EXCEPT ![p] = "done"] /\ permits' = permits
  <2>1. stage'[p] = "done" /\ \A q \in Pages \ {p} : stage'[q] = stage[q]
    BY <1>5 DEF PortsInv, PortsTypeOK
  <2>2. PortsTypeOK'
    BY <1>1, <1>5 DEF PortsInv, PortsTypeOK, Stages
  <2>3. QueueOK'
    <3>1. \A i \in 1 .. Len(permits) : permits[i] # p
      BY <1>1 DEF PortsInv, QueueOK, Working
    <3>. QED BY <1>1, <1>5, <2>1, <3>1 DEF PortsInv, QueueOK, Holds, Working
  <2>4. HeadOK'
    BY <1>1, <1>5, <2>1 DEF PortsInv, HeadOK, QueueOK, Working, Holds
  <2>5. PortsOK' /\ WindowOK' /\ PageOK'
    BY <1>1, <1>5, <2>1 DEF PortsInv, PortsOK, WindowOK, PageOK, Open
  <2>6. DocumentOK'
    <3>1. \A q \in Pages : Settled(q)' => q = p
      BY <1>1, <1>3, <2>1 DEF Settled, Listening
    <3>2. ~Settled(p)'
      BY <1>1, <1>5 DEF Settled, Listening, Admitted, PortsInv, PageOK
    <3>. QED BY <3>1, <3>2 DEF DocumentOK
  <2>. QED BY <2>2, <2>3, <2>4, <2>5, <2>6 DEF PortsInv
<1>. QED BY <1>4, <1>5 DEF RequestArrives

\* A page takes its port, lets go of it, or shows what it heard.
LEMMA PageKeeps ==
    ASSUME PortsInv, NEW p \in Pages,
           Deliver(p) \/ Collect(p) \/ FirstSnapshot(p) \/ BootTimesOut(p) \/ SyncFails(p)
    PROVE  PortsInv'
<1>. USE DEF BootTimesOut, SyncFails, BootEnds, pageVars, brokerVars, portVars
<1>1. UNCHANGED <<window, alive, document, navigating, deserted, answered, brokerVars, mainEnd, server>>
  BY DEF Deliver, Collect, FirstSnapshot
<1>2. PortsTypeOK'
  BY <1>1 DEF Deliver, Collect, FirstSnapshot, PortsInv, PortsTypeOK, Boots
<1>3. /\ \A q \in Pages \ {p} : boot'[q] = boot[q] /\ farEnd'[q] = farEnd[q]
      /\ \/ /\ boot'[p] = boot[p]
            /\ farEnd[p] \in {"moving", "dropped"} /\ farEnd'[p] \in {"dropped", "closed"}
         \/ /\ boot[p] = "asking" /\ boot'[p] = "syncing"
            /\ farEnd[p] = "moving" /\ farEnd'[p] = "page" /\ document = p
         \/ /\ boot[p] = "syncing" /\ boot'[p] = "mounted" /\ p \in answered /\ farEnd'[p] = farEnd[p]
         \/ /\ boot[p] \in {"asking", "syncing", "mounted"} /\ boot'[p] = "failed"
            /\ farEnd'[p] = IF farEnd[p] = "page" THEN "closed" ELSE farEnd[p]
  BY DEF Deliver, Collect, FirstSnapshot, TakesGrant, PortsInv, PortsTypeOK
<1>4. QueueOK' /\ HeadOK' /\ WindowOK'
  BY <1>1 DEF PortsInv, QueueOK, HeadOK, WindowOK, Holds
<1>5. PortsOK'
  <2>1. \A q \in Pages : /\ farEnd[q] \in {"none", "main"} => farEnd'[q] = farEnd[q]
                         /\ farEnd'[q] \in {"moving", "page", "dropped"} =>
                               farEnd[q] \in {"moving", "page", "dropped"}
    BY <1>3
  <2>. QED BY <1>1, <2>1 DEF PortsInv, PortsOK, Open
<1>6. PageOK'
  BY <1>1, <1>3 DEF PortsInv, PageOK, PortsOK
<1>7. DocumentOK'
  <2>1. \A q \in Pages : q \in answered /\ farEnd'[q] = "page" => farEnd[q] = "page"
    BY <1>3 DEF PortsInv, PageOK
  <2>2. \A q \in Pages : Settled(q)' => Settled(q)
    BY <1>1 DEF Settled, Listening
  <2>. QED BY <1>1, <2>1, <2>2 DEF PortsInv, DocumentOK
<1>. QED BY <1>2, <1>4, <1>5, <1>6, <1>7 DEF PortsInv

\* The RPC server of a port.
LEMMA ServerKeeps ==
    ASSUME PortsInv, NEW p \in Pages,
           ServerStarts(p) \/ ServerFails(p) \/ ServerAnswers(p) \/ RemoteClosed(p)
    PROVE  PortsInv'
<1>. USE DEF EndScope, pageVars, brokerVars, portVars
<1>1. UNCHANGED <<window, alive, document, navigating, deserted, boot, brokerVars, farEnd>>
  BY DEF ServerStarts, ServerFails, ServerAnswers, RemoteClosed
<1>2. PortsTypeOK'
  BY <1>1 DEF ServerStarts, ServerFails, ServerAnswers, RemoteClosed, PortsInv, PortsTypeOK
<1>3. /\ \A q \in Pages \ {p} : mainEnd'[q] = mainEnd[q] /\ server'[q] = server[q]
      /\ \A q \in Pages \ {p} : q \in answered' <=> q \in answered
      /\ p \in answered => p \in answered'
      /\ server[p] \in {"starting", "running"} /\ server'[p] # "none"
      /\ p \in answered' /\ p \notin answered => farEnd[p] = "page" /\ server'[p] = "running"
      /\ server'[p] \in {"starting", "running"} => mainEnd'[p] = mainEnd[p]
      /\ server'[p] \notin {"starting", "running"} => mainEnd'[p] = "closed"
      /\ server[p] = "running" /\ farEnd[p] = "page" => server'[p] = "running"
  BY DEF ServerStarts, ServerFails, ServerAnswers, RemoteClosed, PortsInv, PortsTypeOK, PortsOK
<1>4. QueueOK' /\ HeadOK' /\ WindowOK'
  BY <1>1 DEF PortsInv, QueueOK, HeadOK, WindowOK, Holds
<1>5. PortsOK'
  BY <1>1, <1>3 DEF PortsInv, PortsOK, Open
<1>6. PageOK'
  BY <1>1, <1>3 DEF PortsInv, PageOK
<1>7. DocumentOK'
  <2>1. \A q \in Pages : Settled(q)' => Settled(q)
    BY <1>1 DEF Settled, Listening
  <2>. QED BY <1>1, <1>3, <2>1 DEF PortsInv, DocumentOK
<1>. QED BY <1>2, <1>4, <1>5, <1>6, <1>7 DEF PortsInv

-----------------------------------------------------------------------------
(* Jobs that leave the queue. *)

\* A set of numbers has a least one: induction, without an operator as its
\* parameter.
LEMMA Least ==
    ASSUME NEW T \in SUBSET Nat, T # {}
    PROVE  \E n \in T : \A m \in T : n <= m
<1>1. \A m, n \in Nat : m < n => <<m, n>> \in OpToRel(<, Nat)
  <2>1. ASSUME NEW m \in Nat, NEW n \in Nat, m < n PROVE <<m, n>> \in {ss \in Nat \X Nat : ss[1] < ss[2]}
    BY <2>1
  <2>2. OpToRel(<, Nat) = {ss \in Nat \X Nat : ss[1] < ss[2]}
    BY DEF OpToRel
  <2>. QED BY <2>1, <2>2
<1>2. PICK n \in T : \A m \in T : ~(<<m, n>> \in OpToRel(<, Nat))
  BY NatLessThanWellFounded, WFMin
<1>3. \A m \in T : ~(m < n)
  BY <1>1, <1>2
<1>. QED BY <1>3

\* What is left of the first n jobs, given what is left of fewer.
Next1(jobs, gone, f, n) ==
    IF n = 0 THEN <<>> ELSE IF jobs[n] \in gone THEN f[n - 1] ELSE Append(f[n - 1], jobs[n])

IsLeft(jobs, gone, f, m) == f = [n \in 0 .. m |-> Next1(jobs, gone, f, n)]

\* The recursive function of Without exists.
LEMMA LeftExists ==
    ASSUME NEW jobs, NEW gone
    PROVE  \A m \in Nat : \E f : IsLeft(jobs, gone, f, m)
<1>. DEFINE T == {m \in Nat : ~\E f : IsLeft(jobs, gone, f, m)}
<1>. SUFFICES ASSUME T # {} PROVE FALSE
  OBVIOUS
<1>1. T \in SUBSET Nat
  OBVIOUS
<1>2. PICK m \in T : \A k \in T : m <= k
  <2>. HIDE DEF T
  <2>. QED BY <1>1, Least
<1>3. m \in Nat /\ ~\E f : IsLeft(jobs, gone, f, m)
  OBVIOUS
<1>4. CASE m = 0
  <2>. DEFINE g == [n \in 0 .. 0 |-> <<>>]
  <2>1. g = [n \in 0 .. 0 |-> Next1(jobs, gone, g, n)]
    BY DEF Next1
  <2>. QED BY <1>3, <1>4, <2>1 DEF IsLeft
<1>5. CASE m # 0
  <2>1. m - 1 \in Nat /\ m - 1 \notin T
    BY <1>2, <1>3, <1>5
  <2>2. PICK f : IsLeft(jobs, gone, f, m - 1)
    BY <2>1
  <2>. DEFINE g == [n \in 0 .. m |-> IF n = m THEN Next1(jobs, gone, f, m) ELSE f[n]]
  <2>3. \A n \in 0 .. m - 1 : f[n] = Next1(jobs, gone, f, n) /\ g[n] = f[n]
    BY <2>2, <1>3 DEF IsLeft
  <2>4. ASSUME NEW n \in 0 .. m PROVE g[n] = Next1(jobs, gone, g, n)
    <3>1. n # 0 => n - 1 \in 0 .. m - 1 /\ g[n - 1] = f[n - 1]
      BY <1>3, <2>3
    <3>2. Next1(jobs, gone, g, n) = Next1(jobs, gone, f, n)
      <4>. HIDE DEF g
      <4>. QED BY <3>1 DEF Next1
    <3>3. n # m => n \in 0 .. m - 1
      BY <1>3
    <3>. QED BY <2>3, <3>2, <3>3
  <2>5. g = [n \in 0 .. m |-> g[n]]
    OBVIOUS
  <2>6. g = [n \in 0 .. m |-> Next1(jobs, gone, g, n)]
    <3>. HIDE DEF g
    <3>. QED BY <2>4, <2>5
  <2>. QED BY <1>3, <2>6 DEF IsLeft
<1>. QED BY <1>4, <1>5

\* What stays is a queue; its head, if it was not the head before, was behind it.
Left(S, jobs, gone, s, n) ==
    /\ s \in Seq(S)
    /\ \A i \in 1 .. Len(s) :
          /\ s[i] \notin gone
          /\ \E j \in 1 .. n : s[i] = jobs[j] /\ (i # 1 => j # 1)
    /\ n >= 1 /\ jobs[1] \notin gone => s # <<>> /\ s[1] = jobs[1]

\* Another job that stays, or one that goes.
LEMMA LeftNext ==
    ASSUME NEW S, NEW jobs \in Seq(S), NEW gone, NEW s, NEW r,
           NEW n \in 1 .. Len(jobs), Left(S, jobs, gone, s, n - 1),
           n = 1 => s = <<>>,
           r = IF jobs[n] \in gone THEN s ELSE Append(s, jobs[n])
    PROVE  Left(S, jobs, gone, r, n)
<1>1. jobs[n] \in S /\ n \in Nat /\ n >= 1 /\ Len(jobs) \in Nat
  BY ElementOfSeq, LenProperties
<1>2. CASE jobs[n] \in gone
  <2>1. \A j \in 1 .. n - 1 : j \in 1 .. n
    BY <1>1
  <2>2. n >= 1 /\ jobs[1] \notin gone => n - 1 >= 1
    BY <1>1, <1>2
  <2>. QED BY <1>2, <2>1, <2>2 DEF Left
<1>3. CASE jobs[n] \notin gone
  <2>1. r = Append(s, jobs[n])
    BY <1>3
  <2>2. /\ r \in Seq(S) /\ r # <<>>
        /\ Len(s) \in Nat /\ Len(r) = Len(s) + 1
        /\ \A i \in 1 .. Len(s) : r[i] = s[i]
        /\ r[Len(s) + 1] = jobs[n]
    BY <1>1, <2>1, AppendProperties, LenProperties DEF Left
  <2>3. ASSUME NEW i \in 1 .. Len(r)
        PROVE  r[i] \notin gone /\ \E j \in 1 .. n : r[i] = jobs[j] /\ (i # 1 => j # 1)
    <3>1. i \in 1 .. Len(s) \/ i = Len(s) + 1
      BY <2>2
    <3>2. CASE i \in 1 .. Len(s)
      <4>1. s[i] \notin gone /\ \E j \in 1 .. n - 1 : s[i] = jobs[j] /\ (i # 1 => j # 1)
        BY <3>2 DEF Left
      <4>2. \A j \in 1 .. n - 1 : j \in 1 .. n
        BY <1>1
      <4>. QED BY <2>2, <3>2, <4>1, <4>2
    <3>3. CASE i = Len(s) + 1
      <4>1. n = 1 => Len(s) = 0
        BY EmptySeq
      <4>2. i # 1 => n # 1
        BY <2>2, <3>3, <4>1
      <4>3. n \in 1 .. n
        BY <1>1
      <4>. QED BY <1>3, <2>2, <3>3, <4>2, <4>3
    <3>. QED BY <3>1, <3>2, <3>3
  <2>4. jobs[1] \notin gone => r[1] = jobs[1]
    <3>1. CASE n = 1
      <4>1. Len(s) = 0
        BY <3>1, EmptySeq
      <4>. QED BY <2>2, <3>1, <4>1
    <3>2. CASE n # 1
      <4>1. n - 1 >= 1
        BY <1>1, <3>2
      <4>2. jobs[1] \notin gone => s # <<>> /\ s[1] = jobs[1] /\ s \in Seq(S)
        BY <4>1 DEF Left
      <4>3. jobs[1] \notin gone => Len(s) >= 1
        BY <2>2, <4>2, EmptySeq
      <4>. QED BY <2>2, <4>2, <4>3
    <3>. QED BY <3>1, <3>2
  <2>. QED BY <2>2, <2>3, <2>4 DEF Left
<1>. QED BY <1>2, <1>3

\* Without, step by step.
LEMMA WithoutSteps ==
    ASSUME NEW jobs, NEW gone, Len(jobs) \in Nat
    PROVE  \E left :
              /\ left[0] = <<>>
              /\ \A n \in 1 .. Len(jobs) :
                    left[n] = IF jobs[n] \in gone THEN left[n - 1] ELSE Append(left[n - 1], jobs[n])
              /\ Without(jobs, gone) = left[Len(jobs)]
<1>. DEFINE left == CHOOSE f : IsLeft(jobs, gone, f, Len(jobs))
<1>1. IsLeft(jobs, gone, left, Len(jobs))
  BY LeftExists
<1>2. Without(jobs, gone) = left[Len(jobs)]
  BY DEF Without, IsLeft, Next1
<1>. HIDE DEF left
<1>3. \A n \in 0 .. Len(jobs) : left[n] = Next1(jobs, gone, left, n)
  BY <1>1 DEF IsLeft
<1>4. left[0] = <<>>
  BY <1>3 DEF Next1
<1>5. \A n \in 1 .. Len(jobs) :
         left[n] = IF jobs[n] \in gone THEN left[n - 1] ELSE Append(left[n - 1], jobs[n])
  <2>. TAKE n \in 1 .. Len(jobs)
  <2>1. n \in 0 .. Len(jobs) /\ n # 0
    OBVIOUS
  <2>. QED BY <1>3, <2>1 DEF Next1
<1>. QED BY <1>2, <1>4, <1>5

\* What stays is in its order, and the first stays the first.
LEMMA Stays ==
    ASSUME NEW S, NEW jobs \in Seq(S), NEW gone
    PROVE  /\ Without(jobs, gone) \in Seq(S)
           /\ \A i \in 1 .. Len(Without(jobs, gone)) :
                 /\ Without(jobs, gone)[i] \notin gone
                 /\ \E j \in 1 .. Len(jobs) : Without(jobs, gone)[i] = jobs[j] /\ (i # 1 => j # 1)
           /\ jobs # <<>> /\ jobs[1] \notin gone =>
                 Without(jobs, gone) # <<>> /\ Without(jobs, gone)[1] = jobs[1]
<1>1. Len(jobs) \in Nat
  BY LenProperties
<1>2. PICK left :
         /\ left[0] = <<>>
         /\ \A n \in 1 .. Len(jobs) :
               left[n] = IF jobs[n] \in gone THEN left[n - 1] ELSE Append(left[n - 1], jobs[n])
         /\ Without(jobs, gone) = left[Len(jobs)]
  BY <1>1, WithoutSteps
<1>3. \A n \in 0 .. Len(jobs) : Left(S, jobs, gone, left[n], n)
  <2>. DEFINE T == {n \in 0 .. Len(jobs) : ~Left(S, jobs, gone, left[n], n)}
  <2>. SUFFICES ASSUME T # {} PROVE FALSE
    OBVIOUS
  <2>1. T \in SUBSET Nat
    BY <1>1
  <2>2. PICK n \in T : \A k \in T : n <= k
    <3>. HIDE DEF T
    <3>. QED BY <2>1, Least
  <2>3. n \in 0 .. Len(jobs) /\ ~Left(S, jobs, gone, left[n], n)
    OBVIOUS
  <2>4. CASE n = 0
    <3>1. left[n] \in Seq(S) /\ Len(left[n]) = 0
      BY <1>2, <2>4, EmptySeq
    <3>. QED BY <2>3, <2>4, <3>1 DEF Left
  <2>5. CASE n # 0
    <3>1. n \in 1 .. Len(jobs) /\ n - 1 \in 0 .. Len(jobs) /\ n - 1 \notin T
      BY <1>1, <2>2, <2>3, <2>5
    <3>2. Left(S, jobs, gone, left[n - 1], n - 1)
      BY <3>1
    <3>3. n = 1 => left[n - 1] = <<>>
      BY <1>2
    <3>4. Left(S, jobs, gone, left[n], n)
      <4>1. left[n] = IF jobs[n] \in gone THEN left[n - 1] ELSE Append(left[n - 1], jobs[n])
        BY <1>2, <3>1
      <4>. QED BY <3>1, <3>2, <3>3, <4>1, LeftNext
    <3>. QED BY <2>3, <3>4
  <2>. QED BY <2>4, <2>5
<1>4. Left(S, jobs, gone, Without(jobs, gone), Len(jobs))
  BY <1>1, <1>2, <1>3
<1>5. jobs # <<>> => Len(jobs) >= 1
  BY <1>1, EmptySeq
<1>. QED BY <1>4, <1>5 DEF Left

\* The queue s is what is left of the first n jobs when the first k of all left.
Behind(S, jobs, k, s, n) ==
    /\ s \in Seq(S) /\ Len(s) = IF n <= k THEN 0 ELSE n - k
    /\ \A i \in 1 .. Len(s) : s[i] = jobs[k + i]

\* One of the first k, which goes, or one behind them.
LEMMA BehindNext ==
    ASSUME NEW S, NEW jobs \in Seq(S), NEW k \in Nat, NEW s, NEW r,
           NEW n \in 1 .. Len(jobs), Behind(S, jobs, k, s, n - 1),
           r = IF n <= k THEN s ELSE Append(s, jobs[n])
    PROVE  Behind(S, jobs, k, r, n)
<1>1. jobs[n] \in S /\ n \in Nat /\ n >= 1
  BY ElementOfSeq, LenProperties
<1>2. CASE n <= k
  BY <1>1, <1>2 DEF Behind
<1>3. CASE ~(n <= k)
  <2>1. s \in Seq(S) /\ Len(s) = n - 1 - k /\ r = Append(s, jobs[n])
    BY <1>1, <1>3 DEF Behind
  <2>2. /\ r \in Seq(S) /\ Len(r) = n - k
        /\ \A i \in 1 .. n - 1 - k : r[i] = s[i]
        /\ r[n - k] = jobs[n]
    <3>1. n - 1 - k + 1 = n - k
      BY <1>1
    <3>. QED BY <1>1, <2>1, <3>1, AppendProperties
  <2>3. ASSUME NEW i \in 1 .. n - k PROVE r[i] = jobs[k + i]
    <3>1. CASE i = n - k
      <4>1. k + i = n
        BY <1>1, <3>1
      <4>. QED BY <2>2, <3>1, <4>1
    <3>2. CASE i # n - k
      <4>1. i \in 1 .. n - 1 - k
        BY <1>1, <3>2
      <4>. QED BY <2>1, <2>2, <4>1 DEF Behind
    <3>. QED BY <3>1, <3>2
  <2>. QED BY <1>3, <2>2, <2>3 DEF Behind
<1>. QED BY <1>2, <1>3

\* The first k leave: the others move up.
LEMMA FrontLeaves ==
    ASSUME NEW S, NEW jobs \in Seq(S), NEW gone, NEW k \in 0 .. Len(jobs),
           \A i \in 1 .. Len(jobs) : jobs[i] \in gone <=> i <= k
    PROVE  /\ Without(jobs, gone) \in Seq(S)
           /\ Len(Without(jobs, gone)) = Len(jobs) - k
           /\ \A i \in 1 .. Len(jobs) - k : Without(jobs, gone)[i] = jobs[k + i]
<1>1. Len(jobs) \in Nat /\ k \in Nat
  BY LenProperties
<1>2. PICK left :
         /\ left[0] = <<>>
         /\ \A n \in 1 .. Len(jobs) :
               left[n] = IF jobs[n] \in gone THEN left[n - 1] ELSE Append(left[n - 1], jobs[n])
         /\ Without(jobs, gone) = left[Len(jobs)]
  BY <1>1, WithoutSteps
<1>3. \A n \in 0 .. Len(jobs) : Behind(S, jobs, k, left[n], n)
  <2>. DEFINE T == {n \in 0 .. Len(jobs) : ~Behind(S, jobs, k, left[n], n)}
  <2>. SUFFICES ASSUME T # {} PROVE FALSE
    OBVIOUS
  <2>1. T \in SUBSET Nat
    BY <1>1
  <2>2. PICK n \in T : \A m \in T : n <= m
    <3>. HIDE DEF T
    <3>. QED BY <2>1, Least
  <2>3. n \in 0 .. Len(jobs) /\ ~Behind(S, jobs, k, left[n], n)
    OBVIOUS
  <2>4. CASE n = 0
    <3>1. left[n] \in Seq(S) /\ Len(left[n]) = 0
      BY <1>2, <2>4, EmptySeq
    <3>2. n <= k
      BY <1>1, <2>4
    <3>. QED BY <2>3, <3>1, <3>2 DEF Behind
  <2>5. CASE n # 0
    <3>1. n \in 1 .. Len(jobs) /\ n - 1 \in 0 .. Len(jobs) /\ n - 1 \notin T
      BY <1>1, <2>2, <2>3, <2>5
    <3>2. Behind(S, jobs, k, left[n - 1], n - 1)
      BY <3>1
    <3>3. left[n] = IF n <= k THEN left[n - 1] ELSE Append(left[n - 1], jobs[n])
      BY <1>2, <3>1
    <3>4. Behind(S, jobs, k, left[n], n)
      BY <1>1, <3>1, <3>2, <3>3, BehindNext
    <3>. QED BY <2>3, <3>4
  <2>. QED BY <2>4, <2>5
<1>4. Behind(S, jobs, k, Without(jobs, gone), Len(jobs))
  BY <1>1, <1>2, <1>3
<1>5. (IF Len(jobs) <= k THEN 0 ELSE Len(jobs) - k) = Len(jobs) - k
  BY <1>1
<1>. QED BY <1>4, <1>5 DEF Behind

-----------------------------------------------------------------------------
(* Navigations and the end of the window. *)

\* Requests that wait leave the queue: whoever is at work stays at its head.
LEMMA StopIpcKeeps ==
    ASSUME PortsInv, StopIpc
    PROVE  PortsInv'
<1>. USE DEF StopIpc, pageVars, portVars
<1>. DEFINE gone == {p \in Pages : stage[p] = "waiting"}
<1>1. /\ permits' \in Seq(0 .. WindowEnd)
      /\ \A i \in 1 .. Len(permits') :
            /\ permits'[i] \notin gone
            /\ \E j \in 1 .. Len(permits) : permits'[i] = permits[j] /\ (i # 1 => j # 1)
      /\ permits # <<>> /\ permits[1] \notin gone => permits' # <<>> /\ permits'[1] = permits[1]
  <2>1. permits \in Seq(0 .. WindowEnd) /\ permits' = Without(permits, gone)
    BY First
  <2>. HIDE DEF gone, StopIpc
  <2>. QED BY <2>1, Stays
<1>2. \A p \in Pages : /\ stage[p] = "waiting" => stage'[p] = "done"
                       /\ stage[p] # "waiting" => stage'[p] = stage[p]
  BY DEF PortsInv, PortsTypeOK
<1>3. \A i \in 1 .. Len(permits') : permits'[i] # WindowEnd
  BY <1>1 DEF PortsInv, QueueOK
<1>4. ASSUME NEW i \in 1 .. Len(permits'), permits'[i] \in Pages
      PROVE  i = 1 /\ permits[1] = permits'[i] /\ stage'[permits'[i]] \in Working
  <2>1. PICK j \in 1 .. Len(permits) : permits'[i] = permits[j] /\ (i # 1 => j # 1)
    BY <1>1
  <2>2. stage[permits[j]] # "waiting"
    BY <1>1, <1>4, <2>1
  <2>3. j = 1 /\ stage[permits[j]] \in Working
    BY <1>4, <2>1, <2>2 DEF PortsInv, QueueOK
  <2>. QED BY <1>2, <1>4, <2>1, <2>2, <2>3
<1>5. permits' # <<>> => 1 \in 1 .. Len(permits') /\ Head(permits') = permits'[1]
  <2>1. Len(permits') \in Nat /\ (permits' # <<>> => Len(permits') # 0)
    BY <1>1, LenProperties, EmptySeq
  <2>2. permits' # <<>> => Head(permits') = permits'[1]
    BY <1>1, HeadTailProperties
  <2>. QED BY <2>1, <2>2
<1>6. PortsTypeOK'
  BY <1>1, <1>2 DEF PortsInv, PortsTypeOK, Stages, Windows
<1>7. QueueOK'
  <2>1. ASSUME NEW p \in Pages, stage'[p] \in Working PROVE Holds(p)'
    <3>1. stage[p] \in Working
      BY <1>2, <2>1 DEF Working
    <3>2. permits # <<>> /\ permits[1] = p /\ stage[p] # "waiting"
      BY <3>1, AtWork DEF Working
    <3>. QED BY <1>1, <1>5, <3>2 DEF Holds
  <2>. QED BY <1>3, <1>4, <2>1 DEF QueueOK
<1>8. HeadOK'
  <2>1. victim # 0 => permits # <<>> /\ permits[1] \notin gone
    <3>1. ASSUME victim # 0, permits # <<>>, permits[1] \in gone PROVE FALSE
      BY <3>1, First DEF PortsInv, HeadOK
    <3>. QED BY <3>1 DEF PortsInv, HeadOK
  <2>2. ASSUME victim # 0, NEW p \in Pages, Holds(p)' PROVE stage'[p] = "closing"
    <3>1. permits'[1] = p /\ 1 \in 1 .. Len(permits')
      BY <1>5, <2>2 DEF Holds
    <3>2. permits[1] = p
      BY <1>4, <3>1
    <3>3. stage[p] = "closing"
      BY <2>1, <2>2, <3>2, First DEF PortsInv, HeadOK
    <3>. QED BY <1>2, <3>3
  <2>3. \A p \in Pages : stage'[p] # stage[p] => stage'[p] = "done"
    BY <1>2
  <2>. QED BY <1>1, <2>1, <2>2, <2>3 DEF PortsInv, HeadOK
<1>9. PortsOK' /\ WindowOK' /\ PageOK'
  BY <1>2 DEF PortsInv, PortsOK, WindowOK, PageOK, Open
<1>10. DocumentOK'
  BY DEF DocumentOK, Settled, Listening
<1>. QED BY <1>6, <1>7, <1>8, <1>9, <1>10 DEF PortsInv

\* Nothing but the queue's end and the window's stage changes.
LEMMA ClosingQueued ==
    ASSUME PortsInv, NEW j \in {Navigation, WindowEnd}, permits' = Append(permits, j),
           j = WindowEnd => window' = "drained",
           \A i \in 1 .. Len(permits) : permits[i] # WindowEnd,
           UNCHANGED <<stage, current, victim>>
    PROVE  /\ permits' \in Seq(0 .. WindowEnd) /\ permits' # <<>> /\ permits'[Len(permits')] = j
           /\ QueueOK' /\ HeadOK'
           /\ \A i \in 1 .. Len(permits') : permits'[i] = j \/ \E k \in 1 .. Len(permits) : permits'[i] = permits[k]
<1>1. j \in 0 .. WindowEnd /\ j \notin Pages
  BY Jobs
<1>2. /\ permits' \in Seq(0 .. WindowEnd) /\ permits' # <<>> /\ permits'[Len(permits')] = j
      /\ QueueOK'
      /\ \A q \in Pages : Holds(q)' => Holds(q) \/ permits = <<>>
      /\ \A i \in 1 .. Len(permits') : permits'[i] = j \/ \E k \in 1 .. Len(permits) : permits'[i] = permits[k]
  BY <1>1, QueueAfterAppend
<1>3. HeadOK'
  BY <1>2 DEF PortsInv, HeadOK
<1>. QED BY <1>2, <1>3

LEMMA NavigationStartsKeeps ==
    ASSUME PortsInv, NavigationStarts
    PROVE  PortsInv'
<1>. USE DEF NavigationStarts, portVars
<1>1. permits' \in Seq(0 .. WindowEnd) /\ QueueOK' /\ HeadOK'
  <2>1. CASE Active
    <3>1. \A i \in 1 .. Len(permits) : permits[i] # WindowEnd
      BY <2>1 DEF Active, PortsInv, QueueOK
    <3>2. Navigation # WindowEnd
      BY Jobs
    <3>. QED BY <2>1, <3>1, <3>2, ClosingQueued
  <2>2. CASE ~Active
    BY <2>2 DEF PortsInv, PortsTypeOK, QueueOK, HeadOK, Holds
  <2>. QED BY <2>1, <2>2
<1>2. PortsTypeOK'
  BY <1>1 DEF PortsInv, PortsTypeOK
<1>3. PortsOK' /\ PageOK'
  BY DEF PortsInv, PortsOK, PageOK, Open
<1>4. WindowOK'
  BY DEF Active, PortsInv, WindowOK
<1>5. DocumentOK'
  BY DEF DocumentOK, Settled
<1>. QED BY <1>1, <1>2, <1>3, <1>4, <1>5 DEF PortsInv

\* The page in the window goes, with the ports that it held.
LEMMA UnloadKeeps ==
    ASSUME PortsInv, UNCHANGED <<answered, deserted, brokerVars, mainEnd, server>>,
           farEnd' = FarEndsWithout(document),
           window' \in Windows,
           \A i \in 1 .. Len(permits) : permits[i] = WindowEnd => window' = window
    PROVE  /\ QueueOK' /\ HeadOK' /\ PortsOK'
           /\ farEnd' \in [Pages -> {"none", "main", "moving", "page", "dropped", "closed"}]
           /\ \A p \in Pages : p \in answered => farEnd'[p] \in {"page", "closed"}
           /\ \A p \in Pages : p # document /\ farEnd[p] = "page" => farEnd'[p] = "page"
<1>. USE DEF brokerVars
<1>1. \A p \in Pages : farEnd'[p] = IF farEnd[p] = "dropped" \/ (p = document /\ farEnd[p] = "page")
                                    THEN "closed" ELSE farEnd[p]
  BY DEF FarEndsWithout
<1>2. farEnd' \in [Pages -> {"none", "main", "moving", "page", "dropped", "closed"}]
  BY DEF FarEndsWithout, PortsInv, PortsTypeOK
<1>3. QueueOK' /\ HeadOK'
  BY DEF PortsInv, QueueOK, HeadOK, Holds
<1>4. PortsOK'
  BY <1>1 DEF PortsInv, PortsOK, Open
<1>5. \A p \in Pages : p \in answered => farEnd'[p] \in {"page", "closed"}
  BY <1>1 DEF PortsInv, PageOK
<1>. QED BY <1>1, <1>2, <1>3, <1>4, <1>5

LEMMA NavigationCommitsKeeps ==
    ASSUME PortsInv, NavigationCommits
    PROVE  PortsInv'
<1>. USE DEF NavigationCommits
<1>1. /\ QueueOK' /\ HeadOK' /\ PortsOK'
      /\ farEnd' \in [Pages -> {"none", "main", "moving", "page", "dropped", "closed"}]
      /\ \A p \in Pages : p \in answered => farEnd'[p] \in {"page", "closed"}
      /\ \A p \in Pages : p # document /\ farEnd[p] = "page" => farEnd'[p] = "page"
  <2>1. window' \in Windows
    BY DEF PortsInv, PortsTypeOK
  <2>. QED BY <2>1, UnloadKeeps
<1>2. /\ document \in Nat /\ document' = document + 1 /\ document < MaxPages /\ alive
      /\ MaxPages \in Nat /\ Pages \subseteq Nat
  BY Jobs DEF PortsInv, PortsTypeOK, WindowOK
<1>3. \A p \in Pages : boot'[p] = IF p = document THEN "gone"
                                  ELSE IF p = document + 1 THEN "loading" ELSE boot[p]
  OBVIOUS
<1>4. PortsTypeOK'
  <2>1. boot' \in [Pages -> Boots]
    BY DEF PortsInv, PortsTypeOK, Boots
  <2>2. document' \in 0 .. MaxPages
    BY <1>2
  <2>. QED BY <1>1, <2>1, <2>2 DEF PortsInv, PortsTypeOK, brokerVars
<1>5. WindowOK'
  BY <1>2 DEF PortsInv, WindowOK, brokerVars
<1>6. PageOK'
  <2>. SUFFICES ASSUME NEW p \in Pages
                PROVE  /\ p > document' => boot'[p] = "none" /\ stage'[p] = "none"
                       /\ p < document' => boot'[p] = "gone"
                       /\ p = document' /\ alive' => boot'[p] # "gone"
                       /\ boot'[p] = "loading" => stage'[p] = "none"
                       /\ boot'[p] \in {"syncing", "mounted"} => farEnd'[p] = "page"
                       /\ boot'[p] = "mounted" => p \in answered'
                       /\ p \in answered' => farEnd'[p] \in {"page", "closed"}
    BY DEF PageOK
  <2>1. p \in Nat
    BY <1>2
  <2>2. CASE p > document + 1
    BY <1>1, <1>2, <1>3, <2>1, <2>2 DEF PortsInv, PageOK, brokerVars
  <2>3. CASE p = document + 1
    BY <1>1, <1>2, <1>3, <2>1, <2>3 DEF PortsInv, PageOK, brokerVars
  <2>4. CASE p < document + 1
    <3>1. boot'[p] = "gone"
      BY <1>2, <1>3, <2>1, <2>4 DEF PortsInv, PageOK
    <3>. QED BY <1>1, <1>2, <2>1, <2>4, <3>1
  <2>. QED BY <1>2, <2>1, <2>2, <2>3, <2>4
<1>7. DocumentOK'
  <2>1. \A p \in Pages : p = document + 1 => stage[p] = "none"
    BY <1>2 DEF PortsInv, PageOK
  <2>. QED BY <1>2, <2>1 DEF DocumentOK, Settled, brokerVars
<1>. QED BY <1>1, <1>4, <1>5, <1>6, <1>7 DEF PortsInv

LEMMA NavigationPreventedKeeps ==
    ASSUME PortsInv, NavigationPrevented
    PROVE  PortsInv'
<1>. USE DEF NavigationPrevented, brokerVars, portVars
<1>1. PortsTypeOK'
  <2>1. document \in Pages
    BY MaxPagesAssumption DEF PortsInv, PortsTypeOK, Pages
  <2>. QED BY <2>1 DEF PortsInv, PortsTypeOK
<1>2. QueueOK' /\ HeadOK' /\ PortsOK'
  BY DEF PortsInv, QueueOK, HeadOK, PortsOK, Holds, Open
<1>3. WindowOK' /\ PageOK'
  BY DEF PortsInv, WindowOK, PageOK
<1>4. DocumentOK'
  BY DEF DocumentOK, Settled
<1>. QED BY <1>1, <1>2, <1>3, <1>4 DEF PortsInv

\* The window is closed or destroyed.
LEMMA WindowGone ==
    ASSUME PortsInv, Unload, UNCHANGED <<document, deserted, answered, brokerVars, mainEnd, server>>,
           alive' = FALSE, navigating' = FALSE, window' \in Windows,
           \A i \in 1 .. Len(permits) : permits[i] = WindowEnd => window' = window
    PROVE  PortsTypeOK' /\ QueueOK' /\ HeadOK' /\ PortsOK' /\ PageOK' /\ DocumentOK'
<1>. USE DEF Unload
<1>1. /\ QueueOK' /\ HeadOK' /\ PortsOK'
      /\ farEnd' \in [Pages -> {"none", "main", "moving", "page", "dropped", "closed"}]
      /\ \A p \in Pages : p \in answered => farEnd'[p] \in {"page", "closed"}
      /\ \A p \in Pages : p # document /\ farEnd[p] = "page" => farEnd'[p] = "page"
  BY UnloadKeeps
<1>2. \A p \in Pages : boot'[p] = IF p = document THEN "gone" ELSE boot[p]
  OBVIOUS
<1>3. PortsTypeOK'
  <2>1. boot' \in [Pages -> Boots]
    BY DEF PortsInv, PortsTypeOK, Boots
  <2>. QED BY <1>1, <2>1 DEF PortsInv, PortsTypeOK, brokerVars
<1>4. PageOK'
  <2>1. \A p \in Pages : p > document => p # document
    BY Jobs DEF PortsInv, PortsTypeOK
  <2>. QED BY <1>1, <1>2, <2>1 DEF PortsInv, PageOK, brokerVars
<1>5. DocumentOK'
  BY DEF DocumentOK, Settled
<1>. QED BY <1>1, <1>3, <1>4, <1>5

LEMMA UserClosesKeeps ==
    ASSUME PortsInv, UserCloses
    PROVE  PortsInv'
<1>. USE DEF UserCloses
<1>1. /\ window' \in Windows
      /\ \A i \in 1 .. Len(permits) : permits[i] = WindowEnd => window' = window
  BY DEF PortsInv, PortsTypeOK, Windows, QueueOK
<1>2. PortsTypeOK' /\ QueueOK' /\ HeadOK' /\ PortsOK' /\ PageOK' /\ DocumentOK'
  BY <1>1, WindowGone
<1>3. WindowOK'
  BY DEF PortsInv, WindowOK, brokerVars
<1>. QED BY <1>2, <1>3 DEF PortsInv

LEMMA DestroyedKeeps ==
    ASSUME PortsInv, Destroyed
    PROVE  PortsInv'
<1>. USE DEF Destroyed
<1>1. permits = <<>>
  <2>1. permits # <<>> => Len(permits) \in 1 .. Len(permits)
    BY First
  <2>. QED BY <2>1 DEF PortsInv, WindowOK
<1>2. window' \in Windows /\ \A i \in 1 .. Len(permits) : permits[i] = WindowEnd => window' = window
  BY DEF Windows
<1>3. PortsTypeOK' /\ QueueOK' /\ HeadOK' /\ PortsOK' /\ PageOK' /\ DocumentOK'
  BY <1>2, WindowGone
<1>4. WindowOK'
  BY <1>1 DEF PortsInv, WindowOK, brokerVars
<1>. QED BY <1>3, <1>4 DEF PortsInv

\* The last closing is queued behind those of navigations only.
LEMMA DrainedKeeps ==
    ASSUME PortsInv, Drained
    PROVE  PortsInv'
<1>. USE DEF Drained, pageVars, portVars
<1>1. \A i \in 1 .. Len(permits) : permits[i] # WindowEnd
  BY DEF PortsInv, QueueOK
<1>2. /\ permits' \in Seq(0 .. WindowEnd) /\ permits' # <<>> /\ permits'[Len(permits')] = WindowEnd
      /\ QueueOK' /\ HeadOK'
      /\ \A i \in 1 .. Len(permits') :
            permits'[i] = WindowEnd \/ \E k \in 1 .. Len(permits) : permits'[i] = permits[k]
  BY <1>1, ClosingQueued
<1>3. PortsTypeOK'
  BY <1>2 DEF PortsInv, PortsTypeOK, Windows
<1>4. PortsOK' /\ PageOK'
  BY DEF PortsInv, PortsOK, PageOK, Open
<1>5. WindowOK'
  BY <1>2, Jobs DEF PortsInv, WindowOK
<1>6. DocumentOK'
  BY DEF DocumentOK, Settled, Listening
<1>. QED BY <1>2, <1>3, <1>4, <1>5, <1>6 DEF PortsInv

-----------------------------------------------------------------------------
(* The application around the window. *)

LEMMA PortsInitially == Init => PortsInv
<1>. SUFFICES ASSUME Init PROVE PortsInv
  OBVIOUS
<1>. USE DEF Init, PortsInit
<1>1. permits \in Seq(0 .. WindowEnd) /\ Len(permits) = 0
  BY EmptySeq
<1>2. PortsTypeOK
  <2>1. 0 \in 0 .. MaxPages
    BY Jobs
  <2>. QED BY <1>1, <2>1 DEF PortsTypeOK, Windows, Boots, Stages
<1>3. QueueOK /\ HeadOK
  BY <1>1 DEF QueueOK, HeadOK, Working
<1>4. PortsOK /\ WindowOK
  BY DEF PortsOK, WindowOK, Open
<1>5. PageOK /\ DocumentOK
  BY Jobs DEF PageOK, DocumentOK, Settled
<1>. QED BY <1>2, <1>3, <1>4, <1>5 DEF PortsInv

\* The first page's load is the first closing that the queue gets.
LEMMA OpenWindowKeeps ==
    ASSUME PortsInv, window = "none", OpenWindow
    PROVE  PortsInv'
<1>. USE DEF OpenWindow, portVars
<1>1. document = 0 /\ permits = <<>> /\ Len(permits) = 0
  BY EmptySeq DEF PortsInv, WindowOK
<1>2. Navigation # WindowEnd
  BY Jobs
<1>3. permits' \in Seq(0 .. WindowEnd) /\ QueueOK' /\ HeadOK'
  BY <1>1, <1>2, ClosingQueued
<1>4. PortsTypeOK'
  BY <1>3 DEF PortsInv, PortsTypeOK, Windows
<1>5. PortsOK' /\ PageOK'
  BY <1>1, Jobs DEF PortsInv, PortsOK, PageOK, Open
<1>6. WindowOK'
  BY <1>1, MaxPagesAssumption DEF WindowOK
<1>7. DocumentOK'
  BY DEF DocumentOK, Settled
<1>. QED BY <1>3, <1>4, <1>5, <1>6, <1>7 DEF PortsInv

LEMMA ScopeEndsKeeps ==
    ASSUME PortsInv, End
    PROVE  PortsInv'
<1>. USE DEF End, pageVars, brokerVars, portVars
<1>1. PortsTypeOK' /\ WindowOK' /\ QueueOK'
  BY DEF PortsInv, PortsTypeOK, Windows, WindowOK, QueueOK, Holds
<1>2. HeadOK' /\ PortsOK' /\ PageOK'
  BY DEF PortsInv, HeadOK, PortsOK, PageOK, Holds, Open
<1>3. DocumentOK'
  BY DEF PortsInv, DocumentOK, Settled, Listening
<1>. QED BY <1>1, <1>2, <1>3 DEF PortsInv

\* A step of the window's ports.
LEMMA PortsStepKeeps ==
    ASSUME PortsInv, MainStep \/ PageStep \/ PortsSurprise
    PROVE  PortsInv' /\ (window \in {"none", "closed"} => window' = window)
<1>1. PortsInv'
  <2>1. CASE MainStep
    <3>1. ASSUME NEW p \in Pages, Grant(p) PROVE stage'[p] \in {"done", "undoing"}
      BY <3>1 DEF Grant, PortsInv, PortsTypeOK
    <3>2. ASSUME NEW p \in Pages, Undo(p) PROVE stage'[p] = "done"
      BY <3>2 DEF Undo, PortsInv, PortsTypeOK
    <3>3. CASE CloserBegins \/ ClosePrevious \/ StopIpc \/ Drained
      BY <3>3, CloserBeginsKeeps, ClosePreviousKeeps, StopIpcKeeps, DrainedKeeps
    <3>4. ASSUME NEW p \in Pages,
                 \/ RequestArrives(p) \/ Begin(p) \/ MakeChannel(p) \/ Connect(p)
                 \/ Grant(p) \/ Undo(p) \/ ServerStarts(p) \/ RemoteClosed(p)
          PROVE  PortsInv'
      BY <3>1, <3>2, <3>4, RequestKeeps, WorkKeeps, EndKeeps, GrantFailsKeeps, ServerKeeps
    <3>. QED BY <2>1, <3>3, <3>4 DEF MainStep
  <2>2. CASE PageStep
    BY <2>2, NavigationCommitsKeeps, AskKeeps, PageKeeps DEF PageStep
  <2>3. CASE PortsSurprise
    BY <2>3, NavigationStartsKeeps, NavigationPreventedKeeps, WorkKeeps, ServerKeeps, PageKeeps
       DEF PortsSurprise
  <2>. QED BY <2>1, <2>2, <2>3
<1>2. window \in {"none", "closed"} => window' = window
  <2>. USE DEF portsVars, pageVars, brokerVars, portVars
  <2>1. CASE MainStep
    BY <2>1 DEF MainStep, CloserBegins, ClosePrevious, StopIpc, Drained, RequestArrives, Begin, MakeChannel,
                Connect, Grant, Undo, ServerStarts, RemoteClosed
  <2>2. CASE PageStep
    BY <2>2 DEF PageStep, NavigationCommits, Ask, Deliver, FirstSnapshot, BootTimesOut, BootEnds
  <2>3. CASE PortsSurprise
    BY <2>3 DEF PortsSurprise, NavigationStarts, NavigationPrevented, Abort, ServerFails, ServerAnswers,
                SyncFails, Collect, BootEnds
  <2>. QED BY <2>1, <2>2, <2>3
<1>. QED BY <1>1, <1>2

LEMMA NextKeeps ==
    ASSUME IInv, Next
    PROVE  IInv'
<1>. USE DEF IInv, TypeOK
<1>1. CASE OpenWindow
  <2>1. window = "none"
    BY <1>1 DEF OpenWindow, AppOK
  <2>2. PortsInv'
    BY <1>1, <2>1, OpenWindowKeeps
  <2>. QED BY <1>1, <2>2 DEF OpenWindow, AppOK, Apps, PortsInv, Running
<1>2. CASE EndsOnRequest \/ EndsOnFailure
  <2>1. End
    BY <1>2 DEF EndsOnRequest, EndsOnFailure
  <2>2. PortsInv'
    BY <2>1, ScopeEndsKeeps
  <2>. QED BY <2>1, <2>2 DEF End, AppOK, Apps, PortsInv, Running
<1>3. CASE WindowDestroyed
  <2>1. PortsInv'
    BY <1>3, DestroyedKeeps DEF WindowDestroyed
  <2>2. window = "drained" /\ window' = "closed" /\ shutdown' \in BOOLEAN /\ UNCHANGED <<app, failure, backend>>
    BY <1>3 DEF WindowDestroyed, Destroyed, AllClosed, QuitAsked
  <2>. QED BY <2>1, <2>2 DEF AppOK, PortsInv, Running
<1>4. CASE UserClosesWindow
  <2>1. PortsInv'
    BY <1>4, UserClosesKeeps DEF UserClosesWindow
  <2>2. /\ window' = (IF window = "open" THEN "asked" ELSE window)
        /\ shutdown' \in BOOLEAN /\ UNCHANGED <<app, failure, backend>>
    BY <1>4 DEF UserClosesWindow, UserCloses, AllClosed, QuitAsked
  <2>. QED BY <2>1, <2>2 DEF AppOK, PortsInv, Running
<1>5. CASE ClosingFails
  <2>1. PortsInv' /\ window' = window
    BY <1>5, ClosePreviousKeeps DEF ClosingFails, ClosePrevious
  <2>. QED BY <1>5, <2>1 DEF ClosingFails, AppOK, PortsInv, Running
<1>6. CASE Ports(MainStep \/ PageStep \/ PortsSurprise)
  <2>1. (MainStep \/ PageStep \/ PortsSurprise) /\ UNCHANGED appVars
    BY <1>6 DEF Ports
  <2>2. PortsInv' /\ (window \in {"none", "closed"} => window' = window)
    BY <2>1, PortsStepKeeps
  <2>3. app = "starting" => window' = window
    BY <2>2 DEF AppOK
  <2>. QED BY <2>1, <2>2, <2>3 DEF appVars, AppOK, PortsInv, Running
<1>7. ASSUME \/ StartDisposing \/ Disposed \/ BackendsGone \/ LingerTimesOut \/ Quit \/ UserQuits
             \/ \E b \in Backends : SpawnBackend(b) \/ BackendExits(b)
      PROVE  IInv'
  <2>1. UNCHANGED portsVars
    BY <1>7 DEF StartDisposing, Disposed, BackendsGone, LingerTimesOut, Quit, UserQuits, SpawnBackend, BackendExits
  <2>2. PortsInv' /\ window' = window
    BY <2>1 DEF PortsInv, PortsTypeOK, QueueOK, HeadOK, PortsOK, WindowOK, PageOK, DocumentOK, Settled, Holds,
                Open, Listening, portsVars, pageVars, brokerVars, portVars
  <2>3. CASE StartDisposing \/ Disposed \/ BackendsGone \/ Quit
    BY <2>2, <2>3 DEF StartDisposing, Disposed, BackendsGone, Quit, AppOK, Apps, PortsInv, Running
  <2>4. CASE LingerTimesOut
    <3>1. /\ backend' \in [Backends -> {"none", "running", "exited", "killed"}]
          /\ Running' = {} /\ app = "lingering" /\ app' = "released" /\ UNCHANGED <<shutdown, failure>>
      BY <2>4 DEF LingerTimesOut, Running
    <3>. QED BY <2>2, <3>1 DEF AppOK, Apps, PortsInv
  <2>5. CASE UserQuits
    BY <2>2, <2>5 DEF UserQuits, QuitAsked, Heeded, AppOK, Apps, PortsInv, Running
  <2>6. ASSUME NEW b \in Backends, SpawnBackend(b) \/ BackendExits(b) PROVE IInv'
    <3>1. /\ backend' \in [Backends -> {"none", "running", "exited", "killed"}]
          /\ UNCHANGED <<app, shutdown, failure>>
          /\ app \in {"released", "quit"} => Running' = {}
      BY <2>6 DEF SpawnBackend, BackendExits, AppOK, Running
    <3>. QED BY <2>2, <3>1 DEF AppOK, PortsInv
  <2>. QED BY <1>7, <2>3, <2>4, <2>5, <2>6
<1>. QED BY <1>1, <1>2, <1>3, <1>4, <1>5, <1>6, <1>7 DEF Next, OwnStep, Surprise

LEMMA DesktopInitially == Init => IInv
<1>1. Init => TypeOK
  BY PortsInitially DEF Init, TypeOK, PortsInv, Apps
<1>2. Init => AppOK
  BY DEF Init, PortsInit, AppOK
<1>. QED BY <1>1, <1>2, PortsInitially DEF IInv

LEMMA DesktopStepKeeps ==
    ASSUME IInv, [Next]_vars
    PROVE  IInv'
<1>1. CASE UNCHANGED vars
  BY <1>1 DEF IInv, TypeOK, AppOK, PortsInv, PortsTypeOK, QueueOK, HeadOK, PortsOK, WindowOK, PageOK,
              DocumentOK, Settled, Holds, Open, Listening, Running, vars, appVars, portsVars, pageVars,
              brokerVars, portVars
<1>. QED BY <1>1, NextKeeps

\* The invariant is inductive: what the semaphore's queue, "current" and the
\* pages of the window know of each other holds in every state of the desktop.
THEOREM Invariance == Spec => []IInv
<1>. QED BY DesktopInitially, DesktopStepKeeps, PTL DEF Spec

LEMMA Owned == IInv => PortsAreOwned
<1>. SUFFICES ASSUME IInv PROVE PortsAreOwned
  OBVIOUS
<1>1. \A p \in Pages : Open(p) => p \in {current, victim}
  BY DEF IInv, PortsInv, PortsOK
<1>2. victim # 0 => current = 0 /\ permits # <<>>
  BY DEF IInv, PortsInv, HeadOK
<1>3. window = "closed" => current = 0 /\ victim = 0
  BY <1>2 DEF IInv, PortsInv, WindowOK
<1>. QED BY <1>1, <1>2, <1>3, Jobs DEF PortsAreOwned, Open

\* At most one port is open, and it is the broker's or the one being closed;
\* none is once the window's scope is closed (openRpcPort, closeRpcPort).
THEOREM PortsOwned == Spec => []PortsAreOwned
<1>. QED BY Owned, Invariance, PTL

LEMMA Served == IInv => MountedIsServed
<1>. SUFFICES ASSUME IInv, NEW p \in Pages \ deserted,
                     boot[p] = "mounted", p = document, ~navigating, alive, Listening
              PROVE  /\ current = p /\ server[p] = "running"
                     /\ mainEnd[p] = "open" /\ farEnd[p] = "page"
  BY DEF MountedIsServed
<1>1. farEnd[p] = "page" /\ p \in answered
  BY DEF IInv, PortsInv, PageOK
<1>2. stage[p] \in {"undoing", "done"}
  BY <1>1 DEF IInv, PortsInv, PortsOK
<1>3. stage[p] = "done" /\ permits = <<>> /\ server[p] = "running"
  BY <1>1, <1>2 DEF IInv, PortsInv, DocumentOK, Settled
<1>4. mainEnd[p] = "open" /\ p \in {current, victim}
  BY <1>3 DEF IInv, PortsInv, PortsOK, Open
<1>5. victim = 0 /\ p # 0
  BY <1>3, Jobs DEF IInv, PortsInv, HeadOK
<1>. QED BY <1>1, <1>3, <1>4, <1>5

\* A page that shows the projects has its server at the other end of its port:
\* no late request or closing of an earlier page cuts it off.
THEOREM MountedServed == Spec => []MountedIsServed
<1>. QED BY Served, Invariance, PTL

LEMMA OwnersOutlast == IInv => NothingOutlivesItsOwner
<1>. SUFFICES ASSUME IInv PROVE NothingOutlivesItsOwner
  OBVIOUS
<1>1. window \in {"none", "closed"} => permits = <<>> /\ ~alive
  BY DEF IInv, PortsInv, WindowOK
<1>2. ASSUME window = "closed", NEW p \in Pages PROVE ~Open(p)
  BY <1>1, <1>2, Jobs DEF IInv, PortsInv, WindowOK, HeadOK, PortsOK
<1>3. ASSUME window = "none", NEW p \in Pages PROVE ~Open(p)
  <2>1. document = 0 /\ p > 0
    BY <1>3 DEF IInv, PortsInv, WindowOK, Pages
  <2>2. stage[p] = "none"
    BY <2>1 DEF IInv, PortsInv, PageOK
  <2>. QED BY <2>2 DEF IInv, PortsInv, PortsOK, Open
<1>4. ServersHaveRuntime
  BY <1>2, <1>3 DEF IInv, AppOK, ServersHaveRuntime, Open
<1>5. QuitLeavesNothing
  BY <1>1 DEF IInv, AppOK, QuitLeavesNothing
<1>. QED BY <1>4, <1>5 DEF NothingOutlivesItsOwner

\* The window's scope, ports and servers with it, is closed before the client
\* runtime is disposed, and a process that quits leaves no job, window or
\* backend behind.
THEOREM OwnersLast == Spec => []NothingOutlivesItsOwner
<1>. QED BY OwnersOutlast, Invariance, PTL

-----------------------------------------------------------------------------
(* A surface of the page. *)

DialogTypes ==
    /\ invocation \in 0 .. MaxInvocations
    /\ fiber \in [Dialogs!Invocations -> {"none", "running", "interrupted", "ended"}]

DialogInv == DialogTypes /\ LatestOnly

-----------------------------------------------------------------------------
(* The terminal. *)

\* The effects that were run, and then those in the queue, are all numbers in
\* their order; a render takes a front part of the queue, which no key shortens.
EffectsOK ==
    /\ {ran, queue, committed} \subseteq Seq(Nat)
    /\ nextId \in 0 .. MaxEffects
    /\ Len(ran) + Len(queue) = nextId
    /\ \A i \in 1 .. Len(ran) : ran[i] = i - 1
    /\ \A i \in 1 .. Len(queue) : queue[i] = Len(ran) + i - 1
    /\ \A e \in processed : e < Len(ran)
    /\ ~flushed => /\ Len(committed) <= Len(queue)
                   /\ \A i \in 1 .. Len(committed) : committed[i] = Len(ran) + i - 1

\* The selection and the overlay are about the list the keys are routed with.
SelectionOK ==
    /\ {heard, rendered, snapshot} \subseteq Seq(Projects)
    /\ selectedIndex \in Nat
    /\ heard = <<>> => selectedId = Nobody
    /\ heard # <<>> => selectedIndex + 1 \in 1 .. Len(heard) /\ heard[selectedIndex + 1] = selectedId
    /\ overlay.kind # "none" => \E i \in 1 .. Len(heard) : heard[i] = overlay.project

TerminalInv == processed \subseteq Nat /\ EffectsOK /\ SelectionOK

-----------------------------------------------------------------------------
(* The surface's steps. *)

LEMMA InitDialogInv ==
    ASSUME Dialogs!DialogInit
    PROVE  DialogInv
BY BoundsAssumption DEF Dialogs!DialogInit, DialogInv, DialogTypes, LatestOnly, Dialogs!LatestOnly,
   Dialogs!OnlyLatestShown, Dialogs!OneMutationRuns

\* The submission that runs, if any, is the one whose cancellation is kept.
LEMMA InterruptedOnes ==
    ASSUME DialogInv
    PROVE  \A i \in Dialogs!Invocations :
              /\ Dialogs!Interrupted(fiber, active)[i] \in {"none", "interrupted", "ended"}
              /\ fiber[i] = "interrupted" => Dialogs!Interrupted(fiber, active)[i] = "interrupted"
BY DEF DialogInv, DialogTypes, LatestOnly, Dialogs!LatestOnly, Dialogs!OneMutationRuns, Dialogs!Interrupted

LEMMA SubmitKeeps ==
    ASSUME DialogInv, Dialogs!Submit
    PROVE  DialogInv'
<1>. USE DEF Dialogs!Submit
<1>1. /\ invocation + 1 \in Dialogs!Invocations /\ invocation' = invocation + 1
      /\ active' = invocation + 1
      /\ DOMAIN Dialogs!Interrupted(fiber, active) = Dialogs!Invocations
  BY BoundsAssumption DEF DialogInv, DialogTypes, Dialogs!Invocations, Dialogs!Interrupted
<1>2. /\ fiber'[invocation + 1] \in {"running", "interrupted"}
      /\ \A i \in Dialogs!Invocations :
            i # invocation + 1 => fiber'[i] \in {"none", "interrupted", "ended"}
  BY <1>1, InterruptedOnes DEF Dialogs!Interrupted
<1>3. DialogTypes'
  BY <1>1, <1>2 DEF DialogTypes, Dialogs!Interrupted, Dialogs!Invocations
<1>4. (Dialogs!OnlyLatestShown)'
  BY DEF Dialogs!OnlyLatestShown
<1>5. (Dialogs!OneMutationRuns)'
  BY <1>1, <1>2 DEF Dialogs!OneMutationRuns
<1>. QED BY <1>3, <1>4, <1>5 DEF DialogInv, LatestOnly, Dialogs!LatestOnly

\* A submission that was superseded ends unheard.
LEMMA SubmissionEndsKeeps ==
    ASSUME DialogInv, NEW i \in Dialogs!Invocations,
           Dialogs!Succeeds(i) \/ Dialogs!Fails(i) \/ Dialogs!EndsInterrupted(i)
    PROVE  DialogInv'
<1>. USE DEF Dialogs!surfaceVars, Dialogs!Heeded
<1>1. /\ fiber' = [fiber EXCEPT ![i] = "ended"]
      /\ UNCHANGED <<kind, mounted, running, invocation>>
  BY DEF Dialogs!Succeeds, Dialogs!Fails, Dialogs!EndsInterrupted
<1>2. \/ mounted /\ i = invocation /\ pending' = FALSE
         /\ (kind \in Dialogs!FormKinds => error' \in {error, i})
      \/ ~(mounted /\ i = invocation) /\ UNCHANGED <<active, pending, error>>
  BY DEF Dialogs!Succeeds, Dialogs!Fails, Dialogs!EndsInterrupted, Dialogs!FormKinds
<1>3. DialogTypes'
  BY <1>1 DEF DialogInv, DialogTypes
<1>4. \A j \in Dialogs!Invocations : fiber'[j] = IF j = i THEN "ended" ELSE fiber[j]
  BY <1>1 DEF DialogInv, DialogTypes
<1>5. (Dialogs!OnlyLatestShown)'
  BY <1>1, <1>2 DEF DialogInv, LatestOnly, Dialogs!LatestOnly, Dialogs!OnlyLatestShown
<1>6. \A j \in Dialogs!Invocations :
         fiber'[j] = "running" => mounted' /\ active' = j /\ j = invocation'
  BY <1>1, <1>2, <1>4 DEF DialogInv, LatestOnly, Dialogs!LatestOnly, Dialogs!OneMutationRuns
<1>7. mounted' /\ pending' /\ running' =>
         active' = invocation' /\ fiber'[invocation'] \in {"running", "interrupted"}
  <2>1. invocation # i => fiber'[invocation] = fiber[invocation]
    BY <1>1 DEF DialogInv, DialogTypes
  <2>. QED BY <1>1, <1>2, <2>1 DEF DialogInv, LatestOnly, Dialogs!LatestOnly, Dialogs!OneMutationRuns
<1>. QED BY <1>3, <1>5, <1>6, <1>7 DEF DialogInv, LatestOnly, Dialogs!LatestOnly, Dialogs!OneMutationRuns

LEMMA RunnerClosesKeeps ==
    ASSUME DialogInv, NEW i \in 0 .. MaxInvocations, Dialogs!RunnerCloses(i)
    PROVE  DialogInv'
<1>. USE DEF Dialogs!RunnerCloses, Dialogs!surfaceVars
<1>1. \A j \in Dialogs!Invocations : fiber'[j] # "running"
  OBVIOUS
<1>2. DialogTypes'
  BY DEF DialogInv, DialogTypes
<1>3. (Dialogs!OnlyLatestShown)' /\ (Dialogs!OneMutationRuns)'
  BY <1>1 DEF DialogInv, LatestOnly, Dialogs!LatestOnly, Dialogs!OnlyLatestShown, Dialogs!OneMutationRuns
<1>. QED BY <1>2, <1>3 DEF DialogInv, LatestOnly, Dialogs!LatestOnly

LEMMA UnmountKeeps ==
    ASSUME DialogInv, Dialogs!Unmount
    PROVE  DialogInv'
<1>. USE DEF Dialogs!Unmount
<1>1. \A j \in Dialogs!Invocations : fiber'[j] \in {"none", "interrupted", "ended"}
  BY InterruptedOnes
<1>2. DialogTypes'
  BY <1>1, BoundsAssumption DEF DialogInv, DialogTypes, Dialogs!Interrupted
<1>3. (Dialogs!OnlyLatestShown)' /\ (Dialogs!OneMutationRuns)'
  BY <1>1 DEF Dialogs!OnlyLatestShown, Dialogs!OneMutationRuns
<1>. QED BY <1>2, <1>3 DEF DialogInv, LatestOnly, Dialogs!LatestOnly

LEMMA DialogStepKeeps ==
    ASSUME DialogInv, [Dialogs!DialogNext]_dialogVars
    PROVE  DialogInv'
<1>. USE DEF DialogInv, DialogTypes, LatestOnly, Dialogs!LatestOnly,
             Dialogs!OnlyLatestShown, Dialogs!OneMutationRuns, Dialogs!hookVars
<1>1. ASSUME NEW p \in Projects, Dialogs!Open(p) PROVE DialogInv'
  BY <1>1 DEF Dialogs!Open, Dialogs!FormKinds
<1>2. CASE Dialogs!Type \/ Dialogs!Toggle
  BY <1>2 DEF Dialogs!Type, Dialogs!Toggle
<1>3. CASE Dialogs!Dismiss
  BY <1>3 DEF Dialogs!Dismiss
<1>4. CASE Dialogs!Mount
  BY <1>4 DEF Dialogs!Mount
<1>5. CASE UNCHANGED dialogVars
  BY <1>5 DEF dialogVars
<1>. QED BY <1>1, <1>2, <1>3, <1>4, <1>5, SubmitKeeps, SubmissionEndsKeeps, RunnerClosesKeeps, UnmountKeeps
         DEF Dialogs!DialogNext

\* The invariant of a surface and the mutation hook behind it is inductive
\* (useOwnedMutation).
THEOREM DialogInvariance == Dialogs!DialogSpec => []DialogInv
<1>1. DialogInv /\ [Dialogs!DialogNext]_(Dialogs!dialogVars) => DialogInv'
  BY DialogStepKeeps DEF dialogVars, Dialogs!dialogVars, Dialogs!surfaceVars, Dialogs!hookVars
<1>. QED BY <1>1, InitDialogInv, PTL DEF Dialogs!DialogSpec

\* A failure that the hook shows is the latest submission's, a submission that
\* was superseded or left behind was interrupted, and a pending mark stands for
\* one that has not ended, for any number of submissions (useOwnedMutation).
THEOREM LatestHasTheSurface == Dialogs!DialogSpec => []LatestOnly
<1>1. DialogInv => LatestOnly
  BY DEF DialogInv
<1>. QED BY <1>1, DialogInvariance, PTL

-----------------------------------------------------------------------------
(* The terminal's steps. *)

LEMMA InitTerminalInv ==
    ASSUME Terminal!TerminalInit
    PROVE  TerminalInv
<1>. USE DEF Terminal!TerminalInit
<1>1. Len(<<>>) = 0 /\ \A S : <<>> \in Seq(S)
  BY EmptySeq
<1>2. EffectsOK
  BY <1>1, BoundsAssumption DEF EffectsOK
<1>3. SelectionOK
  BY <1>1 DEF SelectionOK, Terminal!NoOverlay
<1>. QED BY <1>2, <1>3 DEF TerminalInv

\* What a step leaves alone.
LEMMA EffectsFrame ==
    ASSUME TerminalInv, UNCHANGED <<queue, nextId, ran, committed, flushed, processed>>
    PROVE  EffectsOK' /\ processed' \subseteq Nat
BY DEF TerminalInv, EffectsOK

LEMMA SelectionFrame ==
    ASSUME TerminalInv, UNCHANGED <<heard, rendered, snapshot, selectedId, selectedIndex>>,
           overlay' \in {overlay, Terminal!NoOverlay}
    PROVE  SelectionOK'
BY DEF TerminalInv, SelectionOK, Terminal!NoOverlay

\* The next number joins the queue; the front part of it stays.
LEMMA AskedKeeps ==
    ASSUME TerminalInv, Terminal!Ask, UNCHANGED <<ran, committed, flushed, processed>>
    PROVE  EffectsOK' /\ processed' \subseteq Nat
<1>. USE DEF Terminal!Ask
<1>1. /\ queue \in Seq(Nat) /\ nextId \in Nat /\ Len(queue) \in Nat /\ Len(ran) \in Nat
      /\ MaxEffects \in Nat /\ Len(ran) + Len(queue) = nextId
      /\ \A i \in 1 .. Len(queue) : queue[i] = Len(ran) + i - 1
  BY LenProperties, BoundsAssumption DEF TerminalInv, EffectsOK
<1>2. /\ queue' \in Seq(Nat) /\ Len(queue') = Len(queue) + 1
      /\ \A i \in 1 .. Len(queue) : queue'[i] = queue[i]
      /\ queue'[Len(queue) + 1] = nextId
  BY <1>1, AppendProperties
<1>3. ASSUME NEW i \in 1 .. Len(queue') PROVE queue'[i] = Len(ran) + i - 1
  <2>1. CASE i = Len(queue) + 1
    <3>1. Len(queue) = i - 1
      BY <1>1, <2>1
    <3>. QED BY <1>1, <1>2, <2>1, <3>1
  <2>2. CASE i # Len(queue) + 1
    <3>1. i \in 1 .. Len(queue)
      BY <1>1, <1>2, <2>2
    <3>. QED BY <1>1, <1>2, <3>1
  <2>. QED BY <2>1, <2>2
<1>4. nextId' \in 0 .. MaxEffects /\ Len(ran) + Len(queue') = nextId'
  BY <1>1, <1>2
<1>5. ~flushed => Len(committed) <= Len(queue')
  <2>1. committed \in Seq(Nat) /\ Len(committed) \in Nat
    BY LenProperties DEF TerminalInv, EffectsOK
  <2>. QED BY <1>1, <1>2, <2>1 DEF TerminalInv, EffectsOK
<1>. QED BY <1>2, <1>3, <1>4, <1>5 DEF TerminalInv, EffectsOK

\* The numbers of a list that is not empty.
LEMMA Listed ==
    ASSUME NEW S, NEW s \in Seq(S)
    PROVE  /\ Len(s) \in Nat /\ (s # <<>> => Len(s) >= 1) /\ (s = <<>> => Len(s) = 0)
           /\ \A i \in 1 .. Len(s) : s[i] \in S
           /\ \A x : x \in Terminal!Range(s) <=> \E i \in 1 .. Len(s) : s[i] = x
<1>1. Len(s) \in Nat /\ (s # <<>> => Len(s) # 0) /\ (s = <<>> => Len(s) = 0)
  BY LenProperties, EmptySeq
<1>2. DOMAIN s = 1 .. Len(s)
  BY LenProperties
<1>3. \A i \in 1 .. Len(s) : s[i] \in S
  BY ElementOfSeq
<1>. QED BY <1>1, <1>2, <1>3 DEF Terminal!Range

\* The greater and the smaller of two numbers.
LEMMA TwoNumbers ==
    ASSUME NEW a \in Int, NEW b \in Int
    PROVE  /\ Terminal!Max({a, b}) = IF a >= b THEN a ELSE b
           /\ Terminal!Min({a, b}) = IF a <= b THEN a ELSE b
BY DEF Terminal!Max, Terminal!Min

\* Keys that move the selection, or open an overlay about it.
LEMMA SelectKeeps ==
    ASSUME TerminalInv, Terminal!Select
    PROVE  SelectionOK'
<1>. USE DEF Terminal!Select, Terminal!Stay, Terminal!renderVars
<1>1. /\ heard \in Seq(Projects) /\ Len(heard) \in Nat
      /\ selectedId \in Terminal!Range(heard)
  BY LenProperties DEF TerminalInv, SelectionOK, Terminal!HasSelection
<1>2. \E i \in 1 .. Len(heard) : heard[i] = selectedId
  BY <1>1, Listed
<1>3. Terminal!At \in 1 .. Len(heard)
  BY <1>2 DEF Terminal!At
<1>4. PICK i \in {Terminal!Max({Terminal!At - 1, 1}), Terminal!Min({Terminal!At + 1, Len(heard)})} :
         selectedId' = heard[i] /\ selectedIndex' = i - 1
  OBVIOUS
<1>5. i \in 1 .. Len(heard)
  <2>1. /\ Terminal!At - 1 \in Int /\ Terminal!At + 1 \in Int /\ 1 \in Int /\ Len(heard) \in Int
    BY <1>1, <1>3
  <2>2. \/ i = IF Terminal!At - 1 >= 1 THEN Terminal!At - 1 ELSE 1
        \/ i = IF Terminal!At + 1 <= Len(heard) THEN Terminal!At + 1 ELSE Len(heard)
    BY <2>1, TwoNumbers
  <2>. QED BY <1>1, <1>3, <2>2
<1>6. heard # <<>>
  BY <1>1, <1>3, Listed
<1>7. selectedIndex' \in Nat /\ selectedIndex' + 1 \in 1 .. Len(heard) /\ heard[selectedIndex' + 1] = selectedId'
  <2>1. i - 1 + 1 = i
    BY <1>5
  <2>. QED BY <1>4, <1>5, <2>1
<1>. QED BY <1>6, <1>7 DEF TerminalInv, SelectionOK

LEMMA OpenOverlayKeeps ==
    ASSUME TerminalInv, Terminal!OpenOverlay
    PROVE  SelectionOK'
<1>. USE DEF Terminal!OpenOverlay, Terminal!Stay, Terminal!renderVars
<1>1. heard \in Seq(Projects) /\ selectedId \in Terminal!Range(heard)
  BY DEF TerminalInv, SelectionOK, Terminal!HasSelection
<1>2. \E i \in 1 .. Len(heard) : heard[i] = selectedId
  BY <1>1, Listed
<1>3. overlay'.project = selectedId
  OBVIOUS
<1>. QED BY <1>2, <1>3 DEF TerminalInv, SelectionOK

LEMMA KeyKeeps ==
    ASSUME TerminalInv, Terminal!Key
    PROVE  TerminalInv'
<1>. USE DEF Terminal!Stay, Terminal!renderVars, Terminal!effectVars, Terminal!uiVars
<1>1. CASE Terminal!EditField \/ Terminal!ClearCreate \/ Terminal!SwitchFocus \/ Terminal!CancelOverlay
  <2>1. /\ UNCHANGED <<queue, nextId, ran, committed, flushed, processed>>
        /\ UNCHANGED <<heard, rendered, snapshot, selectedId, selectedIndex>>
        /\ overlay' \in {overlay, Terminal!NoOverlay}
    BY <1>1 DEF Terminal!EditField, Terminal!ClearCreate, Terminal!SwitchFocus, Terminal!CancelOverlay,
                Terminal!CloseOverlay
  <2>. QED BY <2>1, EffectsFrame, SelectionFrame DEF TerminalInv
<1>2. CASE Terminal!SubmitOverlay \/ Terminal!SubmitCreate \/ Terminal!ToggleArchive
  <2>1. /\ Terminal!Ask /\ UNCHANGED <<ran, committed, flushed, processed>>
        /\ UNCHANGED <<heard, rendered, snapshot, selectedId, selectedIndex>>
        /\ overlay' \in {overlay, Terminal!NoOverlay}
    BY <1>2 DEF Terminal!SubmitOverlay, Terminal!SubmitCreate, Terminal!ToggleArchive, Terminal!CloseOverlay
  <2>. QED BY <2>1, AskedKeeps, SelectionFrame DEF TerminalInv
<1>3. CASE Terminal!Select \/ Terminal!OpenOverlay
  <2>1. UNCHANGED <<queue, nextId, ran, committed, flushed, processed>>
    BY <1>3 DEF Terminal!Select, Terminal!OpenOverlay
  <2>. QED BY <1>3, <2>1, EffectsFrame, SelectKeeps, OpenOverlayKeeps DEF TerminalInv
<1>. QED BY <1>1, <1>2, <1>3 DEF Terminal!Key

\* A new list, which no key is routed with yet.
LEMMA PublishKeeps ==
    ASSUME TerminalInv, Terminal!Publish
    PROVE  TerminalInv'
<1>. USE DEF Terminal!Publish, Terminal!renderVars, Terminal!effectVars, Terminal!uiVars
<1>1. snapshot' \in Seq(Projects)
  <2>1. PICK m \in 0 .. Terminal!Cardinality(Projects) : snapshot' \in [1 .. m -> Projects]
    BY DEF Terminal!Lists, Terminal!SeqOf
  <2>2. m \in Nat
    BY <2>1
  <2>. QED BY <2>1, <2>2, SeqDef
<1>2. SelectionOK'
  BY <1>1 DEF TerminalInv, SelectionOK
<1>. QED BY <1>2, EffectsFrame DEF TerminalInv

LEMMA RenderKeeps ==
    ASSUME TerminalInv, Terminal!Render
    PROVE  TerminalInv'
<1>. USE DEF Terminal!Render, Terminal!effectVars, Terminal!uiVars
<1>1. EffectsOK'
  <2>1. queue \in Seq(Nat) /\ Len(queue) \in Nat
    BY LenProperties DEF TerminalInv, EffectsOK
  <2>. QED BY <2>1 DEF TerminalInv, EffectsOK
<1>2. SelectionOK'
  BY DEF TerminalInv, SelectionOK
<1>. QED BY <1>1, <1>2 DEF TerminalInv

\* The passive effects of a render run the front of the queue, which leaves it.
LEMMA FlushRuns ==
    ASSUME TerminalInv, Terminal!Flush
    PROVE  EffectsOK' /\ processed' \subseteq Nat
<1>. USE DEF Terminal!Flush, Terminal!Acknowledged
<1>. DEFINE todo == Terminal!Without(committed, processed)
            n == Len(ran)
            k == Len(committed)
<1>1. /\ ran \in Seq(Nat) /\ queue \in Seq(Nat) /\ committed \in Seq(Nat)
      /\ n = Len(ran) /\ k = Len(committed)
      /\ n \in Nat /\ k \in Nat /\ Len(queue) \in Nat /\ k <= Len(queue)
      /\ n + Len(queue) = nextId
      /\ \A i \in 1 .. n : ran[i] = i - 1
      /\ \A i \in 1 .. Len(queue) : queue[i] = n + i - 1
      /\ \A i \in 1 .. k : committed[i] = n + i - 1
      /\ \A e \in processed : e < n
      /\ processed \subseteq Nat
  BY LenProperties DEF TerminalInv, EffectsOK
<1>. HIDE DEF n, k
<1>2. todo \in Seq(Nat) /\ Len(todo) = k /\ \A i \in 1 .. k : todo[i] = n + i - 1
  <2>1. ASSUME NEW i \in 1 .. Len(committed) PROVE committed[i] \in processed <=> i <= 0
    <3>1. committed[i] = n + i - 1
      BY <1>1
    <3>. QED BY <1>1, <3>1
  <2>2. todo = Without(committed, processed)
    BY DEF Without, Terminal!Without
  <2>3. 0 \in 0 .. Len(committed)
    BY <1>1
  <2>4. /\ todo \in Seq(Nat) /\ Len(todo) = k - 0
        /\ \A i \in 1 .. k - 0 : todo[i] = committed[0 + i]
    <3>. HIDE DEF todo, Terminal!Flush
    <3>1. committed \in Seq(Nat)
      BY <1>1
    <3>2. /\ Without(committed, processed) \in Seq(Nat)
          /\ Len(Without(committed, processed)) = Len(committed) - 0
          /\ \A i \in 1 .. Len(committed) - 0 : Without(committed, processed)[i] = committed[0 + i]
      BY <2>1, <2>3, <3>1, FrontLeaves
    <3>. QED BY <1>1, <2>2, <3>2
  <2>5. k - 0 = k /\ \A i \in 1 .. k : 0 + i = i
    BY <1>1
  <2>. HIDE DEF todo
  <2>. QED BY <1>1, <2>4, <2>5
<1>3. \A e : e \in Terminal!Range(todo) <=> e \in Nat /\ n <= e /\ e < n + k
  <2>. HIDE DEF todo, Terminal!Flush, Terminal!Acknowledged
  <2>. TAKE e
  <2>1. e \in Terminal!Range(todo) <=> \E i \in 1 .. k : todo[i] = e
    BY <1>2, Listed
  <2>2. ASSUME e \in Nat, n <= e, e < n + k PROVE \E i \in 1 .. k : todo[i] = e
    <3>1. e - n + 1 \in 1 .. k
      BY <1>1, <2>2
    <3>2. todo[e - n + 1] = n + (e - n + 1) - 1
      BY <1>2, <3>1
    <3>3. n + (e - n + 1) - 1 = e
      BY <1>1, <2>2
    <3>. QED BY <3>1, <3>2, <3>3
  <2>3. ASSUME NEW i \in 1 .. k, todo[i] = e PROVE e \in Nat /\ n <= e /\ e < n + k
    <3>1. e = n + i - 1
      BY <1>2, <2>3
    <3>2. n \in Nat /\ k \in Nat
      BY <1>1
    <3>. QED BY <3>1, <3>2
  <2>. QED BY <2>1, <2>2, <2>3
<1>4. /\ queue' \in Seq(Nat) /\ Len(queue') = Len(queue) - k
      /\ \A i \in 1 .. Len(queue) - k : queue'[i] = queue[k + i]
  <2>1. queue' = Without(queue, Terminal!Range(todo))
    BY DEF Without, Terminal!Without
  <2>. HIDE DEF todo, Terminal!Flush, Terminal!Acknowledged
  <2>2. ASSUME NEW i \in 1 .. Len(queue) PROVE queue[i] \in Terminal!Range(todo) <=> i <= k
    <3>1. queue[i] = n + i - 1
      BY <1>1
    <3>2. n \in Nat /\ k \in Nat /\ i \in Nat /\ 1 <= i
      BY <1>1
    <3>3. /\ n + i - 1 \in Nat /\ n <= n + i - 1
          /\ n + i - 1 < n + k <=> i <= k
      BY <3>2
    <3>. QED BY <1>3, <3>1, <3>3
  <2>3. k \in 0 .. Len(queue)
    BY <1>1
  <2>4. queue \in Seq(Nat)
    BY <1>1
  <2>5. /\ Without(queue, Terminal!Range(todo)) \in Seq(Nat)
        /\ Len(Without(queue, Terminal!Range(todo))) = Len(queue) - k
        /\ \A i \in 1 .. Len(queue) - k : Without(queue, Terminal!Range(todo))[i] = queue[k + i]
    BY <2>2, <2>3, <2>4, FrontLeaves
  <2>. QED BY <2>1, <2>5
<1>5. /\ ran' \in Seq(Nat) /\ Len(ran') = n + k
      /\ \A i \in 1 .. n : ran'[i] = ran[i]
      /\ \A i \in n + 1 .. n + k : ran'[i] = todo[i - n]
  <2>1. ran' = ran \o todo
    OBVIOUS
  <2>. HIDE DEF todo, Terminal!Flush
  <2>2. /\ ran' \in Seq(Nat) /\ Len(ran') = Len(ran) + Len(todo)
        /\ \A i \in 1 .. Len(ran) + Len(todo) :
              ran'[i] = IF i <= Len(ran) THEN ran[i] ELSE todo[i - Len(ran)]
    <3>1. ran \in Seq(Nat) /\ todo \in Seq(Nat)
      BY <1>1, <1>2
    <3>. QED BY <2>1, <3>1, ConcatProperties
  <2>3. Len(ran) = n /\ Len(todo) = k
    BY <1>1, <1>2
  <2>4. \A i \in 1 .. n + k : ran'[i] = IF i <= n THEN ran[i] ELSE todo[i - n]
    BY <2>2, <2>3
  <2>5. n \in Nat /\ k \in Nat
    BY <1>1
  <2>6. (\A i \in 1 .. n : ran'[i] = ran[i]) /\ (\A i \in n + 1 .. n + k : ran'[i] = todo[i - n])
    BY <2>4, <2>5
  <2>. QED BY <2>2, <2>3, <2>6
<1>6. \A e \in processed' : e \in Nat /\ e < n + k
  <2>1. processed' \subseteq processed \cup Terminal!Range(todo)
    OBVIOUS
  <2>. HIDE DEF todo, Terminal!Flush
  <2>. QED BY <1>1, <1>3, <2>1
<1>7. flushed' = TRUE /\ UNCHANGED <<nextId, committed>>
  OBVIOUS
<1>. HIDE DEF todo, Terminal!Flush
<1>8. \A i \in 1 .. Len(ran') : ran'[i] = i - 1
  <2>. TAKE i \in 1 .. Len(ran')
  <2>1. CASE i <= n
    BY <1>1, <1>5, <2>1
  <2>2. CASE ~(i <= n)
    <3>1. i \in n + 1 .. n + k /\ i - n \in 1 .. k
      BY <1>1, <1>5, <2>2
    <3>2. ran'[i] = n + (i - n) - 1
      BY <1>2, <1>5, <3>1
    <3>3. n + (i - n) - 1 = i - 1
      BY <1>1, <3>1
    <3>. QED BY <3>2, <3>3
  <2>. QED BY <2>1, <2>2
<1>9. \A i \in 1 .. Len(queue') : queue'[i] = Len(ran') + i - 1
  <2>. TAKE i \in 1 .. Len(queue')
  <2>1. i \in 1 .. Len(queue) - k /\ k + i \in 1 .. Len(queue)
    BY <1>1, <1>4
  <2>2. queue'[i] = n + (k + i) - 1
    BY <1>1, <1>4, <2>1
  <2>. QED BY <1>1, <1>5, <2>1, <2>2
<1>10. Len(ran') + Len(queue') = nextId' /\ nextId' \in 0 .. MaxEffects
  <2>1. nextId \in 0 .. MaxEffects
    BY DEF TerminalInv, EffectsOK
  <2>2. /\ Len(ran') = n + k /\ Len(queue') = Len(queue) - k /\ n + Len(queue) = nextId
        /\ n \in Nat /\ k \in Nat /\ Len(queue) \in Nat /\ nextId' = nextId
    BY <1>1, <1>4, <1>5, <1>7
  <2>. QED BY <2>1, <2>2
<1>. QED BY <1>1, <1>4, <1>5, <1>6, <1>7, <1>8, <1>9, <1>10 DEF EffectsOK

\* The selection and the overlay after they were reconciled with the new list.
LEMMA Reconciled ==
    ASSUME TerminalInv, Terminal!Reconcile, heard' = rendered, UNCHANGED <<rendered, snapshot>>
    PROVE  SelectionOK'
<1>. USE DEF Terminal!Reconcile
<1>. DEFINE n == Len(rendered)
            place == IF selectedId \in Terminal!Range(rendered)
                     THEN CHOOSE i \in 1 .. n : rendered[i] = selectedId
                     ELSE Terminal!Min({selectedIndex + 1, n})
<1>1. rendered \in Seq(Projects) /\ n \in Nat /\ selectedIndex \in Nat /\ (rendered = <<>> <=> n = 0)
  BY Listed DEF TerminalInv, SelectionOK
<1>2. n # 0 => place \in 1 .. n
  <2>1. CASE selectedId \in Terminal!Range(rendered)
    <3>1. \E i \in 1 .. n : rendered[i] = selectedId
      BY <1>1, <2>1, Listed
    <3>. QED BY <2>1, <3>1
  <2>2. CASE selectedId \notin Terminal!Range(rendered)
    <3>1. Terminal!Min({selectedIndex + 1, n}) = IF selectedIndex + 1 <= n THEN selectedIndex + 1 ELSE n
      <4>1. selectedIndex + 1 \in Int /\ n \in Int
        BY <1>1
      <4>. HIDE DEF n
      <4>. QED BY <4>1, TwoNumbers
    <3>. QED BY <1>1, <2>2, <3>1
  <2>. QED BY <2>1, <2>2
<1>3. /\ selectedId' = IF n = 0 THEN Nobody ELSE rendered[place]
      /\ selectedIndex' = IF n = 0 THEN 0 ELSE place - 1
  OBVIOUS
<1>4. overlay'.kind # "none" => \E i \in 1 .. n : rendered[i] = overlay'.project
  <2>1. CASE overlay.kind # "none" /\ overlay.project \notin Terminal!Range(rendered)
    <3>1. overlay' = Terminal!NoOverlay
      BY <2>1 DEF Terminal!CloseOverlay
    <3>. QED BY <3>1 DEF Terminal!NoOverlay
  <2>2. CASE ~(overlay.kind # "none" /\ overlay.project \notin Terminal!Range(rendered))
    <3>1. overlay' = overlay
      BY <2>2
    <3>. QED BY <1>1, <2>2, <3>1, Listed
  <2>. QED BY <2>1, <2>2
<1>. HIDE DEF place
<1>5. n # 0 => selectedIndex' \in Nat /\ selectedIndex' + 1 \in 1 .. n /\ rendered[selectedIndex' + 1] = selectedId'
  <2>1. n # 0 => place - 1 \in Nat /\ place - 1 + 1 = place
    BY <1>1, <1>2
  <2>. QED BY <1>2, <1>3, <2>1
<1>6. {heard', rendered', snapshot'} \subseteq Seq(Projects)
  BY DEF TerminalInv, SelectionOK
<1>. QED BY <1>1, <1>3, <1>4, <1>5, <1>6 DEF SelectionOK

LEMMA FlushKeeps ==
    ASSUME TerminalInv, Terminal!Flush
    PROVE  TerminalInv'
<1>1. SelectionOK'
  <2>1. CASE heard # rendered
    BY <2>1, Reconciled DEF Terminal!Flush
  <2>2. CASE heard = rendered
    BY <2>2, SelectionFrame DEF Terminal!Flush, Terminal!uiVars
  <2>. QED BY <2>1, <2>2
<1>. QED BY <1>1, FlushRuns DEF TerminalInv

LEMMA TerminalStepKeeps ==
    ASSUME TerminalInv, [Terminal!TerminalNext]_terminalVars
    PROVE  TerminalInv'
<1>. USE DEF Terminal!uiVars, Terminal!effectVars, Terminal!renderVars
<1>1. CASE Terminal!SyncEnds \/ Terminal!Unmount \/ Terminal!Dispose
           \/ (\E e \in Terminal!Effects : Terminal!MutationEnds(e)) \/ UNCHANGED terminalVars
  <2>1. /\ UNCHANGED <<queue, nextId, ran, committed, flushed, processed>>
        /\ UNCHANGED <<heard, rendered, snapshot, selectedId, selectedIndex, overlay>>
    BY <1>1 DEF Terminal!SyncEnds, Terminal!Unmount, Terminal!Dispose, Terminal!MutationEnds, terminalVars
  <2>. QED BY <2>1, EffectsFrame, SelectionFrame DEF TerminalInv
<1>. QED BY <1>1, KeyKeeps, PublishKeeps, RenderKeeps, FlushKeeps DEF Terminal!TerminalNext

\* The invariant of the effect queue and the reducer is inductive
\* (app.tsx, reduce.ts).
THEOREM TerminalInvariance == Terminal!TerminalSpec => []TerminalInv
<1>1. TerminalInv /\ [Terminal!TerminalNext]_(Terminal!terminalVars) => TerminalInv'
  BY TerminalStepKeeps
     DEF terminalVars, Terminal!terminalVars, Terminal!uiVars, Terminal!effectVars, Terminal!renderVars
<1>. QED BY <1>1, InitTerminalInv, PTL DEF Terminal!TerminalSpec

\* What has run and what is queued are all the effects asked for, in order.
LEMMA EffectsOnce ==
    ASSUME TerminalInv
    PROVE  EffectsRunOnce
<1>. DEFINE n == Len(ran)
<1>1. /\ ran \in Seq(Nat) /\ queue \in Seq(Nat) /\ n \in Nat /\ Len(queue) \in Nat
      /\ MaxEffects \in Nat /\ nextId \in 0 .. MaxEffects /\ n + Len(queue) = nextId
      /\ \A i \in 1 .. n : ran[i] = i - 1
      /\ \A i \in 1 .. Len(queue) : queue[i] = n + i - 1
  BY LenProperties, BoundsAssumption DEF TerminalInv, EffectsOK
<1>. HIDE DEF n
<1>2. \A e : e \in Terminal!Range(queue) <=> e \in n .. nextId - 1
  <2>. TAKE e
  <2>1. e \in Terminal!Range(queue) <=> \E i \in 1 .. Len(queue) : queue[i] = e
    BY <1>1, Listed
  <2>2. ASSUME e \in n .. nextId - 1 PROVE \E i \in 1 .. Len(queue) : queue[i] = e
    <3>1. e - n + 1 \in 1 .. Len(queue) /\ n + (e - n + 1) - 1 = e
      BY <1>1, <2>2
    <3>. QED BY <1>1, <3>1
  <2>3. ASSUME NEW i \in 1 .. Len(queue), queue[i] = e PROVE e \in n .. nextId - 1
    BY <1>1, <2>3
  <2>. QED BY <2>1, <2>2, <2>3
<1>3. \A e : e \in Terminal!Range(ran) <=> e \in 0 .. n - 1
  <2>. TAKE e
  <2>1. e \in Terminal!Range(ran) <=> \E i \in 1 .. n : ran[i] = e
    BY <1>1, Listed DEF n
  <2>2. ASSUME e \in 0 .. n - 1 PROVE \E i \in 1 .. n : ran[i] = e
    <3>1. e \in Int /\ e + 1 \in 1 .. n
      BY <1>1, <2>2
    <3>2. \A i \in 1 .. n : ran[i] = i - 1
      BY <1>1
    <3>3. PICK i \in 1 .. n : i = e + 1
      BY <3>1
    <3>4. ran[i] = e
      BY <3>1, <3>2, <3>3
    <3>. QED BY <3>4
  <2>3. ASSUME NEW i \in 1 .. n, ran[i] = e PROVE e \in 0 .. n - 1
    BY <1>1, <2>3
  <2>. QED BY <2>1, <2>2, <2>3
<1>4. \A e : e \in n .. nextId - 1 => e \in n .. MaxEffects
  BY <1>1
<1>5. \A e : e \in 0 .. n - 1 \/ e \in n .. nextId - 1 <=> e \in 0 .. nextId - 1
  BY <1>1
<1>6. Terminal!Range(queue) \cup Terminal!Range(ran) = 0 .. nextId - 1
  BY <1>2, <1>3, <1>5
<1>. QED BY <1>1, <1>2, <1>4, <1>6 DEF EffectsRunOnce, Terminal!EffectsRunOnce, n

LEMMA SelectionFollows ==
    ASSUME TerminalInv
    PROVE  SelectionIsListed
<1>. SUFFICES ASSUME heard = snapshot
              PROVE  /\ (selectedId = Nobody) <=> (snapshot = <<>>)
                     /\ snapshot # <<>> => snapshot[selectedIndex + 1] = selectedId
                     /\ overlay.kind # "none" => overlay.project \in Terminal!Range(snapshot)
  BY DEF SelectionIsListed, Terminal!SelectionIsListed
<1>1. heard \in Seq(Projects)
  BY DEF TerminalInv, SelectionOK
<1>2. heard # <<>> => selectedId \in Projects /\ heard[selectedIndex + 1] = selectedId
  BY <1>1, Listed DEF TerminalInv, SelectionOK
<1>. QED BY <1>1, <1>2, Listed, NobodyAssumption DEF TerminalInv, SelectionOK

\* Every effect that a key asks for is run once and in order, however renders,
\* acknowledgements, keys and new lists interleave (app.tsx).
THEOREM EffectsAreRunOnce == Terminal!TerminalSpec => []EffectsRunOnce
<1>. QED BY EffectsOnce, TerminalInvariance, PTL

\* Once the effects of the newest list have run, the selection and the overlay
\* are about it, though keys were routed with an older one (app.tsx).
THEOREM SelectionFollowsTheList == Terminal!TerminalSpec => []SelectionIsListed
<1>. QED BY SelectionFollows, TerminalInvariance, PTL

-----------------------------------------------------------------------------
(* The interfaces side by side, as MCInterfaces runs them. *)

\* A part at rest satisfies its invariant.
LEMMA AtRest ==
    /\ DesktopAtRest => IInv
    /\ DialogsAtRest => DialogInv
    /\ TerminalAtRest => TerminalInv
<1>1. ASSUME DesktopAtRest PROVE IInv
  <2>. USE <1>1 DEF DesktopAtRest
  <2>1. permits \in Seq(0 .. WindowEnd) /\ Len(permits) = 0
    BY EmptySeq
  <2>2. TypeOK
    <3>1. 0 \in 0 .. MaxPages
      BY Jobs
    <3>. QED BY <2>1, <3>1 DEF TypeOK, PortsTypeOK, Windows, Boots, Stages, Apps
  <2>3. QueueOK /\ HeadOK /\ PortsOK /\ WindowOK
    BY <2>1 DEF QueueOK, HeadOK, PortsOK, WindowOK, Working, Open
  <2>4. PageOK /\ DocumentOK
    BY Jobs DEF PageOK, DocumentOK, Settled
  <2>5. AppOK
    BY DEF AppOK, Running
  <2>. QED BY <2>2, <2>3, <2>4, <2>5 DEF IInv, PortsInv, TypeOK
<1>2. ASSUME DialogsAtRest PROVE DialogInv
  BY <1>2, BoundsAssumption DEF DialogsAtRest, DialogInv, DialogTypes, LatestOnly, Dialogs!LatestOnly,
     Dialogs!OnlyLatestShown, Dialogs!OneMutationRuns
<1>3. ASSUME TerminalAtRest PROVE TerminalInv
  <2>. USE <1>3 DEF TerminalAtRest
  <2>1. Len(<<>>) = 0 /\ \A S : <<>> \in Seq(S)
    BY EmptySeq
  <2>2. EffectsOK /\ SelectionOK
    BY <2>1, BoundsAssumption DEF EffectsOK, SelectionOK, Terminal!NoOverlay
  <2>. QED BY <2>2 DEF TerminalInv
<1>. QED BY <1>1, <1>2, <1>3

\* Whichever interface runs, the ports have their owner, the latest submission
\* has its surface, and the terminal's effects and selection are right.
THEOREM InterfacesAreSafe ==
    MCSpec => [](/\ PortsAreOwned /\ MountedIsServed /\ NothingOutlivesItsOwner
                 /\ LatestOnly /\ EffectsRunOnce /\ SelectionIsListed)
<1>1. MCInit => IInv /\ DialogInv /\ TerminalInv
  BY DesktopInitially, InitDialogInv, InitTerminalInv, AtRest DEF MCInit
<1>2. /\ IInv /\ DialogInv /\ TerminalInv
      /\ [MCNext]_<<part, vars, dialogVars, terminalVars>>
      => (IInv /\ DialogInv /\ TerminalInv)'
  <2>1. [MCNext]_<<part, vars, dialogVars, terminalVars>>
        => [Next]_vars /\ [Dialogs!DialogNext]_dialogVars /\ [Terminal!TerminalNext]_terminalVars
    BY DEF MCNext
  <2>. QED BY <2>1, DesktopStepKeeps, DialogStepKeeps, TerminalStepKeeps
<1>3. IInv /\ DialogInv /\ TerminalInv =>
         /\ PortsAreOwned /\ MountedIsServed /\ NothingOutlivesItsOwner
         /\ LatestOnly /\ EffectsRunOnce /\ SelectionIsListed
  BY Owned, Served, OwnersOutlast, EffectsOnce, SelectionFollows DEF DialogInv
<1>. QED BY <1>1, <1>2, <1>3, PTL DEF MCSpec
=============================================================================
