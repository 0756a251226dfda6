----------------------------- MODULE ModuleOrder -----------------------------
(***************************************************************************)
(* The lint rule for the order of a module's statements and its automatic  *)
(* fix (eslint-rules/module-order-analysis.mjs).                           *)
(*                                                                         *)
(* A file is the order of its statements, what they refer to, and the      *)
(* comments in the gaps between them; gap g is after the statement at      *)
(* place g.  A comment inside a statement moves with it and is left out.   *)
(* So is a line shared with a statement outside the replaced text, which   *)
(* only withholds the fix.                                                 *)
(***************************************************************************)
EXTENDS Naturals, Sequences, FiniteSets

CONSTANTS
    Length,  \* statements in a file
    MaxUses, \* bound: references between statements in a file
    Unfixed  \* there was no fix yet

\* By kind of statement: "value" declares a value, "closed" does too and ends
\* with a semicolon, "call" is an expression that begins with a parenthesis.
Group ==
    [import |-> 0, require |-> 0, class |-> 1, interface |-> 1, export |-> 2,
     reexport |-> 2, value |-> 3, closed |-> 3, type |-> 3, call |-> 3]

\* Evaluated where it stands; an import is not, whatever the order.
Runtime == DOMAIN Group \ {"import", "interface", "type"}
Requests == {"import", "require", "reexport"}
Declaring == DOMAIN Group \ {"call", "reexport", "interface", "type"}

VARIABLES file, was  \* the file, and as it was before the fix

Ids == 1 .. Length
Gaps == 0 .. Length
Looks == {"banner", "leading", "apart", "trailing", "tool"}
orderVars == <<file, was>>

Uses(kind) == {use \in Ids \X Ids : kind[use[1]] \in Declaring /\ use[1] # use[2]}

\* At most two comments, in one gap: a banner or an unattached one before the
\* first statement, trailing ones after some statement.
Comments ==
    {{[gap |-> g, look |-> l] : l \in looks} : g \in Gaps,
        looks \in {s \in SUBSET Looks : Cardinality(s) <= 2}}
Placed(comments) ==
    \A c \in comments : /\ c.look = "banner" => c.gap = 0
                        /\ c.look = "trailing" => c.gap > 0
                        /\ c.look = "leading" => c.gap < Length

OrderInit ==
    /\ was = Unfixed
    /\ \E kind \in [Ids -> DOMAIN Group] :
        \/ \E uses \in SUBSET Uses(kind) :
              /\ Cardinality(uses) <= MaxUses
              /\ file = [body |-> [i \in Ids |-> i], kind |-> kind, uses |-> uses, comments |-> {}]
        \/ \E comments \in Comments :
              /\ Placed(comments)
              /\ file = [body |-> [i \in Ids |-> i], kind |-> kind, uses |-> {}, comments |-> comments]

-----------------------------------------------------------------------------
(* The analysis. *)

GroupOf(f, id) == Group[f.kind[id]]
Grouped(f, body) == \A i, j \in Ids : i < j => GroupOf(f, body[i]) <= GroupOf(f, body[j])
FirstViolation(f) == ~Grouped(f, f.body)

Before(f, a, b) == \E i, j \in Ids : i < j /\ f.body[i] = a /\ f.body[j] = b

\* Mutant: the requests of modules are not kept in order.
BuildEdges_RequestsFree(f) ==
    {e \in Ids \X Ids :
        \/ /\ Before(f, e[1], e[2])
           /\ \/ GroupOf(f, e[1]) = GroupOf(f, e[2])
              \/ {f.kind[e[1]], f.kind[e[2]]} \subseteq Runtime
        \/ e \in f.uses}

\* Pairs to keep in order: a statement and the next of its class (here: any
\* later one), and a declaration and what refers to it.
BuildEdges(f) ==
    {e \in Ids \X Ids :
        \/ /\ Before(f, e[1], e[2])
           /\ \/ GroupOf(f, e[1]) = GroupOf(f, e[2])
              \/ {f.kind[e[1]], f.kind[e[2]]} \subseteq Runtime
              \/ {f.kind[e[1]], f.kind[e[2]]} \subseteq Requests
        \/ e \in f.uses}

Place(body, id) == CHOOSE i \in Ids : body[i] = id

Precedes(f, a, b) ==
    \/ GroupOf(f, a) < GroupOf(f, b)
    \/ GroupOf(f, a) = GroupOf(f, b) /\ Place(f.body, a) <= Place(f.body, b)

\* The statements that nothing keeps waiting any more.
Ready(edges, result) ==
    LET emitted == {result[i] : i \in DOMAIN result}
    IN  {id \in Ids \ emitted : \A e \in edges : e[2] = id => e[1] \in emitted}

\* The least of them by group, then by place; a cycle leaves the result short.
Extended(f, edges, result) ==
    LET ready == Ready(edges, result)
    IN  IF ready = {} THEN result
        ELSE Append(result, CHOOSE a \in ready : \A b \in ready : Precedes(f, a, b))

StableTopologicalSort(f, edges) ==
    LET sorted[n \in Gaps] == IF n = 0 THEN <<>> ELSE Extended(f, edges, sorted[n - 1])
    IN  sorted[Length]

\* A parenthesis would continue the statement it is moved behind.
HasUnsafeAsiBoundary(f, body) ==
    \E i \in 2 .. Length :
        /\ f.kind[body[i]] = "call"
        /\ ~\E p \in 2 .. Length : f.body[p] = body[i] /\ f.body[p - 1] = body[i - 1]
        /\ f.kind[body[i - 1]] # "closed"

\* A comment goes with the statement above whose line it ends, or with the one
\* below if everything else in the gap does too.
Owned(f, c) ==
    \/ c.look = "trailing"
    \/ /\ c.look = "leading" /\ c.gap > 0
       /\ \A d \in f.comments : d.gap = c.gap => d.look # "apart"
Anchored(c) == c.look = "banner"

\* The replaced text is from the first to the last statement that moves.
Moved(f, body) == {i \in Ids : f.body[i] # body[i]}
Least(places) == CHOOSE i \in places : \A j \in places : i <= j
Greatest(places) == CHOOSE i \in places : \A j \in places : j <= i
InRange(f, moved, c) ==
    \/ Least(moved) <= c.gap /\ c.gap < Greatest(moved)
    \/ c.gap + 1 = Least(moved) /\ Owned(f, c) /\ c.look = "leading"
    \/ c.gap = Greatest(moved) /\ c.look = "trailing"

MayReplace(f) == \A c \in f.comments : c.look # "tool" /\ (Owned(f, c) \/ Anchored(c))

\* What is replaced is only what is owned.
BuildReplacement(f, body) ==
    LET moved == Moved(f, body)
        Carried(c) == [c EXCEPT !.gap = IF c.look = "leading" THEN Place(body, f.body[c.gap + 1]) - 1
                                        ELSE Place(body, f.body[c.gap])]
        inside == {c \in f.comments : InRange(f, moved, c)}
    IN  [f EXCEPT !.body = body,
                  !.comments = (@ \ inside) \cup {Carried(c) : c \in {d \in inside : Owned(f, d)}}]

\* The files the fix may leave: one, or none if it is withheld.
AnalyzeModule(f) ==
    LET sorted == StableTopologicalSort(f, BuildEdges(f))
    IN  IF /\ FirstViolation(f)
           /\ Len(sorted) = Length /\ Grouped(f, sorted) /\ sorted # f.body
           /\ ~HasUnsafeAsiBoundary(f, sorted)
           /\ MayReplace(f)
        THEN {BuildReplacement(f, sorted)} ELSE {}

Fix ==
    /\ was = Unfixed
    /\ \E f \in AnalyzeModule(file) : file' = f /\ was' = file

OrderNext == Fix

OrderSpec == OrderInit /\ [][OrderNext]_orderVars

-----------------------------------------------------------------------------
(* The order a reader expects: by group, otherwise as it was. *)
Expected(f, body) ==
    /\ {body[i] : i \in Ids} = Ids /\ Grouped(f, body)
    /\ \A i, j \in Ids : i < j /\ GroupOf(f, body[i]) = GroupOf(f, body[j]) => Before(f, body[i], body[j])

KeepsMeaning(f, body) ==
    \A i, j \in Ids :
        i < j => /\ {f.kind[body[i]], f.kind[body[j]]} \subseteq Runtime => Before(f, body[i], body[j])
                 /\ {f.kind[body[i]], f.kind[body[j]]} \subseteq Requests => Before(f, body[i], body[j])
                 /\ <<body[j], body[i]>> \notin f.uses

Neighbour(f, c) == IF c.look = "leading" THEN f.body[c.gap + 1] ELSE f.body[c.gap]

\* What a fix must keep: the order the rule asks for, whatever the order
\* decides, and every comment with its statement.
RightlyFixed(f, fixed) ==
    /\ Expected(f, fixed.body) /\ KeepsMeaning(f, fixed.body)
    /\ Cardinality(fixed.comments) = Cardinality(f.comments)
    /\ \A c \in f.comments : c.look = "banner" \/
          \E d \in fixed.comments : d.look = c.look /\ Neighbour(fixed, d) = Neighbour(f, c)

RightlyWithheld(f) ==
    \/ ~MayReplace(f)
    \/ \A body \in [Ids -> Ids] :
          Expected(f, body) => ~KeepsMeaning(f, body) \/ HasUnsafeAsiBoundary(f, body)

(* The fix gives the statements in the order the rule asks for, and leaves *)
(* alone what the order decides: the evaluation of the statements, the     *)
(* requests of modules, declarations before their uses, and every comment  *)
(* with its statement.  It is withheld for the order only when no such     *)
(* order exists (analyzeModule).                                           *)
FixIsRight ==
    IF was # Unfixed THEN RightlyFixed(was, file)
    ELSE FirstViolation(file) /\ AnalyzeModule(file) = {} => RightlyWithheld(file)
=============================================================================
