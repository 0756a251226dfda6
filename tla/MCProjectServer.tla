--------------------------- MODULE MCProjectServer ---------------------------
(***************************************************************************)
(* Instances of ProjectServer for TLC.  Each constant below is a set of    *)
(* requests or of file systems that the configurations pick from.          *)
(***************************************************************************)
EXTENDS ProjectServer, TLC

CONSTANTS c1, c2, i1, i2, n1, n2, d1, d2, t1, x, here, there

\* Clients, ids and names are interchangeable in DirectoryRequests.
Symmetric == Permutations({c1, c2}) \cup Permutations({i1, i2}) \cup Permutations({n1, n2})

\* Names: two projects, every rule on names, ids, archive flag and metadata.
NameRequests ==
  {[op |-> "create", name |-> n, ensure |-> b, directory |-> Null] :
     n \in {n1, n2}, b \in BOOLEAN}
  \cup {[op |-> "create", name |-> Malformed, ensure |-> FALSE, directory |-> Null]}
  \cup {[op |-> "rename", id |-> i, name |-> n] : i \in {i1, i2}, n \in {n1, n2, Malformed}}
  \cup {[op |-> "delete", id |-> i] : i \in {i1, i2}}

\* Fields: everything a project's own rules depend on, on one of two projects.
FieldRequests ==
  {[op |-> "create", name |-> n, ensure |-> FALSE, directory |-> Null] : n \in {n1, n2}}
  \cup {[op |-> o, id |-> i1] : o \in {"archive", "restore", "delete"}}
  \cup {[op |-> "setMetadata", id |-> i1, patch |-> [description |-> d, tags |-> Absent]] :
          d \in {Null, x, Malformed}}
  \cup {[op |-> "setMetadata", id |-> i1, patch |-> [description |-> Absent, tags |-> t]] :
          t \in {Absent, {t1}}}

\* Directories: two strings, which may lead to the same place.
DirectoryRequests ==
  {[op |-> "create", name |-> n, ensure |-> FALSE, directory |-> d] :
     n \in {n1, n2}, d \in {d1, d2, Malformed}}
  \cup {[op |-> "changeDirectory", id |-> i, directory |-> d] :
          i \in {i1, i2}, d \in {d1, d2, Malformed}}
  \cup {[op |-> "delete", id |-> i] : i \in {i1, i2}}

Folder(l) == [kind |-> "directory", at |-> l]
File(l)   == [kind |-> "file", at |-> l]

Still  == {[d \in Directory |-> Missing]}
Under(a, b) == [d \in Directory |-> IF d = d1 THEN a ELSE b]
Moving == { Under(Folder(here), Folder(there)),   \* two places
            Under(Folder(here), Folder(here)),    \* one place, two strings
            Under(Missing, Folder(here)),
            Under(Folder(here), File(there)) }
=============================================================================
