--------------------------- MODULE ProjectRegistry ---------------------------
(***************************************************************************)
(* What the project service promises its clients, without a log, a read    *)
(* model, a mutex or a crash: one registry of projects that changes one    *)
(* legal event at a time.  The doc comments of ProjectUseCases             *)
(* (apps/server/application/projects/use-cases.ts) state each rule.        *)
(***************************************************************************)
EXTENDS ProjectFold

VARIABLES
  projects,   \* the registry
  retired     \* every id ever given out: ids are never handed out twice

registry == <<projects, retired>>

Has(id)              == \E p \in projects : p.id = id
NameFree(name, id)   == \A p \in projects : p.name = name => p.id = id
DirectoryFree(d, id) == \A p \in projects : p.directory = d => p.id = id

\* The rule each event must satisfy against the registry it lands on.
Legal(e) ==
  CASE e.type = "ProjectCreated" ->
         /\ e.projectId \notin retired
         /\ NameFree(e.name, e.projectId)
         /\ e.directory # Null => DirectoryFree(e.directory, e.projectId)
    [] e.type = "ProjectRenamed" ->
         Has(e.projectId) /\ NameFree(e.name, e.projectId)
    [] e.type = "ProjectDirectoryChanged" ->
         Has(e.projectId) /\ DirectoryFree(e.directory, e.projectId)
    [] OTHER -> Has(e.projectId)

Init == projects = {} /\ retired = {}

Record(e) ==
  /\ Legal(e)
  /\ projects' = FoldEvent(projects, e)
  /\ retired'  = IF e.type = "ProjectCreated" THEN retired \cup {e.projectId} ELSE retired

Next == \E e \in Event : Record(e)

Spec == Init /\ [][Next]_registry
=============================================================================
