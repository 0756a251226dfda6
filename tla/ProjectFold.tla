----------------------------- MODULE ProjectFold -----------------------------
(***************************************************************************)
(* The project read model and the one fold that every reader of the event  *)
(* log shares: packages/contracts/project.ts (fromCreated, applyEvent,     *)
(* foldList) over the events of packages/contracts/events/project.ts.      *)
(*                                                                         *)
(* The read model is a set of project records: the array order of the code *)
(* (creation order, kept by push, filter and map) is left out, and so are  *)
(* the timestamps.  A tag list is a set, which is what the deduplication   *)
(* in applyEvent makes of it up to order.                                  *)
(***************************************************************************)

CONSTANTS
  ProjectId,     \* UUIDs
  ProjectName,   \* names the contract schema accepts
  Directory,     \* absolute path strings of legal length
  Description,   \* descriptions the contract schema accepts
  Tag,           \* tags the contract schema accepts
  Null,          \* JSON null
  Absent         \* a key left out of a metadata patch

ASSUME NullIsNoValue == Null \notin Directory \cup Description
ASSUME AbsentIsNoValue ==
  /\ Absent \notin Description \cup {Null}
  /\ \A tags \in SUBSET Tag : Absent # tags

Project == [ id          : ProjectId,
             name        : ProjectName,
             directory   : Directory \cup {Null},
             description : Description \cup {Null},
             tags        : SUBSET Tag,
             archived    : BOOLEAN ]

(***************************************************************************)
(* Events.                                                                 *)
(***************************************************************************)
MetadataPatch == [ description : Description \cup {Null, Absent},
                   tags        : {Absent} \cup SUBSET Tag ]

CreatedEvent == [ type      : {"ProjectCreated"},
                  projectId : ProjectId,
                  name      : ProjectName,
                  directory : Directory \cup {Null} ]
RenamedEvent == [ type : {"ProjectRenamed"}, projectId : ProjectId, name : ProjectName ]
MovedEvent   == [ type      : {"ProjectDirectoryChanged"},
                  projectId : ProjectId,
                  directory : Directory ]
PatchedEvent == [ type      : {"ProjectMetadataChanged"},
                  projectId : ProjectId,
                  patch     : MetadataPatch ]
PlainEvent   == [ type      : {"ProjectArchived", "ProjectRestored", "ProjectDeleted"},
                  projectId : ProjectId ]

Event == CreatedEvent \cup RenamedEvent \cup MovedEvent \cup PatchedEvent \cup PlainEvent

(***************************************************************************)
(* The fold.                                                               *)
(***************************************************************************)
FromCreated(e) == [ id          |-> e.projectId,
                    name        |-> e.name,
                    directory   |-> e.directory,
                    description |-> Null,
                    tags        |-> {},
                    archived    |-> FALSE ]

Patched(value, given) == IF given = Absent THEN value ELSE given

ApplyEvent(p, e) ==
  CASE e.type = "ProjectRenamed"          -> [p EXCEPT !.name = e.name]
    [] e.type = "ProjectDirectoryChanged" -> [p EXCEPT !.directory = e.directory]
    [] e.type = "ProjectArchived"         -> [p EXCEPT !.archived = TRUE]
    [] e.type = "ProjectRestored"         -> [p EXCEPT !.archived = FALSE]
    [] e.type = "ProjectMetadataChanged"  ->
         [p EXCEPT !.description = Patched(@, e.patch.description),
                   !.tags        = Patched(@, e.patch.tags)]
    [] OTHER -> p

FoldEvent(list, e) ==
  CASE e.type = "ProjectCreated" ->
         IF \E p \in list : p.id = e.projectId THEN list ELSE list \cup {FromCreated(e)}
    [] e.type = "ProjectDeleted" -> {p \in list : p.id # e.projectId}
    [] OTHER -> {IF p.id = e.projectId THEN ApplyEvent(p, e) ELSE p : p \in list}

(***************************************************************************)
(* What the registry promises of a read model, whatever the history.       *)
(***************************************************************************)
IdsUnique(list)   == \A p, q \in list : p.id = q.id => p = q
NamesUnique(list) == \A p, q \in list : p.name = q.name => p = q
DirectoriesUnique(list) ==
  \A p, q \in list : p.directory # Null /\ p.directory = q.directory => p = q
=============================================================================
