------------------------- MODULE ProjectServerProofs -------------------------
(***************************************************************************)
(* Safety of the project service for any sets of clients, ids, names,      *)
(* directories and builds, any file system and any bound on the log.       *)
(*                                                                         *)
(* The properties are not inductive.  That a name is still free when the   *)
(* event of a rename is appended, several awaits after the check, rests on *)
(* three facts: a job past its check is the only one (JobOK), so nobody    *)
(* else appends; the list it was checked against is the fold of the whole  *)
(* log, because the job before it did not give the permit back between     *)
(* append and apply (PlaceInv); and every fold of the log is free of       *)
(* duplicates (LogInv), so that a boot may pass through any prefix.        *)
(*                                                                         *)
(* Each action is taken in two steps: the shape of the job it leaves       *)
(* (Begins, the stages of JobOK), then the three parts of the invariant.   *)
(***************************************************************************)
EXTENDS ProjectServer, SequenceTheorems, TLAPS

(***************************************************************************)
(* What the shared fold preserves, for every list and every event.         *)
(***************************************************************************)
Ids(list) == {p.id : p \in list}

\* Every event of type ProjectCreated carries the fields of one.
LEMMA CreatedFields ==
  ASSUME NEW e \in Event, e.type = "ProjectCreated"
  PROVE  /\ e \in CreatedEvent
         /\ FromCreated(e).name = e.name /\ FromCreated(e).directory = e.directory
BY DEF Event, CreatedEvent, RenamedEvent, MovedEvent, PatchedEvent, PlainEvent, FromCreated

\* fromCreated returns a project with the id it was given.
LEMMA CreatedIsProject ==
  ASSUME NEW e \in CreatedEvent
  PROVE  FromCreated(e) \in Project /\ FromCreated(e).id = e.projectId
BY DEF CreatedEvent, FromCreated, Project

\* So does applyEvent, on any event of the log.
LEMMA AppliedIsProject ==
  ASSUME NEW p \in Project, NEW e \in Event
  PROVE  ApplyEvent(p, e) \in Project /\ ApplyEvent(p, e).id = p.id
<1>1. CASE e.type = "ProjectRenamed"
  BY <1>1 DEF ApplyEvent, Project, Event, CreatedEvent, RenamedEvent, MovedEvent,
              PatchedEvent, PlainEvent
<1>2. CASE e.type = "ProjectDirectoryChanged"
  BY <1>2 DEF ApplyEvent, Project, Event, CreatedEvent, RenamedEvent, MovedEvent,
              PatchedEvent, PlainEvent
<1>3. CASE e.type = "ProjectMetadataChanged"
  <2>1. e.patch \in MetadataPatch
    BY <1>3 DEF Event, CreatedEvent, RenamedEvent, MovedEvent, PatchedEvent, PlainEvent
  <2>2. /\ Patched(p.description, e.patch.description) \in Description \cup {Null}
        /\ Patched(p.tags, e.patch.tags) \in SUBSET Tag
    BY <2>1 DEF Project, MetadataPatch, Patched
  <2>3. ApplyEvent(p, e) = [p EXCEPT !.description = Patched(@, e.patch.description),
                                     !.tags        = Patched(@, e.patch.tags)]
    BY <1>3 DEF ApplyEvent
  <2>. QED BY <2>2, <2>3 DEF Project
<1>4. CASE e.type \in {"ProjectArchived", "ProjectRestored"}
  BY <1>4 DEF ApplyEvent, Project
<1>5. CASE e.type \in {"ProjectCreated", "ProjectDeleted"}
  BY <1>5 DEF ApplyEvent, Project
<1>. QED
  BY <1>1, <1>2, <1>3, <1>4, <1>5
  DEF Event, CreatedEvent, RenamedEvent, MovedEvent, PatchedEvent, PlainEvent

\* Only a rename touches the name, only a move the directory.
LEMMA AppliedKeeps ==
  ASSUME NEW p \in Project, NEW e \in Event
  PROVE  /\ e.type # "ProjectRenamed" => ApplyEvent(p, e).name = p.name
         /\ e.type # "ProjectDirectoryChanged" => ApplyEvent(p, e).directory = p.directory
         /\ e.type = "ProjectRenamed" => ApplyEvent(p, e).name = e.name
         /\ e.type = "ProjectDirectoryChanged" => ApplyEvent(p, e).directory = e.directory
BY DEF ApplyEvent, Project, Event, CreatedEvent, RenamedEvent, MovedEvent,
       PatchedEvent, PlainEvent

\* foldList returns a list of projects.
LEMMA FoldIsTyped ==
  ASSUME NEW list \in SUBSET Project, NEW e \in Event
  PROVE  FoldEvent(list, e) \in SUBSET Project
<1>. QED
  BY CreatedFields, CreatedIsProject, AppliedIsProject DEF FoldEvent

\* Where each record of the folded list comes from.
LEMMA FoldSources ==
  ASSUME NEW list \in SUBSET Project, NEW e \in Event, NEW q \in FoldEvent(list, e)
  PROVE  \/ q \in list /\ q.id # e.projectId
         \/ e.type = "ProjectCreated" /\ q \in list
         \/ e.type = "ProjectCreated" /\ q = FromCreated(e) /\ e.projectId \notin Ids(list)
         \/ /\ e.type \notin {"ProjectCreated", "ProjectDeleted"}
            /\ \E p \in list : p.id = e.projectId /\ q = ApplyEvent(p, e)
BY DEF FoldEvent, Ids

\* An event of another type than a creation changes the record it names only.
LEMMA ChangeSources ==
  ASSUME NEW list \in SUBSET Project, NEW e \in Event, e.type # "ProjectCreated",
         NEW q \in FoldEvent(list, e)
  PROVE  \/ q \in list /\ q.id # e.projectId
         \/ q.id = e.projectId /\ \E p \in list : p.id = e.projectId /\ q = ApplyEvent(p, e)
<1>1. CASE q \in list /\ q.id # e.projectId
  BY <1>1
<1>2. CASE \E p \in list : p.id = e.projectId /\ q = ApplyEvent(p, e)
  BY <1>2, AppliedIsProject
<1>. QED BY <1>1, <1>2, FoldSources

\* The fold adds no id but the created one, and removes no id but the deleted one.
LEMMA FoldIds ==
  ASSUME NEW list \in SUBSET Project, NEW e \in Event
  PROVE  /\ Ids(FoldEvent(list, e)) \subseteq Ids(list) \cup {e.projectId}
         /\ e.type # "ProjectCreated" => Ids(FoldEvent(list, e)) \subseteq Ids(list)
         /\ e.type = "ProjectDeleted" => e.projectId \notin Ids(FoldEvent(list, e))
<1>2. \A q \in FoldEvent(list, e) :
        /\ q.id \in Ids(list) \cup {e.projectId}
        /\ e.type # "ProjectCreated" => q.id \in Ids(list)
  BY CreatedFields, FoldSources, CreatedIsProject, AppliedIsProject DEF Ids
<1>3. e.type = "ProjectDeleted" => e.projectId \notin Ids(FoldEvent(list, e))
  BY DEF FoldEvent, Ids
<1>. QED BY <1>2, <1>3 DEF Ids

\* The record a creation or a change yields is in the folded list.
LEMMA FoldHolds ==
  ASSUME NEW list \in SUBSET Project, NEW e \in Event
  PROVE  /\ e.type = "ProjectCreated" /\ e.projectId \notin Ids(list) =>
              FromCreated(e) \in FoldEvent(list, e)
         /\ \A p \in list :
              e.type \notin {"ProjectCreated", "ProjectDeleted"} /\ p.id = e.projectId =>
                ApplyEvent(p, e) \in FoldEvent(list, e)
BY DEF FoldEvent, Ids

\* Ids stay unique under every event.
LEMMA FoldKeepsIdsUnique ==
  ASSUME NEW list \in SUBSET Project, NEW e \in Event, IdsUnique(list)
  PROVE  IdsUnique(FoldEvent(list, e))
<1>. SUFFICES ASSUME NEW q \in FoldEvent(list, e), NEW r \in FoldEvent(list, e), q.id = r.id
              PROVE  q = r
  BY DEF IdsUnique
<1>. QED
  BY CreatedFields, FoldSources, CreatedIsProject, AppliedIsProject DEF Ids, IdsUnique

\* Names stay unique when a created or renamed project takes a free name.
LEMMA FoldKeepsNamesUnique ==
  ASSUME NEW list \in SUBSET Project, NEW e \in Event, IdsUnique(list), NamesUnique(list),
         e.type \in {"ProjectCreated", "ProjectRenamed"} =>
           \A p \in list : p.name = e.name => p.id = e.projectId
  PROVE  NamesUnique(FoldEvent(list, e))
<1>. SUFFICES ASSUME NEW q \in FoldEvent(list, e), NEW r \in FoldEvent(list, e),
                     q.name = r.name
              PROVE  q = r
  BY DEF NamesUnique
<1>2. CASE e.type = "ProjectCreated"
  BY CreatedFields, <1>2, FoldSources DEF Ids, NamesUnique
<1>3. CASE e.type # "ProjectCreated"
  <2>1. \A p \in list : p.id = e.projectId =>
          \/ ApplyEvent(p, e).name = p.name
          \/ \A o \in list : o.name = ApplyEvent(p, e).name => o.id = e.projectId
    BY <1>3, AppliedKeeps
  <2>. QED BY <1>3, <2>1, ChangeSources DEF IdsUnique, NamesUnique
<1>. QED BY <1>2, <1>3

\* Directories stay unique when a created or moved project claims a free one.
LEMMA FoldKeepsDirectoriesUnique ==
  ASSUME NEW list \in SUBSET Project, NEW e \in Event,
         IdsUnique(list), DirectoriesUnique(list),
         e.type \in {"ProjectCreated", "ProjectDirectoryChanged"} /\ e.directory # Null =>
           \A p \in list : p.directory = e.directory => p.id = e.projectId
  PROVE  DirectoriesUnique(FoldEvent(list, e))
<1>. SUFFICES ASSUME NEW q \in FoldEvent(list, e), NEW r \in FoldEvent(list, e),
                     q.directory # Null, q.directory = r.directory
              PROVE  q = r
  BY DEF DirectoriesUnique
<1>2. CASE e.type = "ProjectCreated"
  BY CreatedFields, <1>2, FoldSources DEF Ids, DirectoriesUnique
<1>3. CASE e.type # "ProjectCreated"
  <2>1. e.type = "ProjectDirectoryChanged" => e.directory # Null
    BY NullIsNoValue DEF Event, CreatedEvent, RenamedEvent, MovedEvent, PatchedEvent, PlainEvent
  <2>2. \A p \in list : p.id = e.projectId =>
          \/ ApplyEvent(p, e).directory = p.directory
          \/ \A o \in list : o.directory = ApplyEvent(p, e).directory => o.id = e.projectId
    BY <1>3, <2>1, AppliedKeeps
  <2>. QED BY <1>3, <2>2, ChangeSources DEF IdsUnique, DirectoriesUnique
<1>. QED BY <1>2, <1>3

(***************************************************************************)
(* Types and requests.                                                     *)
(***************************************************************************)

\* The records the actions start from are of their types.
LEMMA RecordsTyped ==
  /\ NoJob \in Job
  /\ \A b \in Build : Blank(b) \in State
  /\ NoState \notin State
<1>1. Reply("none", Null) \in [tag : Outcome, project : Project \cup {Null}]
  BY DEF Reply, Outcome
<1>2. NoJob \in Job
  BY <1>1 DEF NoJob, Job, Stage, Entry
<1>3. \A b \in Build : Blank(b) \in State
  BY DEF Blank, State
<1>4. NoState \notin State
  BY DEF State, NoState
<1>. QED BY <1>2, <1>3, <1>4

\* A request that passes a check on its kind has the fields of that kind.
LEMMA RequestFields ==
  ASSUME NEW r \in Request
  PROVE  /\ r.op = "create" => r \in CreateRequest
         /\ r.op = "rename" => r \in RenameRequest
         /\ r.op = "changeDirectory" => r \in MoveRequest
         /\ r.op = "setMetadata" => r \in PatchRequest
         /\ r.op \in {"archive", "restore", "delete"} => r \in PlainRequest
BY RequestAssumption
DEF AnyRequest, CreateRequest, RenameRequest, MoveRequest, PatchRequest, PlainRequest

\* The initial state is typed.
LEMMA InitTyped == Init => TypeOK
<1>. SUFFICES ASSUME Init PROVE TypeOK
  OBVIOUS
<1>1. log \in Seq(Event) /\ bus \in Seq(Nat) /\ folds \in Seq(SUBSET Project)
  BY DEF Init
<1>2. diskChanges \in 0..MaxDiskChanges
  BY BoundsAssumption DEF Init
<1>. QED
  BY <1>1, <1>2, RecordsTyped DEF Init, TypeOK

\* A boot resumes from a typed row or from the blank state.
LEMMA BootTyped == ASSUME TypeOK, Boot PROVE TypeOK'
BY RecordsTyped DEF TypeOK, Boot, Usable, Rebuild, tables, world

\* Folding the next event of the log keeps a typed read model.
LEMMA CatchUpTyped == ASSUME TypeOK, CatchUp PROVE TypeOK'
<1>1. projection.seq + 1 \in 1..Len(log) /\ projection.seq + 1 \in Nat
  BY DEF TypeOK, CatchUp, State
<1>2. log[projection.seq + 1] \in Event
  BY <1>1, ElementOfSeq DEF TypeOK
<1>3. FoldEvent(projection.projects, log[projection.seq + 1]) \in SUBSET Project
  BY <1>2, FoldIsTyped DEF TypeOK, State
<1>4. projection' = [projection EXCEPT !.projects = FoldEvent(@, log[projection.seq + 1]),
                                     !.seq = projection.seq + 1]
  BY DEF CatchUp
<1>5. projection' \in State
  BY <1>1, <1>3, <1>4 DEF TypeOK, State
<1>. QED BY <1>5 DEF TypeOK, CatchUp, tables, process, world

\* Saving the caught-up read model keeps the types.
LEMMA ServeTyped == ASSUME TypeOK, Serve PROVE TypeOK'
<1>1. bus' \in Seq(Nat)
  BY DEF Serve
<1>. QED BY <1>1 DEF TypeOK, Serve, Save, world

\* So does the debounce fiber.
LEMMA CheckpointTyped == ASSUME TypeOK, PickUp \/ SavePicked PROVE TypeOK'
BY DEF TypeOK, PickUp, SavePicked, Save, tables, world

\* So does the end of the process, orderly or not.
LEMMA LifeTyped == ASSUME TypeOK, Crash \/ Shutdown \/ FinalCheckpoint PROVE TypeOK'
<1>1. CASE Shutdown
  BY <1>1 DEF TypeOK, Shutdown, tables, world
<1>2. ASSUME ProcessEnds, checkpoint' \in State \cup {NoState} PROVE TypeOK'
  <2>1. bus' \in Seq(Nat)
    BY <1>2 DEF ProcessEnds
  <2>2. job' \in [Client -> Job] /\ projection' \in State
    BY <1>2, RecordsTyped DEF ProcessEnds, TypeOK
  <2>. QED BY <1>2, <2>1, <2>2 DEF TypeOK, ProcessEnds, StopFiber, world
<1>. QED BY <1>1, <1>2 DEF Crash, FinalCheckpoint, Save, TypeOK

\* So do the file system and the readers.
LEMMA OutsideTyped == ASSUME TypeOK, DiskChanges \/ ListProjects PROVE TypeOK'
<1>1. CASE DiskChanges
  BY <1>1, BoundsAssumption DEF TypeOK, DiskChanges, tables, process
<1>2. CASE ListProjects
  BY <1>2 DEF TypeOK, ListProjects, Highest, State, tables, process, world
<1>. QED BY <1>1, <1>2

\* A mutation that takes the permit leaves every other variable alone.
LEMMA TakeTyped ==
  ASSUME TypeOK, NEW c \in Client, NEW r \in Request, NEW next \in Job, Take(c, r, next)
  PROVE  TypeOK'
<1>1. job' \in [Client -> Job]
  BY DEF TypeOK, Take, Job
<1>. QED BY <1>1 DEF TypeOK, Take, tables, process, world


(***************************************************************************)
(* The inductive invariant.                                                *)
(***************************************************************************)
\* An event the use cases may emit over a list, with some ids given out already.
LegalIn(list, issued, e) ==
  /\ e.type = "ProjectCreated" => e.projectId \notin issued
  /\ e.type # "ProjectCreated" => e.projectId \in Ids(list)
  /\ e.type \in {"ProjectCreated", "ProjectRenamed"} =>
       \A p \in list : p.name = e.name => p.id = e.projectId
  /\ e.type \in {"ProjectCreated", "ProjectDirectoryChanged"} /\ e.directory # Null =>
       \A p \in list : p.directory = e.directory => p.id = e.projectId
Admissible(e) == LegalIn(projection.projects, Issued, e)

\* What a job that has not been applied is going to answer.
ForetoldIn(list, j) ==
  \/ j.reply.tag = "ok" /\ j.reply.project \in FoldEvent(list, j.event)
  \/ /\ j.reply.tag = "deleted"
     /\ j.event.type = "ProjectDeleted" /\ j.event.projectId = j.request.id
Foretold(j) == ForetoldIn(projection.projects, j)

\* What an answer says is true of the list.
TruthfulIn(list, j) ==
  /\ j.reply.tag \in {"ok", "existing"} => j.reply.project \in list
  /\ j.reply.tag = "deleted" => j.request.id \notin Ids(list)
  /\ j.reply.tag = "AlreadyExists" => \E p \in list : p.name = j.request.name
  /\ j.reply.tag = "NameConflict" => \E p \in list : p.id # j.request.id /\ p.name = j.request.name
  /\ j.reply.tag = "NotFound" => j.request.id \notin Ids(list)
Truthful(j) == TruthfulIn(projection.projects, j)

Checking == {"statting", "resolving", "comparing"}

\* A job as it takes the permit.
Begun(j) ==
  \/ j.stage = "replying" /\ Truthful(j)
  \/ /\ j.stage \in {"statting", "appending"}
     /\ j.event \in Event /\ Admissible(j.event) /\ Foretold(j)
     /\ j.stage = "statting" => j.event.directory \in Directory

Begins(c, r) == \E j \in Job : Take(c, r, j) /\ Begun([j EXCEPT !.request = r])

\* What a mutation that refuses, answers from the list, or emits comes to.
LEMMA RefuseBegins ==
  ASSUME TypeOK, NEW c \in Client, NEW r \in Request,
         NEW tag \in Outcome \ {"ok", "existing", "deleted"}, Refuse(c, r, tag),
         tag = "AlreadyExists" => Named(projection.projects, r.name) # {},
         tag = "NameConflict" => Named(Others(r.id), r.name) # {},
         tag = "NotFound" => Find(r.id) = {}
  PROVE  Begins(c, r)
<1>. DEFINE j == [NoJob EXCEPT !.stage = "replying", !.reply = Reply(tag, Null)]
<1>1. j \in Job /\ j.stage = "replying" /\ j.reply.tag = tag
  BY RecordsTyped DEF NoJob, Job, Stage, Reply
<1>2. Take(c, r, j)
  BY DEF Refuse
<1>3. Begun([j EXCEPT !.request = r])
  BY <1>1 DEF Begun, Truthful, TruthfulIn, Named, Others, Find, Ids, Job
<1>. QED BY <1>1, <1>2, <1>3 DEF Begins

\* An emitted event is legal over the list, and its answer will be true.
LEMMA EmitBegins ==
  ASSUME TypeOK, NEW c \in Client, NEW r \in Request, NEW e \in Event,
         NEW reply \in [tag : Outcome, project : Project \cup {Null}], Emit(c, r, e, reply),
         Admissible(e),
         \/ reply.tag = "ok" /\ reply.project \in FoldEvent(projection.projects, e)
         \/ reply.tag = "deleted" /\ e.type = "ProjectDeleted" /\ e.projectId = r.id
  PROVE  Begins(c, r)
<1>. DEFINE j == [NoJob EXCEPT !.stage = "appending", !.event = e, !.reply = reply]
<1>1. j \in Job /\ j.stage = "appending" /\ j.event = e /\ j.reply = reply
  BY RecordsTyped DEF NoJob, Job, Stage
<1>2. Take(c, r, j)
  BY DEF Emit
<1>3. Begun([j EXCEPT !.request = r])
  BY <1>1 DEF Begun, Foretold, ForetoldIn, Job
<1>. QED BY <1>1, <1>2, <1>3 DEF Begins

\* A directory claim that passes the literal check goes on to the file system.
LEMMA ValidateBegins ==
  ASSUME TypeOK, NEW c \in Client, NEW r \in Request, NEW others \in SUBSET Project, NEW e, NEW reply,
         Validate(c, r, others, e, reply),
         Decodes(r.directory) =>
           /\ e \in Event /\ e.directory \in Directory
           /\ ~Claimed(r.directory, others) => Admissible(e)
           /\ reply \in [tag : Outcome, project : Project \cup {Null}]
           /\ reply.tag = "ok" /\ reply.project \in FoldEvent(projection.projects, e)
  PROVE  Begins(c, r)
<1>1. CASE ~Decodes(r.directory)
  <2>1. Refuse(c, r, "DirectoryInvalid")
    BY <1>1 DEF Validate
  <2>. QED BY <2>1, RefuseBegins DEF Outcome
<1>2. CASE Decodes(r.directory) /\ Claimed(r.directory, others)
  <2>1. Refuse(c, r, "DirectoryConflict")
    BY <1>2 DEF Validate
  <2>. QED BY <2>1, RefuseBegins DEF Outcome
<1>3. CASE Decodes(r.directory) /\ ~Claimed(r.directory, others)
  <2>. DEFINE j == [NoJob EXCEPT !.stage = "statting", !.others = others,
                                 !.event = e, !.reply = reply]
  <2>1. /\ j \in Job /\ j.stage = "statting"
        /\ j.event = e /\ j.reply = reply
    BY <1>3, RecordsTyped DEF NoJob, Job, Stage
  <2>2. Take(c, r, j)
    BY <1>3 DEF Validate
  <2>3. Begun([j EXCEPT !.request = r])
    BY <1>3, <2>1 DEF Begun, Foretold, ForetoldIn, Job
  <2>. QED BY <2>1, <2>2, <2>3 DEF Begins
<1>. QED BY <1>1, <1>2, <1>3

\* Each mutation of an existing project takes the permit with a job as above.
LEMMA RenameBegins ==
  ASSUME TypeOK, NEW c \in Client, NEW r \in Request,
         NEW target \in Find(r.id), RenameProject(c, r, target)
  PROVE  Begins(c, r)
<1>. DEFINE list == projection.projects
            e == [type |-> "ProjectRenamed", projectId |-> r.id, name |-> r.name]
            reply == Reply("ok", [target EXCEPT !.name = r.name])
<1>1. list \in SUBSET Project /\ target \in list /\ target.id = r.id /\ target \in Project
  BY DEF TypeOK, State, Find
<1>2. r \in RenameRequest
  BY RequestFields DEF RenameProject
<1>3. CASE ~Decodes(r.name) /\ Refuse(c, r, "InvalidInput")
  BY <1>3, RefuseBegins DEF Outcome
<1>4. CASE Named(Others(r.id), r.name) # {} /\ Refuse(c, r, "NameConflict")
  BY <1>4, RefuseBegins DEF Outcome
<1>5. CASE Decodes(r.name) /\ Named(Others(r.id), r.name) = {} /\ Emit(c, r, e, reply)
  <2>1. e \in Event /\ e.type = "ProjectRenamed" /\ e.projectId = r.id /\ e.name = r.name
    BY <1>2, <1>5 DEF RenameRequest, Decodes, Event, RenamedEvent
  <2>2. Admissible(e)
    BY <1>1, <1>5, <2>1 DEF Admissible, LegalIn, Named, Others, Ids
  <2>3. ApplyEvent(target, e) = [target EXCEPT !.name = r.name]
    BY DEF ApplyEvent
  <2>4. ApplyEvent(target, e) \in FoldEvent(list, e) \cap Project
    BY <1>1, <2>1, FoldHolds, AppliedIsProject
  <2>5. reply \in [tag : Outcome, project : Project \cup {Null}]
        /\ reply.tag = "ok" /\ reply.project \in FoldEvent(list, e)
    BY <2>3, <2>4 DEF Reply, Outcome
  <2>. QED BY <1>5, <2>1, <2>2, <2>5, EmitBegins
<1>. QED BY <1>3, <1>4, <1>5 DEF RenameProject

\* changeDirectory claims the new directory against the other projects.
LEMMA MoveBegins ==
  ASSUME TypeOK, NEW c \in Client, NEW r \in Request,
         NEW target \in Find(r.id), ChangeDirectory(c, r, target)
  PROVE  Begins(c, r)
<1>. DEFINE list == projection.projects
            e == [type |-> "ProjectDirectoryChanged", projectId |-> r.id,
                  directory |-> r.directory]
            reply == Reply("ok", ApplyEvent(target, e))
<1>1. list \in SUBSET Project /\ target \in list /\ target.id = r.id /\ target \in Project
      /\ Others(r.id) \in SUBSET Project
  BY DEF TypeOK, State, Find, Others
<1>2. r \in MoveRequest
  BY RequestFields DEF ChangeDirectory
<1>3. Validate(c, r, Others(r.id), e, reply)
  BY DEF ChangeDirectory
<1>4. ASSUME Decodes(r.directory)
      PROVE  /\ e \in Event /\ e.directory \in Directory
             /\ ~Claimed(r.directory, Others(r.id)) => Admissible(e)
             /\ reply \in [tag : Outcome, project : Project \cup {Null}]
             /\ reply.tag = "ok" /\ reply.project \in FoldEvent(list, e)
  <2>1. e \in Event /\ e.directory \in Directory
        /\ e.type = "ProjectDirectoryChanged" /\ e.projectId = r.id
    BY <1>2, <1>4 DEF MoveRequest, Decodes, Event, MovedEvent
  <2>2. ~Claimed(r.directory, Others(r.id)) => Admissible(e)
    BY <1>1, <2>1 DEF Admissible, LegalIn, Claimed, Others, Ids
  <2>3. ApplyEvent(target, e) \in FoldEvent(list, e) \cap Project
    BY <1>1, <2>1, FoldHolds, AppliedIsProject
  <2>. QED BY <2>1, <2>2, <2>3 DEF Reply, Outcome
<1>. QED BY <1>1, <1>3, <1>4, ValidateBegins

\* archive and restore emit their event whatever the flag was.
LEMMA ToggleBegins ==
  ASSUME TypeOK, NEW c \in Client, NEW r \in Request,
         NEW target \in Find(r.id), ToggleArchived(c, r, target)
  PROVE  Begins(c, r)
<1>. DEFINE list == projection.projects
            e == [type |-> IF r.op = "archive" THEN "ProjectArchived" ELSE "ProjectRestored",
                  projectId |-> r.id]
            reply == Reply("ok", ApplyEvent(target, e))
<1>1. list \in SUBSET Project /\ target \in list /\ target.id = r.id /\ target \in Project
  BY DEF TypeOK, State, Find
<1>2. /\ e \in Event /\ e.type \in {"ProjectArchived", "ProjectRestored"}
      /\ e.projectId = r.id
  BY RequestFields DEF ToggleArchived, PlainRequest, Event, PlainEvent
<1>3. Admissible(e)
  BY <1>1, <1>2 DEF Admissible, LegalIn, Ids
<1>4. ApplyEvent(target, e) \in FoldEvent(list, e) \cap Project
  BY <1>1, <1>2, FoldHolds, AppliedIsProject
<1>5. reply \in [tag : Outcome, project : Project \cup {Null}]
      /\ reply.tag = "ok" /\ reply.project \in FoldEvent(list, e)
  BY <1>4 DEF Reply, Outcome
<1>6. Emit(c, r, e, reply)
  BY DEF ToggleArchived
<1>. QED BY <1>2, <1>3, <1>5, <1>6, EmitBegins

\* setMetadata emits the patch it decoded.
LEMMA PatchBegins ==
  ASSUME TypeOK, NEW c \in Client, NEW r \in Request,
         NEW target \in Find(r.id), SetMetadata(c, r, target)
  PROVE  Begins(c, r)
<1>. DEFINE list == projection.projects
            e == [type |-> "ProjectMetadataChanged", projectId |-> r.id, patch |-> r.patch]
            reply == Reply("ok", ApplyEvent(target, e))
<1>1. list \in SUBSET Project /\ target \in list /\ target.id = r.id /\ target \in Project
  BY DEF TypeOK, State, Find
<1>2. r \in PatchRequest
  BY RequestFields DEF SetMetadata
<1>3. CASE Refuse(c, r, "InvalidInput")
  BY <1>3, RefuseBegins DEF Outcome
<1>4. CASE /\ Decodes(r.patch.description) /\ Decodes(r.patch.tags)
           /\ Emit(c, r, e, reply)
  <2>1. r.patch \in MetadataPatch
    BY <1>2, <1>4 DEF PatchRequest, MetadataPatch, Decodes
  <2>2. /\ e \in Event /\ e.type = "ProjectMetadataChanged"
        /\ e.projectId = r.id
    BY <1>2, <2>1 DEF PatchRequest, Event, PatchedEvent
  <2>3. Admissible(e)
    BY <1>1, <2>2 DEF Admissible, LegalIn, Ids
  <2>4. ApplyEvent(target, e) \in FoldEvent(list, e) \cap Project
    BY <1>1, <2>2, FoldHolds, AppliedIsProject
  <2>5. reply \in [tag : Outcome, project : Project \cup {Null}]
        /\ reply.tag = "ok" /\ reply.project \in FoldEvent(list, e)
    BY <2>4 DEF Reply, Outcome
  <2>. QED BY <1>4, <2>2, <2>3, <2>5, EmitBegins
<1>. QED BY <1>3, <1>4 DEF SetMetadata

\* delete emits the deletion of a project that is there.
LEMMA DeleteBegins ==
  ASSUME TypeOK, NEW c \in Client, NEW r \in Request, Find(r.id) # {}, DeleteProject(c, r)
  PROVE  Begins(c, r)
<1>. DEFINE e == [type |-> "ProjectDeleted", projectId |-> r.id]
            reply == Reply("deleted", Null)
<1>1. e \in Event /\ e.type = "ProjectDeleted" /\ e.projectId = r.id
  BY RequestFields DEF DeleteProject, PlainRequest, Event, PlainEvent
<1>2. Admissible(e)
  BY <1>1 DEF Admissible, LegalIn, Ids, Find
<1>3. reply \in [tag : Outcome, project : Project \cup {Null}] /\ reply.tag = "deleted"
  BY DEF Reply, Outcome
<1>4. Emit(c, r, e, reply)
  BY DEF DeleteProject
<1>. QED BY <1>1, <1>2, <1>3, <1>4, EmitBegins

\* Every mutation of an existing project begins well.
LEMMA MutateBegins ==
  ASSUME TypeOK, NEW c \in Client, NEW r \in Request, MutateProject(c, r)
  PROVE  Begins(c, r)
<1>1. CASE Find(r.id) = {} /\ Refuse(c, r, "NotFound")
  BY <1>1, RefuseBegins DEF Outcome
<1>2. ASSUME NEW target \in Find(r.id),
             \/ RenameProject(c, r, target) \/ ChangeDirectory(c, r, target)
             \/ ToggleArchived(c, r, target) \/ SetMetadata(c, r, target)
             \/ DeleteProject(c, r)
      PROVE  Begins(c, r)
  BY <1>2, RenameBegins, MoveBegins, ToggleBegins, PatchBegins, DeleteBegins
<1>. QED BY <1>1, <1>2 DEF MutateProject

\* So does a creation, because no listed id is handed out again.
LEMMA CreateBegins ==
  ASSUME TypeOK, Ids(projection.projects) \subseteq Issued,
         NEW c \in Client, NEW r \in Request, CreateProject(c, r)
  PROVE  Begins(c, r)
<1>. DEFINE list == projection.projects
<1>1. r \in CreateRequest /\ list \in SUBSET Project
  BY RequestFields DEF CreateProject, TypeOK, State
<1>2. CASE Refuse(c, r, "InvalidInput")
  BY <1>2, RefuseBegins DEF Outcome
<1>3. ASSUME NEW existing \in Named(list, r.name), Refuse(c, r, "AlreadyExists")
      PROVE  Begins(c, r)
  BY <1>3, RefuseBegins DEF Outcome
<1>4. ASSUME NEW existing \in Named(list, r.name),
             Take(c, r, [NoJob EXCEPT !.stage = "replying",
                                      !.reply = Reply("existing", existing)])
      PROVE  Begins(c, r)
  <2>. DEFINE j == [NoJob EXCEPT !.stage = "replying", !.reply = Reply("existing", existing)]
  <2>1. existing \in list /\ existing \in Project
    BY <1>1 DEF Named
  <2>2. j \in Job /\ j.stage = "replying" /\ j.reply = Reply("existing", existing)
    BY <2>1, RecordsTyped DEF NoJob, Job, Stage, Reply, Outcome
  <2>3. Begun([j EXCEPT !.request = r])
    BY <2>1, <2>2 DEF Begun, Truthful, TruthfulIn, Reply, Job
  <2>. QED BY <1>4, <2>2, <2>3 DEF Begins
<1>5. ASSUME Decodes(r.name), Named(list, r.name) = {}, NEW id \in FreshId,
             LET e == [type |-> "ProjectCreated", projectId |-> id,
                       name |-> r.name, directory |-> r.directory]
                 reply == Reply("ok", FromCreated(e))
             IN IF r.directory = Null
                THEN Emit(c, r, e, reply)
                ELSE Validate(c, r, list, e, reply)
      PROVE  Begins(c, r)
  <2>. DEFINE e == [type |-> "ProjectCreated", projectId |-> id,
                    name |-> r.name, directory |-> r.directory]
              reply == Reply("ok", FromCreated(e))
  <2>1. e.type = "ProjectCreated" /\ e.projectId = id /\ e.name = r.name
        /\ e.directory = r.directory /\ id \notin Issued /\ id \notin Ids(list)
    BY DEF FreshId
  <2>2. Decodes(r.directory) => e \in Event /\ e \in CreatedEvent
    BY <1>1, <1>5 DEF CreateRequest, Decodes, Event, CreatedEvent, FreshId
  <2>3. Decodes(r.directory) =>
          /\ reply \in [tag : Outcome, project : Project \cup {Null}]
          /\ reply.tag = "ok" /\ reply.project \in FoldEvent(list, e)
    BY <1>1, <2>1, <2>2, CreatedIsProject, FoldHolds DEF Reply, Outcome
  <2>4. CASE r.directory = Null
    <3>1. Decodes(r.directory) /\ Emit(c, r, e, reply)
      BY <1>5, <2>4, MalformedIsNoValue DEF Decodes
    <3>2. Admissible(e)
      BY <1>5, <2>1, <2>4 DEF Admissible, LegalIn, Named
    <3>. QED BY <2>2, <2>3, <3>1, <3>2, EmitBegins
  <2>5. CASE r.directory # Null
    <3>1. Validate(c, r, list, e, reply)
      BY <1>5, <2>5
    <3>2. Decodes(r.directory) => e.directory \in Directory
      BY <1>1, <2>1, <2>5 DEF CreateRequest, Decodes
    <3>3. ~Claimed(r.directory, list) => Admissible(e)
      BY <1>5, <2>1 DEF Admissible, LegalIn, Named, Claimed
    <3>. QED BY <1>1, <2>2, <2>3, <3>1, <3>2, <3>3, ValidateBegins
  <2>. QED BY <2>4, <2>5
<1>. QED BY <1>2, <1>3, <1>4, <1>5 DEF CreateProject

(***************************************************************************)
(* The inductive invariant: the log, the jobs, the copies of the list.     *)
(***************************************************************************)
\* The log folds to lists without duplicates; ids come from the log and do
\* not come back.
LogInv ==
  /\ Len(folds) = Len(log) + 1 /\ folds[1] = {}
  /\ \A n \in 1..Len(log) : folds[n + 1] = FoldEvent(folds[n], log[n])
  /\ \A n \in 1..Len(folds) :
       /\ IdsUnique(folds[n]) /\ NamesUnique(folds[n]) /\ DirectoriesUnique(folds[n])
       /\ Ids(folds[n]) \subseteq Issued
  /\ \A n \in 1..Len(log) : log[n].type = "ProjectDeleted" =>
       /\ log[n].projectId \in Issued
       /\ \A m \in n..Len(log) : log[n].projectId \notin Ids(folds[m + 1])

\* What each job may rely on at its stage.
JobOK(c) ==
  /\ job[c].stage # "idle" => mutex = c /\ mode \in {"running", "closing"}
  /\ job[c].stage \in Checking \cup {"appending"} =>
       job[c].event \in Event /\ Admissible(job[c].event) /\ Foretold(job[c])
  /\ job[c].stage \in {"statting", "resolving"} => job[c].event.directory \in Directory
  /\ job[c].stage = "applying" =>
       /\ job[c].event \in Event /\ Foretold(job[c])
       /\ Len(log) >= 1 /\ job[c].seq = Len(log) /\ log[Len(log)] = job[c].event
       /\ projection.seq = Len(log) - 1
  /\ job[c].stage = "publishing" => job[c].seq = Len(log)
  /\ job[c].stage \in {"publishing", "replying"} => Truthful(job[c])
JobInv == \A c \in Client : JobOK(c)

Serving == mode \in {"running", "closing"}
Unapplied   == \E c \in Client : job[c].stage = "applying"
Unpublished == \E c \in Client : job[c].stage \in {"applying", "publishing"}

\* How far read model, checkpoint, bus and readers are.
PlaceInv ==
  /\ ReadModelReplaysLog /\ CheckpointReplaysLog /\ ServesOwnShape
  /\ Serving /\ ~Unapplied => projection.seq = Len(log)
  /\ BusFollowsReadModel
  /\ Serving /\ bus # <<>> =>
       bus[Len(bus)] = IF Unpublished THEN Len(log) - 1 ELSE Len(log)
  /\ ~Serving => bus = <<>> /\ saving = NoState
  /\ seen <= Len(log) /\ (Serving => seen <= projection.seq)
  /\ Serving => checkpoint.seq <= projection.seq
  /\ saving # NoState => checkpoint.seq <= saving.seq /\ saving.seq <= projection.seq

IInv == TypeOK /\ LogInv /\ JobInv /\ PlaceInv

(***************************************************************************)
(* Types.                                                                  *)
(***************************************************************************)
\* The steps of a job change that job, and one of the log, the read model,
\* the bus or the permit.
LEMMA ProceedTyped ==
  ASSUME TypeOK, NEW c \in Client, NEW from, NEW next \in Job, Proceed(c, from, next)
  PROVE  TypeOK'
<1>1. job' \in [Client -> Job]
  BY DEF TypeOK, Proceed
<1>. QED BY <1>1 DEF TypeOK, Proceed, tables, process, world

\* A rejected job is a job.
LEMMA RejectedTyped ==
  ASSUME NEW j \in Job, NEW tag \in Outcome
  PROVE  Rejected(j, tag) \in Job
BY DEF Rejected, Reply, Job, Stage

\* The three awaits of validateDirectory keep the types.
LEMMA CheckTyped ==
  ASSUME IInv, NEW c \in Client,
         StatDirectory(c) \/ ResolveDirectory(c) \/ CompareDirectories(c)
  PROVE  TypeOK'
<1>. USE DEF IInv
<1>1. job[c] \in Job
  BY DEF TypeOK
<1>2. Rejected(job[c], "DirectoryInvalid") \in Job /\ Rejected(job[c], "DirectoryConflict") \in Job
  BY <1>1, RejectedTyped DEF Outcome
<1>3. CASE StatDirectory(c)
  <2>1. [job[c] EXCEPT !.stage = "resolving"] \in Job
    BY <1>1 DEF Job, Stage
  <2>. QED BY <1>2, <1>3, <2>1, ProceedTyped DEF StatDirectory
<1>4. CASE ResolveDirectory(c)
  <2>1. job[c].stage = "resolving"
    BY <1>4 DEF ResolveDirectory, Proceed
  <2>2. disk[job[c].event.directory] \in Entry
    BY <2>1, DiskAssumption DEF TypeOK, JobInv, JobOK
  <2>3. [job[c] EXCEPT !.stage = "comparing", !.at = disk[job[c].event.directory]] \in Job
    BY <1>1, <2>2 DEF Job, Stage
  <2>. QED BY <1>2, <1>4, <2>3, ProceedTyped DEF ResolveDirectory
<1>5. CASE CompareDirectories(c)
  <2>1. [job[c] EXCEPT !.stage = "appending"] \in Job
    BY <1>1 DEF Job, Stage
  <2>. QED BY <1>2, <1>5, <2>1, ProceedTyped DEF CompareDirectories
<1>. QED BY <1>3, <1>4, <1>5

\* The append keeps the types: the event of the job is an event.
LEMMA AppendTyped == ASSUME IInv, NEW c \in Client, AppendEvent(c) PROVE TypeOK'
<1>. USE DEF IInv
<1>1. job[c] \in Job /\ job[c].event \in Event
  BY DEF TypeOK, AppendEvent, JobInv, JobOK
<1>2. log' \in Seq(Event) /\ Len(log) + 1 \in Nat
  BY <1>1 DEF TypeOK, AppendEvent
<1>3. folds[Len(folds)] \in SUBSET Project
  BY ElementOfSeq, LenProperties DEF TypeOK, LogInv
<1>4. folds' \in Seq(SUBSET Project)
  BY <1>1, <1>3, FoldIsTyped DEF TypeOK, AppendEvent
<1>5. job' \in [Client -> Job]
  BY <1>1, <1>2 DEF TypeOK, AppendEvent, Job, Stage
<1>. QED BY <1>2, <1>4, <1>5 DEF TypeOK, AppendEvent, process, world

\* Applying a stored event keeps a typed read model.
LEMMA ApplyTyped == ASSUME IInv, NEW c \in Client, Apply(c) PROVE TypeOK'
<1>. USE DEF IInv
<1>1. job[c] \in Job /\ job[c].event \in Event /\ job[c].seq \in Nat
  BY DEF TypeOK, Apply, JobInv, JobOK, Job
<1>2. FoldEvent(projection.projects, job[c].event) \in SUBSET Project
  BY <1>1, FoldIsTyped DEF TypeOK, State
<1>3. projection' \in State
  BY <1>1, <1>2 DEF TypeOK, Apply, State
<1>4. job' \in [Client -> Job]
  BY <1>1 DEF TypeOK, Apply, Job, Stage
<1>. QED BY <1>3, <1>4 DEF TypeOK, Apply, tables, process, world

\* Publishing keeps the types.
LEMMA PublishTyped == ASSUME TypeOK, NEW c \in Client, Publish(c) PROVE TypeOK'
<1>1. job[c] \in Job /\ job[c].seq \in Nat
  BY DEF TypeOK, Job
<1>2. bus' \in Seq(Nat) /\ seen' \in Nat
  BY <1>1 DEF TypeOK, Publish, Highest
<1>3. job' \in [Client -> Job]
  BY <1>1 DEF TypeOK, Publish, Job, Stage
<1>. QED BY <1>2, <1>3 DEF TypeOK, Publish, tables, process, world

\* Giving the permit back keeps the types.
LEMMA EndTyped == ASSUME TypeOK, NEW c \in Client, Answer(c) \/ Interrupt(c) PROVE TypeOK'
<1>1. job' \in [Client -> Job]
  BY RecordsTyped DEF TypeOK, Answer, Interrupt
<1>. QED BY <1>1 DEF TypeOK, Answer, Interrupt, GiveBack, tables, process, world

(***************************************************************************)
(* The log.  Only AppendEvent changes it.                                  *)
(***************************************************************************)
\* The log and what is derived from it stand still together.
LEMMA LogFrame ==
  ASSUME LogInv, UNCHANGED <<log, folds>>
  PROVE  LogInv' /\ Issued' = Issued
<1>1. Issued' = Issued
  BY DEF Issued
<1>. QED BY <1>1 DEF LogInv

\* Everything is applied when a job is about to append.
LEMMA Current ==
  ASSUME IInv, Serving, ~Unapplied
  PROVE  projection.seq = Len(log) /\ projection.projects = folds[Len(folds)]
BY DEF IInv, PlaceInv, LogInv, ReadModelReplaysLog

\* The job that holds the permit is alone.
LEMMA OthersIdle ==
  ASSUME IInv, NEW c \in Client, job[c].stage # "idle"
  PROVE  /\ Serving /\ mutex = c
         /\ \A d \in Client \ {c} : job[d].stage = "idle"
BY DEF IInv, JobInv, JobOK, Serving

\* The appended event is legal over the fold of the log it joins.
LEMMA AppendKeepsLog ==
  ASSUME IInv, NEW c \in Client, AppendEvent(c)
  PROVE  LogInv'
<1>. DEFINE e == job[c].event
            n == Len(log) + 1
            list == folds[n]
<1>1. /\ e \in Event /\ Admissible(e)
      /\ log \in Seq(Event) /\ folds \in Seq(SUBSET Project)
      /\ Len(log) \in Nat /\ Len(folds) = n /\ list \in SUBSET Project
  BY ElementOfSeq, LenProperties DEF IInv, JobInv, JobOK, AppendEvent, TypeOK, LogInv
<1>2. projection.projects = list
  <2>1. Serving /\ ~Unapplied
    BY OthersIdle DEF AppendEvent, Unapplied
  <2>. QED BY <1>1, <2>1, Current
<1>3. LegalIn(list, Issued, e)
  BY <1>1, <1>2 DEF Admissible
<1>4. /\ Len(log') = n /\ log'[n] = e
      /\ \A i \in 1..Len(log) : log'[i] = log[i]
  BY <1>1 DEF AppendEvent
<1>5. /\ Len(folds') = n + 1 /\ folds'[n + 1] = FoldEvent(list, e)
      /\ \A i \in 1..n : folds'[i] = folds[i]
  BY <1>1, FoldIsTyped DEF AppendEvent
<1>6. /\ Issued \subseteq Issued'
      /\ e.type = "ProjectCreated" => e.projectId \in Issued'
  BY <1>1, <1>4 DEF Issued
<1>7. /\ IdsUnique(FoldEvent(list, e)) /\ NamesUnique(FoldEvent(list, e))
      /\ DirectoriesUnique(FoldEvent(list, e))
  <2>1. IdsUnique(list) /\ NamesUnique(list) /\ DirectoriesUnique(list)
    BY <1>1 DEF IInv, LogInv
  <2>. QED
    BY <1>1, <1>3, <2>1, FoldKeepsIdsUnique, FoldKeepsNamesUnique, FoldKeepsDirectoriesUnique
    DEF LegalIn
<1>8. Ids(list) \subseteq Issued
  BY <1>1 DEF IInv, LogInv
<1>9. Ids(FoldEvent(list, e)) \subseteq Issued'
  BY <1>1, <1>6, <1>8, FoldIds
<1>10. ASSUME NEW i \in 1..n, log'[i].type = "ProjectDeleted"
       PROVE  /\ log'[i].projectId \in Issued'
              /\ \A m \in i..n : log'[i].projectId \notin Ids(folds'[m + 1])
  <2>1. CASE i = n
    <3>1. e.projectId \in Issued' /\ e.projectId \notin Ids(FoldEvent(list, e))
      BY <1>1, <1>3, <1>4, <1>6, <1>8, <1>10, <2>1, FoldIds DEF LegalIn
    <3>. QED BY <1>1, <1>4, <1>5, <2>1, <3>1
  <2>2. CASE i \in 1..Len(log)
    <3>1. /\ log[i].type = "ProjectDeleted" /\ log'[i] = log[i]
          /\ log[i].projectId \in Issued
          /\ \A m \in i..Len(log) : log[i].projectId \notin Ids(folds[m + 1])
      BY <1>4, <1>10, <2>2 DEF IInv, LogInv
    <3>2. log[i].projectId \notin Ids(list)
      BY <1>1, <2>2, <3>1
    <3>3. log[i].projectId \notin Ids(FoldEvent(list, e))
      BY <1>1, <1>3, <3>1, <3>2, FoldIds DEF LegalIn
    <3>4. \A m \in i..Len(log) : folds'[m + 1] = folds[m + 1]
      BY <1>1, <1>5, <2>2
    <3>5. ASSUME NEW m \in i..n PROVE log[i].projectId \notin Ids(folds'[m + 1])
      <4>1. CASE m = n
        BY <1>5, <3>3, <4>1
      <4>2. CASE m \in i..Len(log)
        BY <3>1, <3>4, <4>2
      <4>. QED BY <1>1, <2>2, <4>1, <4>2
    <3>. QED BY <1>6, <3>1, <3>5
  <2>. QED BY <1>1, <2>1, <2>2
<1>11. folds'[1] = {}
  BY <1>1, <1>5 DEF IInv, LogInv
<1>12. \A i \in 1..n : folds'[i + 1] = FoldEvent(folds'[i], log'[i])
  BY <1>1, <1>4, <1>5 DEF IInv, LogInv
<1>13. \A i \in 1..n + 1 :
         /\ IdsUnique(folds'[i]) /\ NamesUnique(folds'[i]) /\ DirectoriesUnique(folds'[i])
         /\ Ids(folds'[i]) \subseteq Issued'
  BY <1>1, <1>5, <1>6, <1>7, <1>9 DEF IInv, LogInv
<1>. QED BY <1>4, <1>5, <1>10, <1>11, <1>12, <1>13 DEF LogInv

(***************************************************************************)
(* The jobs.                                                               *)
(***************************************************************************)
\* A client without a job owes nothing.
LEMMA IdleIsOK == ASSUME NEW c \in Client, job'[c].stage = "idle" PROVE JobOK(c)'
BY DEF JobOK, Checking

\* Without a serving process there are no jobs.
LEMMA NoJobs == IInv /\ ~Serving => \A c \in Client : job[c].stage = "idle"
BY DEF IInv, JobInv, JobOK, Serving

\* Jobs do not notice a step that leaves the log and the read model alone.
LEMMA JobFrame ==
  ASSUME IInv, UNCHANGED <<log, projection, mutex, job>>, Serving => Serving'
  PROVE  JobInv'
<1>1. Issued' = Issued
  BY DEF Issued
<1>. QED
  BY <1>1 DEF IInv, JobInv, JobOK, Admissible, Foretold, Truthful, Serving

\* A step of the job that holds the permit leaves the others at rest.
LEMMA OneJobMoves ==
  ASSUME IInv, NEW c \in Client, job[c].stage # "idle" \/ mutex = Null,
         NEW j, job' = [job EXCEPT ![c] = j], JobOK(c)'
  PROVE  JobInv' /\ \A d \in Client \ {c} : job'[d].stage = "idle"
<1>1. \A d \in Client \ {c} : job[d].stage = "idle"
  BY OthersIdle, NullIsNoClient DEF IInv, JobInv, JobOK
<1>2. \A d \in Client \ {c} : job'[d].stage = "idle"
  BY <1>1 DEF IInv, TypeOK
<1>. QED BY <1>2, IdleIsOK DEF JobInv

\* A mutation that takes the permit is the only one.
LEMMA BeginKeepsJobs ==
  ASSUME IInv, NEW c \in Client, NEW r \in Request, CanBegin(c), Begins(c, r)
  PROVE  JobInv' /\ ~Unpublished /\ ~Unpublished'
<1>. PICK j \in Job : Take(c, r, j) /\ Begun([j EXCEPT !.request = r])
  BY DEF Begins
<1>. DEFINE k == [j EXCEPT !.request = r]
<1>1. /\ mutex = Null /\ mutex' = c /\ mode' = mode /\ mode = "running"
      /\ projection' = projection /\ log' = log /\ job' = [job EXCEPT ![c] = k]
  BY DEF CanBegin, PermitFree, Take, tables, process
<1>2. Issued' = Issued /\ job'[c] = k
  BY <1>1 DEF Issued, IInv, TypeOK
<1>3. k.stage \in {"replying", "statting", "appending"}
  BY DEF Begun
<1>4. JobOK(c)'
  BY <1>1, <1>2, <1>3 DEF Begun, JobOK, Admissible, Foretold, Truthful, Checking
<1>5. JobInv' /\ \A d \in Client \ {c} : job'[d].stage = "idle"
  BY <1>1, <1>4, OneJobMoves
<1>6. ~Unpublished'
  BY <1>2, <1>3, <1>5 DEF Unpublished
<1>7. ~Unpublished
  BY <1>1, NullIsNoClient DEF Unpublished, IInv, JobInv, JobOK
<1>. QED BY <1>5, <1>6, <1>7

\* The checks of the file system keep what the job was checked for.
LEMMA CheckKeepsJobs ==
  ASSUME IInv, NEW c \in Client,
         StatDirectory(c) \/ ResolveDirectory(c) \/ CompareDirectories(c)
  PROVE  JobInv' /\ ~Unpublished /\ ~Unpublished'
<1>. PICK next : /\ job' = [job EXCEPT ![c] = next]
                 /\ \/ /\ next.stage = "replying"
                       /\ next.reply.tag \in {"DirectoryInvalid", "DirectoryConflict"}
                    \/ /\ next.stage \in {"resolving", "comparing", "appending"}
                       /\ next.event = job[c].event /\ next.reply = job[c].reply
                       /\ next.request = job[c].request
                       /\ next.stage = "resolving" => job[c].stage = "statting"
  <2>1. job[c] \in Job
    BY DEF IInv, TypeOK
  <2>2. \A tag \in {"DirectoryInvalid", "DirectoryConflict"} :
          Rejected(job[c], tag).stage = "replying" /\ Rejected(job[c], tag).reply.tag = tag
    BY <2>1 DEF Rejected, Reply, Job
  <2>3. CASE StatDirectory(c)
    <3>. DEFINE next == [job[c] EXCEPT !.stage = "resolving"]
    <3>1. /\ next.stage = "resolving" /\ next.event = job[c].event
          /\ next.reply = job[c].reply /\ next.request = job[c].request
      BY <2>1 DEF Job
    <3>2. /\ job[c].stage = "statting"
          /\ \/ job' = [job EXCEPT ![c] = next]
             \/ job' = [job EXCEPT ![c] = Rejected(job[c], "DirectoryInvalid")]
      BY <2>3 DEF StatDirectory, Proceed
    <3>. QED BY <2>2, <3>1, <3>2
  <2>4. CASE ResolveDirectory(c)
    <3>. DEFINE next == [job[c] EXCEPT !.stage = "comparing",
                                       !.at = disk[job[c].event.directory]]
    <3>1. /\ next.stage = "comparing" /\ next.event = job[c].event
          /\ next.reply = job[c].reply /\ next.request = job[c].request
      BY <2>1 DEF Job
    <3>2. \/ job' = [job EXCEPT ![c] = next]
          \/ job' = [job EXCEPT ![c] = Rejected(job[c], "DirectoryInvalid")]
      BY <2>4 DEF ResolveDirectory, Proceed
    <3>. QED BY <2>2, <3>1, <3>2
  <2>5. CASE CompareDirectories(c)
    <3>. DEFINE next == [job[c] EXCEPT !.stage = "appending"]
    <3>1. /\ next.stage = "appending" /\ next.event = job[c].event
          /\ next.reply = job[c].reply /\ next.request = job[c].request
      BY <2>1 DEF Job
    <3>2. \/ job' = [job EXCEPT ![c] = next]
          \/ job' = [job EXCEPT ![c] = Rejected(job[c], "DirectoryConflict")]
      BY <2>5 DEF CompareDirectories, Proceed
    <3>. QED BY <2>2, <3>1, <3>2
  <2>. QED BY <2>3, <2>4, <2>5
<1>1. /\ job[c].stage \in Checking
      /\ mutex' = mutex /\ mode' = mode /\ projection' = projection /\ log' = log
  BY DEF StatDirectory, ResolveDirectory, CompareDirectories, Proceed, Checking, tables, process
<1>2. Issued' = Issued /\ job'[c] = next
  BY <1>1 DEF Issued, IInv, TypeOK
<1>3. JobOK(c)
  BY DEF IInv, JobInv
<1>4. JobOK(c)'
  BY <1>1, <1>2, <1>3
  DEF JobOK, Admissible, Foretold, ForetoldIn, Truthful, TruthfulIn, Checking
<1>5. JobInv' /\ \A d \in Client \ {c} : job'[d].stage = "idle"
  BY <1>1, <1>4, OneJobMoves DEF Checking
<1>6. ~Unpublished'
  BY <1>2, <1>5 DEF Unpublished
<1>7. ~Unpublished
  BY <1>1, OthersIdle DEF Unpublished, Checking
<1>. QED BY <1>5, <1>6, <1>7

\* After the append, the read model is one event behind.
LEMMA AppendKeepsJobs ==
  ASSUME IInv, NEW c \in Client, AppendEvent(c)
  PROVE  JobInv' /\ ~Unpublished /\ Unapplied' /\ Unpublished'
<1>. DEFINE next == [job[c] EXCEPT !.stage = "applying", !.seq = Len(log) + 1]
<1>1. /\ job[c].stage = "appending" /\ job[c] \in Job /\ job[c].event \in Event
      /\ Foretold(job[c]) /\ mutex = c /\ Serving
  BY OthersIdle DEF AppendEvent, IInv, JobInv, JobOK, TypeOK
<1>2. job' = [job EXCEPT ![c] = next] /\ job'[c] = next
  BY <1>1 DEF AppendEvent, IInv, TypeOK
<1>3. /\ next.stage = "applying" /\ next.seq = Len(log) + 1 /\ next.event = job[c].event
      /\ next.reply = job[c].reply /\ next.request = job[c].request
  BY <1>1 DEF Job
<1>4. ~Unpublished /\ ~Unapplied
  BY <1>1, OthersIdle DEF Unpublished, Unapplied
<1>5. projection.seq = Len(log)
  BY <1>1, <1>4, Current
<1>6. /\ Len(log') = Len(log) + 1 /\ log'[Len(log) + 1] = job[c].event /\ Len(log) \in Nat
      /\ mutex' = mutex /\ mode' = mode /\ projection' = projection
  BY <1>1, LenProperties DEF AppendEvent, IInv, TypeOK, process
<1>7. JobOK(c)'
  <2>1. /\ job'[c].stage = "applying" /\ job'[c].event \in Event /\ job'[c].seq = Len(log')
        /\ log'[Len(log')] = job'[c].event
    <3>. HIDE DEF next
    <3>. QED BY <1>1, <1>2, <1>3, <1>6
  <2>3. mutex' = c /\ Serving' /\ Len(log') >= 1 /\ projection'.seq = Len(log') - 1
    BY <1>1, <1>5, <1>6 DEF Serving
  <2>2. Foretold(job[c])'
    BY <1>1, <1>2, <1>3, <1>6 DEF Foretold, ForetoldIn
  <2>. QED BY <2>1, <2>2, <2>3 DEF JobOK, Serving, Checking
<1>8. JobInv'
  BY <1>1, <1>2, <1>7, OneJobMoves
<1>9. Unapplied' /\ Unpublished'
  BY <1>2, <1>3 DEF Unapplied, Unpublished
<1>. QED BY <1>4, <1>8, <1>9

\* Apply adds the last event of the log, and makes the answer true.
LEMMA ApplyKeepsJobs ==
  ASSUME IInv, NEW c \in Client, Apply(c)
  PROVE  /\ JobInv' /\ Unpublished /\ ~Unapplied' /\ Unpublished'
         /\ projection' = [projection EXCEPT !.projects = FoldEvent(@, log[Len(log)]),
                                             !.seq = Len(log)]
<1>. DEFINE next == [job[c] EXCEPT !.stage = "publishing"]
<1>1. /\ job[c].stage = "applying" /\ job[c] \in Job /\ job[c].event \in Event
      /\ Foretold(job[c]) /\ mutex = c /\ Serving
      /\ job[c].seq = Len(log) /\ log[Len(log)] = job[c].event
      /\ projection.seq = Len(log) - 1 /\ Len(log) \in Nat /\ projection \in State
  BY OthersIdle, LenProperties DEF Apply, IInv, JobInv, JobOK, TypeOK
<1>2. job' = [job EXCEPT ![c] = next] /\ job'[c] = next
  BY <1>1 DEF Apply, IInv, TypeOK
<1>3. /\ next.stage = "publishing" /\ next.seq = Len(log)
      /\ next.reply = job[c].reply /\ next.request = job[c].request
  BY <1>1 DEF Job
<1>4. projection' = [projection EXCEPT !.projects = FoldEvent(@, log[Len(log)]),
                                       !.seq = Len(log)]
  BY <1>1 DEF Apply, Ahead
<1>5. log' = log /\ mutex' = mutex /\ mode' = mode
  BY DEF Apply, tables, process
<1>6. projection'.projects = FoldEvent(projection.projects, job[c].event)
  BY <1>1, <1>4 DEF State
<1>7. Truthful(job[c])'
  <2>1. projection.projects \in SUBSET Project
    BY <1>1 DEF State
  <2>2. job[c].event.type = "ProjectDeleted" =>
          job[c].event.projectId \notin Ids(projection'.projects)
    BY <1>1, <1>6, <2>1, FoldIds
  <2>. QED BY <1>1, <1>2, <1>3, <1>6, <2>2 DEF Foretold, ForetoldIn, Truthful, TruthfulIn
<1>8. JobOK(c)'
  <2>1. job'[c].stage = "publishing" /\ job'[c].seq = Len(log') /\ mutex' = c /\ Serving'
    BY <1>1, <1>2, <1>3, <1>5 DEF Serving
  <2>. QED BY <2>1, <1>7 DEF JobOK, Serving, Checking
<1>9. JobInv' /\ \A d \in Client \ {c} : job'[d].stage = "idle"
  BY <1>1, <1>2, <1>8, OneJobMoves
<1>. QED
  BY <1>1, <1>2, <1>3, <1>4, <1>9 DEF Unapplied, Unpublished

\* Publish completes the commit.
LEMMA PublishKeepsJobs ==
  ASSUME IInv, NEW c \in Client, Publish(c)
  PROVE  JobInv' /\ Unpublished /\ ~Unpublished' /\ ~Unapplied /\ job[c].seq = Len(log)
<1>. DEFINE next == [job[c] EXCEPT !.stage = "replying"]
<1>1. /\ job[c].stage = "publishing" /\ job[c] \in Job /\ Truthful(job[c])
      /\ mutex = c /\ Serving /\ job[c].seq = Len(log)
  BY OthersIdle DEF Publish, IInv, JobInv, JobOK, TypeOK
<1>2. job' = [job EXCEPT ![c] = next] /\ job'[c] = next
  BY <1>1 DEF Publish, IInv, TypeOK
<1>3. next.stage = "replying" /\ next.reply = job[c].reply /\ next.request = job[c].request
  BY <1>1 DEF Job
<1>4. mutex' = mutex /\ mode' = mode /\ projection' = projection
  BY DEF Publish, process
<1>5. JobOK(c)'
  BY <1>1, <1>2, <1>3, <1>4 DEF JobOK, Serving, Checking, Truthful, TruthfulIn
<1>6. JobInv' /\ \A d \in Client \ {c} : job'[d].stage = "idle"
  BY <1>1, <1>2, <1>5, OneJobMoves
<1>. QED
  BY <1>1, <1>2, <1>3, <1>6, OthersIdle DEF Unapplied, Unpublished

\* The permit comes back only from a job that is not committing.
LEMMA EndKeepsJobs ==
  ASSUME IInv, NEW c \in Client, Answer(c) \/ Interrupt(c)
  PROVE  JobInv' /\ ~Unpublished /\ ~Unpublished'
<1>1. /\ job[c].stage \in {"replying"} \cup Checking \cup {"appending"}
      /\ job' = [job EXCEPT ![c] = NoJob]
  BY DEF Answer, Interrupt, Interruptible, Checking
<1>2. job'[c].stage = "idle"
  BY <1>1 DEF IInv, TypeOK, NoJob
<1>3. JobInv' /\ \A d \in Client \ {c} : job'[d].stage = "idle"
  BY <1>1, <1>2, IdleIsOK, OneJobMoves DEF Checking
<1>. QED
  BY <1>1, <1>2, <1>3, OthersIdle DEF Unpublished, Checking

(***************************************************************************)
(* Read model, checkpoint, bus and readers.                                *)
(***************************************************************************)
\* The numbers the invariant compares.
LEMMA Seqs ==
  ASSUME TypeOK, PlaceInv
  PROVE  /\ Len(log) \in Nat /\ Len(bus) \in Nat /\ seen \in Nat
         /\ projection.seq \in Nat /\ projection.seq <= Len(log)
         /\ checkpoint.seq \in Int /\ checkpoint.seq <= Len(log)
         /\ checkpoint # NoState => checkpoint \in State
         /\ saving # NoState => saving \in State /\ saving.seq \in Nat
<1>1. Len(log) \in Nat /\ Len(bus) \in Nat /\ seen \in Nat
  BY LenProperties DEF TypeOK
<1>2. projection.seq \in Nat /\ projection.seq <= Len(log)
  BY <1>1 DEF TypeOK, State, PlaceInv, ReadModelReplaysLog
<1>3. CASE checkpoint = NoState
  <2>1. checkpoint.seq = -1
    BY <1>3 DEF NoState
  <2>. QED BY <1>1, <1>2, <1>3, <2>1 DEF TypeOK, State
<1>4. CASE checkpoint # NoState
  BY <1>1, <1>2, <1>4 DEF TypeOK, State, PlaceInv, CheckpointReplaysLog
<1>. QED BY <1>3, <1>4

\* A step that touches none of the copies keeps their places.
LEMMA PlaceFrame ==
  ASSUME IInv, UNCHANGED <<log, folds, checkpoint, build, saving, projection, bus, seen>>,
         Serving' <=> Serving, Unapplied' <=> Unapplied, Unpublished' <=> Unpublished
  PROVE  PlaceInv'
BY DEF IInv, PlaceInv, ReadModelReplaysLog, CheckpointReplaysLog, ServesOwnShape,
       BusFollowsReadModel

\* The row resumed from, or nothing, is a fold of a prefix of the log.
LEMMA BootKeepsPlace == ASSUME IInv, Boot PROVE PlaceInv'
<1>1. ~Serving /\ ~Serving' /\ bus = <<>> /\ saving = NoState
  BY DEF Boot, Serving, IInv, PlaceInv
<1>2. UNCHANGED <<log, folds, checkpoint, saving, bus, seen>>
  BY DEF Boot, tables
<1>3. ReadModelReplaysLog' /\ ServesOwnShape'
  <2>1. CASE Usable(checkpoint, build') /\ projection' = checkpoint
    BY <1>2, <2>1
    DEF Usable, IInv, PlaceInv, ReadModelReplaysLog, CheckpointReplaysLog, ServesOwnShape
  <2>2. CASE projection' = Rebuild(build')
    <3>1. folds[1] = {} /\ 0 \in 0..Len(log)
      BY Seqs DEF IInv, LogInv
    <3>. QED BY <1>2, <2>2, <3>1 DEF Rebuild, Blank, ReadModelReplaysLog, ServesOwnShape
  <2>. QED BY <2>1, <2>2 DEF Boot
<1>4. BusFollowsReadModel'
  BY <1>1, <1>2 DEF BusFollowsReadModel
<1>5. CheckpointReplaysLog'
  BY <1>2 DEF IInv, PlaceInv, CheckpointReplaysLog
<1>. QED BY <1>1, <1>2, <1>3, <1>4, <1>5 DEF IInv, PlaceInv

\* Folding the next event moves to the next prefix.
LEMMA CatchUpKeepsPlace == ASSUME IInv, CatchUp PROVE PlaceInv'
<1>. DEFINE n == projection.seq + 1
<1>1. ~Serving /\ ~Serving' /\ bus = <<>> /\ saving = NoState
  BY DEF CatchUp, process, Serving, IInv, PlaceInv
<1>2. UNCHANGED <<log, folds, checkpoint, saving, bus, seen, build>>
  BY DEF CatchUp, tables, process
<1>3. n \in 1..Len(log) /\ projection \in State
  BY Seqs DEF CatchUp, IInv, TypeOK
<1>4. projection' = [projection EXCEPT !.projects = FoldEvent(@, log[n]), !.seq = n]
  BY DEF CatchUp
<1>5. ReadModelReplaysLog'
  <2>1. folds[n + 1] = FoldEvent(folds[n], log[n]) /\ projection.projects = folds[n]
    BY <1>3 DEF IInv, LogInv, PlaceInv, ReadModelReplaysLog
  <2>2. projection'.seq = n /\ projection'.projects = FoldEvent(folds[n], log[n])
    BY <1>3, <1>4, <2>1 DEF State
  <2>. QED BY <1>2, <1>3, <2>1, <2>2 DEF ReadModelReplaysLog
<1>6. ServesOwnShape'
  BY <1>2, <1>3, <1>4 DEF State, IInv, PlaceInv, ServesOwnShape
<1>7. BusFollowsReadModel'
  BY <1>1, <1>2 DEF BusFollowsReadModel
<1>8. CheckpointReplaysLog'
  BY <1>2 DEF IInv, PlaceInv, CheckpointReplaysLog
<1>. QED BY <1>1, <1>2, <1>5, <1>6, <1>7, <1>8 DEF IInv, PlaceInv

\* Saving the read model, or the state picked up earlier, replaces the row by
\* one that is not older.
LEMMA SaveReplays ==
  ASSUME IInv, NEW state \in {projection, saving}, state # NoState, Save(state),
         UNCHANGED <<log, folds>>, saving' \in {NoState, saving}
  PROVE  CheckpointReplaysLog'
BY DEF Save, IInv, PlaceInv, CheckpointReplaysLog, ReadModelReplaysLog

\* Serving starts with the whole log folded.
LEMMA ServeKeepsPlace == ASSUME IInv, Serve PROVE PlaceInv'
<1>1. /\ ~Serving /\ Serving' /\ bus' = <<>> /\ saving = NoState
      /\ projection.seq = Len(log)
  BY DEF Serve, CaughtUp, Serving, IInv, PlaceInv
<1>2. UNCHANGED <<log, folds, build, saving, projection, seen>> /\ Save(projection)
  BY DEF Serve
<1>3. projection # NoState
  BY RecordsTyped DEF IInv, TypeOK
<1>4. CheckpointReplaysLog'
  BY <1>2, <1>3, SaveReplays
<1>5. BusFollowsReadModel'
  BY <1>1 DEF BusFollowsReadModel
<1>6. checkpoint'.seq <= projection.seq
  BY <1>1, <1>2, Seqs DEF Save, IInv
<1>. QED
  BY <1>1, <1>2, <1>4, <1>5, <1>6 DEF IInv, PlaceInv, ReadModelReplaysLog, ServesOwnShape

\* The debounce fiber picks up a prefix that is not older than the row.
LEMMA PickUpKeepsPlace == ASSUME IInv, PickUp PROVE PlaceInv'
<1>1. UNCHANGED <<log, folds, checkpoint, mode, build, projection, bus, job, seen>>
      /\ Serving /\ saving' = projection
  BY DEF PickUp, tables, Serving
<1>2. (Unapplied' <=> Unapplied) /\ (Unpublished' <=> Unpublished) /\ Serving'
  BY <1>1 DEF Unapplied, Unpublished, Serving
<1>3. projection.seq <= projection.seq
  BY Seqs DEF IInv
<1>. QED
  BY <1>1, <1>2, <1>3
  DEF IInv, PlaceInv, ReadModelReplaysLog, CheckpointReplaysLog, ServesOwnShape, BusFollowsReadModel

\* It saves a prefix that is still one, however late.
LEMMA SavePickedKeepsPlace == ASSUME IInv, SavePicked PROVE PlaceInv'
<1>1. UNCHANGED <<log, folds, mode, build, projection, bus, job, seen>>
      /\ saving # NoState /\ saving' = NoState /\ Save(saving)
  BY DEF SavePicked
<1>2. (Unapplied' <=> Unapplied) /\ (Unpublished' <=> Unpublished) /\ (Serving' <=> Serving)
  BY <1>1 DEF Unapplied, Unpublished, Serving
<1>3. CheckpointReplaysLog'
  BY <1>1, SaveReplays
<1>4. Serving => checkpoint'.seq <= projection.seq
  BY <1>1 DEF Save, IInv, PlaceInv
<1>. QED
  BY <1>1, <1>2, <1>3, <1>4
  DEF IInv, PlaceInv, ReadModelReplaysLog, ServesOwnShape, BusFollowsReadModel

\* What a dead process leaves behind.
LEMMA EndKeepsPlace == ASSUME IInv, Crash \/ FinalCheckpoint PROVE PlaceInv'
<1>1. /\ UNCHANGED <<log, folds, build, seen>> /\ ~Serving' /\ saving' = NoState
      /\ bus' = <<>> /\ projection' = Blank(build)
      /\ checkpoint' = checkpoint \/ Save(projection)
  BY DEF Crash, FinalCheckpoint, ProcessEnds, StopFiber, Serving
<1>2. CheckpointReplaysLog'
  <2>1. CASE checkpoint' = checkpoint
    BY <1>1, <2>1 DEF IInv, PlaceInv, CheckpointReplaysLog
  <2>2. CASE Save(projection)
    <3>1. projection # NoState
      BY RecordsTyped DEF IInv, TypeOK
    <3>. QED BY <1>1, <2>2, <3>1, SaveReplays
  <2>. QED BY <1>1, <2>1, <2>2
<1>3. ReadModelReplaysLog' /\ ServesOwnShape'
  <2>1. folds[1] = {} /\ 0 \in 0..Len(log)
    BY Seqs DEF IInv, LogInv
  <2>. QED BY <1>1, <2>1 DEF Blank, ReadModelReplaysLog, ServesOwnShape
<1>4. BusFollowsReadModel'
  BY <1>1 DEF BusFollowsReadModel
<1>. QED BY <1>1, <1>2, <1>3, <1>4 DEF IInv, PlaceInv

\* A reader sees the read model of the moment.
LEMMA ListKeepsPlace == ASSUME IInv, ListProjects PROVE PlaceInv'
<1>1. /\ UNCHANGED <<log, folds, checkpoint, mode, build, saving, projection, bus, job>>
      /\ seen' = Highest(seen, projection.seq) /\ Serving
  BY DEF ListProjects, tables, process, Serving
<1>2. (Unapplied' <=> Unapplied) /\ (Unpublished' <=> Unpublished) /\ (Serving' <=> Serving)
  BY <1>1 DEF Unapplied, Unpublished, Serving
<1>3. seen' <= projection.seq /\ seen' <= Len(log)
  BY <1>1, Seqs DEF Highest, IInv, PlaceInv
<1>. QED
  BY <1>1, <1>2, <1>3
  DEF IInv, PlaceInv, ReadModelReplaysLog, CheckpointReplaysLog, ServesOwnShape,
      BusFollowsReadModel

\* The append leaves all copies prefixes of the longer log.
LEMMA AppendKeepsPlace == ASSUME IInv, NEW c \in Client, AppendEvent(c) PROVE PlaceInv'
<1>1. /\ UNCHANGED <<checkpoint, mode, build, saving, projection, bus, seen>>
      /\ log' = Append(log, job[c].event)
      /\ folds' = Append(folds, FoldEvent(folds[Len(folds)], job[c].event))
  BY DEF AppendEvent, process
<1>2. JobInv' /\ ~Unpublished /\ Unapplied' /\ Unpublished'
  BY AppendKeepsJobs
<1>3. (Serving' <=> Serving) /\ Serving
  BY <1>1, OthersIdle DEF Serving, AppendEvent
<1>4. /\ Len(log') = Len(log) + 1 /\ Len(folds) = Len(log) + 1
      /\ \A i \in 1..Len(folds) : folds'[i] = folds[i]
  BY <1>1, LenProperties, AppendKeepsLog DEF IInv, TypeOK, LogInv
<1>5. /\ ReadModelReplaysLog'
      /\ CheckpointReplaysLog'
  <2>1. ReadModelReplaysLog /\ CheckpointReplaysLog /\ Len(log) \in Nat
    BY Seqs DEF IInv, PlaceInv
  <2>2. ReadModelReplaysLog'
    BY <1>1, <1>4, <2>1 DEF ReadModelReplaysLog
  <2>3. CheckpointReplaysLog'
    BY <1>1, <1>4, <2>1 DEF CheckpointReplaysLog
  <2>. QED BY <2>2, <2>3
<1>6. seen' <= Len(log')
  BY <1>1, <1>4, Seqs DEF IInv, PlaceInv
<1>. QED
  BY <1>1, <1>2, <1>3, <1>4, <1>5, <1>6, Seqs
  DEF IInv, PlaceInv, ServesOwnShape, BusFollowsReadModel

\* Apply catches up with the log.
LEMMA ApplyKeepsPlace == ASSUME IInv, NEW c \in Client, Apply(c) PROVE PlaceInv'
<1>1. UNCHANGED <<log, folds, checkpoint, mode, build, saving, bus, seen>>
  BY DEF Apply, tables, process
<1>2. /\ Unpublished /\ ~Unapplied' /\ Unpublished'
      /\ projection' = [projection EXCEPT !.projects = FoldEvent(@, log[Len(log)]),
                                          !.seq = Len(log)]
  BY ApplyKeepsJobs
<1>3. /\ projection.seq = Len(log) - 1 /\ Serving /\ projection \in State
      /\ Len(log) \in Nat /\ Len(log) >= 1
  BY OthersIdle, LenProperties DEF Apply, IInv, JobInv, JobOK, TypeOK
<1>4. projection'.seq = Len(log) /\ projection'.shape = projection.shape
      /\ projection'.projects = FoldEvent(projection.projects, log[Len(log)])
  BY <1>2, <1>3 DEF State
<1>5. ReadModelReplaysLog'
  <2>1. folds[Len(log) + 1] = FoldEvent(folds[Len(log)], log[Len(log)])
    BY <1>3 DEF IInv, LogInv
  <2>2. projection.projects = folds[Len(log)]
    BY <1>3 DEF IInv, PlaceInv, ReadModelReplaysLog
  <2>. QED BY <1>1, <1>3, <1>4, <2>1, <2>2 DEF ReadModelReplaysLog
<1>6. BusFollowsReadModel'
  <2>1. \A i \in 1..Len(bus) : bus[i] \in Nat
    BY ElementOfSeq DEF IInv, TypeOK
  <2>. QED BY <1>1, <1>3, <1>4, <2>1 DEF IInv, PlaceInv, BusFollowsReadModel
<1>7. Serving' /\ seen' <= projection'.seq /\ checkpoint'.seq <= projection'.seq
  BY <1>1, <1>3, <1>4, Seqs DEF IInv, PlaceInv, Serving
<1>8. saving' # NoState => checkpoint'.seq <= saving'.seq /\ saving'.seq <= projection'.seq
  BY <1>1, <1>3, <1>4, Seqs DEF IInv, PlaceInv
<1>9. CheckpointReplaysLog' /\ ServesOwnShape'
  BY <1>1, <1>4 DEF IInv, PlaceInv, CheckpointReplaysLog, ServesOwnShape
<1>. QED
  BY <1>1, <1>2, <1>3, <1>4, <1>5, <1>6, <1>7, <1>8, <1>9 DEF IInv, PlaceInv

\* Publish appends the next seq to the bus.
LEMMA PublishKeepsPlace == ASSUME IInv, NEW c \in Client, Publish(c) PROVE PlaceInv'
<1>1. /\ UNCHANGED <<log, folds, checkpoint, mode, build, saving, projection>>
      /\ bus' = Append(bus, job[c].seq) /\ seen' = Highest(seen, job[c].seq)
  BY DEF Publish, tables, process
<1>2. Unpublished /\ ~Unpublished' /\ ~Unapplied /\ job[c].seq = Len(log)
  BY PublishKeepsJobs
<1>3. ~Unapplied'
  BY <1>2 DEF Unapplied, Unpublished
<1>4. Serving /\ Serving' /\ projection.seq = Len(log)
  BY <1>1, <1>2, OthersIdle, Current DEF Publish, Serving
<1>5. /\ Len(bus') = Len(bus) + 1 /\ bus'[Len(bus) + 1] = Len(log)
      /\ \A i \in 1..Len(bus) : bus'[i] = bus[i]
      /\ Len(bus) \in Nat /\ Len(log) \in Nat
  BY <1>1, <1>2, Seqs DEF IInv, TypeOK
<1>6. bus # <<>> => Len(bus) >= 1 /\ bus[Len(bus)] = Len(log) - 1
  BY <1>2, <1>4, EmptySeq DEF IInv, TypeOK, PlaceInv
<1>7. BusFollowsReadModel'
  <2>1. ASSUME NEW i \in 1..Len(bus') PROVE bus'[i] <= projection.seq /\ (i > 1 => bus'[i] = bus'[i - 1] + 1)
    <3>1. CASE i \in 1..Len(bus)
      BY <1>5, <3>1 DEF IInv, PlaceInv, BusFollowsReadModel
    <3>2. CASE i = Len(bus) + 1 /\ bus # <<>>
      BY <1>4, <1>5, <1>6, <3>2
    <3>3. CASE i = Len(bus) + 1 /\ bus = <<>>
      BY <1>4, <1>5, <3>3, EmptySeq
    <3>. QED BY <1>5, <2>1, <3>1, <3>2, <3>3
  <2>. QED BY <1>1, <2>1 DEF BusFollowsReadModel
<1>8. seen' <= Len(log) /\ seen' <= projection.seq
  BY <1>1, <1>2, <1>4, Seqs DEF Highest, IInv, PlaceInv
<1>. QED
  BY <1>1, <1>2, <1>3, <1>4, <1>5, <1>7, <1>8
  DEF IInv, PlaceInv, ReadModelReplaysLog, CheckpointReplaysLog, ServesOwnShape

(***************************************************************************)
(* Every step preserves the invariant.                                     *)
(***************************************************************************)
\* The initial state satisfies the inductive invariant.
LEMMA InitIInv == Init => IInv
<1>. SUFFICES ASSUME Init PROVE IInv
  OBVIOUS
<1>1. log = <<>> /\ folds = <<{}>> /\ Len(log) = 0 /\ Len(folds) = 1 /\ folds[1] = {}
  BY DEF Init
<1>2. LogInv
  BY <1>1 DEF LogInv, IdsUnique, NamesUnique, DirectoriesUnique, Ids
<1>3. JobInv
  BY DEF Init, JobInv, JobOK, NoJob, Checking
<1>4. PlaceInv
  <2>1. ReadModelReplaysLog /\ ServesOwnShape
    BY <1>1 DEF Init, Blank, ReadModelReplaysLog, ServesOwnShape
  <2>2. CheckpointReplaysLog /\ BusFollowsReadModel
    BY DEF Init, CheckpointReplaysLog, BusFollowsReadModel
  <2>. QED BY <1>1, <2>1, <2>2 DEF Init, PlaceInv, Serving
<1>. QED BY <1>2, <1>3, <1>4, InitTyped DEF IInv

\* Boot, the cadence, the end of the process, and what happens outside it.
LEMMA ProcessKeeps ==
  ASSUME IInv,
         \/ Boot \/ CatchUp \/ Serve \/ PickUp \/ SavePicked \/ Crash \/ Shutdown
         \/ FinalCheckpoint \/ DiskChanges \/ ListProjects
  PROVE  IInv'
<1>. USE DEF IInv
<1>1. UNCHANGED <<log, folds>>
  BY DEF Boot, CatchUp, Serve, PickUp, SavePicked, Crash, Shutdown, FinalCheckpoint,
         DiskChanges, ListProjects, ProcessEnds, tables
<1>2. LogInv'
  BY <1>1, LogFrame
<1>3. TypeOK'
  BY BootTyped, CatchUpTyped, ServeTyped, CheckpointTyped, LifeTyped, OutsideTyped
<1>4. CASE Boot \/ CatchUp \/ Serve
  <2>1. ~Serving /\ job' = job
    BY <1>4 DEF Boot, CatchUp, Serve, Serving, process
  <2>2. JobInv'
    BY <2>1, NoJobs, IdleIsOK DEF JobInv
  <2>. QED BY <1>2, <1>3, <1>4, <2>2, BootKeepsPlace, CatchUpKeepsPlace, ServeKeepsPlace
<1>5. CASE Crash \/ FinalCheckpoint
  <2>1. \A c \in Client : job'[c].stage = "idle"
    BY <1>5 DEF Crash, FinalCheckpoint, ProcessEnds, NoJob
  <2>. QED BY <1>2, <1>3, <1>5, <2>1, IdleIsOK, EndKeepsPlace DEF JobInv
<1>6. CASE PickUp \/ SavePicked \/ ListProjects
  <2>1. UNCHANGED <<projection, mutex, job, mode>>
    BY <1>6 DEF PickUp, SavePicked, ListProjects, process
  <2>2. JobInv'
    BY <1>1, <2>1, JobFrame DEF Serving
  <2>. QED BY <1>2, <1>3, <1>6, <2>2, PickUpKeepsPlace, SavePickedKeepsPlace, ListKeepsPlace
<1>7. CASE Shutdown \/ DiskChanges
  <2>1. UNCHANGED <<checkpoint, build, saving, projection, bus, mutex, job, seen>>
        /\ (Serving' <=> Serving)
    BY <1>7 DEF Shutdown, DiskChanges, tables, process, Serving
  <2>2. (Unapplied' <=> Unapplied) /\ (Unpublished' <=> Unpublished)
    BY <2>1 DEF Unapplied, Unpublished
  <2>3. JobInv' /\ PlaceInv'
    BY <1>1, <2>1, <2>2, JobFrame, PlaceFrame
  <2>. QED BY <1>2, <1>3, <2>3
<1>. QED BY <1>4, <1>5, <1>6, <1>7

\* A mutation up to its append: the log, the read model and the bus rest.
LEMMA QuietKeeps ==
  ASSUME IInv, TypeOK', JobInv', ~Unpublished, ~Unpublished',
         UNCHANGED <<tables, process, projection, bus, seen>>
  PROVE  IInv'
<1>1. ~Unapplied /\ ~Unapplied'
  BY DEF Unapplied, Unpublished
<1>2. LogInv' /\ (Serving' <=> Serving)
  BY LogFrame DEF IInv, tables, process, Serving
<1>3. PlaceInv'
  BY <1>1, <1>2, PlaceFrame DEF tables, process
<1>. QED BY <1>2, <1>3 DEF IInv

\* The start of a mutation preserves the invariant.
LEMMA BeginKeeps ==
  ASSUME IInv, NEW c \in Client, NEW r \in Request, CreateProject(c, r) \/ MutateProject(c, r)
  PROVE  IInv'
<1>1. Ids(projection.projects) \subseteq Issued
  BY Seqs DEF IInv, LogInv, PlaceInv, ReadModelReplaysLog
<1>2. CanBegin(c) /\ Begins(c, r)
  BY <1>1, CreateBegins, MutateBegins DEF IInv, CreateProject, MutateProject
<1>3. PICK j \in Job : Take(c, r, j)
  BY <1>2 DEF Begins
<1>4. TypeOK'
  BY <1>3, TakeTyped DEF IInv
<1>5. UNCHANGED <<tables, process, projection, bus, seen>>
  BY <1>3 DEF Take
<1>. QED BY <1>2, <1>4, <1>5, BeginKeepsJobs, QuietKeeps

\* So do its checks of the file system.
LEMMA CheckKeeps ==
  ASSUME IInv, NEW c \in Client,
         StatDirectory(c) \/ ResolveDirectory(c) \/ CompareDirectories(c)
  PROVE  IInv'
<1>1. UNCHANGED <<tables, process, projection, bus, seen>>
  BY DEF StatDirectory, ResolveDirectory, CompareDirectories, Proceed
<1>. QED BY <1>1, CheckTyped, CheckKeepsJobs, QuietKeeps

\* So does its end.
LEMMA EndKeeps ==
  ASSUME IInv, NEW c \in Client, Answer(c) \/ Interrupt(c)
  PROVE  IInv'
<1>1. UNCHANGED <<tables, process, projection, bus, seen>>
  BY DEF Answer, Interrupt
<1>2. TypeOK'
  BY EndTyped DEF IInv
<1>. QED BY <1>1, <1>2, EndKeepsJobs, QuietKeeps

\* So do the three steps of commit.
LEMMA CommitKeeps ==
  ASSUME IInv, NEW c \in Client, AppendEvent(c) \/ Apply(c) \/ Publish(c)
  PROVE  IInv'
<1>1. CASE AppendEvent(c)
  BY <1>1, AppendTyped, AppendKeepsLog, AppendKeepsJobs, AppendKeepsPlace DEF IInv
<1>2. CASE Apply(c)
  <2>1. LogInv'
    BY <1>2, LogFrame DEF IInv, Apply, tables
  <2>. QED BY <1>2, <2>1, ApplyTyped, ApplyKeepsJobs, ApplyKeepsPlace DEF IInv
<1>3. CASE Publish(c)
  <2>1. LogInv'
    BY <1>3, LogFrame DEF IInv, Publish, tables
  <2>2. TypeOK'
    BY <1>3, PublishTyped DEF IInv
  <2>. QED BY <1>3, <2>1, <2>2, PublishKeepsJobs, PublishKeepsPlace DEF IInv
<1>. QED BY <1>1, <1>2, <1>3

\* Every step, and every stutter, preserves the invariant.
LEMMA NextKeeps == IInv /\ [Next]_vars => IInv'
<1>. SUFFICES ASSUME IInv, [Next]_vars PROVE IInv'
  OBVIOUS
<1>1. CASE UNCHANGED vars
  <2>1. UNCHANGED <<log, folds, checkpoint, mode, build, saving, projection, bus, mutex, job,
                    disk, diskChanges, seen>>
    BY <1>1 DEF vars, tables, process, world
  <2>2. (Serving' <=> Serving) /\ (Unapplied' <=> Unapplied) /\ (Unpublished' <=> Unpublished)
    BY <2>1 DEF Serving, Unapplied, Unpublished
  <2>3. LogInv'
    BY <2>1, LogFrame DEF IInv
  <2>4. JobInv' /\ PlaceInv'
    BY <2>1, <2>2, JobFrame, PlaceFrame
  <2>5. TypeOK'
    BY <2>1 DEF IInv, TypeOK
  <2>. QED BY <2>3, <2>4, <2>5 DEF IInv
<1>2. ASSUME NEW c \in Client, Step(c) \/ Interrupt(c) PROVE IInv'
  BY <1>2, CheckKeeps, CommitKeeps, EndKeeps DEF Step
<1>. QED BY <1>1, <1>2, ProcessKeeps, BeginKeeps DEF Next

(***************************************************************************)
(* The theorems.                                                           *)
(***************************************************************************)
\* The inductive invariant holds in every state of every behaviour.
THEOREM Invariance == Spec => []IInv
BY InitIInv, NextKeeps, PTL DEF Spec

\* Every variable keeps to its kind.
THEOREM TypeCorrectness == Spec => []TypeOK
<1>1. IInv => TypeOK
  BY DEF IInv
<1>. QED BY <1>1, Invariance, PTL

\* Read model and checkpoint are folds of prefixes of the log, in every mode,
\* laid out by the running build: across crashes, resumes and late saves.
THEOREM Replay == Spec => [](ReadModelReplaysLog /\ CheckpointReplaysLog /\ ServesOwnShape)
<1>1. IInv => ReadModelReplaysLog /\ CheckpointReplaysLog /\ ServesOwnShape
  BY DEF IInv, PlaceInv
<1>. QED BY <1>1, Invariance, PTL

\* The checkpoint row, and the state the debounce fiber is about to save, pair
\* a list with the seq it was folded at (saveCheckpoint).
THEOREM CheckpointReplays == Spec => []CheckpointReplaysLog
<1>1. IInv => CheckpointReplaysLog
  BY DEF IInv, PlaceInv
<1>. QED BY <1>1, Invariance, PTL

\* The served list has no two projects of one name or one directory string.
THEOREM Uniqueness == Spec => []UniqueClaims
<1>1. IInv => UniqueClaims
  <2>. SUFFICES ASSUME IInv PROVE UniqueNames /\ UniqueDirectories
    BY DEF UniqueClaims
  <2>1. projection.seq + 1 \in 1..Len(folds)
    BY Seqs DEF IInv, LogInv
  <2>. QED
    BY <2>1 DEF IInv, LogInv, PlaceInv, ReadModelReplaysLog, UniqueNames, UniqueDirectories
<1>. QED BY <1>1, Invariance, PTL

\* What a mutation answers, grant or refusal, is true when it is sent.
THEOREM TrueAnswers == Spec => []AnswersHold
<1>1. IInv => AnswersHold
  BY DEF IInv, JobInv, JobOK, Truthful, TruthfulIn, ReplyMatchesReadModel, RefusalHolds,
         AnswersHold, Replying, Named, Find, Ids
<1>. QED BY <1>1, Invariance, PTL

\* A deleted project does not come back.
THEOREM Tombstones == Spec => []TombstonesHold
<1>1. IInv => TombstonesHold
  <2>. SUFFICES ASSUME IInv, NEW n \in 1..projection.seq, log[n].type = "ProjectDeleted"
                PROVE  log[n].projectId \notin Ids(projection.projects)
    BY DEF TombstonesHold, Ids
  <2>1. n \in 1..Len(log) /\ projection.seq \in n..Len(log)
    BY Seqs DEF IInv
  <2>. QED BY <2>1 DEF IInv, LogInv, PlaceInv, ReadModelReplaysLog
<1>. QED BY <1>1, Invariance, PTL

\* Nothing is half done while the permit is free, and the bus follows the log.
THEOREM Settled == Spec => [](SettledWhenFree /\ BusFollowsReadModel)
<1>1. IInv => SettledWhenFree /\ BusFollowsReadModel
  <2>. SUFFICES ASSUME IInv, mode = "running", mutex = Null
                PROVE  projection.seq = Len(log) /\ (bus # <<>> => bus[Len(bus)] = Len(log))
    BY DEF IInv, PlaceInv, SettledWhenFree
  <2>1. Serving /\ ~Unapplied /\ ~Unpublished
    BY NullIsNoClient DEF Serving, Unapplied, Unpublished, IInv, JobInv, JobOK
  <2>. QED BY <2>1 DEF IInv, PlaceInv
<1>. QED BY <1>1, Invariance, PTL

\* No reader is shown less than a reader saw before.
THEOREM MonotoneReads == Spec => []ReadsNeverRegress
<1>1. IInv => ReadsNeverRegress
  BY Seqs DEF IInv, PlaceInv, ReadsNeverRegress, Serving
<1>. QED BY <1>1, Invariance, PTL

\* The checkpoint row only moves forward.
THEOREM MonotoneCheckpoint == Spec => CheckpointNeverRegresses
<1>1. IInv /\ [Next]_vars => [checkpoint'.seq >= checkpoint.seq]_checkpoint
  <2>. SUFFICES ASSUME IInv, Next PROVE checkpoint' = checkpoint \/ checkpoint'.seq >= checkpoint.seq
    BY DEF vars, tables
  <2>1. CASE Serve
    BY <2>1, Seqs DEF Serve, CaughtUp, Save, IInv, PlaceInv
  <2>2. CASE SavePicked
    BY <2>2, Seqs DEF SavePicked, Save, IInv, PlaceInv
  <2>3. CASE FinalCheckpoint
    BY <2>3, Seqs DEF FinalCheckpoint, Save, IInv, PlaceInv, Serving
  <2>4. CASE Boot \/ CatchUp \/ PickUp \/ Crash \/ Shutdown \/ DiskChanges \/ ListProjects
    BY <2>4 DEF Boot, CatchUp, PickUp, Crash, Shutdown, DiskChanges, ListProjects, tables
  <2>5. ASSUME NEW c \in Client, Step(c) \/ Interrupt(c) PROVE checkpoint' = checkpoint
    BY <2>5 DEF Step, Interrupt, StatDirectory, ResolveDirectory, CompareDirectories, Proceed,
                AppendEvent, Apply, Publish, Answer, tables
  <2>6. ASSUME NEW c \in Client, NEW r \in Request, CreateProject(c, r) \/ MutateProject(c, r)
        PROVE  checkpoint' = checkpoint
    <3>1. Ids(projection.projects) \subseteq Issued
      BY Seqs DEF IInv, LogInv, PlaceInv, ReadModelReplaysLog
    <3>2. Begins(c, r)
      BY <2>6, <3>1, CreateBegins, MutateBegins DEF IInv
    <3>. QED BY <3>2 DEF Begins, Take, tables
  <2>. QED BY <2>1, <2>2, <2>3, <2>4, <2>5, <2>6 DEF Next
<1>. QED BY <1>1, Invariance, PTL DEF Spec, CheckpointNeverRegresses

(***************************************************************************)
(* The server implements the registry: appends are its steps.              *)
(***************************************************************************)
\* The registry's copy of the fold and of the events is the server's.
LEMMA SameFold ==
  /\ Registry!Event = Event
  /\ \A list, e : Registry!FoldEvent(list, e) = FoldEvent(list, e)
<1>1. Registry!Event = Event
  BY DEF Registry!Event, Registry!CreatedEvent, Registry!RenamedEvent, Registry!MovedEvent,
         Registry!PatchedEvent, Registry!PlainEvent, Registry!MetadataPatch,
         Event, CreatedEvent, RenamedEvent, MovedEvent, PatchedEvent, PlainEvent, MetadataPatch
<1>2. \A p, e : Registry!ApplyEvent(p, e) = ApplyEvent(p, e)
  BY Zenon DEF Registry!ApplyEvent, ApplyEvent, Registry!Patched, Patched
<1>3. \A e : Registry!FromCreated(e) = FromCreated(e)
  BY Zenon DEF Registry!FromCreated, FromCreated
<1>4. \A list, e : Registry!FoldEvent(list, e) = FoldEvent(list, e)
  BY <1>2, <1>3, Zenon DEF Registry!FoldEvent, FoldEvent
<1>. QED BY <1>1, <1>4

\* An append is a legal step of the registry.
LEMMA AppendRecords ==
  ASSUME IInv, NEW c \in Client, AppendEvent(c)
  PROVE  Registry!Record(job[c].event)
<1>. DEFINE e == job[c].event
            list == folds[Len(folds)]
<1>1. /\ e \in Event /\ Admissible(e) /\ log \in Seq(Event) /\ folds \in Seq(SUBSET Project)
      /\ Len(log) \in Nat /\ Len(folds) = Len(log) + 1 /\ list \in SUBSET Project
  BY ElementOfSeq, LenProperties DEF IInv, JobInv, JobOK, AppendEvent, TypeOK, LogInv
<1>2. projection.projects = list
  <2>1. Serving /\ ~Unapplied
    BY OthersIdle DEF AppendEvent, Unapplied
  <2>. QED BY <2>1, Current
<1>3. LegalIn(list, Issued, e)
  BY <1>1, <1>2 DEF Admissible
<1>4. Registry!Legal(e)
  <2>1. CASE e.type = "ProjectCreated"
    BY <1>3, <2>1 DEF LegalIn, Registry!Legal, Registry!NameFree, Registry!DirectoryFree
  <2>2. ASSUME e.type # "ProjectCreated" PROVE Registry!Has(e.projectId)
    BY <1>3, <2>2 DEF LegalIn, Ids, Registry!Has
  <2>3. CASE e.type = "ProjectRenamed"
    BY <1>3, <2>2, <2>3 DEF LegalIn, Registry!Legal, Registry!NameFree
  <2>4. CASE e.type = "ProjectDirectoryChanged"
    <3>1. e.directory # Null
      BY <1>1, <2>4, NullIsNoValue
      DEF Event, CreatedEvent, RenamedEvent, MovedEvent, PatchedEvent, PlainEvent
    <3>. QED BY <1>3, <2>2, <2>4, <3>1 DEF LegalIn, Registry!Legal, Registry!DirectoryFree
  <2>5. CASE e.type \notin {"ProjectCreated", "ProjectRenamed", "ProjectDirectoryChanged"}
    BY <2>2, <2>5 DEF Registry!Legal
  <2>. QED BY <2>1, <2>3, <2>4, <2>5
<1>5. folds'[Len(folds')] = FoldEvent(list, e)
  BY <1>1, FoldIsTyped DEF AppendEvent
<1>6. Issued' = IF e.type = "ProjectCreated" THEN Issued \cup {e.projectId} ELSE Issued
  <2>1. /\ Len(log') = Len(log) + 1 /\ log'[Len(log) + 1] = e
        /\ \A i \in 1..Len(log) : log'[i] = log[i]
    BY <1>1 DEF AppendEvent
  <2>2. \A id : id \in Issued' <=> \E i \in 1..Len(log') :
                  log'[i].type = "ProjectCreated" /\ log'[i].projectId = id
    BY DEF Issued
  <2>3. \A id : id \in Issued <=> \E i \in 1..Len(log) :
                  log[i].type = "ProjectCreated" /\ log[i].projectId = id
    BY DEF Issued
  <2>4. \A id : id \in Issued' <=> id \in Issued \/ (e.type = "ProjectCreated" /\ e.projectId = id)
    BY <1>1, <2>1, <2>2, <2>3
  <2>. QED BY <2>4
<1>. QED BY <1>4, <1>5, <1>6, SameFold DEF Registry!Record

\* Behind the mutex, the snapshot, the log and the crashes there is one registry
\* that changes by one legal event at a time.
THEOREM Implementation == Spec => ImplementsRegistry
<1>1. Init => Registry!Init
  BY DEF Init, Registry!Init, Issued
<1>2. IInv /\ [Next]_vars => [Registry!Next]_(Registry!registry)
  <2>. SUFFICES ASSUME IInv, [Next]_vars
                PROVE  Registry!Next \/ UNCHANGED Registry!registry
    OBVIOUS
  <2>1. ASSUME UNCHANGED <<log, folds>> PROVE UNCHANGED Registry!registry
    BY <2>1, LogFrame DEF IInv, Registry!registry
  <2>2. ASSUME NEW c \in Client, AppendEvent(c) PROVE Registry!Next
    BY <2>2, AppendRecords, SameFold DEF Registry!Next, IInv, JobInv, JobOK, AppendEvent
  <2>3. ASSUME NEW c \in Client, Step(c) \/ Interrupt(c), ~AppendEvent(c)
        PROVE  UNCHANGED <<log, folds>>
    BY <2>3 DEF Step, Interrupt, StatDirectory, ResolveDirectory, CompareDirectories, Proceed,
                Apply, Publish, Answer, tables
  <2>4. ASSUME NEW c \in Client, NEW r \in Request, CreateProject(c, r) \/ MutateProject(c, r)
        PROVE  UNCHANGED <<log, folds>>
    <3>1. Ids(projection.projects) \subseteq Issued
      BY Seqs DEF IInv, LogInv, PlaceInv, ReadModelReplaysLog
    <3>2. Begins(c, r)
      BY <2>4, <3>1, CreateBegins, MutateBegins DEF IInv
    <3>. QED BY <3>2 DEF Begins, Take, tables
  <2>5. CASE \/ Boot \/ CatchUp \/ Serve \/ PickUp \/ SavePicked \/ Crash \/ Shutdown
             \/ FinalCheckpoint \/ DiskChanges \/ ListProjects
    <3>1. UNCHANGED <<log, folds>>
      BY <2>5 DEF Boot, CatchUp, Serve, PickUp, SavePicked, Crash, Shutdown, FinalCheckpoint,
                  DiskChanges, ListProjects, ProcessEnds, tables
    <3>. QED BY <2>1, <3>1
  <2>6. CASE UNCHANGED vars
    BY <2>1, <2>6 DEF vars, tables
  <2>. QED BY <2>1, <2>2, <2>3, <2>4, <2>5, <2>6 DEF Next
<1>. QED BY <1>1, <1>2, Invariance, PTL DEF Spec, ImplementsRegistry, Registry!Spec

(***************************************************************************)
(* Places.  While the file system stands still, what a job found there is  *)
(* true when its event is appended; and since every fold of the log claims *)
(* each place once, so does the read model, whatever prefix a boot is at.  *)
(***************************************************************************)
\* A list whose directories are there and are different objects.
Placed(list) ==
  \A p \in list : p.directory # Null =>
    /\ disk[p.directory] # Missing
    /\ \A q \in list : q.directory # Null /\ disk[p.directory] = disk[q.directory] => p = q

Claims(e) == e.type \in {"ProjectCreated", "ProjectDirectoryChanged"} /\ e.directory # Null

\* What an event claims is there, and nobody else's.
ClaimsFree(list, e) ==
  Claims(e) =>
    /\ disk[e.directory] # Missing
    /\ \A p \in list : p.directory # Null /\ disk[p.directory] = disk[e.directory] => p.id = e.projectId

Compares(list, j) == \A p \in list : p.id # j.event.projectId => p \in j.others

DiskOK(c) ==
  /\ job[c].stage \in Checking => Compares(projection.projects, job[c])
  /\ job[c].stage = "comparing" => job[c].at = disk[job[c].event.directory] /\ job[c].at # Missing
  /\ job[c].stage = "appending" => ClaimsFree(projection.projects, job[c].event)

DiskInv ==
  diskChanges = 0 =>
    /\ \A n \in 1..Len(folds) : Placed(folds[n])
    /\ \A c \in Client : DiskOK(c)

\* A free claim leaves the folded list with a place for each project.
LEMMA FoldKeepsPlaced ==
  ASSUME NEW list \in SUBSET Project, NEW e \in Event,
         IdsUnique(list), Placed(list), ClaimsFree(list, e)
  PROVE  Placed(FoldEvent(list, e))
<1>1. CASE e.type = "ProjectCreated"
  <2>. SUFFICES ASSUME NEW p \in FoldEvent(list, e), p.directory # Null
                PROVE  /\ disk[p.directory] # Missing
                       /\ \A q \in FoldEvent(list, e) :
                            q.directory # Null /\ disk[p.directory] = disk[q.directory] => p = q
    BY DEF Placed
  <2>. QED BY <1>1, CreatedFields, CreatedIsProject, FoldSources DEF Claims, ClaimsFree, Placed, Ids
<1>2. CASE e.type # "ProjectCreated"
  <2>1. e.type = "ProjectDirectoryChanged" => e.directory # Null
    BY NullIsNoValue DEF Event, CreatedEvent, RenamedEvent, MovedEvent, PatchedEvent, PlainEvent
  <2>2. ASSUME NEW p \in list, p.id = e.projectId, ApplyEvent(p, e).directory # Null
        PROVE  /\ disk[ApplyEvent(p, e).directory] # Missing
               /\ \A q \in list : q.directory # Null /\ disk[ApplyEvent(p, e).directory] = disk[q.directory] =>
                    q.id = e.projectId
    BY <1>2, <2>1, <2>2, AppliedKeeps DEF Claims, ClaimsFree, Placed
  <2>3. \A q \in FoldEvent(list, e) :
           \/ q \in list /\ q.id # e.projectId
           \/ q.id = e.projectId /\ \E p \in list : p.id = e.projectId /\ q = ApplyEvent(p, e)
    BY <1>2, ChangeSources
  <2>4. ASSUME NEW p \in FoldEvent(list, e), NEW q \in FoldEvent(list, e),
               p.directory # Null, q.directory # Null, disk[p.directory] = disk[q.directory]
        PROVE  p = q
    BY <2>2, <2>3, <2>4 DEF Placed, IdsUnique
  <2>5. ASSUME NEW p \in FoldEvent(list, e), p.directory # Null PROVE disk[p.directory] # Missing
    BY <2>2, <2>3, <2>5 DEF Placed
  <2>. QED BY <2>4, <2>5 DEF Placed
<1>. QED BY <1>1, <1>2

\* A job as it takes the permit: it will look at every other project of the
\* list, or it claims nothing.
Looks(j) ==
  /\ j.stage \in {"replying", "statting", "appending"}
  /\ j.stage = "statting" => Compares(projection.projects, j)
  /\ j.stage = "appending" => ~Claims(j.event)

LooksFirst(c, r) == \E j : Take(c, r, j) /\ Looks([j EXCEPT !.request = r])

LEMMA RefuseLooks ==
  ASSUME NEW c \in Client, NEW r, NEW tag, Refuse(c, r, tag)
  PROVE  LooksFirst(c, r)
<1>. DEFINE j == [NoJob EXCEPT !.stage = "replying", !.reply = Reply(tag, Null)]
<1>1. Looks([j EXCEPT !.request = r])
  BY DEF NoJob, Looks
<1>. QED BY <1>1 DEF Refuse, LooksFirst

LEMMA EmitLooks ==
  ASSUME NEW c \in Client, NEW r, NEW e, NEW reply, Emit(c, r, e, reply), ~Claims(e)
  PROVE  LooksFirst(c, r)
<1>. DEFINE j == [NoJob EXCEPT !.stage = "appending", !.event = e, !.reply = reply]
<1>1. Looks([j EXCEPT !.request = r])
  BY DEF NoJob, Looks
<1>. QED BY <1>1 DEF Emit, LooksFirst

LEMMA ValidateLooks ==
  ASSUME NEW c \in Client, NEW r, NEW others, NEW e, NEW reply, Validate(c, r, others, e, reply),
         \A p \in projection.projects : p.id # e.projectId => p \in others
  PROVE  LooksFirst(c, r)
<1>. DEFINE j == [NoJob EXCEPT !.stage = "statting", !.others = others, !.event = e, !.reply = reply]
<1>1. Looks([j EXCEPT !.request = r])
  BY DEF NoJob, Looks, Compares
<1>2. CASE Take(c, r, j)
  BY <1>1, <1>2 DEF LooksFirst
<1>. QED BY <1>2, RefuseLooks DEF Validate

\* Each mutation does.
LEMMA BeginLooks ==
  ASSUME NEW c \in Client, NEW r \in Request, CreateProject(c, r) \/ MutateProject(c, r)
  PROVE  LooksFirst(c, r)
<1>1. CASE CreateProject(c, r)
  <2>1. ASSUME NEW existing,
               Take(c, r, [NoJob EXCEPT !.stage = "replying", !.reply = Reply("existing", existing)])
        PROVE  LooksFirst(c, r)
    <3>. DEFINE j == [NoJob EXCEPT !.stage = "replying", !.reply = Reply("existing", existing)]
    <3>1. Looks([j EXCEPT !.request = r])
      BY DEF NoJob, Looks
    <3>. QED BY <2>1, <3>1 DEF LooksFirst
  <2>2. ASSUME NEW id \in FreshId,
               LET e == [type |-> "ProjectCreated", projectId |-> id,
                         name |-> r.name, directory |-> r.directory]
                   reply == Reply("ok", FromCreated(e))
               IN IF r.directory = Null
                  THEN Emit(c, r, e, reply)
                  ELSE Validate(c, r, projection.projects, e, reply)
        PROVE  LooksFirst(c, r)
    <3>. DEFINE e == [type |-> "ProjectCreated", projectId |-> id,
                      name |-> r.name, directory |-> r.directory]
                reply == Reply("ok", FromCreated(e))
    <3>1. CASE r.directory = Null
      <4>1. Emit(c, r, e, reply)
        BY <2>2, <3>1
      <4>2. ~Claims(e)
        BY <3>1 DEF Claims
      <4>. QED BY <4>1, <4>2, EmitLooks
    <3>2. CASE r.directory # Null
      <4>1. Validate(c, r, projection.projects, e, reply)
        BY <2>2, <3>2
      <4>. QED BY <4>1, ValidateLooks
    <3>. QED BY <3>1, <3>2
  <2>. QED BY <1>1, <2>1, <2>2, RefuseLooks DEF CreateProject
<1>2. ASSUME NEW target, ChangeDirectory(c, r, target) PROVE LooksFirst(c, r)
  <2>. DEFINE e == [type |-> "ProjectDirectoryChanged", projectId |-> r.id, directory |-> r.directory]
  <2>1. Validate(c, r, Others(r.id), e, Reply("ok", ApplyEvent(target, e)))
    BY <1>2 DEF ChangeDirectory
  <2>2. \A p \in projection.projects : p.id # e.projectId => p \in Others(r.id)
    BY DEF Others
  <2>. QED BY <2>1, <2>2, ValidateLooks
<1>3. ASSUME NEW target, RenameProject(c, r, target) PROVE LooksFirst(c, r)
  <2>. DEFINE e == [type |-> "ProjectRenamed", projectId |-> r.id, name |-> r.name]
  <2>1. ~Claims(e)
    BY DEF Claims
  <2>. QED BY <1>3, <2>1, EmitLooks, RefuseLooks DEF RenameProject
<1>4. ASSUME NEW target, ToggleArchived(c, r, target) PROVE LooksFirst(c, r)
  <2>. DEFINE e == [type |-> IF r.op = "archive" THEN "ProjectArchived" ELSE "ProjectRestored",
                    projectId |-> r.id]
  <2>1. ~Claims(e)
    BY DEF Claims
  <2>. QED BY <1>4, <2>1, EmitLooks DEF ToggleArchived
<1>5. ASSUME NEW target, SetMetadata(c, r, target) PROVE LooksFirst(c, r)
  <2>. DEFINE e == [type |-> "ProjectMetadataChanged", projectId |-> r.id, patch |-> r.patch]
  <2>1. ~Claims(e)
    BY DEF Claims
  <2>. QED BY <1>5, <2>1, EmitLooks, RefuseLooks DEF SetMetadata
<1>6. ASSUME DeleteProject(c, r) PROVE LooksFirst(c, r)
  <2>. DEFINE e == [type |-> "ProjectDeleted", projectId |-> r.id]
  <2>1. ~Claims(e)
    BY DEF Claims
  <2>. QED BY <1>6, <2>1, EmitLooks DEF DeleteProject
<1>. QED BY <1>1, <1>2, <1>3, <1>4, <1>5, <1>6, RefuseLooks DEF MutateProject

\* A step of the only job, of which the log takes no notice.
LEMMA OneJobLooks ==
  ASSUME IInv, DiskInv, NEW c \in Client, job[c].stage # "idle" \/ mutex = Null,
         NEW j, job' = [job EXCEPT ![c] = j], UNCHANGED <<folds, world>>, diskChanges = 0 => DiskOK(c)'
  PROVE  DiskInv'
<1>1. \A d \in Client \ {c} : job[d].stage = "idle"
  BY OthersIdle, NullIsNoClient DEF IInv, JobInv, JobOK
<1>2. \A d \in Client \ {c} : job'[d].stage = "idle"
  BY <1>1 DEF IInv, TypeOK
<1>3. diskChanges = 0 => \A d \in Client : DiskOK(d)'
  BY <1>2 DEF DiskOK, Checking
<1>. QED BY <1>3 DEF DiskInv, Placed, world

\* The canonical check: of all other projects, at the place that was resolved.
LEMMA CheckLooks ==
  ASSUME IInv, DiskInv, NEW c \in Client,
         StatDirectory(c) \/ ResolveDirectory(c) \/ CompareDirectories(c)
  PROVE  DiskInv'
<1>1. job[c] \in Job /\ job[c].stage \in Checking
  BY DEF IInv, TypeOK, StatDirectory, ResolveDirectory, CompareDirectories, Proceed, Checking
<1>2. UNCHANGED <<folds, world, projection>>
  BY DEF StatDirectory, ResolveDirectory, CompareDirectories, Proceed, tables
<1>3. diskChanges = 0 => DiskOK(c)
  BY DEF DiskInv
<1>. SUFFICES ASSUME NEW j, job' = [job EXCEPT ![c] = j], j.stage # "replying"
              PROVE  diskChanges = 0 => DiskOK(c)'
  <2>1. \E j : job' = [job EXCEPT ![c] = j]
    BY DEF StatDirectory, ResolveDirectory, CompareDirectories, Proceed
  <2>2. ASSUME NEW j, job' = [job EXCEPT ![c] = j], j.stage = "replying" PROVE DiskOK(c)'
    <3>1. job'[c] = j
      BY <2>2 DEF IInv, TypeOK
    <3>. QED BY <2>2, <3>1 DEF DiskOK, Checking
  <2>. QED BY <1>1, <1>2, <2>1, <2>2, OneJobLooks DEF Checking
<1>4. job'[c] = j
  BY DEF IInv, TypeOK
<1>5. Rejected(job[c], "DirectoryInvalid").stage = "replying"
      /\ Rejected(job[c], "DirectoryConflict").stage = "replying"
  BY <1>1 DEF Rejected, Job
<1>6. ASSUME StatDirectory(c), diskChanges = 0 PROVE DiskOK(c)'
  <2>1. job[c].stage = "statting" /\ job'[c] = [job[c] EXCEPT !.stage = "resolving"]
    BY <1>4, <1>5, <1>6 DEF StatDirectory, Proceed, IInv, TypeOK
  <2>2. job'[c].stage = "resolving" /\ job'[c].event = job[c].event /\ job'[c].others = job[c].others
    BY <1>1, <2>1 DEF Job
  <2>. QED BY <1>2, <1>3, <1>6, <2>1, <2>2 DEF DiskOK, Checking, Compares
<1>7. ASSUME ResolveDirectory(c), diskChanges = 0 PROVE DiskOK(c)'
  <2>. DEFINE at == disk[job[c].event.directory]
  <2>1. /\ job[c].stage = "resolving" /\ at # Missing
        /\ job'[c] = [job[c] EXCEPT !.stage = "comparing", !.at = at]
    BY <1>4, <1>5, <1>7 DEF ResolveDirectory, Proceed, IInv, TypeOK
  <2>2. /\ job'[c].stage = "comparing" /\ job'[c].event = job[c].event /\ job'[c].others = job[c].others
        /\ job'[c].at = at
    <3>. DEFINE next == [job[c] EXCEPT !.stage = "comparing", !.at = at]
    <3>. HIDE DEF at
    <3>1. next.stage = "comparing" /\ next.event = job[c].event /\ next.others = job[c].others
      BY <1>1 DEF Job
    <3>2. next.at = at
      BY <1>1 DEF Job
    <3>. QED BY <2>1, <3>1, <3>2
  <2>. QED BY <1>2, <1>3, <1>7, <2>1, <2>2 DEF DiskOK, Checking, Compares, world
<1>8. ASSUME CompareDirectories(c), diskChanges = 0 PROVE DiskOK(c)'
  <2>1. /\ job[c].stage = "comparing"
        /\ ~\E p \in job[c].others : SamePlace(p.directory, job[c].at)
        /\ job'[c] = [job[c] EXCEPT !.stage = "appending"]
    BY <1>4, <1>5, <1>8 DEF CompareDirectories, Proceed, IInv, TypeOK
  <2>2. job'[c].stage = "appending" /\ job'[c].event = job[c].event
    BY <1>1, <2>1 DEF Job
  <2>3. ClaimsFree(projection.projects, job[c].event)
    <3>1. /\ disk[job[c].event.directory] # Missing
          /\ disk[job[c].event.directory] = job[c].at
          /\ \A p \in projection.projects : p.id # job[c].event.projectId => p \in job[c].others
      BY <1>1, <1>3, <1>8, <2>1 DEF DiskOK, Compares
    <3>. QED BY <2>1, <3>1 DEF ClaimsFree, SamePlace
  <2>. QED BY <1>2, <2>2, <2>3 DEF DiskOK, Checking, ClaimsFree, world
<1>. QED BY <1>6, <1>7, <1>8

\* The appended event claims a place that nobody has.
LEMMA AppendLooks ==
  ASSUME IInv, DiskInv, NEW c \in Client, AppendEvent(c)
  PROVE  DiskInv'
<1>. DEFINE e == job[c].event
            list == folds[Len(folds)]
<1>1. /\ e \in Event /\ job[c] \in Job /\ Serving
      /\ \A d \in Client \ {c} : job[d].stage = "idle"
  BY OthersIdle DEF IInv, JobInv, JobOK, AppendEvent, TypeOK
<1>2. projection.projects = list
  <2>1. ~Unapplied
    BY <1>1 DEF Unapplied, AppendEvent
  <2>. QED BY <1>1, <2>1, Current
<1>3. /\ folds \in Seq(SUBSET Project) /\ Len(folds) \in Nat /\ Len(folds) \in 1..Len(folds)
      /\ list \in SUBSET Project /\ IdsUnique(list)
  BY ElementOfSeq, LenProperties DEF IInv, TypeOK, LogInv
<1>4. FoldEvent(list, e) \in SUBSET Project /\ folds' = Append(folds, FoldEvent(list, e))
  BY <1>1, <1>3, FoldIsTyped DEF AppendEvent
<1>5. /\ Len(folds') = Len(folds) + 1 /\ folds'[Len(folds) + 1] = FoldEvent(list, e)
      /\ \A n \in 1..Len(folds) : folds'[n] = folds[n]
  BY <1>3, <1>4, AppendProperties
<1>6. UNCHANGED world
  BY DEF AppendEvent
<1>7. ASSUME diskChanges = 0, NEW n \in 1..Len(folds') PROVE Placed(folds'[n])
  <2>1. Placed(list) /\ ClaimsFree(list, e)
    BY <1>2, <1>3, <1>7 DEF DiskInv, DiskOK, AppendEvent
  <2>2. Placed(FoldEvent(list, e))
    BY <1>1, <1>3, <2>1, FoldKeepsPlaced
  <2>3. n \in 1..Len(folds) \/ n = Len(folds) + 1
    BY <1>3, <1>5
  <2>. QED BY <1>5, <1>7, <2>2, <2>3 DEF DiskInv
<1>8. \A d \in Client : job'[d].stage \notin Checking \cup {"appending"}
  BY <1>1 DEF AppendEvent, Checking, IInv, TypeOK, Job
<1>. QED BY <1>6, <1>7, <1>8 DEF DiskInv, DiskOK, Checking, Placed, world

\* Every other step leaves the log alone, and jobs that look with it.
LEMMA RestLooks ==
  ASSUME IInv, DiskInv,
         \/ Boot \/ CatchUp \/ Serve \/ PickUp \/ SavePicked \/ Crash \/ Shutdown
         \/ FinalCheckpoint \/ DiskChanges \/ ListProjects \/ UNCHANGED vars
         \/ \E c \in Client : Apply(c) \/ Publish(c) \/ Answer(c) \/ Interrupt(c)
  PROVE  DiskInv'
<1>1. CASE DiskChanges
  <2>1. diskChanges' # 0
    BY <1>1, BoundsAssumption DEF DiskChanges, IInv, TypeOK
  <2>. QED BY <2>1 DEF DiskInv
<1>2. CASE Boot \/ CatchUp \/ Serve
  <2>1. UNCHANGED <<folds, job, world>> /\ ~Serving
    BY <1>2 DEF Boot, CatchUp, Serve, Serving, tables
  <2>2. \A c \in Client : job'[c].stage = "idle"
    BY <2>1, NoJobs
  <2>. QED BY <2>1, <2>2 DEF DiskInv, DiskOK, Checking, Placed, world
<1>3. CASE Crash \/ FinalCheckpoint
  <2>1. UNCHANGED <<folds, world>> /\ \A c \in Client : job'[c].stage = "idle"
    BY <1>3 DEF Crash, FinalCheckpoint, ProcessEnds, NoJob
  <2>. QED BY <2>1 DEF DiskInv, DiskOK, Checking, Placed, world
<1>4. CASE PickUp \/ SavePicked \/ Shutdown \/ ListProjects \/ UNCHANGED vars
  <2>1. UNCHANGED <<folds, projection, job, world>>
    BY <1>4 DEF PickUp, SavePicked, Shutdown, ListProjects, vars, tables
  <2>. QED BY <2>1 DEF DiskInv, DiskOK, Compares, ClaimsFree, Placed, world
<1>5. ASSUME NEW c \in Client, Apply(c) \/ Publish(c) \/ Answer(c) \/ Interrupt(c)
      PROVE  DiskInv'
  <2>1. /\ UNCHANGED <<folds, world>> /\ job[c].stage # "idle"
        /\ \E j : job' = [job EXCEPT ![c] = j] /\ j.stage \in {"publishing", "replying", "idle"}
    <3>1. UNCHANGED <<folds, world>> /\ job[c].stage # "idle"
      BY <1>5 DEF Apply, Publish, Answer, Interrupt, Interruptible, tables
    <3>2. job[c] \in Job
      BY DEF IInv, TypeOK
    <3>3. ASSUME Apply(c) \/ Publish(c)
          PROVE  \E j : job' = [job EXCEPT ![c] = j] /\ j.stage \in {"publishing", "replying", "idle"}
      <4>1. [job[c] EXCEPT !.stage = "publishing"].stage = "publishing"
            /\ [job[c] EXCEPT !.stage = "replying"].stage = "replying"
        BY <3>2 DEF Job
      <4>. QED BY <3>3, <4>1 DEF Apply, Publish
    <3>4. ASSUME Answer(c) \/ Interrupt(c)
          PROVE  \E j : job' = [job EXCEPT ![c] = j] /\ j.stage \in {"publishing", "replying", "idle"}
      <4>1. job' = [job EXCEPT ![c] = NoJob]
        BY <3>4 DEF Answer, Interrupt
      <4>2. NoJob.stage = "idle"
        BY DEF NoJob
      <4>. QED BY <4>1, <4>2
    <3>. QED BY <1>5, <3>1, <3>3, <3>4
  <2>2. PICK j : job' = [job EXCEPT ![c] = j] /\ j.stage \in {"publishing", "replying", "idle"}
    BY <2>1
  <2>3. job'[c] = j
    BY <2>2 DEF IInv, TypeOK
  <2>4. DiskOK(c)'
    BY <2>2, <2>3 DEF DiskOK, Checking
  <2>. QED BY <2>1, <2>2, <2>4, OneJobLooks
<1>. QED BY <1>1, <1>2, <1>3, <1>4, <1>5

\* While no directory has changed, each place is claimed once, whatever strings
\* the claims are written in (the canonical check of validateDirectory).
THEOREM Places == Spec => []UniquePlaces
<1>1. Init => DiskInv
  <2>. SUFFICES ASSUME Init PROVE DiskInv
    OBVIOUS
  <2>1. \A n \in 1..Len(folds) : folds[n] = {}
    BY DEF Init
  <2>2. \A c \in Client : job[c].stage = "idle"
    BY DEF Init, NoJob
  <2>. QED BY <2>1, <2>2 DEF DiskInv, DiskOK, Placed, Checking
<1>2. IInv /\ DiskInv /\ [Next]_vars => DiskInv'
  <2>. SUFFICES ASSUME IInv, DiskInv, [Next]_vars PROVE DiskInv'
    OBVIOUS
  <2>1. ASSUME NEW c \in Client, NEW r \in Request, CreateProject(c, r) \/ MutateProject(c, r)
        PROVE  DiskInv'
    <3>1. PICK j : Take(c, r, j) /\ Looks([j EXCEPT !.request = r])
      BY <2>1, BeginLooks DEF LooksFirst
    <3>. DEFINE k == [j EXCEPT !.request = r]
    <3>2. job' = [job EXCEPT ![c] = k] /\ UNCHANGED <<folds, world, projection>>
      BY <3>1 DEF Take, tables
    <3>3. job'[c] = k
      BY <3>2 DEF IInv, TypeOK
    <3>4. DiskOK(c)'
      <4>1. Looks(k)
        BY <3>1
      <4>. HIDE DEF k
      <4>. QED BY <3>2, <3>3, <4>1 DEF Looks, DiskOK, Checking, Compares, ClaimsFree
    <3>5. mutex = Null
      BY <2>1 DEF CreateProject, MutateProject, CanBegin, PermitFree
    <3>. QED BY <3>2, <3>4, <3>5, OneJobLooks
  <2>. QED BY <2>1, CheckLooks, AppendLooks, RestLooks DEF Next, Step
<1>3. IInv /\ DiskInv => UniquePlaces
  <2>. SUFFICES ASSUME IInv, DiskInv, diskChanges = 0 PROVE Placed(projection.projects)
    BY DEF UniquePlaces, Placed
  <2>1. projection.seq + 1 \in 1..Len(folds)
    BY Seqs DEF IInv, LogInv
  <2>. QED BY <2>1 DEF DiskInv, IInv, PlaceInv, ReadModelReplaysLog
<1>. QED BY <1>1, <1>2, <1>3, Invariance, PTL DEF Spec
=============================================================================
