---------------------------- MODULE ProjectServer ----------------------------
(***************************************************************************)
(* The write side of the backend: the project use cases, the event log     *)
(* they append to, the in-memory read model, its checkpoint row, the event *)
(* bus, and the process that hosts them, which may crash between any two   *)
(* steps and boot again as another build.                                  *)
(*                                                                         *)
(*   apps/server/application/projects/use-cases.ts    mutations, mutex     *)
(*   apps/server/application/projections.ts           read model, boot     *)
(*   apps/server/db/event-store.ts                    append, scan         *)
(*   apps/server/db/projection-state-store.ts         checkpoint row       *)
(*   apps/server/application/event-bus.ts             publish              *)
(*   apps/server/composition/app.ts                   shutdown order       *)
(***************************************************************************)
EXTENDS ProjectFold, Integers, Sequences

CONSTANTS
  Client,        \* callers of the mutation RPCs
  Malformed,     \* a name, description, tag list or directory the code rejects
  Request,       \* the mutations clients issue
  Build,         \* fold versions a booting server may carry
  Location,      \* canonical paths
  Disk,          \* the file systems that may be found under the directories
  MaxEvents,     \* bound on the length of the log
  MaxDiskChanges \* bound on changes of the file system

\* A mutation as it reaches the use cases (rpc/projects.ts).
CreateRequest == [ op        : {"create"},
                   name      : ProjectName \cup {Malformed},
                   ensure    : BOOLEAN,
                   directory : Directory \cup {Null, Malformed} ]
RenameRequest == [ op : {"rename"}, id : ProjectId, name : ProjectName \cup {Malformed} ]
MoveRequest   == [ op        : {"changeDirectory"},
                   id        : ProjectId,
                   directory : Directory \cup {Malformed} ]
PatchRequest  == [ op    : {"setMetadata"},
                   id    : ProjectId,
                   patch : [ description : Description \cup {Null, Absent, Malformed},
                             tags        : {Absent, Malformed} \cup SUBSET Tag ] ]
PlainRequest  == [ op : {"archive", "restore", "delete"}, id : ProjectId ]

AnyRequest == CreateRequest \cup RenameRequest \cup MoveRequest \cup PatchRequest \cup PlainRequest

\* What a path resolves to: nothing, or an object of some kind at some place.
Missing == [kind |-> "missing"]
Entry   == [kind : {"directory", "file"}, at : Location] \cup {Missing}

ASSUME RequestAssumption == Request \subseteq AnyRequest
ASSUME DiskAssumption    == Disk \subseteq [Directory -> Entry]
ASSUME MalformedIsNoValue ==
  /\ Malformed \notin ProjectName \cup Directory \cup Description \cup {Null, Absent}
  /\ \A tags \in SUBSET Tag : Malformed # tags
ASSUME NullIsNoClient    == Null \notin Client
ASSUME BoundsAssumption  == MaxEvents \in Nat /\ MaxDiskChanges \in Nat

VARIABLES
  log,         \* events table: log[n] is the event with seq n
  folds,       \* history: folds[n + 1] is the fold of the first n events
  checkpoint,  \* projection_state row, or NoState
  mode,        \* life of the server process
  build,       \* fold version of the running build
  projection,  \* the SubscriptionRef {projects, seq}; at boot, the fold's accumulator
  saving,      \* state the debounce fiber is about to save, or NoState
  bus,         \* seqs published since boot, in order
  mutex,       \* holder of the use-case mutex, or Null
  job,         \* each client's request in flight
  disk,        \* what each directory string resolves to
  diskChanges, \* how often it changed
  seen         \* history: highest seq any client has been shown

tables  == <<log, folds, checkpoint>>
process == <<mode, build, saving>>
world   == <<disk, diskChanges>>
vars == <<tables, process, projection, bus, mutex, job, world, seen>>

Stage == {"idle", "statting", "resolving", "comparing",
          "appending", "applying", "publishing", "replying"}

\* What a caller is told: a result or a typed error, and the project it carries.
Outcome == {"none", "ok", "existing", "deleted", "InvalidInput", "AlreadyExists", "NotFound",
            "NameConflict", "DirectoryInvalid", "DirectoryConflict"}
Reply(tag, project) == [tag |-> tag, project |-> project]

NoJob == [ stage |-> "idle", request |-> Null, others |-> {}, at |-> Missing,
           event |-> Null, seq |-> 0, reply |-> Reply("none", Null) ]

\* A read model, the seq it is valid at, and the fold version that laid it out.
State    == [projects : SUBSET Project, seq : Nat, shape : Build]
NoState  == [seq |-> -1]
Blank(b) == [projects |-> {}, seq |-> 0, shape |-> b]

Init ==
  /\ log = <<>> /\ folds = <<{}>> /\ checkpoint = NoState
  /\ mode = "down" /\ build \in Build /\ projection = Blank(build)
  /\ saving = NoState /\ bus = <<>> /\ mutex = Null
  /\ job = [c \in Client |-> NoJob]
  /\ disk \in Disk /\ diskChanges = 0
  /\ seen = 0

Highest(a, b) == IF a > b THEN a ELSE b

(***************************************************************************)
(* Boot: resume from a usable checkpoint or start from nothing, fold the   *)
(* rest of the log, save, serve.                                           *)
(***************************************************************************)
Usable(row, b) == row # NoState /\ row.shape = b

\* Mutant: a rebuild drops the projects of the row but keeps its cursor.
Rebuild_KeepsCursor(b) == [Blank(b) EXCEPT !.seq = Highest(0, checkpoint.seq)]
Rebuild(b) == Blank(b)

\* A load that fails, or a row that does not decode, rebuilds from seq 0.
Boot ==
  /\ mode = "down"
  /\ mode' = "folding"
  /\ build' \in Build
  /\ \/ Usable(checkpoint, build') /\ projection' = checkpoint
     \/ projection' = Rebuild(build')
  /\ UNCHANGED <<tables, saving, bus, mutex, job, world, seen>>

CatchUp ==
  /\ mode = "folding" /\ projection.seq < Len(log)
  /\ LET n == projection.seq + 1
     IN projection' = [projection EXCEPT !.projects = FoldEvent(@, log[n]), !.seq = n]
  /\ UNCHANGED <<tables, process, bus, mutex, job, world, seen>>

\* Mutant: the row pairs the given projects with the seq of the moment.
Save_Torn(state) == checkpoint' \in {checkpoint, [state EXCEPT !.seq = projection.seq]}
\* saveCheckpoint: one UPSERT, whose failure is logged and ignored.
Save(state) == checkpoint' \in {checkpoint, state}

\* Mutant: serves while the log is still being folded.
CaughtUp_Assumed == TRUE
CaughtUp == projection.seq = Len(log)

Serve ==
  /\ mode = "folding" /\ CaughtUp
  /\ Save(projection)
  /\ mode' = "running" /\ bus' = <<>>
  /\ UNCHANGED <<log, folds, build, saving, projection, mutex, job, world, seen>>

(***************************************************************************)
(* Checkpoint cadence: the debounce fiber picks a state up and saves it    *)
(* later; commits may happen in between.                                   *)
(***************************************************************************)
PickUp ==
  /\ mode \in {"running", "closing"} /\ saving = NoState
  /\ saving' = projection
  /\ UNCHANGED <<tables, mode, build, projection, bus, mutex, job, world, seen>>

SavePicked ==
  /\ saving # NoState
  /\ Save(saving)
  /\ saving' = NoState
  /\ UNCHANGED <<log, folds, mode, build, projection, bus, mutex, job, world, seen>>

(***************************************************************************)
(* Process life.  Everything but the tables is lost when it ends.          *)
(***************************************************************************)
\* Mutant: the debounce fiber outlives the final checkpoint.
StopFiber_TooLate == UNCHANGED saving
StopFiber == saving' = NoState

ProcessEnds ==
  /\ mode' = "down" /\ projection' = Blank(build)
  /\ StopFiber /\ bus' = <<>> /\ mutex' = Null
  /\ job' = [c \in Client |-> NoJob]
  /\ UNCHANGED <<log, folds, build, world, seen>>

Crash == mode # "down" /\ ProcessEnds /\ UNCHANGED checkpoint

\* The last connection closed: no request starts, those not yet committing
\* may be interrupted, commits run on.
Shutdown ==
  /\ mode = "running"
  /\ mode' = "closing"
  /\ UNCHANGED <<tables, build, saving, projection, bus, mutex, job, world, seen>>

\* The core scope closes: debounce fiber first, final checkpoint second.  A
\* commit still running then has outlived the grace window and is abandoned.
FinalCheckpoint == mode = "closing" /\ Save(projection) /\ ProcessEnds

DiskChanges ==
  /\ diskChanges < MaxDiskChanges
  /\ disk' \in Disk \ {disk}
  /\ diskChanges' = diskChanges + 1
  /\ UNCHANGED <<tables, process, projection, bus, mutex, job, seen>>

(***************************************************************************)
(* Mutations, from the permit to the first await: the snapshot is read and *)
(* every check made that needs no file system.                             *)
(***************************************************************************)
Find(id) == {p \in projection.projects : p.id = id}
Others(id) == {p \in projection.projects : p.id # id}
Named(list, name) == {p \in list : p.name = name}

Decodes(value) == value # Malformed

\* newId draws a UUID that no project ever had.
Issued == {log[n].projectId : n \in {m \in 1..Len(log) : log[m].type = "ProjectCreated"}}
FreshId == ProjectId \ Issued

Take(c, r, next) ==
  /\ mutex' = c
  /\ job' = [job EXCEPT ![c] = [next EXCEPT !.request = r]]
  /\ UNCHANGED <<tables, process, projection, bus, world, seen>>

Refuse(c, r, tag) ==
  Take(c, r, [NoJob EXCEPT !.stage = "replying", !.reply = Reply(tag, Null)])

Emit(c, r, e, reply) ==
  Take(c, r, [NoJob EXCEPT !.stage = "appending", !.event = e, !.reply = reply])

Claimed(directory, others) == \E p \in others : p.directory = directory

\* validateDirectory up to its first await.
Validate(c, r, others, e, reply) ==
  \/ ~Decodes(r.directory) /\ Refuse(c, r, "DirectoryInvalid")
  \/ /\ Decodes(r.directory) /\ Claimed(r.directory, others)
     /\ Refuse(c, r, "DirectoryConflict")
  \/ /\ Decodes(r.directory) /\ ~Claimed(r.directory, others)
     /\ Take(c, r, [NoJob EXCEPT !.stage = "statting", !.others = others,
                                 !.event = e, !.reply = reply])

\* Mutant: no mutex around the check and the commit.
PermitFree_Always == TRUE
PermitFree == mutex = Null

CanBegin(c) ==
  /\ mode = "running" /\ PermitFree
  /\ job[c].stage = "idle"
  /\ Len(log) < MaxEvents

CreateProject(c, r) ==
  /\ r.op = "create" /\ CanBegin(c)
  /\ \/ ~Decodes(r.name) /\ Refuse(c, r, "InvalidInput")
     \/ \E existing \in Named(projection.projects, r.name) :
          IF r.ensure
          THEN Take(c, r, [NoJob EXCEPT !.stage = "replying",
                                        !.reply = Reply("existing", existing)])
          ELSE Refuse(c, r, "AlreadyExists")
     \/ /\ Decodes(r.name) /\ Named(projection.projects, r.name) = {}
        /\ \E id \in FreshId :
             LET e == [type |-> "ProjectCreated", projectId |-> id,
                       name |-> r.name, directory |-> r.directory]
                 reply == Reply("ok", FromCreated(e))
             IN IF r.directory = Null
                THEN Emit(c, r, e, reply)
                ELSE Validate(c, r, projection.projects, e, reply)

RenameProject(c, r, target) ==
  /\ r.op = "rename"
  /\ \/ ~Decodes(r.name) /\ Refuse(c, r, "InvalidInput")
     \/ /\ Decodes(r.name) /\ Named(Others(r.id), r.name) # {}
        /\ Refuse(c, r, "NameConflict")
     \/ /\ Decodes(r.name) /\ Named(Others(r.id), r.name) = {}
        /\ LET e == [type |-> "ProjectRenamed", projectId |-> r.id, name |-> r.name]
           IN Emit(c, r, e, Reply("ok", [target EXCEPT !.name = r.name]))

ChangeDirectory(c, r, target) ==
  /\ r.op = "changeDirectory"
  /\ LET e == [type |-> "ProjectDirectoryChanged", projectId |-> r.id,
               directory |-> r.directory]
     IN Validate(c, r, Others(r.id), e, Reply("ok", ApplyEvent(target, e)))

\* Unguarded: archiving twice appends a second, redundant event.
ToggleArchived(c, r, target) ==
  /\ r.op \in {"archive", "restore"}
  /\ LET e == [type |-> IF r.op = "archive" THEN "ProjectArchived" ELSE "ProjectRestored",
               projectId |-> r.id]
     IN Emit(c, r, e, Reply("ok", ApplyEvent(target, e)))

SetMetadata(c, r, target) ==
  /\ r.op = "setMetadata"
  /\ LET e == [type |-> "ProjectMetadataChanged", projectId |-> r.id, patch |-> r.patch]
     IN IF Decodes(r.patch.description) /\ Decodes(r.patch.tags)
        THEN Emit(c, r, e, Reply("ok", ApplyEvent(target, e)))
        ELSE Refuse(c, r, "InvalidInput")

DeleteProject(c, r) ==
  /\ r.op = "delete"
  /\ Emit(c, r, [type |-> "ProjectDeleted", projectId |-> r.id], Reply("deleted", Null))

\* Every mutation of an existing project looks its target up first.
MutateProject(c, r) ==
  /\ r.op # "create" /\ CanBegin(c)
  /\ \/ Find(r.id) = {} /\ Refuse(c, r, "NotFound")
     \/ \E target \in Find(r.id) :
          \/ RenameProject(c, r, target) \/ ChangeDirectory(c, r, target)
          \/ ToggleArchived(c, r, target) \/ SetMetadata(c, r, target)
          \/ DeleteProject(c, r)

(***************************************************************************)
(* validateDirectory's three awaits, the permit still held.                *)
(***************************************************************************)
Proceed(c, from, next) ==
  /\ job[c].stage = from
  /\ job' = [job EXCEPT ![c] = next]
  /\ UNCHANGED <<tables, process, projection, bus, mutex, world, seen>>

Rejected(j, tag) == [j EXCEPT !.stage = "replying", !.reply = Reply(tag, Null)]

StatDirectory(c) ==
  Proceed(c, "statting",
    IF disk[job[c].event.directory].kind = "directory"
    THEN [job[c] EXCEPT !.stage = "resolving"]
    ELSE Rejected(job[c], "DirectoryInvalid"))

ResolveDirectory(c) ==
  Proceed(c, "resolving",
    LET at == disk[job[c].event.directory]
    IN IF at = Missing
       THEN Rejected(job[c], "DirectoryInvalid")
       ELSE [job[c] EXCEPT !.stage = "comparing", !.at = at])

\* Mutant: canonical identities are resolved but not compared.
SamePlace_Ignored(directory, at) == FALSE
\* A directory that no longer resolves is passed over.
SamePlace(directory, at) ==
  directory # Null /\ disk[directory] # Missing /\ disk[directory].at = at.at

CompareDirectories(c) ==
  Proceed(c, "comparing",
    IF \E p \in job[c].others : SamePlace(p.directory, job[c].at)
    THEN Rejected(job[c], "DirectoryConflict")
    ELSE [job[c] EXCEPT !.stage = "appending"])

(***************************************************************************)
(* commit: append, apply, publish, without interruption.                   *)
(***************************************************************************)
AppendEvent(c) ==
  /\ job[c].stage = "appending"
  /\ log'   = Append(log, job[c].event)
  /\ folds' = Append(folds, FoldEvent(folds[Len(folds)], job[c].event))
  /\ job'   = [job EXCEPT ![c].stage = "applying", ![c].seq = Len(log) + 1]
  /\ UNCHANGED <<checkpoint, process, projection, bus, mutex, world, seen>>

\* Mutant: the idempotence guard is off by one.
Ahead_OffByOne(seq) == seq > projection.seq + 1
Ahead(seq) == seq > projection.seq

\* Idempotent: an event whose seq is not ahead of the read model is dropped.
Apply(c) ==
  /\ job[c].stage = "applying"
  /\ projection' = IF Ahead(job[c].seq)
                   THEN [projection EXCEPT !.projects = FoldEvent(@, job[c].event),
                                           !.seq = job[c].seq]
                   ELSE projection
  /\ job' = [job EXCEPT ![c].stage = "publishing"]
  /\ UNCHANGED <<tables, process, bus, mutex, world, seen>>

Publish(c) ==
  /\ job[c].stage = "publishing"
  /\ bus' = Append(bus, job[c].seq)
  /\ job' = [job EXCEPT ![c].stage = "replying"]
  /\ seen' = Highest(seen, job[c].seq)
  /\ UNCHANGED <<tables, process, projection, mutex, world>>

\* Mutant: the permit is not given back.
GiveBack_Forgotten == UNCHANGED mutex
GiveBack == mutex' = Null

\* The permit is given back and the caller gets its answer.
Answer(c) ==
  /\ job[c].stage = "replying"
  /\ GiveBack
  /\ job' = [job EXCEPT ![c] = NoJob]
  /\ UNCHANGED <<tables, process, projection, bus, world, seen>>

\* Mutant: the commit can be interrupted between append and apply.
Interruptible_Commit == {"statting", "resolving", "comparing", "appending", "applying"}
Interruptible == {"statting", "resolving", "comparing", "appending"}

\* The caller goes away, or the INSERT fails, before the event is in the log.
Interrupt(c) ==
  /\ job[c].stage \in Interruptible
  /\ GiveBack
  /\ job' = [job EXCEPT ![c] = NoJob]
  /\ UNCHANGED <<tables, process, projection, bus, world, seen>>

\* ProjectList: a read of the projection that takes no permit.
ListProjects ==
  /\ mode = "running"
  /\ seen' = Highest(seen, projection.seq)
  /\ UNCHANGED <<tables, process, projection, bus, mutex, job, world>>

Step(c) ==
  \/ StatDirectory(c) \/ ResolveDirectory(c) \/ CompareDirectories(c)
  \/ AppendEvent(c) \/ Apply(c) \/ Publish(c) \/ Answer(c)

Next ==
  \/ Boot \/ CatchUp \/ Serve \/ PickUp \/ SavePicked
  \/ Crash \/ Shutdown \/ FinalCheckpoint \/ DiskChanges \/ ListProjects
  \/ \E c \in Client :
       \/ \E r \in Request : CreateProject(c, r) \/ MutateProject(c, r)
       \/ Step(c) \/ Interrupt(c)

Spec == Init /\ [][Next]_vars

(***************************************************************************)
(* Properties.                                                             *)
(***************************************************************************)
Job == [ stage   : Stage,
         request : Request \cup {Null},
         others  : SUBSET Project,
         at      : Entry,
         event   : Event \cup {Null},
         seq     : Nat,
         reply   : [tag : Outcome, project : Project \cup {Null}] ]

\* Every variable holds a value of its kind.
TypeOK ==
  /\ log \in Seq(Event)
  /\ folds \in Seq(SUBSET Project)
  /\ checkpoint \in State \cup {NoState}
  /\ mode \in {"down", "folding", "running", "closing"}
  /\ build \in Build
  /\ projection \in State
  /\ saving \in State \cup {NoState}
  /\ bus \in Seq(Nat)
  /\ mutex \in Client \cup {Null}
  /\ job \in [Client -> Job]
  /\ disk \in Disk
  /\ diskChanges \in 0..MaxDiskChanges
  /\ seen \in Nat

\* No two projects of the served read model share a name (createProject and
\* renameProject check it against a snapshot and commit several steps later).
UniqueNames == NamesUnique(projection.projects)

\* No two projects claim the same directory string, although the check and
\* the commit are separated by three file-system calls.
UniqueDirectories == DirectoriesUnique(projection.projects)

\* Every check of a claim against a snapshot still holds when it is served.
UniqueClaims == UniqueNames /\ UniqueDirectories

\* While the file system stands still, no two projects claim the same place
\* through different strings (the canonical check of validateDirectory).
UniquePlaces ==
  diskChanges = 0 =>
    \A p, q \in {x \in projection.projects : x.directory # Null} :
      disk[p.directory] = disk[q.directory] => p = q

\* The read model is the fold of the log up to its seq, in every mode: after
\* a crash, after a resume from any checkpoint, between append and apply.
ReadModelReplaysLog ==
  /\ projection.seq \in 0..Len(log)
  /\ projection.projects = folds[projection.seq + 1]

\* So is the persisted checkpoint, however long the debounce fiber held the
\* state it wrote, and so is the state it is holding.
CheckpointReplaysLog ==
  \A row \in {checkpoint, saving} \ {NoState} :
    row.seq \in 0..Len(log) /\ row.projects = folds[row.seq + 1]

\* A build never serves records another fold version laid out.
ServesOwnShape == projection.shape = build

\* No reader is shown an older read model than some reader saw before, not
\* even across a crash and a rebuild.
ReadsNeverRegress == mode = "running" => projection.seq >= seen

\* Bus order is log order without gaps, and a published event is already in
\* the read model ("event reactions see the updated read model").
BusFollowsReadModel ==
  \A i \in 1..Len(bus) :
    /\ bus[i] <= projection.seq
    /\ i > 1 => bus[i] = bus[i - 1] + 1

\* With no mutation in flight nothing is half done: every event of the log
\* is applied, and every event committed since boot was published.
SettledWhenFree ==
  mode = "running" /\ mutex = Null =>
    /\ projection.seq = Len(log)
    /\ bus # <<>> => bus[Len(bus)] = Len(log)

Replying(tag) == {c \in Client : job[c].stage = "replying" /\ job[c].reply.tag = tag}

\* The project a successful mutation returns, computed from the snapshot it
\* started with, is the one the read model now holds; a deleted id is gone.
ReplyMatchesReadModel ==
  /\ \A c \in Replying("ok") \cup Replying("existing") :
       job[c].reply.project \in projection.projects
  /\ \A c \in Replying("deleted") :
       \A p \in projection.projects : p.id # job[c].request.id

\* A refusal is true of the read model at the moment it is sent, not only of
\* the snapshot it was decided on.
RefusalHolds ==
  /\ \A c \in Replying("AlreadyExists") :
       Named(projection.projects, job[c].request.name) # {}
  /\ \A c \in Replying("NameConflict") :
       \E p \in projection.projects :
         p.id # job[c].request.id /\ p.name = job[c].request.name
  /\ \A c \in Replying("NotFound") : Find(job[c].request.id) = {}

\* What a mutation answers, grant or refusal, is true when it is sent.
AnswersHold == ReplyMatchesReadModel /\ RefusalHolds

\* A deleted project never reappears in the read model, whatever is created,
\* replayed or rebuilt afterwards.
TombstonesHold ==
  \A n \in 1..projection.seq :
    log[n].type = "ProjectDeleted" =>
      \A p \in projection.projects : p.id # log[n].projectId

\* The checkpoint row never moves back to an older seq.
CheckpointNeverRegresses == [][checkpoint'.seq >= checkpoint.seq]_checkpoint

\* Behind the mutex, the snapshot, the log and the crashes, clients see one
\* registry changing by one legal event at a time: the append.
Registry == INSTANCE ProjectRegistry
  WITH projects <- folds[Len(folds)], retired <- Issued
ImplementsRegistry == Registry!Spec

\* A mutation that holds the permit gives it back, whatever it runs into.
FairSpec == Spec /\ \A c \in Client : WF_vars(Step(c))
PermitComesBack == mutex # Null ~> mutex = Null
=============================================================================
