# Verification of expand

TLA+ models of this repository's backend, clients, user interfaces and release
tools, model-checked with TLC and, for the parts named under
[Proofs](#proofs), proved with TLAPS.

`expand` keeps a registry of projects in an event-sourced backend process. Any
number of clients (command line, terminal UI, desktop application, scripts)
find or spawn that backend through files under a *state root* directory, talk
to it over a WebSocket RPC, and follow its event stream; the backend ends when
its last client disconnects. Nothing but the SQLite file and the files of the
state root survives a process.

## Inventory

| Component | Source | State it keeps | Operations | What is hard | What makes it correct | Model |
| --- | --- | --- | --- | --- | --- | --- |
| Read model and fold | `packages/contracts/project.ts`, `events/project.ts` | – | `fromCreated`, `applyEvent`, `foldList` | shared by server, clients and boot | a deleted id stays away; unique ids, names, directories | `ProjectFold` |
| Use cases | `apps/server/application/projects/use-cases.ts` | mutex | create, rename, change directory, archive, restore, set metadata, delete, list | checks on a snapshot, awaits on the file system, commit later; interruption | uniqueness, truthful replies and refusals, permit comes back | `ProjectServer` |
| Projection | `application/projections.ts`, `db/projection-state-store.ts` | `{projects, seq}`, checkpoint row | boot, apply, debounced checkpoint, final checkpoint | crash between steps, stale checkpoint, other fold version | always the fold of a prefix of the log | `ProjectServer` |
| Event store | `db/event-store.ts`, `db/replay-feed.ts` | `events` table | append, keyset scan | appends between two pages | no gap, no duplicate | `ProjectServer`, `EventStream` |
| Event bus, Events stream | `application/event-bus.ts`, `rpc/stream.ts` | subscriptions | publish, subscribe, replay then live | the seam between backlog and live events | the log after the cursor, in order, once | `EventStream` |
| State root lock, endpoint file | `runtime/state-root-lock.ts`, `runtime/endpoint-file.ts` | lock, claim and endpoint files | acquire, recover, release, hand over, advertise | several starters, kills anywhere, no atomic compare-and-unlink | one owner; its record and endpoint stay; stale locks are recovered | `StateRootLock` |
| Server composition | `composition/app.ts`, `main.ts` | scopes | boot, serve, orderly end | order of the finalizers, grace window | final checkpoint last, endpoint gone before the lock | `BackendLifecycle`; its parts in `ProjectServer`, `StateRootLock` |
| Connection tracker | `runtime/connection-tracker.ts` | count, armed, fired | connect, disconnect | a connect racing the last disconnect | an idle backend ends; nobody is stranded | `BackendLifecycle` |
| Spawn and discovery | `packages/client-ts/spawn.ts`, `spawn-lock.ts`, `discovery.ts` | spawn lock file | find or spawn | herds of clients, dead spawners, old endpoints | one spawner at a time, all clients meet one backend | `FindOrSpawn` |
| Client session | `client-ts/client-session.ts`, `rpc-client.ts` | session, epoch | connect, disconnect, retry | disconnect overtaking a connect | a current client is watched, a lost one replaced | `ClientSession` |
| Project sync | `packages/contracts/project-sync.ts` | snapshot, seq, epoch | snapshot, tail, resync | events of two epochs mixed | shows the fold of a prefix, converges to the log | `ProjectSync` |
| Electron IPC | `packages/electron-ipc/*`, desktop `main/ipc/port-lifecycle.ts`, `main/rpc` | current port, semaphore, nonces | request, grant, serve, close, undo | late grants, navigations in between, a step of the hand-over failing, the window closing | each port has one owner, the page on screen has a server | `DesktopPorts` |
| Desktop main process | `apps/desktop/src/main` | application and window scopes, forked backends | open, quit, fail, dispose, linger | quits that are held back, order of the finalizers, backends that do not exit | nothing outlives what it calls; a quit happens | `DesktopApp` |
| Desktop page | `apps/desktop/src/renderer` | boot, dialogs, owned mutations | open, submit, dismiss, unmount | a late result of a superseded or abandoned mutation | the latest submission has the surface to itself | boot in `DesktopPorts`; `ProjectDialogs` |
| Terminal UI | `apps/tui` | focus, overlay, selection, effect queue | key, list, render, run effects | keys between a render and its effects, keys routed with an old list | every effect runs once, in order; the selection is in the list | `TerminalUi` |
| Command line | `apps/cli` | – | one request, one answer | – | – | not modelled |
| Migrations | `apps/server/migrations` | schema, event revisions | create tables, upcast rows | – | every old row is readable | not modelled |
| Package staging and certification | `packages/*/scripts/prepare-publish.ts`, `scripts/package-certification.ts` | `dist-publish` and its two neighbours, phase | stage, roll back, pack, certify | any operation failing, interrupted or killed | a stage is all or nothing, a certification leaves no trace | `PackageRelease` |
| Binary certification | `scripts/binary-smoke.ts`, `binary-smoke-model.ts`, `fixtures/job-control.sh` | processes, groups, evidence | start, observe, release, clean up | processes that die, hang or ignore signals at any point | nothing is left behind unreported | `BinarySmoke` |
| Lint rule for module order | `eslint-rules/module-order*.mjs` | – | sort, move comments | – | the fix keeps the meaning | `ModuleOrder` |
| Build and fold-version scripts, examples | `scripts/build.ts`, `scripts/fold-version.ts`, `examples` | – | – | – | – | not modelled: no run-time state |

How they interact: clients call the use cases through RPC; a use case appends
to the event store, applies to the projection and publishes on the bus; the
Events stream reads the store and then the bus; the process that hosts them
takes the state root lock first, advertises its endpoint once it serves,
retracts it when the last connection closes, writes the final checkpoint and
releases the lock. The terminal runs a client session in its own process; the
desktop runs one in its main process, which serves it to the page in the window
over a message port. The release tools are programs of their own.

## Modules

    ProjectFold                           events and the shared fold
         ├──────── ProjectRegistry        what the service promises
         └──────── ProjectServer          use cases, store, projection, process life
                        ├─ implements ProjectRegistry
                        └─ ProjectServerProofs
    OrderedFeed                           what a subscriber is promised
    EventStream                           stream handler, paging, bus
         ├─ implements OrderedFeed
         └─ EventStreamProofs
    StateRootLock ─ StateRootLockProofs   ownership of the state root
    FindOrSpawn ─── FindOrSpawnProofs     discovery, spawn lock, spawning
    ClientSession                         the connection a client keeps (with SessionState)
    ProjectSync                           the list a client shows
         └──────── ClientProofs           both, through MCClient
    BackendLifecycle                      backends and clients together
         └──────── BackendLifecycleProofs
    Queues                                queues that some members leave
    DesktopPorts (Queues)                 pages, ports and the window's end
         └──────── DesktopApp             the application around the window
    ProjectDialogs                        a surface that changes a project
    TerminalUi (Queues)                   keys, effects, renders
         └──────── InterfacesProofs       all four, through MCInterfaces
    PackageRelease                        staging, certifying packages
    BinarySmoke                           certifying binaries
    ModuleOrder                           the lint rule and its fix
         └──────── ReleaseProofs          all three, through MCRelease

The `MC` modules define the instances the configurations name. Three of them
hold several modules that do not share any state: what a client does below its
interface (`MCClient`), the two interfaces (`MCInterfaces`), the tools
(`MCRelease`). A variable chosen once says which part a behaviour runs, and the
others are at rest, so that one run checks each part on all its behaviours.
Nothing is lost by it: the search, the session and the synchronisation meet only
in what each has as its environment, the interfaces only in the backend, and the
tools are separate programs. `MCRegistry` needs no such variable: its clients
ask about directories while the disk has any, and about names when it has none,
from the start or since it changed, so that one behaviour can hold both.

**`ProjectFold`** holds the event and project types and the one fold that the
server and all clients share. It has no state. The list order and the timestamps
are left out; tag lists are sets, which is what the fold's deduplication makes
of them up to order.

**`ProjectRegistry`** is the abstract service: a set of projects that changes by
one legal event at a time, where *legal* collects the rules of the doc comments
of `ProjectUseCases` (unique names, unclaimed directories, existing targets, ids
never given out twice).

**`ProjectServer`** is the write side. `log` and `checkpoint` are the two tables;
everything else dies with the process. A mutation is a job that takes the mutex
(`CreateProject`, `MutateProject`: everything the code does before its first
await), goes through the three file-system awaits of `validateDirectory` when
it claims a directory (`StatDirectory`, `ResolveDirectory`,
`CompareDirectories`), and commits in the three steps of `commit`
(`AppendEvent`, `Apply`, `Publish`), after which `Answer` returns the permit.
`Interrupt` is the caller that goes away or the insert that fails, possible up
to the append because the commit is uninterruptible. `Boot`, `CatchUp` and
`Serve` are the boot of the projection; `PickUp` and `SavePicked` the debounce
fiber, which may hold a state over any number of commits; `Shutdown` and
`FinalCheckpoint` the orderly end; `Crash` a kill. A boot may carry another
fold version (`Build`), a load or save may fail, and the file system may change
between any two steps (`DiskChanges`). The comparison of canonical paths reads
them in one step; the properties about places are stated for a file system at
rest, for which this makes no difference. `folds` and `seen` are history
variables, read by properties only.

**`OrderedFeed`** and **`EventStream`**: the stream handler with its subscription,
the paged backlog, the `lastReplayed` cell and the filter on live events, over a
committer that appends and publishes in two steps. Sequence numbers may skip.
A page is the stretch of the log behind the last row that is not after the
cursor (`Passed`), which is what the keyset query returns.

**`StateRootLock`**: processes that start, publish their record by hard link,
read, probe and reclaim a stale record under a claim file, retry until an
endpoint shows or the deadline passes, serve, retract and release; killed at
any stage in `CrashStages`. The two record reads behind a claim are one step
each pair, because the claim cannot change between them; the two `stat` calls
likewise; the comparison and the unlink are two steps, as in the code.
Malformed lock files (the code fails closed), unexpected file-system errors,
and the candidate files with their unique names are left out.

**`FindOrSpawn`** is a client's search for a backend (`findOrSpawnBackend`): `Look`
reads the endpoint, `FirstPublish` to `SecondPublish` are `spawn-lock.ts`, step
by step as in `StateRootLock`, `Spawn` and `AwaitEndpoint` follow under the lock,
`Stop` is the release. `Mishaps` says what goes wrong in an instance: the start
deadline or an interruption (`Deadline`, which takes effect at the end of an
uninterruptible region), an endpoint that does not accept (`ConnectTimesOut`),
a spawn that fails, a backend that ends. `CrashStages` is where a client may be
killed. Backends are what `StateRootLock` makes of them: one that settles while
another serves gives up. A record without a token, of the format before tokens,
is claimed under a digest in the code, which the model treats as its token.

**`ClientSession`** is the loop of `client-session.ts`, with the disconnect hook of
every connection attempt as an actor of its own: a hook may wait, take the
attempt's semaphore, clear the client and report while the loop acquires,
publishes in two steps (`Publish`, `ReportConnected`), backs off or closes.
`acquireClient` makes up to `Tries` attempts an epoch; those given up stay
connected until the epoch's scope closes, and their hooks may come late.

**`ProjectSync`** is `project-sync.ts`: the status loop (`TakeStatus`,
`RestartEpoch`, `StatusEnds`) and the epoch fibers (`AnswerList`, `ShowList`,
`Confirm`, `ReceiveEvent`, `ShowFold`, `Report`, `Retry`) over a backend whose
log may be one event ahead of its read model. A list is the sequence of the
events folded into it, so that two lists are equal exactly when they fold the
same events in the same order. `suspends`, chosen once, says whether the sinks
yield to other fibers: those of the two interfaces do not, the type allows it.

**`BackendLifecycle`** composes them: backends that start, serve, count their
connections and end, and clients that look, spawn, connect, lose their
connection, leave or die. What another module takes apart is one step here:
taking the state root lock or finding its owner alive, reading the endpoint,
becoming the spawner, and a connection's acquisition. The tracker is kept in the
detail of the code (`Connected`, `Fires`, `Disconnected`, `Fire`: counting out
and firing are two steps). `CloseHttp` closes what connections remain when the
grace window ends. Two relations of time are assumed: an orderly end is over
before a rival's handoff deadline, and a start before the spawner's.

**`DesktopPorts`** is a window of the desktop from both sides. A page asks for a port
(`Ask`), boots when the grant that carries its nonce comes (`Deliver`,
`FirstSnapshot`) or gives up (`BootTimesOut`); the main process handles requests
under the semaphore (`Begin`, `ClosePrevious`, `MakeChannel`, `Connect`,
`Grant`, with `Undo` as the failure branch of the transaction), beside the
closings that navigations and the window's scope dispatch (`CloserBegins`).
`permits` is the semaphore's queue, whose head holds it. The server on a port
starts, fails without a session, answers, and ends when the other side closes.
`StopIpc`, `Drained` and `Destroyed` are the finalizers of the window's scope.
A request of a page that is gone may still pass the sender check, because the
frame may outlive its document. A page that stays after a prevented navigation
(`deserted`) has lost its port to the closing that the navigation dispatched;
`MountedIsServed` leaves it out.

**`DesktopApp`** extends it by `main-program.ts` and `index.ts`: `shutdown` and
`failure` are the two deferreds, `EndsOnRequest` and `EndsOnFailure` the race
that ends the scope, `StartDisposing` to `Quit` its finalizers, `BackendsGone`
and `LingerTimesOut` the wait for forked backends.

**`ProjectDialogs`** is one surface of the page and the mutation hook behind it
(`useOwnedMutation`); `kind` chooses which, since they differ in when they are
mounted, what closes them and who shows a failure. `since` tells the
submissions of a metadata dialog from those before it was opened.

**`TerminalUi`** keeps the reducer's state, the queue of effects, and what the last
render and the registered key handler saw. `Key` is routing and reducing in one
step, with the handler's list; `Render` and `Flush` are a render and its passive
effects, between which keys and lists may come. Text is blank or not.

**`PackageRelease`** is the staging of a package by `prepare-publish.ts` (`Step` and
`StepFails` over the operations of the transaction, `LookBack` to `Sweep` the
rollback, `Tidy` the cleanup) and the certification around it. A directory is
absent, half written or the whole output of a numbered run.

**`BinarySmoke`** has the processes of a certification on one side (`Processes`,
external but for the shell script) and the coordinator on the other: the body of
a part step by step, then its cleanup, where each signal and each look at the
processes is a step that may fail.

**`ModuleOrder`** is the analysis as operators over a file of a few statements, with
one action, the fix, and a reference definition of the order and of what it must
keep (`RightlyFixed`, `RightlyWithheld`). A round of the sort's loop is
`Extended`; the loop is a recursive function.

The types that an argument needs are conjuncts of its inductive invariant; the
other type invariants document the state, and held on the instances below.

## Runs

| Run | Instance | Shows |
| --- | --- | --- |
| `registry` | 2 clients, 2 ids, log of 3; 2 names; 2 directory strings, 5 file systems (one of them empty) with 1 change | names, directory strings and, while the file system rests, places are unique; replies and refusals are true of the read model; the server implements `ProjectRegistry` |
| `recovery` | 1 client, 2 ids, patches and archive flag, 2 builds, log of 3, crashes, failing saves | read model, checkpoint and the state in the debounce fiber are folds of prefixes of the log; the checkpoint and the readers never go back; the permit comes back |
| `event_stream` | 2 readers, pages of 2, seqs up to 3 | each reader is sent the log after its cursor, in order, once (implements `OrderedFeed`); every stored event is eventually sent |
| `state_root_lock` | 2 processes, 3 pids, 3 tokens, kills outside claims | one owner, whose endpoint stays; a stale lock is recovered |
| `orphan_claim` | as before, kills anywhere | **violation**: see [Findings](#findings) |
| `spawn_lock` | 2 clients, 3 tokens, 2 spawns, every mishap, kills anywhere | nobody else removes the record of whoever spawns, so there is one spawner at a time |
| `spawn_leak` | 2 clients with deadlines | **violation**: see [Findings](#findings) |
| `lifecycle` | 2 clients, of whom 1 leaves or is killed; 4 backends, of which 1 is killed or terminated | one backend has the store open; the endpoint of a living backend accepts; an idle backend ends; every client that stays is served by the one advertised backend |
| `client` | search: 2 clients, kills outside claims; session: 2 tries an acquisition, 5 attempts; sync: 2 events, 3 status changes, 2 faults | every client that looks is given a backend; the client handed out is the one whose loss is watched, the status told of it is so and a closed session stays closed, a reconnecting one connects; the screen shows the fold of a prefix, goes back by at most the event the read model lags, tells the truth when it settles, and converges |
| `interfaces` | desktop: 2 pages, 1 forked backend; dialogs: every surface, 2 projects, 3 submissions or unmounts; terminal: 2 projects, 2 lists, 2 effects | every open port has its owner and the page on screen a server; ports are closed and passed on; resources end in order, a quit happens; only the latest submission is shown and runs; effects run once, in order, and end; the selection is in the list |
| `palette_rename` | 2 projects, 2 submissions | **violation**: see [Findings](#findings) |
| `release` | packages: 2 workspaces, 3 runs, 3 faults; binaries: 3 parts, 4 faults; files of 3 statements with 2 uses or 2 comments | a stage is all or nothing; a certification packs whole output and leaves no trace; no process or file is left behind unreported; the fix keeps order, meaning and comments, and is withheld for the order only when no such order exists |

Bounds. `MaxEvents`, `MaxSeq`, `MaxDiskChanges`, `MaxAttempts`, `MaxSpawns`,
`MaxRetries`, `MaxChanges`, `MaxFaults`, `MaxBackends`, `MaxSockets`,
`MaxLeaves`, `MaxKills`, `MaxPages`, `MaxInvocations`, `MaxEffects`, `MaxLists`,
`MaxRuns`, `Parts`, `Length` and `MaxUses` cap counters in guards, or the inputs. A log of three events holds
a create, a delete and a create under the same name, or two creates and a rename
onto the other; two clients make every pair of mutations race, and the mutex
admits no third party. A page of two and three sequence numbers give a full page
that ends the log, a short page, a gap and an append between pages. Two
processes and a record left behind are a dead owner, a reclaimer and a late
second reclaimer; more processes, kills inside a claim and reused pids are
covered by the proofs. `Attempt` stands for the retries before the handoff
deadline; how many fit is irrelevant to safety. Five attempts are two epochs of
two and one more, so that a late hook of an earlier attempt meets every phase of
a later epoch. In `lifecycle` one leave and one kill never use up four backends
and seven connections. `FewOrphans`, in `spawn_lock` only, is a state constraint:
at most one claim left by a killed client, since each only takes a token out of
use. Two pages are the one on screen and the one that replaces it, which is where
a late request, grant or closing can do harm; the broker holds one port, so a
third page meets nothing new. Three submissions are one that is superseded, one
that is late and the latest; two effects and two lists are one of each on either
side of a render. Three faults in three runs reach a failing rollback and a kill
in the run after a failing one; four in the binaries' cleanup defeat every pair
of TERM and KILL. Three statements are two that must not swap and one between.

Symmetry is used in `spawn_lock`, for an invariant, and in `registry`, for
invariants and for a refinement that is a condition on states and single steps
(it has no liveness part) and treats all clients, names and places alike.

Fairness. `ProjectServer!FairSpec` asks that a step of a running mutation is
taken eventually: fibers of one event loop run on and every await of the code
returns or fails. `EventStream!FairSpec` adds that a published event follows its
append, because the commit is uninterruptible. `StateRootLock!FairSpec` asks
only that a process goes on by itself; nothing forces a start, an end or a kill.
`FindOrSpawn!FairSpec` is the same for clients, and a spawned backend settles:
`StateRootLock` recovers or gives up. `BackendLifecycle!FairSpec` is the same
again for backends, connections and clients: a closed connection is noticed.
`ClientSession!FairSpec` needs one strong fairness, of `Connect`: an acquisition
may fail, but one tried again and again finds an endpoint, which is
`EveryoneMeets` of `FindOrSpawn`. `ProjectSync!FairSpec` asks that fibers run on
and calls are answered; that the source stops failing comes from `MaxFaults`. `DesktopApp` asks that the
two processes run on (`OwnStep`, `MainStep`, `PageStep`): handlers return, grants
arrive, boots end by their deadline; not that users, failures or backends do
anything. `TerminalUi` asks that React renders what is out of date and runs its
passive effects, and that mutations end. The combined runs take the conjunction;
a part at rest has nothing enabled and owes nothing.

Deadlock is checked in `registry`, `recovery` and `event_stream`. The others may
stop: all clients gone, all tokens, attempts, events and changes used up, the
application quit, the tool at its end.

## Findings

`orphan_claim`: a process killed between linking `backend.lock.reclaim.<token>`
and removing it leaves the claim file, and the stale lock with it, since the
claim name is derived from the token in the lock. Every later start takes
`AlreadyExists` for another recovery in progress, retries until the deadline
and fails; the lock is never recovered, although
`state-root-lock.test.ts` states "recovers a lock whose owner is no longer
alive". The same follows when the owner is killed inside its own release. The
run shows a dead claim holder and a starter that fails for ever;
`state_root_lock` shows that nothing else stands in the way. The spawn lock
(`spawn-lock.ts:192-218`) follows the same protocol and has the same weakness.

`spawn_leak`: `publishLease` of the spawn lock is uninterruptible, and the
release is attached only after it returned (`spawn-lock.ts:121`). An
interruption that arrives while the record is being linked, such as the start
deadline, takes effect between the two: the lock stays, under the pid of a
living process, and no client of the state root spawns a backend until that
process ends. `spawn-lock.test.ts:346` states the opposite for an interruption
during acquisition.

`palette_rename`: the command palette mounts its rename dialog once, without a key
and before there is a project to rename (`CommandPalette.tsx:125`), while
`RenameDialog.tsx:19` takes the initial text from the project of its first
render. The field is empty when the dialog opens, or shows what was typed the
last time, perhaps for another project; `rename-dialog.test.tsx:13` says it
"prefills the current name". The dialog of the list of projects has a key per
project and behaves.

Some behaviours are no findings, since nothing in the repository denies them.
`findOrSpawnBackend` does not read the endpoint again after it has taken the
lock, so a client that waited for another's spawn may start a second backend
next to a serving one. It finds the state root lock taken and gives up
(`OneWriter` of `lifecycle`); the client connects to the first. A dialog of the
page closes on the success of a mutation submitted before it was opened for
another project. A desktop page that stays after a prevented navigation has lost
its port. A staging whose rollback cannot move the old output back removes it.

## Proofs

Each `Proofs` module states an inductive invariant `IInv`, whose conjuncts TLC
checked on the instance of a run before they were proved, one lemma for each action or
group of actions that preserves it, `Invariance`, and the properties that follow
from it. The theorems hold for all values of the constants. They assume what the
modules name as assumptions, no more: sentinels are no values, bounds and the
length of a file are numbers, chunks and attempts are not zero, clients are
finitely many, the workspaces are a list with something in it. Where a run
holds several modules, the theorems about each module's own specification are
followed by one about the composed specification of the run (`ClientsAreSafe`,
`InterfacesAreSafe`, `ToolsAreSafe`): a step of it is a step of one part and a
stutter of the others. Every invariant and every action property that a run
checks, and both refinements, are thus proved as well.

**The write side** (`ProjectServerProofs`). Read model and checkpoint are folds of
prefixes of the log (`Replay`, `CheckpointReplays`), names and directory strings
are unique (`Uniqueness`), answers and refusals are true (`TrueAnswers`), deleted
projects stay away (`Tombstones`), nothing is half done while the permit is free
and the bus has no gap (`Settled`), readers and the checkpoint row never go back
(`MonotoneReads`, `MonotoneCheckpoint`), and the server implements
`ProjectRegistry` (`Implementation`: appends are legal events, every other step
is a stutter). `Tombstones`, `Settled`, `ServesOwnShape` under `Replay` and the
types are repeated by no run. The invariant has three parts. `LogInv`: every
prefix of the log folds to a list without duplicates whose ids the log issued,
and no deleted id returns; every prefix, because a boot passes through all of
them. `JobInv`: what a job has checked stays true until it appends, since it is
the only one, and the read model is the fold of the whole log while nobody is
between append and apply. `PlaceInv`: how far read model, checkpoint, debounce
fiber, bus and readers are in the log. `Places` (no two projects in one
directory) has an invariant of its own beside it, `DiskInv`: while the file
system rests, every fold claims each place once, a job that compares directories
knows the place of the one it was given, and a job that has compared them claims
a free one.

**The feed** (`EventStreamProofs`). `Implementation`: the stream handler implements
`OrderedFeed`. The invariant says where in the log each reader is: the rows of a
fetched page are the events right behind the seq it has reached (`RowsOK`), the
inbox holds the events published since the subscription up to the last
(`InboxOK`), and when the backlog is through, all that precedes the inbox has
been sent and what the inbox repeats of it is not beyond the seam (`LiveOK`).
The last is what subscribing before the first fetch buys: a short page ends the
log, and every event behind its last row is in the inbox. An append is a step
`Store` of the feed, a row or a live event that passes the filter a step `Send`,
opening, closing and a restart a step `Reset`; the others are stutters.

**The state root** (`StateRootLockProofs`, `FindOrSpawnProofs`). One process owns the
state root, its record and its endpoint stay (`AtMostOneOwner`,
`LeaseStaysOnRecord`, `EndpointStays`), and the removal of a record is exclusive
(`ReclaimsAreExclusive`), for any numbers of processes, pids and tokens, pids
reused or not, kills in any `CrashStages`. Mutual exclusion is not inductive: that
a removal cannot hit the lock of a new owner depends on who is between the claim
and the unlink. `IInv` adds that a claim is held by one process, that from the
second verification on the claimed record is still in the lock, and that this
record is nobody else's lease. The spawn lock follows the same argument with
more ways out: an interrupted search drops the lease it has just published, so
that a living client may be on record that holds nothing. It is the owner on
record nonetheless who holds a lease (`LeaseStaysOnRecord`), and so one client
at a time spawns a backend (`SpawnersAreAlone`), wherever clients are killed.

**Backends and clients** (`BackendLifecycleProofs`). A backend with its store open is on
record in the lock, whence `WritersAreAlone`; the endpoint file names a backend
that serves or was killed doing so, whence `EndpointServes`; the tracker counts
exactly the live connections (`TrackerCounts`), so that a count of zero means
what `decide` takes it to mean.

**The client** (`ClientProofs`). `WatchedClients` and
`StatusFollowsClient` rest on hooks being confined to their epoch: of the
attempts of an epoch only the last was ever published, and a hook that reports
has taken its own client away. `ScreenReplays`, `Settles` and `ScreenMovesOn`
rest on one epoch fiber being active, whose cursor is the seq of the fold it
holds (`EpochOK`), and on what the status loop knows of it (`LoopOK`); with sinks
that yield, the loop may be told in the middle of a call, and the invariant says
only what is left of it then.

**The desktop** (`InterfacesProofs`). The semaphore's queue is the core: a page's
request is at work only at the head, and the stage of the head says what
`current` and the port being closed are (`QueueOK`, `HeadOK`). Hence
`PortsOwned`; behind the request of the page on screen there is nothing in the
queue until a navigation starts (`DocumentOK`), hence `MountedServed`; behind the
window's last closing there is nothing either (`WindowOK`), hence `OwnersLast`
with the order of the application's finalizers (`AppOK`). All this for any
number of pages and forked backends.

**The surfaces** (`InterfacesProofs`). A mutation hook runs at most the latest
submission, and what it shows is that one's (`LatestHasTheSurface`, by `DialogInv`).
In the terminal, the effects that ran are the numbers below some `n`, the queue
holds those from `n` on, and what a render took is a front part of the queue,
none of it processed (`EffectsOK`); so the passive effects run exactly that front
and acknowledge it, whatever keys came in between (`EffectsAreRunOnce`). Selection
and overlay are kept about the list the key handler was registered with
(`SelectionOK`), which is the newest once its effects have run
(`SelectionFollowsTheList`).

**The tools** (`ReleaseProofs`). Where the three directories of a workspace are
follows from how far the transaction got (`ForwardOK`). The rollback starts from
what the phase says, which is written before or after its operation as in the
code (`UndoOK`), and each of its operations leads to what the next expects
(`RollbackOK`), hence `StagesAreAtomic`. A certification knows of every workspace
it touched what to put back (`CertifyOK`), hence `CertificationsAreClean`. A
cleanup of binaries that reports nothing has lost sight of nothing
(`CleanupIsComplete`): the guardian is frozen before its children are looked for,
so none is found late (`FrozenOK`), and whoever knows of the group looks at it
again at the end (`EndOK`).

**The lint rule** (`ReleaseProofs`), for files of any length. The sort is sound:
after every round each statement is there at most once and behind everything
its edges put before it (`Respects`); a result that is not short is then all
the statements, by counting, and two statements whose order matters stay as
they were, since the edge the other way round is not respected (`SortIsRight`).
It is complete: if some order is what the rule asks for and keeps the meaning,
the sort finds that one, statement after statement, because the next is ready
and comes before all that are (`NextIsFound`, `SortIsComplete`); so a fix that is
withheld for the order is withheld for a reason. Comments move with the
statement they belong to, or lie outside of what moves (`RelocatedFacts`), and
none is lost, since the relocation is a bijection (`CommentsStay`). Together:
`FixesAreRight`.

Recursion. The library's induction theorems take an operator as a parameter,
which no installed prover can instantiate. The fold of a log is therefore kept
as a history variable (`folds`), one element an event, so that what holds of
every fold is an invariant. Where an argument needs a least element (of the rows
behind a cursor, the jobs in a queue, the statements that are ready) or goes
from one round of a recursive function to the next (`Without`, the sort), it
takes the least number for which the claim fails, from the well-foundedness of
`<` on the naturals; that the recursive function exists is shown in the same
way (`LeftExists`, `RoundsExist`). `Passed` and `Without` take the place of a
filter over a sequence, whose definition the provers cannot unfold.

Model-checked only. Everything under fairness, which the prover does not reach:
`PermitComesBack`, `EventuallySent`, `StaleLockRecovered`, `EveryoneMeets`,
`IdleEnds`, `EveryoneServed`, `Reconnects`, `Converges`, `PortsPassOn`,
`QuitHappens`, `EffectsEnd`. And what the three runs that expect a violation
show: a proof has nothing to add to a counterexample.

## Plan

The safety that the runs check is proved. What the project would take up next,
in this order:

1. Liveness by hand: the leads-to chains behind `StaleLockRecovered` and
   `Converges`, whose safety parts are in the invariants already.
2. The composition that `BackendLifecycle` assumes: that its one-step lock and
   its one-step spawner are implemented by `StateRootLock` and `FindOrSpawn`,
   as refinements.
3. Hazards without a property, listed as such: a pid in a stale lock that
   belongs to another process, an endpoint passed over for the rest of an
   acquisition, a mutation whose success comes after its dialog was closed.

## Not modelled

The HTTP transport and the RPC wire protocol (bytes and tokens; what a lost
connection does is in `ClientSession` and `BackendLifecycle`); migrations, a pure
decoding of one row with one upcaster so far; the project client and the command
line, which are one call and one table of messages; the wording, layout, routing
and hotkeys of the interfaces; the contents of manifests, tarballs and reports;
the build scripts, the examples and the web pages. `ModuleOrder` stands for the
rule itself, its bounds for files of any length.
