------------------------------ MODULE MCClient ------------------------------
(***************************************************************************)
(* What every client does below its interface: the search for a backend,   *)
(* the session and the synchronisation.  What passes between them is in    *)
(* each module's own environment, so a behaviour runs one of them and      *)
(* leaves the others at rest: ended, with nothing enabled.                 *)
(***************************************************************************)
EXTENDS ProjectSync, SessionState

CONSTANTS
  Client, Gone, Token, None, MaxSpawns, MaxRetries, Mishaps, CrashStages

VARIABLES
  part,  \* the part that runs
  lock, claims, booting, serving, spawned, searching, mine, target, after, late, rejected, given

Search  == INSTANCE FindOrSpawn WITH stage <- searching, backend <- given
Session == INSTANCE ClientSession

searchVars  == <<lock, claims, booting, serving, spawned, searching, mine, target, after,
                 late, rejected, given>>
sessionVars == <<phase, last, tries, hook, lost, granted, clients, status, ready>>

SearchAtRest ==
  /\ lock = None /\ claims = [t \in Token |-> None]
  /\ booting = {} /\ serving = 0 /\ spawned = MaxSpawns
  /\ searching = [c \in Client |-> "dead"]
  /\ mine = [c \in Client |-> None] /\ target = [c \in Client |-> None]
  /\ after = [c \in Client |-> "look"] /\ late = [c \in Client |-> FALSE]
  /\ rejected = [c \in Client |-> {}] /\ given = [c \in Client |-> 0]

SessionAtRest ==
  /\ phase = "closed" /\ last = 0 /\ tries = 0 /\ hook = [a \in Session!Attempt |-> "idle"]
  /\ lost = {} /\ granted = {} /\ clients = 0 /\ status = "disconnected" /\ ready = "failed"

SyncAtRest ==
  /\ suspends = FALSE /\ stored = MaxSeq /\ applied = MaxSeq
  /\ session = "disconnected" /\ changes = MaxChanges /\ statuses = <<>>
  /\ faults = 0 /\ outcome = "failed" /\ loop = [at |-> "ended", status |-> "disconnected"]
  /\ active = <<>> /\ shown = Snapshot(0) /\ told = "disconnected"

MCInit ==
  \/ part = "search" /\ Search!Init /\ SessionAtRest /\ SyncAtRest
  \/ part = "session" /\ SearchAtRest /\ Session!Init /\ SyncAtRest
  \/ part = "sync" /\ SearchAtRest /\ SessionAtRest /\ Init

MCNext ==
  \/ part = "search" /\ Search!Next /\ UNCHANGED <<part, sessionVars, vars>>
  \/ part = "session" /\ Session!Next /\ UNCHANGED <<part, searchVars, vars>>
  \/ part = "sync" /\ Next /\ UNCHANGED <<part, searchVars, sessionVars>>

\* Each part's own fairness: at rest nothing is owed.
MCFairness == Search!Fairness /\ Session!Fairness /\ Fairness

MCSpec == MCInit /\ [][MCNext]_<<part, searchVars, sessionVars, vars>> /\ MCFairness

(***************************************************************************)
(* The properties of the instances, by their names there.                  *)
(***************************************************************************)
\* FindOrSpawn: whoever looks for a backend is given one, or is killed.
EveryoneMeets == Search!EveryoneMeets

\* ClientSession: a session that is reconnecting connects again or is closed.
Reconnects == Session!Reconnects
=============================================================================
