---------------------------- MODULE SessionState ----------------------------
(***************************************************************************)
(* The state of a client session (packages/client-ts/client-session.ts),   *)
(* and what it promises those who hold it: ClientSession says how it       *)
(* changes.                                                                *)
(***************************************************************************)
EXTENDS Naturals

CONSTANTS
  Tries,       \* attempts of one acquisition (MAX_ATTEMPTS)
  MaxAttempts  \* bound on the connection attempts of all epochs

ASSUME TriesAssumption       == Tries \in Nat \ {0}
ASSUME MaxAttemptsAssumption == MaxAttempts \in Nat

VARIABLES
  phase,    \* where the connection loop is
  last,     \* the latest connection attempt; attempts are numbered
  tries,    \* attempts made in this epoch
  hook,     \* each attempt's disconnect hook
  lost,     \* attempt.disconnected: the attempts whose hook has run
  granted,  \* attempt.published
  clients,  \* the attempt whose client is current, 0 for null
  status,   \* the status subscribers see
  ready     \* the Deferred that makeSession waits for

\* A current client is that of the latest attempt, whose connection is not
\* known to be lost, while the loop watches over it: a client whose loss
\* nobody would notice is never handed out.
ClientIsWatched ==
  clients # 0 =>
    /\ clients = last /\ last \in granted /\ last \notin lost
    /\ phase \in {"publishing", "live", "closing", "ended"}

\* While the loop sits on a connection that is not lost, its client is the
\* current one, unless its own hook is taking it away: the late hook of an
\* attempt given up earlier in the epoch disturbs nothing.
LiveIsServed ==
  phase = "live" =>
    clients = last \/ last \in lost \/ hook[last] = "reporting"

\* Who is handed a client is handed the one the loop watches.
ClientIsServed == ClientIsWatched /\ LiveIsServed

\* "connected" and "reconnecting" are published only when current agrees: the
\* stale client is gone before subscribers hear of it, the new one is there
\* before they do, and so it is when makeSession's wait for ready ends.
StatusAfterClient ==
  [][/\ status' = "reconnecting" /\ status # "reconnecting" => clients' = 0
     /\ status' = "connected" /\ status # "connected" => clients' # 0
     /\ ready' = "done" /\ ready # "done" => clients' # 0]_<<clients, status, ready>>

\* A closed session stays disconnected and without client: no hook of a
\* connection that dies with it has the last word.
ClosedForGood ==
  /\ [](phase = "closed" => clients = 0 /\ status = "disconnected")
  /\ [][phase = "closed" => UNCHANGED <<clients, status>>]_<<clients, status>>

\* What subscribers are told of the client is so, to the end.
StatusIsTrue == StatusAfterClient /\ ClosedForGood
=============================================================================
