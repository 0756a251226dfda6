\* Two clients, killed anywhere but inside a claim; two attempts an acquisition,
\* five in all; two events, two faults and three changes of the session.
SPECIFICATION MCSpec
CONSTANTS
  None = None
  Client = {c1, c2}
  Gone = Gone
  Token = {t1, t2, t3}
  MaxSpawns = 2
  MaxRetries = 1
  Mishaps = {}
  CrashStages = {"look", "read", "probe", "publish", "republish", "claim", "spawn", "await"}
  Tries = 2
  MaxAttempts = 5
  MaxSeq = 2
  MaxChanges = 3
  MaxFaults = 2
INVARIANTS
  ClientIsServed
  ShownReplaysLog
  SettledAgrees
PROPERTIES
  EveryoneMeets
  StatusIsTrue
  Reconnects
  ShownMovesOn
  Converges
\* Bounds, and the end of each part, let the system come to rest.
CHECK_DEADLOCK FALSE
