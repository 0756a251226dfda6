\* Two clients, killed anywhere, over a fresh or a stale lock, with every mishap.
SPECIFICATION Spec
CONSTANTS
  None = None
  Client = {c1, c2}
  Gone = Gone
  Token = {t1, t2, t3}
  MaxSpawns = 2
  MaxRetries = 1
  Mishaps = {"deadline", "stale", "spawn", "end"}
  CrashStages <- Anywhere
SYMMETRY Symmetric
CONSTRAINT FewOrphans
INVARIANT LeaseIsOnRecord
CHECK_DEADLOCK FALSE
