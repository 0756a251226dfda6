\* Two clients with deadlines.
SPECIFICATION Spec
CONSTANTS
  None = None
  Client = {c1, c2}
  Gone = Gone
  Token = {t1, t2, t3}
  MaxSpawns = 2
  MaxRetries = 1
  Mishaps = {"deadline"}
  CrashStages = {}
INVARIANT LockIsHeld
CHECK_DEADLOCK FALSE
