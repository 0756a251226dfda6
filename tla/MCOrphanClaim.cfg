\* A process may also be killed while it holds a claim.
SPECIFICATION FairSpec
CONSTANTS
  Process = {p1, p2}
  Pid = {n1, n2, n3}
  Token = {t1, t2, t3}
  None = None
  Attempt = {}
  CrashStages <- Anywhere
  ReusePids = FALSE
PROPERTIES
  StaleLockRecovered
CHECK_DEADLOCK FALSE
