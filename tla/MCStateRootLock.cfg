\* Two processes over any lock left behind, killed anywhere but between
\* linking a claim and removing it.
SPECIFICATION FairSpec
CONSTANTS
  Process = {p1, p2}
  Pid = {n1, n2, n3}
  Token = {t1, t2, t3}
  None = None
  Attempt = {a1}
  CrashStages <- OutsideClaims
  ReusePids = FALSE
INVARIANTS
  MutualExclusion
  ServingIsAdvertised
PROPERTIES
  StaleLockRecovered
CHECK_DEADLOCK FALSE
