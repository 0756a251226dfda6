\* Three runs over two workspaces with three faults; three parts with four
\* mishaps; files of three statements.
SPECIFICATION MCSpec
CONSTANTS
  Workspaces <- Two
  Absent = Absent
  Half = Half
  MaxRuns = 3
  MaxFaults = 3
  Parts = 3
  MaxMishaps = 4
  Length = 3
  MaxUses = 2
  Unfixed = Unfixed
INVARIANTS
  StageIsAtomic
  CertificationIsClean
  NothingSurvives
  FixIsRight
\* Programs end.
CHECK_DEADLOCK FALSE
