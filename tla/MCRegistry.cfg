CONSTANTS
  c1 = c1
  c2 = c2
  i1 = i1
  i2 = i2
  n1 = n1
  n2 = n2
  d1 = d1
  d2 = d2
  t1 = t1
  x = x
  here = here
  there = there
  Null = Null
  Absent = Absent
  Malformed = Malformed
  Client = {c1, c2}
  ProjectId = {i1, i2}
  ProjectName = {n1, n2}
  Directory = {d1, d2}
  Description = {}
  Tag = {}
  Build = {"v1"}
  Location = {here, there}
  Request <- AllRequests
  Disk <- Disks
  MaxEvents = 3
  MaxDiskChanges = 1
SPECIFICATION MCSpec
SYMMETRY Symmetric
INVARIANTS
  UniqueClaims
  UniquePlaces
  AnswersHold
PROPERTY ImplementsRegistry
