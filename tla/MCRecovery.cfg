CONSTANTS
  c1 = c1
  c2 = c2
  i1 = i1
  i2 = i2
  n1 = n1
  n2 = n2
  d1 = d1
  d2 = d2
  t1 = t1
  x = x
  here = here
  there = there
  Null = Null
  Absent = Absent
  Malformed = Malformed
  Client = {c1}
  ProjectId = {i1, i2}
  ProjectName = {n1, n2}
  Directory = {}
  Description = {x}
  Tag = {t1}
  Build = {"v1", "v2"}
  Location = {}
  Request <- FieldRequests
  Disk <- Still
  MaxEvents = 3
  MaxDiskChanges = 0
SPECIFICATION FairSpec
INVARIANTS
  ReadModelReplaysLog
  CheckpointReplaysLog
  ReadsNeverRegress
PROPERTIES
  CheckpointNeverRegresses
  PermitComesBack
