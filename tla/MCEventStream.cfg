CONSTANTS
  Reader = {"r1", "r2"}
  ChunkSize = 2
  MaxSeq = 3
SPECIFICATION FairSpec
PROPERTIES
  ImplementsOrderedFeed
  EventuallySent
