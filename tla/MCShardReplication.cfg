SPECIFICATION Spec
CONSTANTS
  n1 = n1
  n2 = n2
  r1 = r1
  r2 = r2
  r3 = r3
  NULL = NULL
  Nodes <- MCNodes
  Reqs <- MCReqs
  VChunks <- MCVChunks
  MaxLog = 4
  MaxElect = 1
  MaxCrash = 1
  MaxShard = 2
  MaxGC = 1
SYMMETRY MCSymmetry
INVARIANTS
  AssertsHold
  UniqueShardIds
  SuperblksAreTheLog
  SealedIffLogged
  OpenChunkInUse
  ShardInItsChunk
CHECK_DEADLOCK FALSE
