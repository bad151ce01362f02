SPECIFICATION FairSpec
CONSTANTS
  n1 = n1
  n2 = n2
  c1 = c1
  c2 = c2
  NULL = NULL
  Nodes <- MCNodes
  Chunks <- MCChunks
  MaxLog = 3
  MaxElect = 1
  MaxCrash = 1
  MaxFull = 2
  MaxGCFail = 1
CONSTRAINT Explored
INVARIANTS
  AssertsHold
  CollectsOnlyApplied
PROPERTY NoSpaceHandled
CHECK_DEADLOCK FALSE
