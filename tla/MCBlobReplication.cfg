SPECIFICATION Spec
CONSTANTS
  n1 = n1
  n2 = n2
  r1 = r1
  r2 = r2
  NULL = NULL
  TOMB = TOMB
  Nodes <- MCNodes
  Reqs <- MCReqs
  MaxLog = 4
  MaxElect = 1
  MaxCrash = 1
  MaxId = 2
  MaxCP = 1
SYMMETRY MCSymmetry
INVARIANTS
  
  AckedIsKept
  
CHECK_DEADLOCK FALSE
