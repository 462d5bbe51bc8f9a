CONSTANTS
  n1 = n1
  n2 = n2
  n3 = n3
  n4 = n4
  n5 = n5
  Nodes <- MCNodes
  Blocks <- MCBlocks
  None = None
  FirstRoom = 2
  Depth = 4
  MaxBranches = 3
SPECIFICATION Spec
INVARIANT WithinBlocks
CHECK_DEADLOCK FALSE
