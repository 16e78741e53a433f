SPECIFICATION Spec
CONSTANTS
  p1 = p1
  p2 = p2
  Path = {1, 2}
  Process = {p1, p2}
  Renames <- Finalise
  MaxBlocks = 2
  MaxRenamedBlocks = 1
INVARIANTS
  OneOperationPerPath
