SPECIFICATION Spec
CONSTANTS
  PCs = {p1, p2}
  Names = {n1, n2}
  None = None
  MaxTokens = 2
  MaxBackoff = 2
  MaxRestarts = 1
  MaxStarts = 2
SYMMETRY Symmetry
INVARIANTS
  TypeOK
  OneOwner
  StopEndsLoop
PROPERTIES
  KeepsItsName
CHECK_DEADLOCK FALSE
