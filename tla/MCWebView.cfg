SPECIFICATION Spec
CONSTANTS
  Sessions = {s1, s2}
  Turns = {m1, m2}
  None = None
  MaxEvents = 2
  MaxSocks = 2
SYMMETRY Symmetry
INVARIANTS
  TypeOK
  OwnSession
  ViewIsHistory
  GeneratingHasEnd
  AskIsShown
CHECK_DEADLOCK FALSE
