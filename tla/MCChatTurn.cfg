SPECIFICATION Spec
CONSTANTS
  Conns = {c1}
  Sessions = {s1, s2}
  Turns = {m1, m2}
  None = None
  MaxEvents = 2
  MaxBoth = 3
SYMMETRY Symmetry
INVARIANTS
  TypeOK
  OwnReply
  PartsStayOnTheirConnection
  SeenIsSaved
CHECK_DEADLOCK FALSE
