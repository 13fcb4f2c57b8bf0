SPECIFICATION Spec
CONSTANTS
  Links = {l1, l2}
  Clients = {k1}
  None = None
  MaxMsgs = 3
  MaxReplies = 2
SYMMETRY Symmetry
INVARIANTS
  TypeOK
  NothingOutlivesItsHandler
  LoneLinkIsInForce
  DepartureIsTold
PROPERTIES
  ImplementsMailbox
CHECK_DEADLOCK FALSE
