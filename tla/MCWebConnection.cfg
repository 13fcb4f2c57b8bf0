SPECIFICATION FairSpec
CONSTANTS
  Socks = {k1, k2}
  None = None
  MaxAttempts = 2
INVARIANTS
  TypeOK
  AuthenticatedIsUsable
  NothingHangs
  LogoutIsFinal
PROPERTIES
  ReconnectEnds
CHECK_DEADLOCK FALSE
