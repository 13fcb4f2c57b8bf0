SPECIFICATION FairSpec
CONSTANTS
  Sessions = {s1}
  Conns = {c1, c2}
  Entries = {e1, e2}
  NoSession = NoSession
  NoEntry = NoEntry
  IdleTimeout = 1
  MaxRef = 1
INVARIANTS
  TypeOK
  CountCovers
  AttachedShareTheProcess
  TableHoldsLiveAgents
  OnlyOverwritingLosesAgents
PROPERTIES
  UnreferencedIsSwept
