SPECIFICATION FairSpec
CONSTANTS
  Sessions = {s1}
  Conns = {c1}
  Entries = {e1, e2}
  NoSession = NoSession
  NoEntry = NoEntry
  IdleTimeout = 1
  MaxRef = 2
PROPERTIES
  IdleProcessesAreCleaned
