SPECIFICATION FairSpec
CONSTANTS
  Msgs = {m1, m2}
  Conns = {w1}
  Requests = {}
  None = None
  QueueCap = 1
  MaxLines = 1
  MaxAnswers = 1
  StartMayFail = FALSE
PROPERTIES
  StreamsEndWithProcess
  TurnEnds
CHECK_DEADLOCK FALSE
