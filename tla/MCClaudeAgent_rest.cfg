SPECIFICATION FairSpec
CONSTANTS
  Msgs = {m1}
  Conns = {}
  Requests = {r1}
  None = None
  QueueCap = 1
  MaxLines = 0
  MaxAnswers = 1
  StartMayFail = FALSE
PROPERTIES
  RestMessageIsAnswered
CHECK_DEADLOCK FALSE
