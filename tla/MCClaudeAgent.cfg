SPECIFICATION Spec
CONSTANTS
  Msgs = {m1, m2}
  Conns = {w1}
  Requests = {r1}
  None = None
  QueueCap = 2
  MaxLines = 1
  MaxAnswers = 2
  StartMayFail = TRUE
SYMMETRY Symmetry
INVARIANTS
  TypeOK
  OwnAnswer
  RestBetweenTurns
  AnswersPair
CHECK_DEADLOCK FALSE
