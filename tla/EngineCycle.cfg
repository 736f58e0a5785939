SPECIFICATION Spec
CONSTANTS
  t1 = t1
  t2 = t2
  None = None
  Topic = {t1, t2}
  MaxIterations = 4
  MaxRounds = 3
  MaxSteps = 9
  CompletionFloor = 3
  ReadOnly = FALSE
  History = 0
  Backend = TRUE
  Reloads = FALSE
INVARIANTS TypeOK NoPhantomReply
PROPERTIES Converses CompletionIsEarned
CHECK_DEADLOCK FALSE
