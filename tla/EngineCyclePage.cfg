SPECIFICATION LiveSpec
CONSTANTS
  t1 = t1
  t2 = t2
  None = None
  Topic = {t1, t2}
  MaxIterations = 3
  MaxRounds = 2
  MaxSteps = 9
  CompletionFloor = 2
  ReadOnly = FALSE
  History = 0
  Backend = TRUE
  Reloads = TRUE
INVARIANT AnswersAdvance
PROPERTY RunEnds
CHECK_DEADLOCK FALSE
