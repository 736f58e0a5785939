SPECIFICATION Spec
CHECK_DEADLOCK FALSE
CONSTANTS
  a = a
  b = b
  None = None
  Target = {a, b}
  Policy = {"standard"}
  Text = {"ready", "open"}
  MaxAnswers = 1
PROPERTY DeletesOnlyWhenReady
