SPECIFICATION Spec
CONSTANTS
  d1 = d1
  d2 = d2
  Daemon <- MCDaemon
  Recovery = r
  Page <- MCPage
  Input <- MCInput
  MaxAuto = 2
  MaxIterations = 1
  MaxCrashes = 1
  Fragile <- MCFragile
  None = None
  Torn = Torn
CHECK_DEADLOCK FALSE
INVARIANTS TypeOK StateFileIsTruthful MapIsTruthful
PROPERTY StopIsHeard
SYMMETRY Symmetry
