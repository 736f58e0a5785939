SPECIFICATION FairSpec
CONSTANTS
  c1 = c1
  c2 = c2
  w = w
  g = g
  Call <- MCCall
  Proc <- MCProc
  Host <- MCHost
  Gateway = g
  MaxLimit = 2
  Asked <- MCAsked
  None = None
CHECK_DEADLOCK FALSE
INVARIANTS TypeOK WithinLimit CapacityComesBack EndIsReal
PROPERTY RunsSettle
