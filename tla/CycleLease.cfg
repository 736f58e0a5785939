SPECIFICATION FairLeaseSpec
CONSTANTS
  o1 = o1
  o2 = o2
  o3 = o3
  p1 = p1
  p2 = p2
  t1 = t1
  Op <- TwoOp
  Proc <- MCProc
  Host <- TwoHost
  TaskId <- MCTask
  For <- TwoFor
  Limit = 2
  Absent = Absent
  Gone = Gone
  Left = Left
INVARIANTS LeaseTypeOK ExclusiveUntilADeath NothingLeaks
PROPERTY AttemptsEnd
