SPECIFICATION AskingSpec
CONSTANTS
  o1 = o1
  o2 = o2
  o3 = o3
  p1 = p1
  p2 = p2
  Op <- MCOp
  Proc <- MCProc
  Host <- SharedHost
  None = None
  Free = Free
  Orphan = Orphan
INVARIANTS TypeOK
PROPERTIES ReclaimsOnlyDeadLocks MutexSpec DeadHoldersAreReclaimed
