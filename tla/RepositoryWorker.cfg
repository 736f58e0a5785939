SPECIFICATION FairSpec
CONSTANTS
  r1 = r1
  r2 = r2
  w1 = w1
  w2 = w2
  Request = {r1, r2}
  Worker = {w1, w2}
  Verdict <- MCVerdict
  Mortal = {w1, w2}
  Slow = {r1}
  None = None
CHECK_DEADLOCK FALSE
INVARIANTS TypeOK RetirementCutsNobody OneWorker
PROPERTIES RequestsSettle WorkersRetire
