SPECIFICATION MCSpec
CONSTANTS
  t1 = t1
  t2 = t2
  r1 = r1
  m1 = m1
  m2 = m2
  Ticker = {t1, t2}
  Recorder = {r1}
  Operator = {m1, m2}
  LastPhase = 2
  Free = Free
  Orphan = Orphan
  NoTask = NoTask
INVARIANT TypeOK
PROPERTIES PauseSurvives PlanCompletes
