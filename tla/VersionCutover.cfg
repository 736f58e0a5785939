SPECIFICATION MCSpec
CONSTANTS
  k1 = k1
  k2 = k2
  k3 = k3
  k4 = k4
  blue = blue
  green = green
  Controller = {k1, k2, k3, k4}
  Previous = previous
  Task <- MCTask
  Wants <- MCWants
  Stranger = {k4}
  Mortal = {k1}
  Bare = Bare
  None = None
CHECK_DEADLOCK FALSE
INVARIANTS TypeOK SelectorFollowsJournal RolledBackIsStopped
PROPERTIES DeadCandidateIsReplaced
