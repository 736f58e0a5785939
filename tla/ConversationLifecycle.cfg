SPECIFICATION MCSpec
\* A killed reaper leaves its lock: the system may stop.
CHECK_DEADLOCK FALSE
CONSTANTS
  a = a
  b = b
  None = None
  Target = {a, b}
  Policy = {"standard", "one_shot"}
  Text = {"ready", "open"}
  MaxAnswers = 1
INVARIANTS TypeOK DeletionIsReal
PROPERTIES ReadyDeletionEnds ReadyIsDeleted TabsAreReleased
