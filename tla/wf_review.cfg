SPECIFICATION Spec
CONSTANTS
  RunId = {r1, r2}
  Task = {t1, t2, t3}
  N = 5
  Wf <- MCReview
  Durable = FALSE
  MaxRefusals = 0
INVARIANTS
  CheckpointExact
PROPERTIES
  ImplementsLifecycle Settles
CHECK_DEADLOCK FALSE
