SPECIFICATION RecoverySpec
CONSTANTS
  p1 = p1
  RunId = {r1}
  Task = {t1, t2}
  Proc = {p1}
  Home <- MCOneProcess
  N = 4
  Wf <- MCIntake
  Durable = TRUE
  Dynamic = TRUE
  Periodic = TRUE
  MaxCrashes = 2
  MaxRefusals = 1
INVARIANTS
  CrashedRunsFailed ApprovalQueueExact StepAtMostOnce RejectionStops
PROPERTIES
  BootSucceeds
CHECK_DEADLOCK FALSE
