SPECIFICATION RecoverySpec
CONSTANTS
  p1 = p1
  RunId = {r1}
  Task = {t1, t2}
  Proc = {p1}
  Home <- MCOneProcess
  N = 2
  Wf <- MCSignOff
  Durable = TRUE
  Dynamic = FALSE
  Periodic = FALSE
  MaxCrashes = 0
  MaxRefusals = 0
PROPERTIES
  TerminalIsFinal
CHECK_DEADLOCK FALSE
