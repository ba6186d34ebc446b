SPECIFICATION Spec
CONSTANTS
  N = 3
  Seeds <- MCSeeds
  Skew <- MCSkew
  Fanout = 1
  FailureTimeout = 0
  DeadTimeout = 1
  MaxTime = 1
  MaxFlight = 1
INVARIANTS
  OnlySilentNodesFail LeaderKnown
CHECK_DEADLOCK FALSE
