SPECIFICATION RouterSpec
CONSTANTS
  P = 3
  Request = {r1, r2}
  Strategies = {"cost_optimized", "latency_optimized", "quality_first", "round_robin", "capability_match"}
  Price <- MCPrice
  Demands <- MCDemands
  Reliable = {3}
  Threshold = 2
  Cooldown = 1
  Period = 6
INVARIANTS
  FailuresBounded AlwaysAnswered
PROPERTIES
  TrippedReturns
CHECK_DEADLOCK FALSE
