SPECIFICATION Spec
CONSTANTS
  a = a
  b = b
  Name = {a, b}
  NoName = NoName
  Config <- MCConfig
  NoConfig = NoConfig
  Garbled = Garbled
  Run = {r1}
  Pool = 2
  TimeoutMax = 1
  PlazoMax = 1
  Persist = TRUE
INVARIANTS
  ServesWhatIsConfigured CallNotCut OpenClientHasCloser
PROPERTIES
  OldClientsClose
CHECK_DEADLOCK FALSE
