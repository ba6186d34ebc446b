SPECIFICATION ChainSpec
CONSTANTS
  a = a
  b = b
  c = c
  d = d
  Agent = {a, b, c, d}
  Root = a
  Absent = Absent
  NoChain = NoChain
  Fanout = Fanout
  Configs <- MCConfigs
  Durable = FALSE
INVARIANTS
   ReportHonest
PROPERTIES
  DefaultIffNoMatch ChainEnds
CHECK_DEADLOCK FALSE
