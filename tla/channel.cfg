SPECIFICATION Spec
CONSTANTS
  m1 = m1
  m2 = m2
  m3 = m3
  s1 = s1
  s2 = s2
  Client = {c1}
  BufferSize = 2
  QueueSize = 1
  Session = {s1, s2}
  MaxTurns = 2
  Message = {m1, m2, m3}
  From <- MCFrom
  Batches <- MCBatches
  Notice = Notice
  Custom = Custom
  Patient = {s1}
  MaxDeliveries = 2
  Earlier = 1
  MaxUpsets = 2
INVARIANTS
  StreamExact SummaryExact
PROPERTIES
  AnsweredIsRemembered AcceptedIsHandled
CHECK_DEADLOCK FALSE
