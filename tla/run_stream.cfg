SPECIFICATION Spec
CONSTANTS
  QueueMax = 2
  MaxAsked = 2
  MaxEvents = 3
  MaxOpen = 2
INVARIANTS
  ExchangeExact
PROPERTIES
  SocketSettles
CHECK_DEADLOCK FALSE
