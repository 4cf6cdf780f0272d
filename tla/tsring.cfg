CONSTANTS
  N = 4
  MaxEvents = 12
SPECIFICATION Spec
CHECK_DEADLOCK FALSE
INVARIANT TypeOK
INVARIANT NoTornEvent
PROPERTY ImplementsQueue
