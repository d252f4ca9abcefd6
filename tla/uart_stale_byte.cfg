SPECIFICATION Spec
CONSTANTS
  Size = 3
  IndexFirst = TRUE
  SlowWire = TRUE
  MaxTx = 2
  MaxRx = 2
  MaxErr = 0
  MaxLen = 2
  MaxSent = 4
INVARIANTS SentWasStored
CHECK_DEADLOCK FALSE
