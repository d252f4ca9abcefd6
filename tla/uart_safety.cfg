SPECIFICATION FairSpec
CONSTANTS
  Size = 3
  IndexFirst = TRUE
  SlowWire = FALSE
  MaxTx = 3
  MaxRx = 5
  MaxErr = 1
  MaxLen = 2
  MaxSent = 4
INVARIANTS TypeOK NoLostTransmitEnable NoLostReceiveEnable RxInOrder
PROPERTIES DataRegisterFree RxIsFifo CallsReturn
CHECK_DEADLOCK FALSE
