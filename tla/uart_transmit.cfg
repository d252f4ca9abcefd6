SPECIFICATION ConsoleSpec
CONSTANTS
  Size = 3
  IndexFirst = FALSE
  SlowWire = TRUE
  MaxTx = 5
  MaxRx = 3
  MaxErr = 0
  MaxLen = 2
  MaxSent = 6
  MaxPrint = 3
PROPERTIES TxIsFifo PrintReturns HangsWithoutRoom AllSentOrHung
CHECK_DEADLOCK FALSE
