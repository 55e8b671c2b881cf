SPECIFICATION FairSpec
CONSTANTS
  FifoSize = 2
  TxWatermark = 0
  RxWatermark = 0
  IndexMod = 4
  RingMode = "always"
  RingSize = 3
  MaxIn = 0
  MaxLen = 3
  MaxRecv = 0
  MaxSend = 2
  MaxAbortRx = 0
  MaxAbortTx = 0
PROPERTIES NoInterruptStorm
CHECK_DEADLOCK FALSE
