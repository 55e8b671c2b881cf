SPECIFICATION FairSpec
CONSTANTS
  FifoSize = 2
  TxWatermark = 0
  RxWatermark = 1
  IndexMod = 4
  RingMode = "none"
  RingSize = 3
  MaxIn = 5
  MaxLen = 3
  MaxRecv = 2
  MaxSend = 0
  MaxAbortRx = 1
  MaxAbortTx = 0
INVARIANTS RxBusyMeansUnfinished
PROPERTIES NoInterruptStorm LongRequestServed
CHECK_DEADLOCK FALSE
