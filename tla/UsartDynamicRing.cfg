SPECIFICATION Spec
CONSTANTS
  FifoSize = 2
  TxWatermark = 0
  RxWatermark = 0
  IndexMod = 8
  RingMode = "dynamic"
  RingSize = 3
  MaxIn = 4
  MaxLen = 2
  MaxRecv = 1
  MaxSend = 1
  MaxAbortRx = 0
  MaxAbortTx = 0
INVARIANTS StreamOrder NothingVanishes
CHECK_DEADLOCK FALSE
