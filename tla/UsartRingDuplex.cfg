SPECIFICATION Spec
CONSTANTS
  FifoSize = 2
  TxWatermark = 0
  RxWatermark = 0
  IndexMod = 4
  RingMode = "always"
  RingSize = 3
  MaxIn = 3
  MaxLen = 3
  MaxRecv = 1
  MaxSend = 2
  MaxAbortRx = 0
  MaxAbortTx = 1
INVARIANTS TypeOK NothingVanishes LossIsNotified RxIdleMeansComplete TxIdleMeansSent
PROPERTIES RxImplementsStream TxImplementsStream
CHECK_DEADLOCK FALSE
