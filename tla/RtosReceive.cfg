SPECIFICATION RtosFairSpec
CONSTANTS
  NoTask = NoTask
  Receivers = {r1, r2}
  Senders = {}
  QueueLen = 5
  DaemonPreempts = TRUE
  MaxCalls = 2
  FifoSize = 2
  TxWatermark = 0
  RxWatermark = 0
  IndexMod = 4
  RingMode = "always"
  RingSize = 2
  MaxIn = 4
  MaxLen = 2
  MaxRecv = 2
  MaxSend = 2
  MaxAbortRx = 2
  MaxAbortTx = 0
INVARIANTS RtosTypeOK SuccessMeansData NoRequestLeftBehind
PROPERTIES ReceiveReturns
CHECK_DEADLOCK FALSE
