SPECIFICATION RtosFairSpec
CONSTANTS
  NoTask = NoTask
  Receivers = {r1}
  Senders = {s1, s2}
  QueueLen = 5
  DaemonPreempts = FALSE
  MaxCalls = 3
  FifoSize = 2
  TxWatermark = 0
  RxWatermark = 0
  IndexMod = 4
  RingMode = "always"
  RingSize = 2
  MaxIn = 1
  MaxLen = 2
  MaxRecv = 3
  MaxSend = 3
  MaxAbortRx = 3
  MaxAbortTx = 0
INVARIANTS SendReturnsSent BlockedReceiverIsWoken
PROPERTIES SendReturns
CHECK_DEADLOCK FALSE
