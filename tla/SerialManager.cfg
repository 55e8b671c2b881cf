SPECIFICATION Spec
CONSTANTS
  w1 = w1
  w2 = w2
  w3 = w3
  t1 = t1
  t2 = t2
  None = None
  QueueSize = 2
  Handles = {w1, w2, w3}
  Callers = {t1, t2}
  Usages <- Safe
INVARIANTS TypeOK HandlesInOneList PortServesFirst SuccessMeansSent OnceInOrder
PROPERTIES WritesEnd
