SPECIFICATION Spec
CONSTANTS
  t1 = t1
  t2 = t2
  Timers = {t1, t2}
  NoTimer = none
  Uses <- TwoUses
  MaxTimeout = 2
  QueueSize = 1
  ReopensInCallback = FALSE
  IrqOutlivesReset = TRUE
  MaxStarts = 2
INVARIANTS TypeOK CountsExact Covered
PROPERTIES NeverEarlyAlone Fires
