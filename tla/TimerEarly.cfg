SPECIFICATION Spec
CONSTANTS
  t1 = t1
  t2 = t2
  Timers = {t1, t2}
  NoTimer = none
  Uses <- SamePeriod
  MaxTimeout = 3
  QueueSize = 1
  ReopensInCallback = FALSE
  IrqOutlivesReset = FALSE
  MaxStarts = 2
PROPERTIES NeverEarly
