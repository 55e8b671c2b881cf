SPECIFICATION Spec
CONSTANTS
  bounded = bounded
  free = free
  Null = Null
  Lists = {bounded, free}
  Elements = {e1, e2, e3}
  Callers = {c1, c2}
  Max <- Capacity
INVARIANTS WellFormed
PROPERTIES OperationsInPlace
CHECK_DEADLOCK FALSE
