SPECIFICATION Spec
CONSTANTS
  e1 = e1
  e2 = e2
  w1 = w1
  w2 = w2
  Event = {e1, e2}
  Endpoint = {w1, w2}
  Wants <- AllWant
  Unsafe = {}
  Batch = 1
  MAX_ATTEMPTS = 2
  MayDelete = {w2}
  MaxFaults = 0
INVARIANT AtLeastOnce
CHECK_DEADLOCK FALSE
