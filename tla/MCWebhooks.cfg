SPECIFICATION FairSpec
CONSTANTS
  e1 = e1
  e2 = e2
  w1 = w1
  w2 = w2
  Event = {e1, e2}
  Endpoint = {w1, w2}
  Wants <- Filtered
  Unsafe = {w2}
  Batch = 1
  MAX_ATTEMPTS = 2
  MayDelete = {w2}
  MaxFaults = 1
INVARIANTS TypeOK BoundedPosts TruthfulOutcome
PROPERTIES SettledStaysQuiet EveryDeliverySettles
CHECK_DEADLOCK FALSE
