SPECIFICATION LockerSpec
CONSTANTS
  w1 = w1
  w2 = w2
  Free = Free
  Orphan = Orphan
  Workers = {w1, w2}
  Orders = {1, 2, 3}
  MaxRetries = 3
  TtlMayExpire = TRUE
INVARIANTS NoLeakedLocks NoWaitCycle
PROPERTY AcquireTerminates
