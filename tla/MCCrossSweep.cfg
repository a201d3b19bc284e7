SPECIFICATION Spec
CONSTANTS
  a1 = a1
  a2 = a2
  ann = ann
  bob = bob
  cat = cat
  dan = dan
  safe = safe
  other = other
  Free = Free
  Orphan = Orphan
  NoProfile = NoProfile
  NoKey = NoKey
  Workers = {a1, a2}
  Orders = {1, 2, 3, 4}
  Makers = {1, 3}
  Takers = {2, 4}
  Order <- Sweep
  TakerOf <- OnePerTaker
  SafePairs = {}
  BatchSize = 2
  MaxRetries = 2
  TtlMayExpire = TRUE
  BookKeyMayExpire = FALSE
  RebuildEnabled = FALSE
CHECK_DEADLOCK FALSE
INVARIANTS TakerNotOverfilled ReportIsTrue
PROPERTIES ImplementsLedger AttemptTerminates
