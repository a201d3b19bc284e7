SPECIFICATION Spec
CONSTANTS
  a1 = a1
  a2 = a2
  ann = ann
  bob = bob
  cat = cat
  dan = dan
  safe = safe
  other = other
  Free = Free
  Orphan = Orphan
  NoProfile = NoProfile
  NoKey = NoKey
  Workers = {a1, a2}
  Orders = {1, 2, 3}
  Makers = {1, 3}
  Takers = {2}
  Order <- Bids
  TakerOf <- RetriedTaker
  SafePairs = {}
  BatchSize = 2
  MaxRetries = 1
  TtlMayExpire = FALSE
  BookKeyMayExpire = TRUE
  RebuildEnabled = TRUE
CHECK_DEADLOCK FALSE
INVARIANTS NoSelfTrade MakerConserved
PROPERTY ImplementsGrants
