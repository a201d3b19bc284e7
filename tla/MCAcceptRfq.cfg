SPECIFICATION Spec
CONSTANTS
  first = first
  again = again
  third = third
  Accepts = {first, again, third}
  RfqOf <- MCRfqOf
  MarketOf <- MCMarketOf
  LockOutlives = TRUE
  Ranks = 2
  MaxFaults = 1
  None = None
CHECK_DEADLOCK FALSE
INVARIANTS SentOnce
PROPERTIES StatusFollowsMachine ExecutionEnds
