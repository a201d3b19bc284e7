SPECIFICATION Spec
CONSTANTS
  Combos <- Three
  Keys <- Outcomes
  Size <- BuySellSell
  UserOf <- Takers
  Accepts <- Calls
  ComboOf <- FirstTwo
  Netting <- Three
  Clearing <- Three
  Reconciled <- LastTwo
  LockOutlives = FALSE
  MaxFaults = 1
  Free = free
  NotListed = unlisted
INVARIANTS BooksAgree MatchesBalance NoFalseReplay InternalMeansFilled
PROPERTIES AcceptancesEnd
CHECK_DEADLOCK FALSE
