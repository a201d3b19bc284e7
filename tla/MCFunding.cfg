SPECIFICATION FundingSpec
CONSTANTS
  Bridged = {1}
  Rechecked = {1}
  Scenes <- FourScenes
  SlowRequests = FALSE
  MaxFaults = 1
CHECK_DEADLOCK FALSE
INVARIANTS ReadyIsEvidenced SubmittedIsNotCancelled
PROPERTIES FundsBecomeUsable IntentBecomesReady
