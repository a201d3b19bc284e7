SPECIFICATION Spec
CONSTANTS
  MaxLegs = 2
  Directs = {}
  Scenes <- TwoScenes
  SlowSubmits = FALSE
  MaxFaults = 1
CHECK_DEADLOCK FALSE
INVARIANT InterruptedWasNotSent
