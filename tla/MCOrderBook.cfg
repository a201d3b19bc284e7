SPECIFICATION BookSpec
CONSTANTS
  a1 = a1
  a2 = a2
  rebuilder = rebuilder
  reconciler = reconciler
  NoKey = NoKey
  Attempts = {a1, a2}
  Rebuilders = {rebuilder}
  Reconcilers = {reconciler}
  Resting = {1, 2}
  Size <- TwoSizes
  Scenes <- TwoScenes
  MaxFaults = 2
CHECK_DEADLOCK FALSE
INVARIANTS OpenOrdersStay
PROPERTY ClosedOrdersLeave
