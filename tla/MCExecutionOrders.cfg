SPECIFICATION Spec
CONSTANTS
  MaxLegs = 2
  Directs = {"direct"}
  Scenes <- ThreeScenes
  SlowSubmits = TRUE
  MaxFaults = 1
CHECK_DEADLOCK FALSE
INVARIANTS PositionIsFill FilledIsReal
PROPERTIES  SubmitEnds FillIsRecorded
