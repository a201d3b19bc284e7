SPECIFICATION Spec
CONSTANTS
  r1 = r1
  r2 = r2
  left = left
  right = right
  Runners = {r1, r2}
  Legs = {left, right}
  Candidates <- TwoEach
  MaxSteps = 4
  Scenes <- PlanScenes
CHECK_DEADLOCK FALSE
INVARIANTS ResultMatchesSteps GivenUpOnlyWhenExhausted OneExecutorPerStep FillsAreReal
PROPERTY RunEnds
