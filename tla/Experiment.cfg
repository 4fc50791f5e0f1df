SPECIFICATION Spec
CONSTANTS
  Batches <- MCBatches
  Draws <- MCDraws
  Scenarios <- MCScenarios
  Slow <- MCSlow
  Unlimited = Unlimited
  Seeds = 2
INVARIANTS
  PlansFit
  RpaIsBest
  NoLiftWithoutScarcity
CHECK_DEADLOCK FALSE
