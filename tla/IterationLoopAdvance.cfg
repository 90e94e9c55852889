SPECIFICATION Spec
CONSTANTS
  MaxBatchSize = 2
  MaxPrefillTokens = 2
  MaxContextLength = 5
  BlockSize = 2
  PackedMixedStep = TRUE
  ReuseStable = TRUE
  AdvanceMayThrow = TRUE
  MaxRequests = 3
  Shapes <- MCShapes
INVARIANT ExactlyOnce
INVARIANT PlanFitsBuffers
INVARIANT EmptyPlanMeansNoWork
PROPERTY EveryStepServes
