SPECIFICATION Spec
CONSTANTS
  MaxBatchSize = 2
  MaxPrefillTokens = 2
  MaxContextLength = 5
  BlockSize = 2
  PackedMixedStep = FALSE
  ReuseStable = TRUE
  AdvanceMayThrow = TRUE
  MaxRequests = 2
  Shapes <- MCShapes
INVARIANT ReplayMatchesRebuild
