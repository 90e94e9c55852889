SPECIFICATION FairSpec
CONSTANTS
  MaxBatchSize = 2
  MaxPrefillTokens = 3
  MaxContextLength = 4
  BlockSize = 2
  PackedMixedStep = TRUE
  ReuseStable = TRUE
  AdvanceMayThrow = FALSE
  MaxRequests = 3
  Shapes <- MCLiveShapes
INVARIANT ReplayMatchesRebuild
INVARIANT OutputsContinueTheirPrompt
INVARIANT MaxContextCoversRows
PROPERTY EveryRequestIsDelivered
PROPERTY ImplementsFairService
