SPECIFICATION AgreementSpec
CONSTANTS
  MaxBatchSize = 2
  MaxPrefillTokens = 2
  MaxContextLength = 5
  BlockSize = 2
  PackedMixedStep = FALSE
  ReuseStable = TRUE
  AdvanceMayThrow = FALSE
  MaxRequests = 3
  Shapes <- MCShapes
INVARIANT ControlsAgree
INVARIANT TypeOK
INVARIANT BlockPartition
INVARIANT AdmissionAlwaysFunded
INVARIANT PlanFitsBuffers
INVARIANT ReplayMatchesRebuild
INVARIANT OutputsContinueTheirPrompt
INVARIANT ServedInOrder
INVARIANT ExactlyOnce
PROPERTY ImplementsService
