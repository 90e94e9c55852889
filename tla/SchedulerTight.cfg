SPECIFICATION Spec
CONSTANTS
  MaxRunning = 2
  NumBlocks = 5
  BlockSize = 1
  MaxSeqLen = 5
  MaxPrefillBatch = 2
  MaxPrefillChunk = 2
  MaxBatchedTokens = 3
  MaxPairs = 3
  Failures <- MCEarly
  MaxRequests = 3
  Shapes <- MCShapes
INVARIANT TypeOK
INVARIANT OnePlaceEach
INVARIANT PagesAccountedFor
INVARIANT CacheMatchesRequests
INVARIANT AnswersContinueTheirPrompt
INVARIANT PrefillAloneFits
INVARIANT EmptyPlanOnlyForWantOfPool
PROPERTY OutputsOnlyGrow
