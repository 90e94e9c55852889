SPECIFICATION FairSpec
CONSTANTS
  MaxRunning = 3
  NumBlocks = 7
  BlockSize = 1
  MaxSeqLen = 5
  MaxPrefillBatch = 2
  MaxPrefillChunk = 2
  MaxBatchedTokens = 3
  MaxPairs = 2
  Failures <- MCLate
  MaxRequests = 3
  Shapes <- MCLiveShapes
INVARIANT PlanWithinBudgets
PROPERTY EveryRequestFinishes
