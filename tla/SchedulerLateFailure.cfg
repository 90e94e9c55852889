SPECIFICATION Spec
CONSTANTS
  MaxRunning = 2
  NumBlocks = 9
  BlockSize = 2
  MaxSeqLen = 5
  MaxPrefillBatch = 2
  MaxPrefillChunk = 2
  MaxBatchedTokens = 3
  MaxPairs = 3
  Failures <- MCLate
  MaxRequests = 3
  Shapes <- MCLiveShapes
INVARIANT CacheMatchesRequests
