SPECIFICATION EngineSpec
CONSTANTS
  BatchSize = 1
  NumBlocks = 2
  BlockSize = 4
  MaxSeqLen = 8
  Graphed = TRUE
INVARIANT CaptureIsThrowaway
