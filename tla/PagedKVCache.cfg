SPECIFICATION ForwardSpec
CONSTANTS
  BatchSize = 3
  NumBlocks = 5
  BlockSize = 2
  MaxSeqLen = 4
INVARIANT TypeOK
INVARIANT PagesPartitioned
INVARIANT TablesCoverLengths
INVARIANT ReadsBack
PROPERTY TablesKeepTheirPages
