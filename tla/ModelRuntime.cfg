SPECIFICATION Spec
CONSTANTS
  Configs <- MCConfigs
  Buckets = {1}
  PrefillBucket = 2
  Temps = {1}
  MaxSteps = 4
INVARIANT TypeOK
INVARIANT KernelsReadTheirBatch
INVARIANT CopiesReadTheirSource
INVARIANT ReplayReadsItsTable
INVARIANT PiecesWriteTheirRows
INVARIANT SampledAfterComputed
