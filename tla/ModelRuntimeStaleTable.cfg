SPECIFICATION Spec
CONSTANTS
  Configs <- MCPaddedTables
  Buckets = {1}
  PrefillBucket = 1
  Temps = {1}
  MaxSteps = 3
INVARIANT ReplayReadsItsTable
