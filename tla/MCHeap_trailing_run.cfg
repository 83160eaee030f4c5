\* With the table ending in a free run, a request longer than every free
\* run is given that too-short trailing run instead of failing.
CONSTANTS
  NBlocks = 4
  BlockSize = 4096
  HeapAddress = 16777216
  HeapSizeBytes = 16384
  Sizes <- MCPositiveSizes
  MaxLive = 3
SPECIFICATION Spec
INVARIANT AllocationsInRegion
