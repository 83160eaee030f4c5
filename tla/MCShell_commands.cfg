\* The shell reads and runs commands while other kernel callers kmalloc 2
\* and 3 blocks and kfree them on a four-block heap.
CONSTANTS
  NULL = NULL
  LineMax = 5
  ArgMax = 2
  ArgBytes = 516
  Inputs <- MCInputs
  Fill <- MCFill
  NBlocks = 4
  BlockSize = 4096
  HeapAddress = 16777216
  HeapSizeBytes = 16384
  Sizes = {4097, 12288}
  MaxLive = 4
SPECIFICATION Spec
INVARIANT TypeOK
INVARIANT NoOverlap
INVARIANT LiveBlocksTaken
INVARIANT CommandIsLineWords
PROPERTY MallocIsFirstFit
PROPERTY FreeReleasesExactlyItsBlocks
