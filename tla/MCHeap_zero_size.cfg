\* kmalloc(0) and kmalloc(4096): a zero-byte request leaves its block FREE,
\* so the block is handed out again and kfree of the zero-byte pointer then
\* releases a block another caller still holds.
CONSTANTS
  NBlocks = 4
  BlockSize = 4096
  HeapAddress = 16777216
  HeapSizeBytes = 16384
  Sizes <- MCSizesWithZero
  MaxLive = 3
SPECIFICATION Spec
CHECK_DEADLOCK FALSE
INVARIANT NoOverlap
