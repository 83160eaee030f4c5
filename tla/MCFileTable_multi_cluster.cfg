CONSTANTS
  MaxPath = 6
  ParsePaths <- MCParsePaths
  NULL = NULL
  Drives <- MCDrives
  SectorSize = 2
  NSectors = 14
  ItemBytes = 1
  DiskFailsPastEnd = TRUE
  Header <- MCHeader
  Image <- MCImageChain
  Items <- MCItemsChain
  Filenames <- MCFilenames
  ModeStrs <- MCModeStrs
  Offsets <- MCOffsets
  Sizes <- MCSizes
  Counts <- MCCounts
  MaxFds = 3
  MaxSeekPos = 3
  MaxOpens = 1
SPECIFICATION Spec
INVARIANT FreadReturnsFileBytes
