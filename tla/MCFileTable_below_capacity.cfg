CONSTANTS
  MaxPath = 6
  ParsePaths <- MCParsePaths
  NULL = NULL
  Drives <- MCDrives
  SectorSize = 2
  NSectors = 14
  ItemBytes = 1
  DiskFailsPastEnd = TRUE
  Header <- MCHeader
  Image <- MCImage
  Items <- MCItems
  Filenames <- MCFilenames
  ModeStrs <- MCModeStrs
  Offsets <- MCOffsets
  Sizes <- MCSizes
  Counts <- MCCounts
  MaxFds = 3
  MaxSeekPos = 3
  MaxOpens = 2
SPECIFICATION Spec
INVARIANT TypeOK
INVARIANT ParseAgrees
INVARIANT LookupFindsLiveItems
INVARIANT HeldFdsResolve
INVARIANT NoLeakedDescriptor
INVARIANT FreadReturnsFileBytes
INVARIANT FstatDescribesNamedFile
