\* A deleted entry ahead of the live ones in the root directory hides the
\* last live entry from fat16_find_item_in_directory.
CONSTANTS
  MaxPath = 6
  ParsePaths <- MCParsePaths
  NULL = NULL
  Drives <- MCDrives
  SectorSize = 2
  NSectors = 14
  ItemBytes = 1
  DiskFailsPastEnd = TRUE
  Header <- MCHeader
  Image <- MCImageDeleted
  Items <- MCItemsDeleted
  Filenames <- MCFilenames
  ModeStrs <- MCModeStrs
  Offsets <- MCOffsets
  Sizes <- MCSizes
  Counts <- MCCounts
  MaxFds = 3
  MaxSeekPos = 3
  MaxOpens = 2
SPECIFICATION Spec
INVARIANT LookupFindsLiveItems
