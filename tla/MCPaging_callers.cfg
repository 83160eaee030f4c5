\* The paging manager under its callers, two task directories.
CONSTANTS
  kd = kd
  d1 = d1
  d2 = d2
  Dirs <- MCDirs
  KernelDir = kd
  Entries = 2
  PageSize = 2
  VirtAddrs <- MCVirtAddrs
  PhysAddrs <- MCPhysAddrs
  MapFlags <- MCMapFlags
  ScratchAddrs <- MCScratchAddrs
  MaxArgs <- MCMaxArgs
SPECIFICATION Spec
INVARIANT TypeOK
INVARIANT TranslationAgrees
PROPERTY ImplementsAddressSpaces
PROPERTY CopyStringRestoresTaskSpace
