\* As one_fault, with a second fault: the second termination makes the
\* kernel resume a task whose Task record and page directory were freed.
CONSTANTS
  s1 = s1
  s2 = s2
  s3 = s3
  NULL = NULL
  KernelDir = KernelDir
  Slots <- MCSlots3
  BootProcesses = 2
  MaxProcesses = 3
  MaxSpawns = 2
  MaxFaults = 2
  MaxPc = 1
  Vectors <- MCVectors
  TssBase <- MCTssBase
  GdtInputs <- MCGdtInputs
  Panic = Panic
SPECIFICATION Spec
SYMMETRY SlotSymmetry3
INVARIANT RunsLiveTask
CHECK_DEADLOCK FALSE
