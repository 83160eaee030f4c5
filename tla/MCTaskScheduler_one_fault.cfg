\* Two boot processes, up to two more loaded by syscalls into any free heap
\* slot (freed Task records included), at most one process terminated by a
\* fault; the timer is weakly fair.
CONSTANTS
  s1 = s1
  s2 = s2
  s3 = s3
  NULL = NULL
  KernelDir = KernelDir
  Slots <- MCSlots3
  BootProcesses = 2
  MaxProcesses = 3
  MaxSpawns = 2
  MaxFaults = 1
  MaxPc = 1
  Vectors <- MCVectors
  TssBase <- MCTssBase
  GdtInputs <- MCGdtInputs
  Panic = Panic
SPECIFICATION Spec
INVARIANT TypeOK
INVARIANT RunsLiveTask
INVARIANT ListIsLiveTasks
INVARIANT GdtDescribesSegments
PROPERTY ImplementsRoundRobin
PROPERTY EveryTaskRuns
