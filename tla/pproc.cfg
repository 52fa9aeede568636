\* Six ids give process 1 two children, 4 and 5: one runs while two wait.  With
\* one page of memory, allocations fail in every place where they may.
SPECIFICATION Spec
CONSTANTS
  VM_USERLO_PI = 4
  VM_USERHI_PI = 12
  Norm = {4}
  NUM_IDS = 6
  WORD = 64
  SUPER_LEN = 2
  Lens = {1}
  IDLE_QUOTA = 1
  SpawnQuotas = {0, 3}
INVARIANTS SchedulerConsistent RunsAsItself LinesOpen
PROPERTIES FramesPrivate NoOvertaking UsesContainers ReadyRuns
CHECK_DEADLOCK FALSE
