\* A program with a read-only and a writable page, in two page tables, that
\* maps two more pages across the border between the tables; the first process
\* has enough memory or too little.
SPECIFICATION Spec
CONSTANTS
  VM_USERLO_PI = 4
  VM_USERHI_PI = 24
  Norm = {4, 5, 6, 7, 8, 9, 10, 11, 12, 13}
  NUM_IDS = 5
  WORD = 64
  SUPER_LEN = 2
  Lens = {2}
  NPDE = 2
  NPTE = 2
  PAGESIZE = 4
  FRAMES = 24
  TextPages = {3}
  DataPages = {0}
  ProcQuotas = {2, 10}
  MmapFlags = {"PAGE", "CONSECUTIVE"}
  MmapPages = {1}
  MmapPerms = {{"PTE_P", "PTE_U", "PTE_W"}}
  Data = {2}
INVARIANTS PrivateMemory WritableExclusive  
   ReadsOwnMemory
PROPERTY KernelWorkEnds
CHECK_DEADLOCK FALSE
