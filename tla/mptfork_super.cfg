\* A program of one page that maps super pages and forks.
\* A page table at page 32 + k gives copy_on_write the number 2 * k + 7, which
\* is below the user area, as 4096 * k + 7 is on the machine.
SPECIFICATION Spec
CONSTANTS
  VM_USERLO_PI = 32
  VM_USERHI_PI = 46
  Norm = {32, 33, 34, 35, 36, 37, 38, 39, 40, 41, 42, 43}
  NUM_IDS = 5
  WORD = 64
  SUPER_LEN = 2
  Lens = {2}
  NPDE = 1
  NPTE = 3
  PAGESIZE = 2
  FRAMES = 64
  TextPages = {}
  DataPages = {2}
  ProcQuotas = {12}
  MmapFlags = {"SUPER"}
  MmapPages = {0}
  MmapPerms = {{"PTE_P", "PTE_U", "PTE_W"}}
  Data = {}
INVARIANT VmTypeOK
PROPERTY UsesContainers
CHECK_DEADLOCK FALSE
