\* A small kernel of one to three segments, on a disk with two partitions.
\* Up to three ranges on eighteen addresses with pages of three: ranges that
\* overlap, touch, contain each other, end inside a page, or lie above the last
\* address; a fourth range finds no slot.
SPECIFICATION Spec
CONSTANTS
  SECTOR_SIZE = 2
  LINKPAGE = 4
  KERN_BASE = 4
  LOWMEM = 40
  PARTITIONS = 2
  TextSizes = {0, 3, 4, 5}
  DataSizes = {0, 1, 3}
  BssSizes = {0, 1, 2}
  MaxRanges = 4
  MAXADDR = 18
  PAGESIZE = 3
  VM_USERLO_PI = 1
  VM_USERHI_PI = 5
  SLOTS = 3
  Bases = {0, 2, 7, 20}
  Lengths = {2, 7, 20}
  Types = {"MEM_RAM", "MEM_RESERVED", "unknown"}
INVARIANTS KernelLoaded MapSorted MapKeepsMemory MapHandedOver NormalIsUsable
  UsableIsNormal
CHECK_DEADLOCK FALSE
