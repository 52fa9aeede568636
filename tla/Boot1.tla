-------------------------------- MODULE Boot1 --------------------------------
(***************************************************************************)
(* The boot loader and the first steps of the kernel, up to the point at   *)
(* which the kernel reads the memory map: boot0 and boot1 ask the BIOS for *)
(* the map, find the partition to boot from and load the kernel sector by  *)
(* sector, and seg_init clears the part of the image that is not in the    *)
(* file.                                                                   *)
(*                                                                         *)
(* A byte read from the disk is the number of its place there, so that a   *)
(* byte loaded to the wrong address, or from the wrong one, shows.  Of a   *)
(* descriptor of the memory map only its presence matters here; what it    *)
(* says is read by pmmap_init (MATInit).                                   *)
(***************************************************************************)
EXTENDS Integers, Sequences

CONSTANTS
  SECTOR_SIZE,    \* 512
  LINKPAGE,       \* the alignment of segments that the linker keeps, 4096
  KERN_BASE,      \* where the kernel is linked, 0x100000
  LOWMEM,         \* 0x1000000: the addresses that the loader writes to
  PARTITIONS,     \* the entries of the partition table, 4
  TextSizes,      \* the sizes that the parts of a kernel may have: code,
  DataSizes,      \*   initialised data, and data that is not in the file
  BssSizes,       \*   before and after the boot stack
  MaxRanges       \* the length of the longest memory map (bound)

ASSUME BootAssumption ==
  /\ SECTOR_SIZE \in Nat \ {0} /\ LINKPAGE \in Nat \ {0}
  /\ LINKPAGE % SECTOR_SIZE = 0
  /\ KERN_BASE \in Nat /\ KERN_BASE % LINKPAGE = 0
  /\ LOWMEM \in Nat /\ PARTITIONS \in Nat /\ MaxRanges \in Nat
  /\ TextSizes \cup DataSizes \cup BssSizes \subseteq Nat

VARIABLES
  pc,             \* what start-up is doing
  smap,           \* the descriptors in boot1's buffer: "range" or "zero"
  mbr,            \* the partitions marked as bootable
  bootable_lba,
  kernel,         \* the kernel on the disk
  ph,             \* the program header that is loaded next
  kmem,           \* the memory the kernel is loaded to
  mmap_length     \* mboot_info.mmap_length

bootVars == <<pc, smap, mbr, bootable_lba, kernel, ph, kmem, mmap_length>>

Up(a, n)   == ((a + n - 1) \div n) * n
Down(a, n) == (a \div n) * n

Junk  == -1       \* what memory holds before anything is written
Frame == -2       \* what the boot stack holds once kern_init was called
DiskByte(sector, k) == 1 + sector * SECTOR_SIZE + k
FirstLba(partition) == 10 * partition

(***************************************************************************)
(* A kernel as the linker lays it out: code and data in segments of their  *)
(* own, whose addresses and offsets in the file agree modulo the page      *)
(* size, and a header without content.  The boot stack is a page of the    *)
(* data that is not in the file.                                           *)
(***************************************************************************)
Linked(text, data, bss, magic) ==
  LET va     == Up(KERN_BASE + text, LINKPAGE) + (text % LINKPAGE)
      kstack == Up(va + data + bss, LINKPAGE)
  IN  [segs |-> <<[va |-> KERN_BASE, offset |-> LINKPAGE,
                   filesz |-> text, memsz |-> text],
                  [va |-> va, offset |-> LINKPAGE + text,
                   filesz |-> data, memsz |-> kstack + LINKPAGE + bss - va],
                  [va |-> 0, offset |-> 0, filesz |-> 0, memsz |-> 0]>>,
       edata |-> va + data, bsp_kstack |-> kstack,
       end |-> kstack + LINKPAGE + bss, magic |-> magic]

Kernels ==
  {Linked(size[1], size[2], size[3], TRUE) :
     size \in TextSizes \X DataSizes \X BssSizes}
  \cup {Linked(0, 0, 0, FALSE)}

\* A kernel ends below the addresses that the loader cuts off.
ASSUME KernelFits == \A k \in Kernels : k.end <= LOWMEM

BootInit ==
  /\ pc = "boot0"
  /\ smap = <<>>
  /\ mbr \in SUBSET (1 .. PARTITIONS)
  /\ bootable_lba = 0
  /\ kernel \in Kernels
  /\ ph = 1
  /\ kmem = [a \in 0 .. LOWMEM - 1 |-> Junk]
  /\ mmap_length = 0

-----------------------------------------------------------------------------
\* The BIOS reads boot1 into memory, or fails.
load_boot1 ==
  /\ pc = "boot0"
  /\ pc' \in {"e820", "spin"}
  /\ UNCHANGED <<smap, mbr, bootable_lba, kernel, ph, kmem, mmap_length>>

\* A call of the BIOS gives one descriptor, and tells whether it is the last.
e820 ==
  /\ pc = "e820"
  /\ Len(smap) < MaxRanges
  /\ smap' = Append(smap, "range")
  /\ pc' \in {"e820", "e820.4"}
  /\ UNCHANGED <<mbr, bootable_lba, kernel, ph, kmem, mmap_length>>

e820_fails ==
  /\ pc = "e820"
  /\ pc' = "spin"
  /\ UNCHANGED <<smap, mbr, bootable_lba, kernel, ph, kmem, mmap_length>>

\* "zero the descriptor after the last one"
e820_ends ==
  /\ pc = "e820.4"
  /\ smap' = Append(smap, "zero")
  /\ pc' = "boot1main"
  /\ UNCHANGED <<mbr, bootable_lba, kernel, ph, kmem, mmap_length>>

\* The first bootable partition.
FirstBootable(partition) ==
  partition \in mbr /\ \A other \in mbr : partition <= other

boot1main ==
  /\ pc = "boot1main"
  /\ \/ /\ mbr = {}
        /\ pc' = "panic"
        /\ UNCHANGED bootable_lba
     \/ /\ \E partition \in mbr :
             /\ FirstBootable(partition)
             /\ bootable_lba' = FirstLba(partition)
        /\ pc' = "parse_e820"
  /\ UNCHANGED <<smap, mbr, kernel, ph, kmem, mmap_length>>

\* sizeof(bios_smap_t)
DescriptorSize == 24

\* The loop of parse_e820 ends at the first descriptor of zeros.
EndOfMap(k) == smap[k] = "zero" /\ \A j \in 1 .. k - 1 : smap[j] # "zero"

\* A slip: the loop stops before the last descriptor.
parse_e820_stops_early ==
  /\ pc = "parse_e820"
  /\ \E k \in DOMAIN smap :
       EndOfMap(k) /\ mmap_length' = DescriptorSize * (k - 2)
  /\ pc' = "load_kernel"
  /\ UNCHANGED <<smap, mbr, bootable_lba, kernel, ph, kmem>>

parse_e820 ==
  /\ pc = "parse_e820"
  /\ \E k \in DOMAIN smap :
       EndOfMap(k) /\ mmap_length' = DescriptorSize * (k - 1)
  /\ pc' = "load_kernel"
  /\ UNCHANGED <<smap, mbr, bootable_lba, kernel, ph, kmem>>

\* A slip: the first sector goes to the address of the segment itself.
readsection_unrounded(address, count, offset, lba) ==
  LET va     == address % LOWMEM
      end_va == va + count
      sector == offset \div SECTOR_SIZE + lba
  IN  [a \in DOMAIN kmem |->
         IF a \in va .. va + Up(end_va - va, SECTOR_SIZE) - 1
         THEN DiskByte(sector, a - va) ELSE kmem[a]]

\* The memory after the whole sectors have been read that hold the section.
readsection(address, count, offset, lba) ==
  LET end_va == (address % LOWMEM) + count
      va     == Down(address % LOWMEM, SECTOR_SIZE)
      sector == offset \div SECTOR_SIZE + lba
  IN  [a \in DOMAIN kmem |->
         IF a \in va .. va + Up(end_va - va, SECTOR_SIZE) - 1
         THEN DiskByte(sector, a - va) ELSE kmem[a]]

\* The headers are tested for the magic number ...
load_kernel ==
  /\ pc = "load_kernel"
  /\ pc' = IF kernel.magic THEN "load_segment" ELSE "panic"
  /\ UNCHANGED <<smap, mbr, bootable_lba, kernel, ph, kmem, mmap_length>>

\* ... and then the segments are loaded, in the order of their headers.
load_segment ==
  /\ pc = "load_segment"
  /\ ph <= Len(kernel.segs)
  /\ LET seg == kernel.segs[ph]
     IN  kmem' = readsection(seg.va, seg.memsz, seg.offset, bootable_lba)
  /\ ph' = ph + 1
  /\ UNCHANGED <<pc, smap, mbr, bootable_lba, kernel, mmap_length>>

\* The entry of the kernel switches to its boot stack and calls kern_init.
exec_kernel ==
  /\ pc = "load_segment"
  /\ ph > Len(kernel.segs)
  /\ kmem' = [kmem EXCEPT ![kernel.bsp_kstack + LINKPAGE - 1] = Frame]
  /\ pc' = "seg_init"
  /\ UNCHANGED <<smap, mbr, bootable_lba, kernel, ph, mmap_length>>

\* memzero on both sides of the stack that is in use.
seg_init ==
  /\ pc = "seg_init"
  /\ kmem' = [a \in DOMAIN kmem |->
       IF a \in kernel.edata .. kernel.bsp_kstack - 1
              \cup kernel.bsp_kstack + LINKPAGE .. kernel.end - 1
       THEN 0 ELSE kmem[a]]
  /\ pc' = "devinit"
  /\ UNCHANGED <<smap, mbr, bootable_lba, kernel, ph, mmap_length>>

\* The rest of devinit comes to pmmap_init.  Nothing looks at the image or
\* the disk again, and the model forgets them.
devinit ==
  /\ pc = "devinit"
  /\ pc' = "pmmap_init"
  /\ mbr' = {} /\ bootable_lba' = 0 /\ ph' = 1
  /\ kernel' = Linked(0, 0, 0, TRUE)
  /\ kmem' = [a \in DOMAIN kmem |-> Junk]
  /\ UNCHANGED <<smap, mmap_length>>

BootNext ==
  \/ load_boot1 \/ e820 \/ e820_fails \/ e820_ends
  \/ boot1main \/ parse_e820 \/ load_kernel \/ load_segment
  \/ exec_kernel \/ seg_init \/ devinit

-----------------------------------------------------------------------------
\* When the kernel starts to work, code and data are what the file on the
\* first bootable partition says, byte by byte, although whole sectors were
\* read around them; data that is not in the file is zero, although sectors
\* were read over it; and the stack the kernel runs on has not been cleared
\* (readsection, load_kernel, seg_init).
KernelLoaded ==
  pc = "devinit" =>
    /\ \E partition \in mbr :
         /\ FirstBootable(partition)
         /\ \A s \in DOMAIN kernel.segs :
              LET seg == kernel.segs[s]
              IN  \A k \in 0 .. seg.filesz - 1 :
                    kmem[seg.va + k] = DiskByte(FirstLba(partition), seg.offset + k)
    /\ \A a \in kernel.edata .. kernel.end - 1 :
         \/ kmem[a] = 0
         \/ a \in kernel.bsp_kstack .. kernel.bsp_kstack + LINKPAGE - 1
    /\ kmem[kernel.bsp_kstack + LINKPAGE - 1] = Frame
=============================================================================
