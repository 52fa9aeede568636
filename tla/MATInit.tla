------------------------------- MODULE MATInit -------------------------------
(***************************************************************************)
(* Start-up of physical memory: the memory map of the boot loader (Boot1)  *)
(* becomes a sorted, merged list of ranges (kern/dev/mboot.c), and the     *)
(* list gives every physical page its permission (pmem_init).  The pages   *)
(* with permission 2 are the constant Norm of MATOp.                       *)
(***************************************************************************)
EXTENDS Boot1

CONSTANTS
  MAXADDR,        \* the last address, 0xffffffff
  PAGESIZE,
  VM_USERLO_PI,
  VM_USERHI_PI,
  SLOTS,          \* the length of pmmap_slots, 128
  Bases,          \* the base addresses, lengths and types that boot loaders
  Lengths,        \*   list; a base or length of more than 32 bits is one
  Types           \*   above MAXADDR

MEM_RAM == "MEM_RAM"
KnownTypes == {MEM_RAM, "MEM_RESERVED", "MEM_ACPI", "MEM_NVS"}

NPS == MAXADDR \div PAGESIZE
Pages == 0 .. NPS - 1

ASSUME MapAssumption ==
  /\ PAGESIZE \in Nat \ {0} /\ MAXADDR \in Nat
  /\ VM_USERLO_PI \in Nat /\ VM_USERHI_PI \in Nat
  /\ VM_USERLO_PI < VM_USERHI_PI /\ VM_USERHI_PI < NPS
  /\ SLOTS \in Nat
  /\ Bases \subseteq Nat /\ Lengths \subseteq Nat

VARIABLES
  next,           \* the number of descriptors that pmmap_init has read
  mmap,           \* history: the ranges below 4GB that they describe
  pmmap_list,     \* the ranges, by start
  slot,           \* the place pmmap_merge has reached
  pmmap_sublist,  \* the ranges of each known type
  max_usable_memory,
  perm            \* AT[i].perm

mapVars == <<next, mmap, pmmap_list, slot, pmmap_sublist, max_usable_memory, perm>>
handedOver == <<smap, mbr, bootable_lba, kernel, ph, kmem, mmap_length>>
vars == <<bootVars, mapVars>>

Range32 == [start : 0 .. MAXADDR, end : 0 .. MAXADDR, type : Types]

Init ==
  /\ BootInit
  /\ next = 0
  /\ mmap = {}
  /\ pmmap_list = <<>>
  /\ slot = 1
  /\ pmmap_sublist = [t \in KnownTypes |-> <<>>]
  /\ max_usable_memory = 0
  /\ perm = [p \in Pages |-> 0]

-----------------------------------------------------------------------------
\* The sequence s up to place i, then e, then s from place j on.
Splice(s, i, e, j) == SubSeq(s, 1, i) \o <<e>> \o SubSeq(s, j, Len(s))

\* The range behind place k is the first one that starts behind r.
PlaceFor(r, k) ==
  /\ \A j \in 1 .. k : r.start >= pmmap_list[j].start
  /\ k < Len(pmmap_list) => r.start < pmmap_list[k + 1].start

\* A slip: new ranges go to the end.
pmmap_insert_at_end(r) ==
  \/ /\ Len(pmmap_list) = SLOTS
     /\ pc' = "KERN_PANIC" /\ UNCHANGED pmmap_list
  \/ /\ Len(pmmap_list) # SLOTS
     /\ pmmap_list' = Append(pmmap_list, r)
     /\ UNCHANGED pc

pmmap_insert(r) ==
  \/ /\ Len(pmmap_list) = SLOTS
     /\ pc' = "KERN_PANIC" /\ UNCHANGED pmmap_list
  \/ /\ Len(pmmap_list) # SLOTS
     /\ \E k \in 0 .. Len(pmmap_list) :
          PlaceFor(r, k) /\ pmmap_list' = Splice(pmmap_list, k, r, k + 1)
     /\ UNCHANGED pc

\* One descriptor of the boot loader.  Ranges above 4GB are ignored, and
\* others are cut off there.
pmmap_init(base, length, type) ==
  LET r == [start |-> base, type |-> type,
            end |-> IF base + length >= MAXADDR THEN MAXADDR ELSE base + length]
  IN  /\ pc = "pmmap_init"
      /\ next * DescriptorSize < mmap_length
      /\ next' = next + 1
      /\ \/ base > MAXADDR /\ UNCHANGED <<pc, mmap, pmmap_list>>
         \/ /\ base <= MAXADDR
            /\ mmap' = mmap \cup {[base |-> base, length |-> length, type |-> type]}
            /\ pmmap_insert(r)
      /\ UNCHANGED <<handedOver, slot, pmmap_sublist, max_usable_memory, perm>>

pmmap_init_ends ==
  /\ pc = "pmmap_init"
  /\ next * DescriptorSize >= mmap_length
  /\ pc' = "pmmap_merge"
  /\ UNCHANGED <<handedOver, mapVars>>

\* Two ranges of the same type that overlap or touch.
Mergeable(r, s) == r.start <= s.start /\ r.end >= s.start /\ r.type = s.type

\* A slip: the end of the second range is taken.
Merged_takes_next(r, s) == [r EXCEPT !.end = s.end]

Merged(r, s) == [r EXCEPT !.end = IF r.end >= s.end THEN r.end ELSE s.end]

\* One round of the first loop.  After a merge the loop goes on with the
\* following range and does not look at the merged one again.
pmmap_merge ==
  /\ pc = "pmmap_merge"
  /\ slot < Len(pmmap_list)
  /\ LET r == pmmap_list[slot]
         s == pmmap_list[slot + 1]
     IN  pmmap_list' = IF Mergeable(r, s)
                       THEN Splice(pmmap_list, slot - 1, Merged(r, s), slot + 2)
                       ELSE pmmap_list
  /\ slot' = slot + 1
  /\ UNCHANGED <<handedOver, pc, next, mmap, pmmap_sublist, max_usable_memory,
                 perm>>

\* The second loop, which asserts that it knows the type of every range.
pmmap_merge_ends ==
  /\ pc = "pmmap_merge"
  /\ slot >= Len(pmmap_list)
  /\ LET OfType(t) == SelectSeq(pmmap_list, LAMBDA r : r.type = t)
         ram == OfType(MEM_RAM)
     IN  \/ /\ \E k \in DOMAIN pmmap_list : pmmap_list[k].type \notin KnownTypes
            /\ pc' = "KERN_PANIC"
            /\ UNCHANGED <<pmmap_sublist, max_usable_memory>>
         \/ /\ \A k \in DOMAIN pmmap_list : pmmap_list[k].type \in KnownTypes
            /\ pc' = "pmem_init"
            /\ pmmap_sublist' = [t \in KnownTypes |-> OfType(t)]
            /\ max_usable_memory' = IF ram = <<>> THEN 0 ELSE ram[Len(ram)].end
  /\ UNCHANGED <<handedOver, next, mmap, pmmap_list, slot, perm>>

\* starts[j] and ends[j] of pmem_init: is_usable, get_mms and get_mml.
starts(j) == IF pmmap_list[j].type = MEM_RAM THEN pmmap_list[j].start ELSE 0
ends(j)   == IF pmmap_list[j].type = MEM_RAM THEN pmmap_list[j].end ELSE 0

\* Slips: only the start of a page is looked at; its end is one too far.
InRange_by_start(p, j) ==
  p * PAGESIZE > starts(j) /\ p * PAGESIZE < ends(j)
InRange_end_too_far(p, j) ==
  p * PAGESIZE > starts(j) /\ p * PAGESIZE + PAGESIZE < ends(j)

InRange(p, j) ==
  p * PAGESIZE > starts(j) /\ p * PAGESIZE + PAGESIZE - 1 < ends(j)

pmem_init ==
  /\ pc = "pmem_init"
  /\ perm' = [p \in Pages |->
       IF p < VM_USERLO_PI \/ p >= VM_USERHI_PI THEN 1
       ELSE IF \E j \in DOMAIN pmmap_list : InRange(p, j) THEN 2 ELSE 0]
  /\ pc' = "done"
  /\ UNCHANGED <<handedOver, next, mmap, pmmap_list, slot, pmmap_sublist,
                 max_usable_memory>>

Next ==
  \/ BootNext /\ UNCHANGED mapVars
  \/ \E base \in Bases, length \in Lengths, type \in Types :
       pmmap_init(base, length, type)
  \/ pmmap_init_ends
  \/ pmmap_merge
  \/ pmmap_merge_ends
  \/ pmem_init

Spec == Init /\ [][Next]_vars

-----------------------------------------------------------------------------
\* "The start fields of all entries of the physical memory map are in
\* incremental order", before, during and after the merge, and the entries
\* fit their slots (pmmap_insert).
MapSorted ==
  /\ \A j, k \in DOMAIN pmmap_list :
       j < k => pmmap_list[j].start <= pmmap_list[k].start
  /\ Len(pmmap_list) <= SLOTS

\* An address below 4GB that the boot loader lists with a type.
Listed(a, type) ==
  \E e \in mmap : e.type = type /\ e.base <= a /\ a < e.base + e.length

\* Merging neither loses nor invents memory: the list covers, type by type,
\* the addresses that the boot loader has listed (pmmap_init, pmmap_merge).
MapKeepsMemory ==
  pc # "KERN_PANIC" => \A type \in Types, a \in 0 .. MAXADDR - 1 :
    Listed(a, type) <=>
      \E k \in DOMAIN pmmap_list : /\ pmmap_list[k].type = type
                                   /\ pmmap_list[k].start <= a
                                   /\ a < pmmap_list[k].end

\* The kernel looks at every descriptor that the BIOS has given, and at no
\* other, although only a descriptor of zeros tells where they end
\* (e820, parse_e820, pmmap_init).
MapHandedOver ==
  pc = "pmmap_merge" =>
    /\ next <= Len(smap)
    /\ \A k \in DOMAIN smap : smap[k] = "range" <=> k <= next

\* A page that palloc may hand out lies in the user area, and every byte of
\* it is memory that the boot loader calls usable (pmem_init).
NormalIsUsable ==
  pc = "done" => \A p \in Pages : perm[p] = 2 =>
    /\ p \in VM_USERLO_PI .. VM_USERHI_PI - 1
    /\ \A a \in p * PAGESIZE .. p * PAGESIZE + PAGESIZE - 1 : Listed(a, MEM_RAM)

\* A page of the user area that lies in one usable range of the boot loader is
\* handed out, in whatever order and however overlapped the ranges are
\* listed.  The page at the very start of a range is not (pmem_init).
UsableIsNormal ==
  pc = "done" => \A p \in VM_USERLO_PI .. VM_USERHI_PI - 1, e \in mmap :
    /\ e.type = MEM_RAM
    /\ e.base < p * PAGESIZE
    /\ (p + 1) * PAGESIZE <= e.base + e.length
    => perm[p] = 2
=============================================================================
