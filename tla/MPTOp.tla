-------------------------------- MODULE MPTOp --------------------------------
(***************************************************************************)
(* The page structures of the processes: page directories, the page tables *)
(* they point to, and the operations of MPTIntro, MPTOp and MPTKern that   *)
(* read and write them without allocating.                                 *)
(*                                                                         *)
(* Only the user part of an address space is modelled.  A virtual address  *)
(* is given by its page number, counted from VM_USERLO.  The kernel part   *)
(* is the same identity map for everybody and is never changed.            *)
(***************************************************************************)
EXTENDS MContainer

CONSTANTS
  NPDE,      \* user entries of a page directory (704)
  NPTE,      \* entries of a page table (1024)
  PAGESIZE,  \* 4096
  FRAMES     \* 2^20: the number of page frames an entry can name

\* An entry is an address of 32 bits: the frame and, below it, the flags.
ASSUME PagingAssumption ==
  /\ NPDE \in Nat \ {0} /\ NPTE \in Nat \ {0} /\ PAGESIZE \in Nat \ {0}
  /\ FRAMES \in Nat /\ VM_USERHI_PI <= FRAMES
  /\ SUPER_LEN <= NPDE * NPTE

VARIABLES
  PDirPool,  \* the page table behind each user entry of each directory, or 0
  ptbl       \* the content of the physical pages used as page tables

VPages == 0 .. NPDE * NPTE - 1
Frames == 0 .. FRAMES - 1

PdeIndex(v) == v \div NPTE
PteIndex(v) == v % NPTE

Flags == {"PTE_P", "PTE_W", "PTE_U", "PTE_COW", "P_SUPER"}
PWU   == {"PTE_P", "PTE_W", "PTE_U"}
Zero  == [frame |-> 0, perm |-> {}]

\* A slip: entries are taken to be wider than 32 bits.
Entry_wide(page_index, perm) == [frame |-> page_index, perm |-> perm]

\* A page number is shifted into an entry of 32 bits.
Entry(page_index, perm) == [frame |-> page_index % FRAMES, perm |-> perm]

\* What alloc_super_page returns is a directory entry, as a number: the
\* address of the table and the flags PTE_P, PTE_W and PTE_U.
EntryAsNumber(table) == table * PAGESIZE + 7
MagicNumber == FRAMES + 1

-----------------------------------------------------------------------------
\* pdir_init: no process has a user page; memory is zero when it is first used.
pdir_init ==
  /\ PDirPool = [id \in Ids |-> [i \in 0 .. NPDE - 1 |-> 0]]
  /\ ptbl = [t \in Norm |-> [j \in 0 .. NPTE - 1 |-> Zero]]

get_pdir_entry_by_va(id, v) == PDirPool[id][PdeIndex(v)]

\* Zero if the page or its table is not present, and below the user area,
\* where no entry has the flag PTE_U.
get_ptbl_entry_by_va(id, v) ==
  IF v \in VPages /\ get_pdir_entry_by_va(id, v) # 0
  THEN LET e == ptbl[get_pdir_entry_by_va(id, v)][PteIndex(v)]
       IN  IF "PTE_P" \in e.perm THEN e ELSE Zero
  ELSE Zero

Present(id, v) == get_ptbl_entry_by_va(id, v) # Zero

\* The tables once the entry of v is set.
set_ptbl_entry_by_va(id, v, e) ==
  [ptbl EXCEPT ![get_pdir_entry_by_va(id, v)][PteIndex(v)] = e]

\* The tables once the entries of a set of pages are removed.
rmv_ptbl_entries(id, vs) ==
  [t \in Norm |-> [j \in 0 .. NPTE - 1 |->
     IF \E v \in vs : get_pdir_entry_by_va(id, v) = t /\ PteIndex(v) = j
     THEN Zero ELSE ptbl[t][j]]]

\* unmap_consecutive_page stops at the first page that is not mapped.
unmap_consecutive_page(id, v, len) ==
  rmv_ptbl_entries(id, {w \in v .. v + len - 1 :
                          \A u \in v .. w : Present(id, u)})

unmap_page(id, v) ==
  IF "P_SUPER" \in get_ptbl_entry_by_va(id, v).perm
  THEN unmap_consecutive_page(id, v, SUPER_LEN)
  ELSE rmv_ptbl_entries(id, {w \in {v} : Present(id, w)})

\* The search for the first page of a super page compares the neighbour of
\* the page it started from, again and again.
SearchIsEndless(id, v) ==
  /\ "P_SUPER" \in get_ptbl_entry_by_va(id, v).perm
  /\ get_ptbl_entry_by_va(id, v - 1) = get_ptbl_entry_by_va(id, v)
=============================================================================
