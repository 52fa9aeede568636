------------------------------- MODULE MPTFork -------------------------------
(***************************************************************************)
(* Virtual memory: page allocation on faults and for sys_mmap, fork with   *)
(* copy-on-write, the loading of a program and sys_puts' reading of user   *)
(* memory (MPTKern, MPTNew, MPTFork, pmap, elf, TTrapHandler, TSyscall).   *)
(*                                                                         *)
(* A physical page holds one value.  Any process may be the current one    *)
(* when the kernel is idle; how it comes to be is the subject of PProc.    *)
(* The kernel is not preempted: "job" is what it is doing and everybody    *)
(* else waits.  A job takes one step per page that is allocated or mapped. *)
(***************************************************************************)
EXTENDS MPTOp

CONSTANTS
  TextPages,    \* the pages of a program that are loaded read-only ...
  DataPages,    \*   ... and those it may write
  ProcQuotas,   \* the quotas processes are created with
  MmapFlags,    \* how programs use sys_mmap: SUPER, CONSECUTIVE or PAGE
  MmapPages,    \* the addresses they map pages at ...
  MmapPerms,    \* ... and the permissions they ask for
  Data          \* the values they write

VARIABLES
  mem,          \* the value in each physical page
  job,          \* what the kernel is doing, with its locals
  view,         \* history: what each process has reason to find in its pages
  partial       \* history: the processes reported as created although the
                \*   kernel ran out of memory while it built them, and those
                \*   forked from such a process

vmVars == <<vars, PDirPool, ptbl, mem, job, view, partial>>

Image     == 1  \* what a page of a program file holds
Firmware  == 9  \* what the memory below the user area holds
Value     == {0, Image, Firmware} \cup Data
ImagePages == TextPages \cup DataPages

\* A super page is one of the runs that the containers are asked for.
ASSUME ForkAssumption ==
  /\ SUPER_LEN \in Lens
  /\ TextPages \subseteq VPages /\ DataPages \subseteq VPages
  /\ ImagePages # {}
  /\ ProcQuotas \subseteq Nat
  /\ MmapFlags \subseteq {"SUPER", "CONSECUTIVE", "PAGE"}
  /\ MmapPages \subseteq VPages
  /\ \A perm \in MmapPerms : perm \subseteq PWU /\ {"PTE_P", "PTE_U"} \subseteq perm
  /\ Data \subseteq Nat \ {0, Image, Firmware}

Idle == [op |-> "user", caller |-> "none", pid |-> 0, first |-> 0, va |-> 0,
         left |-> 0, page |-> 0, perm |-> {}, from |-> 0, tries |-> 0]

paging_init ==
  /\ container_init
  /\ pdir_init
  /\ mem = [f \in Frames |-> IF f < VM_USERLO_PI THEN Firmware ELSE 0]
  /\ job = Idle
  /\ view = [id \in Ids |-> [v \in VPages |-> 0]]
  /\ partial = {}

Procs    == UsedIds \ {0}
InUser   == job.op = "user"
Goto(op) == job' = [job EXCEPT !.op = op]
Return   == job' = Idle

\* The pages an allocation of this step has handed out.  Where RoomAbove holds,
\* a page is held only while it is marked, so they are new to the process.
Got(id) == held'[id] \ held[id]

-----------------------------------------------------------------------------
(***************************************************************************)
(* Mapping: the loop of map_consecutive_page, which map_page is for one    *)
(* page, and what its callers do with the result.                          *)
(***************************************************************************)
AfterMap(ok) ==
  \/ job.caller = "sys_mmap" /\ Return
  \/ job.caller = "pgflt_handler" /\ IF ok THEN Return ELSE Goto("halt")
  \/ job.caller = "elf_load" /\ Goto("fill")
  \/ job.caller = "pt_copyin" /\ Goto("read")
  \/ /\ job.caller = "alloc_super_page"
     /\ job' = [job EXCEPT !.op = "remap", !.page =
          IF ok THEN EntryAsNumber(get_pdir_entry_by_va(job.pid, job.first))
                ELSE MagicNumber]
  \/ job.caller = "copy_on_write" /\ Goto("copy")

\* The slip of a mapping loop that forgets to move on to the next page.
map_consecutive_page_stays ==
  /\ job.op = "map" /\ job.left > 0
  /\ get_pdir_entry_by_va(job.pid, job.va) # 0
  /\ ptbl' = set_ptbl_entry_by_va(job.pid, job.va, Entry(job.page, job.perm))
  /\ job' = [job EXCEPT !.va = @ + 1, !.left = @ - 1]
  /\ view' = IF job.caller \in {"alloc_super_page", "copy_on_write"}
             THEN view ELSE [view EXCEPT ![job.pid][job.va] = 0]
  /\ UNCHANGED <<vars, PDirPool, mem, partial>>

\* One page of the loop.  A page that a process gets anew is zero; the pages
\* that copy_on_write maps have the content they had.
map_consecutive_page ==
  /\ job.op = "map" /\ job.left > 0
  /\ get_pdir_entry_by_va(job.pid, job.va) # 0
  /\ ptbl' = set_ptbl_entry_by_va(job.pid, job.va, Entry(job.page, job.perm))
  /\ job' = [job EXCEPT !.va = @ + 1, !.left = @ - 1, !.page = @ + 1]
  /\ view' = IF job.caller \in {"alloc_super_page", "copy_on_write"}
             THEN view ELSE [view EXCEPT ![job.pid][job.va] = 0]
  /\ UNCHANGED <<vars, PDirPool, mem, partial>>

\* The page table is missing.
alloc_ptbl ==
  /\ job.op = "map" /\ job.left > 0
  /\ get_pdir_entry_by_va(job.pid, job.va) = 0
  /\ container_alloc(job.pid)
  /\ \/ /\ Got(job.pid) = {}
        /\ AfterMap(FALSE)
        /\ UNCHANGED PDirPool
     \/ \E page \in Got(job.pid) :
          /\ PDirPool' = [PDirPool EXCEPT ![job.pid][PdeIndex(job.va)] = page]
          /\ UNCHANGED job
  /\ UNCHANGED <<ptbl, mem, view, partial>>

map_returns ==
  /\ job.op = "map" /\ job.left = 0
  /\ AfterMap(TRUE)
  /\ UNCHANGED <<vars, PDirPool, ptbl, mem, view, partial>>

(***************************************************************************)
(* The first half of alloc_page, alloc_consecutive_page and                *)
(* alloc_super_page: pages for a mapping from page v on.                   *)
(***************************************************************************)
MapJob(base, id, v, perm, page, len) ==
  [base EXCEPT !.op = "map", !.pid = id, !.first = v, !.va = v, !.perm = perm,
               !.left = len, !.page = page]

For(caller) == [Idle EXCEPT !.caller = caller]

alloc_page(base, id, v, perm) ==
  /\ container_alloc(id)
  /\ \E page \in Got(id) : job' = MapJob(base, id, v, perm, page, 1)
  /\ UNCHANGED <<PDirPool, ptbl, mem, view, partial>>

\* A slip: the pages are taken without being charged to the process.
alloc_consecutive_page_uncharged(base, id, v, perm, len) ==
  /\ \E page \in Norm :
       /\ consecutive_palloc(len, page)
       /\ held' = [held EXCEPT ![id] = @ \cup PageRun(page, len)]
       /\ job' = MapJob(base, id, v, perm, page, len)
  /\ UNCHANGED <<CONTAINER, PDirPool, ptbl, mem, view, partial>>

alloc_consecutive_page(base, id, v, perm, len) ==
  /\ container_consecutive_alloc(id, len)
  /\ \E page \in Got(id) :
       /\ \A q \in Got(id) : page <= q
       /\ job' = MapJob(base, id, v, perm, page, len)
  /\ UNCHANGED <<PDirPool, ptbl, mem, view, partial>>

alloc_super_page(base, id, v, perm) ==
  alloc_consecutive_page(base, id, v, perm \cup {"P_SUPER"}, SUPER_LEN)

\* No page for the mapping; the caller goes on with the step "next".
alloc_page_fails(id, next) ==
  /\ container_alloc(id)
  /\ Got(id) = {}
  /\ job' = next
  /\ UNCHANGED <<PDirPool, ptbl, mem, view, partial>>

alloc_consecutive_page_fails(id, len, next) ==
  /\ container_consecutive_alloc(id, len)
  /\ Got(id) = {}
  /\ job' = next
  /\ UNCHANGED <<PDirPool, ptbl, mem, view, partial>>

-----------------------------------------------------------------------------
(***************************************************************************)
(* Programs                                                                *)
(***************************************************************************)
Write(id, v, data) ==
  /\ InUser
  /\ "PTE_W" \in get_ptbl_entry_by_va(id, v).perm
  /\ mem' = [mem EXCEPT ![get_ptbl_entry_by_va(id, v).frame] = data]
  /\ view' = [view EXCEPT ![id][v] = data]
  /\ UNCHANGED <<vars, PDirPool, ptbl, job, partial>>

\* A first access, by reading or writing, to a page that is not mapped.
pgflt_handler(id, v) ==
  /\ InUser
  /\ ~Present(id, v)
  /\ \/ alloc_page(For("pgflt_handler"), id, v, PWU)
     \/ alloc_page_fails(id, [Idle EXCEPT !.op = "halt"])

\* A write to a page that is not writable and not copy-on-write.
pgflt_handler_panics(id, v) ==
  /\ InUser
  /\ Present(id, v)
  /\ {"PTE_W", "PTE_COW"} \cap get_ptbl_entry_by_va(id, v).perm = {}
  /\ Goto("halt")
  /\ UNCHANGED <<vars, PDirPool, ptbl, mem, view, partial>>

\* Pages a program maps itself.  A request for no page changes nothing, and a
\* super page has room for another one behind it.
sys_mmap(id, v, perm) ==
  /\ InUser
  /\ \/ /\ "SUPER" \in MmapFlags
        /\ v + 2 * SUPER_LEN - 2 \in VPages
        /\ \/ alloc_super_page(For("sys_mmap"), id, v, perm)
           \/ alloc_consecutive_page_fails(id, SUPER_LEN, Idle)
     \/ /\ "CONSECUTIVE" \in MmapFlags
        /\ \E len \in Lens \ {0} :
             /\ v + len - 1 \in VPages
             /\ \/ alloc_consecutive_page(For("sys_mmap"), id, v, perm, len)
                \/ alloc_consecutive_page_fails(id, len, Idle)
     \/ /\ "PAGE" \in MmapFlags
        /\ \/ alloc_page(For("sys_mmap"), id, v, perm)
           \/ alloc_page_fails(id, Idle)

-----------------------------------------------------------------------------
(***************************************************************************)
(* Copy-on-write                                                           *)
(***************************************************************************)
WritesToCow(id, v) ==
  /\ InUser
  /\ "PTE_COW" \in get_ptbl_entry_by_va(id, v).perm
  /\ "PTE_W" \notin get_ptbl_entry_by_va(id, v).perm

\* A slip: the new page is mapped before the old one is looked up, so that it
\* is copied to itself.
copy_on_write_itself(id, v) ==
  /\ WritesToCow(id, v)
  /\ "P_SUPER" \notin get_ptbl_entry_by_va(id, v).perm
  /\ container_alloc(id)
  /\ \E page \in Got(id) : ptbl' = set_ptbl_entry_by_va(id, v, Entry(page, PWU))
  /\ UNCHANGED <<PDirPool, mem, job, view, partial>>

\* A slip: the old page is given back, although others may have it mapped and
\* nobody clears it.
copy_on_write_frees(id, v) ==
  /\ WritesToCow(id, v)
  /\ \E page \in Norm :
       /\ FirstFree(page)
       /\ CONTAINER[id].usage < CONTAINER[id].quota
       /\ allocated' = (allocated \cup {page})
                         \ {get_ptbl_entry_by_va(id, v).frame}
       /\ held' = [held EXCEPT ![id] = @ \cup {page}]
       /\ ptbl' = set_ptbl_entry_by_va(id, v, Entry(page, PWU))
       /\ mem' = [mem EXCEPT ![page] = mem[get_ptbl_entry_by_va(id, v).frame]]
  /\ UNCHANGED <<CONTAINER, PDirPool, job, view, partial>>

\* A common page.  Without memory nothing changes and the write faults again.
copy_on_write(id, v) ==
  /\ WritesToCow(id, v)
  /\ "P_SUPER" \notin get_ptbl_entry_by_va(id, v).perm
  /\ container_alloc(id)
  /\ \/ /\ Got(id) = {}
        /\ UNCHANGED <<ptbl, mem>>
     \/ \E page \in Got(id) :
          /\ ptbl' = set_ptbl_entry_by_va(id, v, Entry(page, PWU))
          /\ mem' = [mem EXCEPT ![page] = mem[get_ptbl_entry_by_va(id, v).frame]]
  /\ UNCHANGED <<PDirPool, job, view, partial>>

\* A super page: the copy is mapped from the page of the fault on, first with
\* the pages alloc_super_page got ...
copy_on_write_super(id, v) ==
  LET base == [For("alloc_super_page") EXCEPT
                 !.from = get_ptbl_entry_by_va(id, v).frame]
  IN  /\ WritesToCow(id, v)
      /\ "P_SUPER" \in get_ptbl_entry_by_va(id, v).perm
      /\ v + SUPER_LEN - 1 \in VPages
      /\ IF SearchIsEndless(id, v)
         THEN Goto("hang") /\ UNCHANGED <<vars, PDirPool, ptbl, mem, view,
                                          partial>>
         ELSE \/ alloc_super_page(base, id, v, PWU)
              \/ alloc_consecutive_page_fails(id, SUPER_LEN,
                   [base EXCEPT !.op = "remap", !.pid = id, !.first = v,
                                !.va = v, !.page = MagicNumber])

\* ... then with pages numbered by what alloc_super_page returned ...
copy_on_write_remaps ==
  /\ job.op = "remap"
  /\ IF SearchIsEndless(job.pid, job.first)
     THEN Goto("hang") /\ UNCHANGED ptbl
     ELSE /\ ptbl' = unmap_page(job.pid, job.first)
          /\ job' = [job EXCEPT !.op = "map", !.caller = "copy_on_write",
                       !.va = job.first, !.left = SUPER_LEN,
                       !.perm = PWU \cup {"P_SUPER"}]
  /\ UNCHANGED <<vars, PDirPool, mem, view, partial>>

\* ... into which the old pages are copied in ascending order.
copy_on_write_copies ==
  /\ job.op = "copy"
  /\ LET from == job.from
         to   == get_ptbl_entry_by_va(job.pid, job.first).frame
         Source(i) == IF from < to THEN from + (i % (to - from)) ELSE from + i
     IN  mem' = [f \in Frames |->
           IF \E i \in 0 .. SUPER_LEN - 1 : f = (to + i) % FRAMES
           THEN mem[Source((f - to) % FRAMES) % FRAMES]
           ELSE mem[f]]
  /\ Return
  /\ UNCHANGED <<vars, PDirPool, ptbl, view, partial>>

-----------------------------------------------------------------------------
(***************************************************************************)
(* Creating processes                                                      *)
(***************************************************************************)
ForkQuota(id) == (CONTAINER[id].quota - CONTAINER[id].usage) \div 2

\* The child is added to the containers; the copying starts at the first
\* directory entry.
proc_fork(id) ==
  /\ InUser
  /\ \E child \in Ids :
       /\ container_split(id, ForkQuota(id), child)
       /\ job' = [Idle EXCEPT !.op = "vmm_copy", !.pid = child]
       /\ view' = [view EXCEPT ![child] = view[id]]
       /\ partial' = IF id \in partial THEN partial \cup {child} ELSE partial
  /\ UNCHANGED <<allocated, held, PDirPool, ptbl, mem>>

Shared(e) ==
  [frame |-> e.frame,
   perm |-> {"PTE_P", "PTE_U", "PTE_COW"} \cup (e.perm \cap {"P_SUPER"})]

\* The directory entry of the parent that is looked at next.
NextPde(parent, i) ==
  /\ PDirPool[parent][i] # 0
  /\ job.va <= i
  /\ \A h \in job.va .. i - 1 : PDirPool[parent][h] = 0

\* A slip: the entries of the parent stay writable.
vmm_copy_child_only ==
  LET child  == job.pid
      parent == CONTAINER[child].parent
  IN  /\ job.op = "vmm_copy"
      /\ \E i \in 0 .. NPDE - 1 :
           /\ NextPde(parent, i)
           /\ container_alloc(child)
           /\ \E page \in Got(child) :
                /\ PDirPool' = [PDirPool EXCEPT ![child][i] = page]
                /\ ptbl' = [ptbl EXCEPT
                     ![page] = [j \in 0 .. NPTE - 1 |->
                       IF "PTE_P" \in ptbl[PDirPool[parent][i]][j].perm
                       THEN Shared(ptbl[PDirPool[parent][i]][j]) ELSE @[j]]]
                /\ job' = [job EXCEPT !.va = i + 1]
                /\ UNCHANGED partial
      /\ UNCHANGED <<mem, view>>

\* A slip: the child uses the page table of the parent.
vmm_copy_shares_table ==
  LET child  == job.pid
      parent == CONTAINER[child].parent
  IN  /\ job.op = "vmm_copy"
      /\ \E i \in 0 .. NPDE - 1 :
           /\ NextPde(parent, i)
           /\ PDirPool' = [PDirPool EXCEPT ![child][i] = PDirPool[parent][i]]
           /\ job' = [job EXCEPT !.va = i + 1]
      /\ UNCHANGED <<vars, ptbl, mem, view, partial>>

\* One page table of the parent, with all its entries.  Without memory for
\* the table of the child vmm_copy returns, and the fork is a success.
vmm_copy ==
  LET child  == job.pid
      parent == CONTAINER[child].parent
      Copy(i, t) == [j \in 0 .. NPTE - 1 |->
                       LET e == ptbl[PDirPool[parent][i]][j]
                       IN  IF "PTE_P" \in e.perm THEN Shared(e) ELSE ptbl[t][j]]
  IN  /\ job.op = "vmm_copy"
      /\ \E i \in 0 .. NPDE - 1 :
           /\ NextPde(parent, i)
           /\ container_alloc(child)
           /\ \/ /\ Got(child) = {}
                 /\ partial' = partial \cup {child}
                 /\ Return
                 /\ UNCHANGED <<PDirPool, ptbl>>
              \/ \E page \in Got(child) :
                   /\ PDirPool' = [PDirPool EXCEPT ![child][i] = page]
                   /\ ptbl' = [ptbl EXCEPT
                        ![PDirPool[parent][i]] = Copy(i, PDirPool[parent][i]),
                        ![page] = Copy(i, page)]
                   /\ job' = [job EXCEPT !.va = i + 1]
                   /\ UNCHANGED partial
      /\ UNCHANGED <<mem, view>>

vmm_copy_returns ==
  /\ job.op = "vmm_copy"
  /\ \A i \in job.va .. NPDE - 1 : PDirPool[CONTAINER[job.pid].parent][i] = 0
  /\ Return
  /\ UNCHANGED <<vars, PDirPool, ptbl, mem, view, partial>>

\* The page of the program that is loaded after page v.
NextPage(v) == {w \in ImagePages : w > v /\ \A u \in ImagePages : u > v => w <= u}

\* The monitor creates the first process as a child of process 0.
proc_create(id, quota) ==
  /\ InUser
  /\ container_can_consume(id, quota)
  /\ \E child \in Ids, v \in NextPage(-1) :
       /\ container_split(id, quota, child)
       /\ job' = [Idle EXCEPT !.op = "load", !.pid = child, !.first = v]
  /\ UNCHANGED <<allocated, held, PDirPool, ptbl, mem, view, partial>>

\* alloc_page, whose result is not looked at.  A complete page is then
\* filled by pt_copyout, and one that the file fills in part by pt_memset and
\* pt_copyout, each of which allocates the page if it is not there.
elf_load ==
  /\ job.op = "load"
  /\ \E tries \in {1, 2} :
       LET base == [job EXCEPT !.caller = "elf_load", !.tries = tries]
           perm == IF job.first \in TextPages THEN {"PTE_P", "PTE_U"} ELSE PWU
       IN  \/ alloc_page(base, job.pid, job.first, perm)
           \/ alloc_page_fails(job.pid, [base EXCEPT !.op = "fill"])

\* A slip: the page is asked for until it is there.
pt_copyout_retries ==
  /\ job.op = "fill"
  /\ ~Present(job.pid, job.first)
  /\ \/ alloc_page(job, job.pid, job.first, PWU)
     \/ alloc_page_fails(job.pid, job)

pt_copyout_allocates ==
  LET base == [job EXCEPT !.tries = @ - 1]
  IN  /\ job.op = "fill" /\ job.tries > 0
      /\ ~Present(job.pid, job.first)
      /\ \/ alloc_page(base, job.pid, job.first, PWU)
         \/ alloc_page_fails(job.pid, base)

\* The page is written at the physical address in its entry, which is 0 if
\* there is no entry.
pt_copyout ==
  /\ job.op = "fill"
  /\ Present(job.pid, job.first) \/ job.tries = 0
  /\ mem' = [mem EXCEPT ![get_ptbl_entry_by_va(job.pid, job.first).frame] = Image]
  /\ view' = [view EXCEPT ![job.pid][job.first] = Image]
  /\ partial' = IF Present(job.pid, job.first) THEN partial
                ELSE partial \cup {job.pid}
  /\ \/ NextPage(job.first) = {} /\ Return
     \/ \E v \in NextPage(job.first) :
          job' = [Idle EXCEPT !.op = "load", !.pid = job.pid, !.first = v]
  /\ UNCHANGED <<vars, PDirPool, ptbl>>

-----------------------------------------------------------------------------
(***************************************************************************)
(* sys_puts: pt_copyin of one page of the string                           *)
(***************************************************************************)
\* A slip: pages the process has not touched yet are not mapped.
sys_puts_mapped_only(id, v) ==
  /\ InUser
  /\ job' = [For("pt_copyin") EXCEPT !.op = "read", !.pid = id, !.first = v]
  /\ UNCHANGED <<vars, PDirPool, ptbl, mem, view, partial>>

sys_puts(id, v) ==
  /\ InUser
  /\ \/ /\ Present(id, v)
        /\ job' = [For("pt_copyin") EXCEPT !.op = "read", !.pid = id, !.first = v]
        /\ UNCHANGED <<vars, PDirPool, ptbl, mem, view, partial>>
     \/ /\ ~Present(id, v)
        /\ \/ alloc_page(For("pt_copyin"), id, v, PWU)
           \/ alloc_page_fails(id, [For("pt_copyin") EXCEPT
                                      !.op = "read", !.pid = id, !.first = v])

pt_copyin ==
  /\ job.op = "read"
  /\ Return
  /\ UNCHANGED <<vars, PDirPool, ptbl, mem, view, partial>>

-----------------------------------------------------------------------------
KernelWork ==
  \/ map_consecutive_page \/ alloc_ptbl \/ map_returns
  \/ copy_on_write_remaps \/ copy_on_write_copies
  \/ vmm_copy \/ vmm_copy_returns
  \/ elf_load \/ pt_copyout_allocates \/ pt_copyout
  \/ pt_copyin

Next ==
  \/ KernelWork
  \/ \E id \in Procs, v \in VPages :
       \/ \E data \in Data : Write(id, v, data)
       \/ pgflt_handler(id, v) \/ pgflt_handler_panics(id, v)
       \/ copy_on_write(id, v) \/ copy_on_write_super(id, v)
       \/ sys_puts(id, v)
  \/ \E id \in Procs, v \in MmapPages, perm \in MmapPerms : sys_mmap(id, v, perm)
  \/ \E id \in Procs : proc_fork(id)
  \/ \E id \in Procs, quota \in ProcQuotas : proc_create(id, quota)
  \/ \E quota \in ProcQuotas : Procs = {} /\ proc_create(0, quota)

\* The loops of the kernel run to their end.
Spec == paging_init /\ [][Next]_vmVars /\ WF_vmVars(KernelWork)

-----------------------------------------------------------------------------
(***************************************************************************)
(* Properties                                                              *)
(***************************************************************************)
Job ==
  [op : {"user", "map", "remap", "copy", "vmm_copy", "load", "fill", "read",
         "halt", "hang"},
   caller : {"none", "sys_mmap", "pgflt_handler", "elf_load", "pt_copyin",
             "alloc_super_page", "copy_on_write"},
   pid : Ids, first : VPages, va : 0 .. NPDE * NPTE, left : Nat, page : Nat,
   perm : SUBSET Flags, from : Frames, tries : 0 .. 2]

\* Directories point to pages that palloc can hand out, entries name frames,
\* and a job's locals are in range.
VmTypeOK ==
  /\ PDirPool \in [Ids -> [0 .. NPDE - 1 -> Norm \cup {0}]]
  /\ ptbl \in [Norm -> [0 .. NPTE - 1 -> [frame : Frames, perm : SUBSET Flags]]]
  /\ mem \in [Frames -> Value]
  /\ job \in Job
  /\ view \in [Ids -> [VPages -> Value]]
  /\ partial \subseteq Ids

\* What a process finds in page v: a first access gets it a page of zeros.
Content(id, v) ==
  IF Present(id, v) THEN mem[get_ptbl_entry_by_va(id, v).frame] ELSE 0

\* A process that was built completely finds in every page what it wrote
\* there last, or inherited or loaded, and zero in the others: no write of
\* another process shows through a page shared by fork, no copy loses one, and
\* no page that was inherited or loaded is missing (vmm_copy, copy_on_write,
\* alloc_page, elf_load).
PrivateMemory ==
  InUser => \A id \in Procs \ partial, v \in VPages :
    Content(id, v) = view[id][v]

\* A frame that one process can write is mapped nowhere else, in its own
\* address space included (copy_on_write, vmm_copy's removal of PTE_W).
WritableExclusive ==
  \A i, j \in Procs, v, w \in VPages :
    /\ "PTE_W" \in get_ptbl_entry_by_va(i, v).perm
    /\ Present(j, w)
    /\ get_ptbl_entry_by_va(i, v).frame = get_ptbl_entry_by_va(j, w).frame
    => i = j /\ v = w

\* A page table belongs to one directory entry of the process that paid for
\* it, and no process has it mapped as data, so that no program can change
\* a mapping (alloc_ptbl, vmm_copy).
TablesPrivate ==
  \A i \in Ids, g \in 0 .. NPDE - 1 :
    PDirPool[i][g] # 0 =>
      /\ PDirPool[i][g] \in held[i]
      /\ \A j \in Ids, h \in 0 .. NPDE - 1 :
           PDirPool[j][h] = PDirPool[i][g] => j = i /\ h = g
      /\ \A j \in Procs, v \in VPages :
           Present(j, v) => get_ptbl_entry_by_va(j, v).frame # PDirPool[i][g]

\* The pages sys_mmap maps are consecutive pages that the caller owns, from
\* the address it asked for on, even when they lie in several page tables
\* and the tables are allocated on the way.
MmapConsecutive ==
  job.op = "map" /\ job.left = 0 /\ job.caller = "sys_mmap" =>
    \A v \in job.first .. job.va - 1 :
      /\ get_ptbl_entry_by_va(job.pid, v) =
           Entry(job.page - (job.va - v), job.perm)
      /\ get_ptbl_entry_by_va(job.pid, v).frame \in held[job.pid]

\* A page that palloc can still hand out holds zeros, as data and as a page
\* table: alloc_page and alloc_ptbl never clear what they get, and neither the
\* old content of a page nor an old entry may come back through them.
FreePagesAreZero ==
  \A p \in FreePages :
    mem[p] = 0 /\ \A j \in 0 .. NPTE - 1 : ptbl[p][j] = Zero

\* What sys_puts prints is the memory of the caller, mapped or not when it is
\* called; pt_copyin reads elsewhere only if there is no memory to map it.
ReadsOwnMemory ==
  job.op = "read" /\ job.pid \notin partial =>
    IF Present(job.pid, job.first)
    THEN mem[get_ptbl_entry_by_va(job.pid, job.first).frame]
           = view[job.pid][job.first]
    ELSE FreePages = {} \/ ~container_can_consume(job.pid, 1)

\* The virtual memory layers use the containers only in the ways of KernelSpec.
UsesContainers == KernelSpec

\* A page fault or system call that enters the kernel comes to an end, or the
\* machine halts with a message.
KernelWorkEnds == job.op # "user" ~> job.op \in {"user", "halt"}
=============================================================================
