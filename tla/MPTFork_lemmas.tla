--------------------------- MODULE MPTFork_lemmas ---------------------------
(***************************************************************************)
(* The inductive invariant of virtual memory without super pages, and the  *)
(* facts about page tables and allocations that its proof uses.            *)
(***************************************************************************)
EXTENDS MPTFork, MContainer_proofs

\* Super pages come into being by sys_mmap with the flag SUPER only.
NoSuperPages == "SUPER" \notin MmapFlags

Pdes == 0 .. NPDE - 1
Ptes == 0 .. NPTE - 1

E(id, v) == get_ptbl_entry_by_va(id, v)

\* The pages that somebody has been handed, and those used as page tables.
Owned == UNION {held[id] : id \in Ids}
IsTable(p) == \E id \in Ids, g \in Pdes : PDirPool[id][g] = p
IsMapped(p) == \E id \in Ids, v \in VPages : Present(id, v) /\ E(id, v).frame = p

\* Who the kernel works for, and how far its loops may run.
JobRange ==
  /\ job.op \notin {"user", "halt", "hang"} => job.pid \in Procs
  /\ job.op = "map" => job.va + job.left <= NPDE * NPTE
  /\ job.op = "map" => job.caller # "none"
  /\ job.op = "fill" => job.caller = "elf_load"
  /\ job.op = "remap" => job.caller = "alloc_super_page"
  /\ job.caller = "alloc_super_page" => job.first + SUPER_LEN <= NPDE * NPTE

TypeInv == VmTypeOK /\ QuotaInv /\ JobRange

\* What is handed out lies in the user area.
RangeInv ==
  \A id \in Ids : held[id] \subseteq VM_USERLO_PI .. VM_USERHI_PI - 1

TablesInv ==
  /\ \A id \in Ids, g \in Pdes :
       PDirPool[id][g] # 0 => PDirPool[id][g] \in held[id] /\ id \in Procs
  /\ \A i, j \in Ids, g, h \in Pdes :
       PDirPool[i][g] # 0 /\ PDirPool[i][g] = PDirPool[j][h] => i = j /\ g = h
  /\ \A t \in Norm, k \in Ptes : ptbl[t][k] # Zero => IsTable(t)

EntriesInv ==
  /\ \A id \in Ids, v \in VPages : Present(id, v) =>
       /\ E(id, v).frame \in Owned /\ ~IsTable(E(id, v).frame)
       /\ "P_SUPER" \notin E(id, v).perm
       /\ "PTE_W" \in E(id, v).perm => "PTE_COW" \notin E(id, v).perm
  /\ \A i, j \in Ids, v, w \in VPages :
       /\ Present(i, v) /\ "PTE_COW" \notin E(i, v).perm
       /\ Present(j, w) /\ E(i, v).frame = E(j, w).frame
       => i = j /\ v = w

\* The pages a job still has to map are new and zero; those it has mapped lie
\* where they should.
MapInv ==
  job.op = "map" =>
    /\ job.perm \subseteq PWU /\ "PTE_P" \in job.perm
    /\ job.va >= job.first
    /\ job.left = 0 => job.va > job.first
    /\ \A p \in PageRun(job.page, job.left) :
         p \in held[job.pid] /\ ~IsTable(p) /\ ~IsMapped(p) /\ mem[p] = 0
    /\ \A v \in job.first .. job.va - 1 :
         /\ job.page - (job.va - v) \in held[job.pid]
         /\ E(job.pid, v) = Entry(job.page - (job.va - v), job.perm)

JobInv ==
  /\ job.op \notin {"remap", "copy", "hang"}
  /\ job.caller \notin {"alloc_super_page", "copy_on_write"}
  /\ job.op \in {"load", "fill"} \/ (job.op = "map" /\ job.caller = "elf_load") =>
       \A v \in VPages : Present(job.pid, v) => "PTE_COW" \notin E(job.pid, v).perm
  /\ job.op = "read" /\ ~Present(job.pid, job.first) =>
       FreePages = {} \/ ~container_can_consume(job.pid, 1)

\* The child of a fork has what the copying has reached of the parent's pages.
CopyInv ==
  job.op = "vmm_copy" =>
    LET parent == CONTAINER[job.pid].parent
    IN  /\ parent \in Procs /\ parent # job.pid /\ job.va \in 0 .. NPDE
        /\ parent \in partial => job.pid \in partial
        /\ \A v \in VPages :
             /\ view[job.pid][v] = view[parent][v]
             /\ PdeIndex(v) < job.va =>
                  /\ Present(job.pid, v) <=> Present(parent, v)
                  /\ E(job.pid, v).frame = E(parent, v).frame
        /\ \A g \in Pdes : g >= job.va => PDirPool[job.pid][g] = 0

MemInv ==
  /\ \A f \in Frames : f >= VM_USERLO_PI /\ f \notin Owned => mem[f] = 0
  /\ \A id \in Ids \ Procs, v \in VPages : view[id][v] = 0
  /\ \A id \in Procs \ partial, v \in VPages :
       ~(job.op = "vmm_copy" /\ id = job.pid) => Content(id, v) = view[id][v]

PagingInv ==
  TablesInv /\ EntriesInv /\ MapInv /\ JobInv /\ CopyInv /\ MemInv

VmInv == TypeInv /\ OwnershipInv /\ RangeInv /\ PagingInv


-----------------------------------------------------------------------------
\* A page number splits into the indices of its directory and table entry.
LEMMA Indices ==
  /\ \A v \in VPages : v \in Nat /\ PdeIndex(v) \in Pdes /\ PteIndex(v) \in Ptes
  /\ \A v, w \in VPages :
       PdeIndex(v) = PdeIndex(w) /\ PteIndex(v) = PteIndex(w) => v = w
  <1> USE PagingAssumption
  <1>1. NPDE * NPTE \in Nat
    OBVIOUS
  <1>2. ASSUME NEW v \in VPages
        PROVE  /\ v \in Nat /\ v < NPDE * NPTE
               /\ PdeIndex(v) \in Nat /\ PteIndex(v) \in Ptes
               /\ v = NPTE * PdeIndex(v) + PteIndex(v)
    <2>1. v \in Nat /\ v < NPDE * NPTE
      BY <1>1 DEF VPages
    <2>2. /\ v \div NPTE \in Nat /\ v % NPTE \in 0 .. NPTE - 1
          /\ v = NPTE * (v \div NPTE) + (v % NPTE)
      BY <2>1
    <2> QED BY <2>1, <2>2 DEF PdeIndex, PteIndex, Ptes
  <1>3. ASSUME NEW v \in VPages
        PROVE  PdeIndex(v) \in Pdes
    <2> DEFINE d == PdeIndex(v)
    <2>1. d \in Nat /\ NPTE * d <= v /\ v < NPDE * NPTE /\ v \in Nat
      BY <1>2 DEF Ptes
    <2> HIDE DEF d
    <2>2. ~(d >= NPDE)
      <3> SUFFICES ASSUME d >= NPDE PROVE FALSE
        OBVIOUS
      <3>1. PICK x \in Nat : d = NPDE + x
        <4>1. d - NPDE \in Nat /\ d = NPDE + (d - NPDE)
          BY <2>1
        <4> QED BY <4>1
      <3>2. NPTE * (NPDE + x) = NPDE * NPTE + NPTE * x /\ NPTE * x \in Nat
        OBVIOUS
      <3> QED BY <1>1, <2>1, <3>1, <3>2
    <2> QED BY <2>1, <2>2 DEF Pdes, d
  <1> QED BY <1>2, <1>3

\* Constants of the address space.
LEMMA Spaces ==
  /\ NPDE \in Nat /\ NPDE > 0 /\ NPTE \in Nat /\ NPTE > 0
  /\ NPDE * NPTE \in Nat /\ NPDE <= NPDE * NPTE
  /\ 0 \in VPages /\ 0 \in Frames
  /\ FRAMES \in Nat /\ FRAMES > 0 /\ VM_USERHI_PI <= FRAMES
  /\ SUPER_LEN \in Nat /\ SUPER_LEN > 0 /\ SUPER_LEN <= NPDE * NPTE
  /\ Norm \subseteq Nat /\ 0 \notin Norm
  /\ 0 \in Ids /\ Lens \subseteq Nat
  <1>1. NPDE \in Nat /\ NPDE > 0 /\ NPTE \in Nat /\ NPTE > 0
    BY PagingAssumption
  <1>2. NPDE * NPTE \in Nat /\ NPDE <= NPDE * NPTE
    BY <1>1
  <1>3. /\ SUPER_LEN \in Nat /\ SUPER_LEN > 0 /\ SUPER_LEN <= NPDE * NPTE
    BY <1>1, <1>2, PagingAssumption, ContainerAssumption
  <1>4. /\ FRAMES \in Nat /\ FRAMES > 0 /\ VM_USERHI_PI <= FRAMES
        /\ Norm \subseteq Nat /\ 0 \notin Norm
    BY PagingAssumption, PageAssumption
  <1>5. 0 \in Ids /\ Lens \subseteq Nat
    BY ContainerAssumption DEF Ids
  <1>6. 0 \in VPages
    BY <1>2, <1>3 DEF VPages
  <1>7. 0 \in Frames
    BY <1>4 DEF Frames
  <1> QED BY <1>1, <1>2, <1>3, <1>4, <1>5, <1>6, <1>7

\* Page 0 is no page that can be handed out.
LEMMA Pages == (\A p \in Norm : p \in Nat) /\ 0 \notin Norm
  BY PageAssumption

-----------------------------------------------------------------------------
\* One page for a process: it gets that page or nothing, and nobody else
\* notices.
LEMMA AllocGot ==
  ASSUME QuotaInv, NEW id \in UsedIds, container_alloc(id)
  PROVE  /\ UsedIds' = UsedIds
         /\ \A c \in Ids : CONTAINER'[c].parent = CONTAINER[c].parent
         /\ Got(id) = {} \/ \E page \in Norm : FirstFree(page) /\ Got(id) = {page}
         /\ held' = [held EXCEPT ![id] = held[id] \cup Got(id)]
  <1>1. PICK page \in Norm \cup {0} :
          /\ palloc(page)
          /\ IF page # 0 /\ CONTAINER[id].usage < CONTAINER[id].quota
             THEN /\ CONTAINER' = [CONTAINER EXCEPT ![id].usage = @ + 1]
                  /\ held' = [held EXCEPT ![id] = @ \cup {page}]
             ELSE UNCHANGED <<CONTAINER, held>>
    BY DEF container_alloc
  <1>2. /\ id \in Ids /\ CONTAINER \in [Ids -> Container]
        /\ held \in [Ids -> SUBSET Nat]
    BY DEF UsedIds, QuotaInv, TypeOK
  <1>3. CASE page # 0 /\ CONTAINER[id].usage < CONTAINER[id].quota
    <2>1. \A c \in Ids : /\ CONTAINER'[c].parent = CONTAINER[c].parent
                         /\ CONTAINER'[c].used = CONTAINER[c].used
      BY <1>1, <1>2, <1>3 DEF Container
    <2>2. UsedIds' = UsedIds
      BY <2>1 DEF UsedIds
    <2>3. Got(id) = {page} \ held[id]
      BY <1>1, <1>2, <1>3 DEF Got
    <2>4. FirstFree(page) /\ page \in Norm
      BY <1>1, <1>3 DEF palloc, FirstFree, FreePages
    <2>5. held' = [held EXCEPT ![id] = held[id] \cup Got(id)]
      BY <1>1, <1>2, <1>3, <2>3
    <2>6. Got(id) = {} \/ \E q \in Norm : FirstFree(q) /\ Got(id) = {q}
      BY <2>3, <2>4
    <2> QED BY <2>1, <2>2, <2>5, <2>6
  <1>4. CASE ~(page # 0 /\ CONTAINER[id].usage < CONTAINER[id].quota)
    <2>1. UNCHANGED <<CONTAINER, held>>
      BY <1>1, <1>4
    <2>2. Got(id) = {}
      BY <2>1 DEF Got
    <2>3. held' = [held EXCEPT ![id] = held[id] \cup Got(id)]
      BY <1>2, <2>1, <2>2
    <2> QED BY Zenon, <2>1, <2>2, <2>3 DEF UsedIds
  <1> QED BY <1>3, <1>4


\* A process that gets no page has used up its quota, or memory is full.
LEMMA AllocFails ==
  ASSUME QuotaInv, HeldIsAllocated, NEW id \in UsedIds, container_alloc(id),
         Got(id) = {}
  PROVE  FreePages' = {} \/ ~container_can_consume(id, 1)'
  <1>1. PICK page \in Norm \cup {0} :
          /\ palloc(page)
          /\ IF page # 0 /\ CONTAINER[id].usage < CONTAINER[id].quota
             THEN held' = [held EXCEPT ![id] = @ \cup {page}]
             ELSE UNCHANGED <<CONTAINER, held>>
    BY DEF container_alloc
  <1>2. /\ id \in Ids /\ held \in [Ids -> SUBSET Nat]
        /\ CONTAINER[id].usage \in Nat /\ CONTAINER[id].quota \in Nat
        /\ CONTAINER[id].usage <= CONTAINER[id].quota
        /\ WORD \in Nat /\ WORD > 0
    BY RealQuotaType, ContainerAssumption
       DEF UsedIds, QuotaInv, TypeOK, Container, UsageWithinQuota
  <1>3. CASE page # 0 /\ CONTAINER[id].usage < CONTAINER[id].quota
    <2>1. page \notin held[id] /\ page \in held'[id]
      BY <1>1, <1>2, <1>3 DEF palloc, FirstFree, FreePages, HeldIsAllocated
    <2> QED BY <2>1 DEF Got
  <1>4. CASE page = 0
    BY <1>1, <1>4, Spaces DEF palloc, FirstFree, FreePages
  <1>5. CASE page # 0 /\ ~(CONTAINER[id].usage < CONTAINER[id].quota)
    <2>1. UNCHANGED CONTAINER
      BY <1>1, <1>5
    <2>2. (CONTAINER[id].quota - CONTAINER[id].usage) % WORD = 0
      <3>1. CONTAINER[id].quota - CONTAINER[id].usage = 0
        BY <1>2, <1>5
      <3> QED BY <1>2, <3>1
    <2> QED BY <2>1, <2>2 DEF container_can_consume
  <1> QED BY <1>3, <1>4, <1>5

\* Several pages for a process.
LEMMA RunGot ==
  ASSUME QuotaInv, NEW id \in UsedIds, NEW len \in Lens,
         container_consecutive_alloc(id, len)
  PROVE  /\ UsedIds' = UsedIds
         /\ \A c \in Ids : CONTAINER'[c].parent = CONTAINER[c].parent
         /\ Got(id) \subseteq Nat
         /\ held' = [held EXCEPT ![id] = held[id] \cup Got(id)]
         /\ Got(id) = {}
            \/ \E page \in Norm \cup {VM_USERLO_PI} :
                 Got(id) = PageRun(page, len) \ held[id]
  <1>1. /\ id \in Ids /\ CONTAINER \in [Ids -> Container]
        /\ held \in [Ids -> SUBSET Nat] /\ len \in Nat
    BY Spaces DEF UsedIds, QuotaInv, TypeOK
  <1>2. CASE UNCHANGED <<CONTAINER, held>>
    <2>1. Got(id) = {}
      BY <1>2 DEF Got
    <2>2. held' = [held EXCEPT ![id] = held[id] \cup Got(id)]
      BY <1>1, <1>2, <2>1
    <2>3. UsedIds' = UsedIds
      BY <1>2 DEF UsedIds
    <2>5. \A c \in Ids : CONTAINER'[c].parent = CONTAINER[c].parent
      BY <1>2
    <2> QED BY <1>1, <2>1, <2>2, <2>3, <2>5
  <1>3. CASE ~UNCHANGED <<CONTAINER, held>>
    <2>1. PICK page \in Norm \cup {0, VM_USERLO_PI} :
            /\ page # 0
            /\ CONTAINER' = [CONTAINER EXCEPT
                               ![id].usage = (CONTAINER[id].usage + len) % WORD]
            /\ held' = [held EXCEPT ![id] = @ \cup PageRun(page, len)]
      BY Zenon, <1>3 DEF container_consecutive_alloc, vars
    <2>2. \A c \in Ids : /\ CONTAINER'[c].parent = CONTAINER[c].parent
                         /\ CONTAINER'[c].used = CONTAINER[c].used
      BY <1>1, <2>1 DEF Container
    <2>3. UsedIds' = UsedIds
      BY <2>2 DEF UsedIds
    <2>4. Got(id) = PageRun(page, len) \ held[id] /\ page \in Nat
      BY <1>1, <2>1, PageAssumption DEF Got
    <2>5. PageRun(page, len) \subseteq Nat
      BY <1>1, <2>4 DEF PageRun
    <2>8. held' = [held EXCEPT ![id] = held[id] \cup Got(id)]
      BY Zenon, <1>1, <2>1, <2>4
    <2> QED BY Zenon, <2>1, <2>2, <2>3, <2>4, <2>5, <2>8
  <1> QED BY <1>2, <1>3

\* A split that succeeds takes a container that was blank.
LEMMA SplitChild ==
  ASSUME QuotaInv, NEW id \in UsedIds, NEW quota \in Nat, NEW child \in Ids,
         container_split(id, quota, child)
  PROVE  /\ child \notin UsedIds /\ child # 0 /\ child # id
         /\ UsedIds' = UsedIds \cup {child}
         /\ CONTAINER'[child].parent = id
         /\ \A c \in Ids \ {child} : CONTAINER'[c].parent = CONTAINER[c].parent
  <1> DEFINE k == CONTAINER[id].nchildren
  <1>1. /\ k < MAX_CHILDREN /\ ChildId(id, k) < NUM_IDS
        /\ child = ChildId(id, k)
        /\ CONTAINER' = [CONTAINER EXCEPT
             ![id].nchildren = @ + 1,
             ![id].usage = @ + quota,
             ![child] = [quota |-> quota, usage |-> 0, parent |-> id,
                         nchildren |-> 0, used |-> 1]]
    BY ContainerAssumption DEF container_split, Ids
  <1>2. child # 0 /\ child # id /\ CONTAINER[child] = Unused
    BY <1>1, FreshChild
  <1>3. id \in Ids /\ CONTAINER \in [Ids -> Container] /\ CONTAINER[id].used = 1
    BY DEF UsedIds, QuotaInv, TypeOK
  <1>4. \A c \in Ids \ {child} : /\ CONTAINER'[c].parent = CONTAINER[c].parent
                                 /\ CONTAINER'[c].used = CONTAINER[c].used
    BY <1>1, <1>2, <1>3 DEF Container
  <1>5. CONTAINER'[child].parent = id /\ CONTAINER'[child].used = 1
    BY <1>1, <1>2, <1>3
  <1>6. UsedIds' = UsedIds \cup {child}
    BY <1>4, <1>5 DEF UsedIds
  <1>7. child \notin UsedIds
    BY <1>2 DEF UsedIds, Unused
  <1> QED BY <1>2, <1>4, <1>5, <1>6, <1>7


-----------------------------------------------------------------------------
PageEntry == [frame : Frames, perm : SUBSET Flags]

\* What the tables say about a page is an entry.
LEMMA EntryType ==
  ASSUME VmTypeOK, NEW id \in Ids, NEW v
  PROVE  E(id, v) \in PageEntry /\ (~Present(id, v) => E(id, v).frame = 0)
  <1>1. Zero \in PageEntry
    BY Spaces DEF Zero, PageEntry
  <1>2. CASE v \in VPages /\ PDirPool[id][PdeIndex(v)] # 0
    <2>1. PDirPool[id][PdeIndex(v)] \in Norm /\ PteIndex(v) \in Ptes
      <3>1. PDirPool \in [Ids -> [Pdes -> Norm \cup {0}]]
        BY DEF VmTypeOK, Pdes
      <3> QED BY <1>2, <3>1, Indices
    <2>2. ptbl[PDirPool[id][PdeIndex(v)]][PteIndex(v)] \in PageEntry
      <3>1. ptbl \in [Norm -> [Ptes -> PageEntry]]
        BY DEF VmTypeOK, PageEntry, Ptes
      <3> QED BY <2>1, <3>1
    <2> QED BY <1>1, <2>2 DEF E, get_ptbl_entry_by_va, get_pdir_entry_by_va,
                              Present, Zero
  <1>3. CASE ~(v \in VPages /\ PDirPool[id][PdeIndex(v)] # 0)
    BY <1>1, <1>3 DEF E, get_ptbl_entry_by_va, get_pdir_entry_by_va, Present, Zero
  <1> QED BY <1>2, <1>3

\* An entry made of a page number and flags.
LEMMA MadeEntryType ==
  ASSUME NEW page \in Nat, NEW perm \in SUBSET Flags
  PROVE  Entry(page, perm) \in PageEntry
  <1>1. page % FRAMES \in Frames
    BY Spaces DEF Frames
  <1> QED BY <1>1 DEF Entry, PageEntry

\* Setting an entry.
LEMMA SetType ==
  ASSUME VmTypeOK, NEW id \in Ids, NEW v \in VPages, NEW e \in PageEntry
  PROVE  set_ptbl_entry_by_va(id, v, e) \in [Norm -> [Ptes -> PageEntry]]
  BY Zenon, Indices DEF VmTypeOK, set_ptbl_entry_by_va, get_pdir_entry_by_va,
                 Ptes, PageEntry

\* The job that maps what was allocated.
LEMMA MapJobType ==
  ASSUME NEW base \in Job, NEW id \in Ids, NEW v \in VPages,
         NEW perm \in SUBSET Flags, NEW page \in Nat, NEW len \in Nat,
         job' = MapJob(base, id, v, perm, page, len)
  PROVE  /\ job' \in Job
         /\ job'.op = "map" /\ job'.pid = id /\ job'.first = v /\ job'.va = v
         /\ job'.perm = perm /\ job'.left = len
         /\ job'.page = page /\ job'.caller = base.caller
         /\ job'.from = base.from /\ job'.tries = base.tries
  <1>1. v \in 0 .. NPDE * NPTE
    BY Spaces DEF VPages
  <1> QED BY Zenon, <1>1 DEF MapJob, Job

\* A job that is not running, or running for a caller.
LEMMA IdleType ==
  /\ Idle \in Job
  /\ \A caller \in {"none", "sys_mmap", "pgflt_handler", "elf_load", "pt_copyin",
                    "alloc_super_page", "copy_on_write"} :
       /\ For(caller) \in Job /\ For(caller).caller = caller
       /\ For(caller).from = 0 /\ For(caller).tries = 0
  <1>1. 0 \in 0 .. NPDE * NPTE
    BY Spaces
  <1>2. Idle \in Job
    BY <1>1, Spaces DEF Idle, Job
  <1> QED BY <1>2 DEF Idle, For, Job


-----------------------------------------------------------------------------
\* The job a mapping leaves to its caller.
LEMMA AfterMapType ==
  ASSUME TypeInv, NEW ok \in BOOLEAN, job.op = "map", AfterMap(ok),
         UsedIds' = UsedIds
  PROVE  job' \in Job /\ JobRange'
  <1>1. job \in Job /\ job.pid \in Procs /\ Procs' = Procs /\ job.pid \in Ids
    BY DEF TypeInv, VmTypeOK, JobRange, Procs, UsedIds
  <1>2. CASE Return
    BY <1>1, <1>2, IdleType DEF Return, JobRange, Idle
  <1>3. ASSUME NEW op \in {"halt", "fill", "read", "copy"}, Goto(op),
               op = "fill" => job.caller = "elf_load"
        PROVE  job' \in Job /\ JobRange'
    <2>1. job' \in Job /\ job'.op = op /\ job'.pid = job.pid
          /\ job'.caller = job.caller /\ job'.first = job.first
      BY <1>1, <1>3 DEF Goto, Job
    <2> QED BY <1>1, <1>3, <2>1 DEF JobRange, TypeInv
  <1>4. CASE /\ job.caller = "alloc_super_page"
             /\ job' = [job EXCEPT !.op = "remap", !.page =
                  IF ok THEN EntryAsNumber(get_pdir_entry_by_va(job.pid, job.first))
                        ELSE MagicNumber]
    <2>1. EntryAsNumber(get_pdir_entry_by_va(job.pid, job.first)) \in Nat
      <3>1. job.first \in VPages
        BY <1>1 DEF Job
      <3>2. get_pdir_entry_by_va(job.pid, job.first) \in Norm \cup {0}
        <4>1. PDirPool \in [Ids -> [Pdes -> Norm \cup {0}]]
          BY DEF TypeInv, VmTypeOK, Pdes
        <4> QED BY <1>1, <3>1, <4>1, Indices DEF get_pdir_entry_by_va
      <3>3. get_pdir_entry_by_va(job.pid, job.first) \in Nat
        BY <3>2, Pages
      <3> QED BY <3>3, PagingAssumption DEF EntryAsNumber
    <2>2. MagicNumber \in Nat
      BY Spaces DEF MagicNumber
    <2>3. job' \in Job /\ job'.op = "remap" /\ job'.pid = job.pid
          /\ job'.caller = job.caller /\ job'.first = job.first
      BY Zenon, <1>1, <1>4, <2>1, <2>2 DEF Job
    <2> QED BY <1>1, <1>4, <2>3 DEF JobRange, TypeInv
  <1> QED BY <1>2, <1>3, <1>4 DEF AfterMap

\* An allocation that is followed by a mapping, or fails.
LEMMA AllocPageType ==
  ASSUME TypeInv, NEW base \in Job, NEW id \in Procs, NEW v \in VPages,
         NEW perm \in SUBSET Flags, alloc_page(base, id, v, perm),
         base.caller \in {"sys_mmap", "pgflt_handler", "elf_load", "pt_copyin"}
  PROVE  VmTypeOK' /\ JobRange' /\ KernelNext
  <1>1. id \in UsedIds /\ id \in Ids /\ QuotaInv
    BY DEF Procs, UsedIds, TypeInv
  <1>2. UsedIds' = UsedIds /\ Got(id) \subseteq Nat
    BY <1>1, AllocGot, Pages DEF alloc_page
  <1>3. PICK page \in Got(id) : job' = MapJob(base, id, v, perm, page, 1)
    BY DEF alloc_page
  <1>4. /\ job' \in Job /\ job'.op = "map" /\ job'.pid = id /\ job'.va = v
        /\ job'.left = 1 /\ job'.caller = base.caller
    BY <1>1, <1>2, <1>3, MapJobType
  <1>5. v + 1 <= NPDE * NPTE /\ Procs' = Procs
    BY <1>2, Spaces DEF VPages, Procs
  <1>6. VmTypeOK'
    BY <1>4 DEF TypeInv, VmTypeOK, alloc_page
  <1> QED BY <1>1, <1>4, <1>5, <1>6 DEF JobRange, KernelNext, alloc_page

\* No page: the caller goes on.
LEMMA AllocPageFailsType ==
  ASSUME TypeInv, NEW id \in Procs, NEW next \in Job, alloc_page_fails(id, next)
  PROVE  VmTypeOK' /\ UsedIds' = UsedIds /\ KernelNext /\ job' = next
  <1>1. id \in UsedIds /\ QuotaInv
    BY DEF Procs, TypeInv
  <1>2. UsedIds' = UsedIds
    BY <1>1, AllocGot DEF alloc_page_fails
  <1>3. VmTypeOK'
    BY DEF TypeInv, VmTypeOK, alloc_page_fails
  <1> QED BY <1>1, <1>2, <1>3 DEF KernelNext, alloc_page_fails

\* The same for several pages.
LEMMA AllocRunType ==
  ASSUME TypeInv, NEW base \in Job, NEW id \in Procs, NEW v \in VPages,
         NEW perm \in SUBSET Flags, NEW len \in Lens, v + len <= NPDE * NPTE,
         alloc_consecutive_page(base, id, v, perm, len),
         base.caller \in {"sys_mmap", "alloc_super_page"},
         base.caller = "alloc_super_page" => v + SUPER_LEN <= NPDE * NPTE
  PROVE  VmTypeOK' /\ JobRange' /\ KernelNext
  <1>1. id \in UsedIds /\ id \in Ids /\ QuotaInv
    BY DEF Procs, UsedIds, TypeInv
  <1>2. /\ UsedIds' = UsedIds /\ Got(id) \subseteq Nat /\ len \in Nat /\ v \in Nat
    BY <1>1, RunGot, Spaces, Indices DEF alloc_consecutive_page
  <1>4. PICK page \in Got(id) : job' = MapJob(base, id, v, perm, page, len)
    BY DEF alloc_consecutive_page
  <1>3. /\ job' \in Job /\ job'.op = "map" /\ job'.pid = id /\ job'.va = v
        /\ job'.left = len /\ job'.caller = base.caller
        /\ job'.first = v
    BY <1>1, <1>2, <1>4, MapJobType
  <1>5. v + job'.left <= NPDE * NPTE /\ Procs' = Procs
    BY <1>2, <1>3 DEF Procs
  <1>6. VmTypeOK'
    BY <1>3 DEF TypeInv, VmTypeOK, alloc_consecutive_page
  <1> QED BY <1>1, <1>3, <1>5, <1>6 DEF JobRange, KernelNext, alloc_consecutive_page

\* No run of pages: the caller goes on.
LEMMA AllocRunFailsType ==
  ASSUME TypeInv, NEW id \in Procs, NEW next \in Job, NEW len \in Lens,
         alloc_consecutive_page_fails(id, len, next)
  PROVE  VmTypeOK' /\ UsedIds' = UsedIds /\ KernelNext /\ job' = next
  <1>1. id \in UsedIds /\ QuotaInv
    BY DEF Procs, TypeInv
  <1>2. UsedIds' = UsedIds
    BY <1>1, RunGot DEF alloc_consecutive_page_fails
  <1>3. VmTypeOK'
    BY DEF TypeInv, VmTypeOK, alloc_consecutive_page_fails
  <1> QED BY <1>1, <1>2, <1>3 DEF KernelNext, alloc_consecutive_page_fails

\* The loop of a mapping keeps the types.
LEMMA MapType ==
  ASSUME TypeInv, map_consecutive_page \/ alloc_ptbl \/ map_returns
  PROVE  VmTypeOK' /\ JobRange' /\ [KernelNext]_vars
  <1>1. /\ job \in Job /\ job.pid \in Procs /\ job.pid \in Ids /\ job.op = "map"
        /\ job.pid \in UsedIds /\ QuotaInv /\ VmTypeOK
    BY Zenon DEF TypeInv, VmTypeOK, JobRange, Procs, UsedIds, map_consecutive_page,
           alloc_ptbl, map_returns
  <1>2. /\ job.va \in Nat /\ job.left \in Nat /\ job.page \in Nat
        /\ job.perm \in SUBSET Flags /\ job.va + job.left <= NPDE * NPTE
    BY <1>1, Spaces DEF Job, TypeInv, JobRange
  <1>3. job.left > 0 => job.va \in VPages
    BY <1>2, Spaces DEF VPages
  <1>4. CASE map_consecutive_page
    <2>1. Entry(job.page, job.perm) \in PageEntry
      BY <1>2, MadeEntryType
    <2>2. ptbl' \in [Norm -> [Ptes -> PageEntry]]
      BY <1>1, <1>3, <1>4, <2>1, SetType DEF map_consecutive_page
    <2>3. job.va + 1 \in 0 .. NPDE * NPTE /\ job.left - 1 \in Nat
          /\ job.page + 1 \in Nat /\ (job.va + 1) + (job.left - 1) <= NPDE * NPTE
      BY <1>2, <1>4, Spaces DEF map_consecutive_page
    <2>4. /\ job' \in Job /\ job'.pid = job.pid /\ job'.op = job.op
          /\ job'.caller = job.caller /\ job'.first = job.first
          /\ job'.va + job'.left <= NPDE * NPTE
      BY Zenon, <1>1, <1>4, <2>3 DEF map_consecutive_page, Job
    <2>5. view' \in [Ids -> [VPages -> Value]]
      <3>1. view \in [Ids -> [VPages -> Value]] /\ 0 \in Value /\ job.va \in VPages
        BY <1>3, <1>4 DEF map_consecutive_page, TypeInv, VmTypeOK, Value
      <3> QED BY <1>1, <1>4, <3>1 DEF map_consecutive_page
    <2>6. VmTypeOK'
      BY <1>4, <2>2, <2>4, <2>5
         DEF map_consecutive_page, TypeInv, VmTypeOK, PageEntry, Ptes
    <2>7. Procs' = Procs /\ UNCHANGED vars
      BY <1>4 DEF map_consecutive_page, Procs, UsedIds, vars
    <2> QED BY <2>4, <2>6, <2>7 DEF JobRange, TypeInv
  <1>5. CASE alloc_ptbl
    <2>1. UsedIds' = UsedIds /\ Got(job.pid) \subseteq Norm
      BY <1>1, <1>5, AllocGot DEF alloc_ptbl
    <2>2. KernelNext
      BY <1>1, <1>5 DEF alloc_ptbl, KernelNext
    <2>3. CASE AfterMap(FALSE) /\ UNCHANGED PDirPool
      <3>1. job' \in Job /\ JobRange'
        BY Zenon, <1>1, <2>1, <2>3, AfterMapType
      <3> QED BY <1>5, <2>2, <2>3, <3>1 DEF alloc_ptbl, TypeInv, VmTypeOK
    <2>4. ASSUME NEW page \in Got(job.pid),
                 PDirPool' = [PDirPool EXCEPT ![job.pid][PdeIndex(job.va)] = page],
                 UNCHANGED job
          PROVE  VmTypeOK' /\ JobRange'
      <3>1. PdeIndex(job.va) \in Pdes /\ page \in Norm
        BY <1>3, <1>5, <2>1, Indices DEF alloc_ptbl
      <3>2. PDirPool' \in [Ids -> [Pdes -> Norm \cup {0}]]
        BY <1>1, <2>4, <3>1 DEF VmTypeOK, Pdes
      <3>3. Procs' = Procs
        BY <2>1 DEF Procs
      <3>4. VmTypeOK'
        BY <1>5, <2>4, <3>2 DEF alloc_ptbl, TypeInv, VmTypeOK, Pdes
      <3> QED BY <2>4, <3>3, <3>4 DEF JobRange, TypeInv
    <2> QED BY Zenon, <1>5, <2>2, <2>3, <2>4 DEF alloc_ptbl
  <1>6. CASE map_returns
    <2>1. UsedIds' = UsedIds /\ UNCHANGED vars
      BY <1>6 DEF map_returns, UsedIds, vars
    <2>2. job' \in Job /\ JobRange'
      BY Zenon, <1>1, <1>6, <2>1, AfterMapType DEF map_returns
    <2> QED BY <1>6, <2>1, <2>2 DEF map_returns, TypeInv, VmTypeOK
  <1> QED BY <1>4, <1>5, <1>6

\* What programs do keeps the types: accesses and faults.
LEMMA AccessType ==
  ASSUME TypeInv, NEW id \in Procs, NEW v \in VPages,
         \/ \E data \in Data : Write(id, v, data)
         \/ pgflt_handler(id, v) \/ pgflt_handler_panics(id, v)
         \/ sys_puts(id, v)
  PROVE  VmTypeOK' /\ JobRange' /\ [KernelNext]_vars
  <1>1. /\ id \in Ids /\ id \in UsedIds /\ QuotaInv /\ VmTypeOK /\ job \in Job
    BY DEF TypeInv, VmTypeOK, Procs, UsedIds
  <1>2. PWU \in SUBSET Flags
    BY DEF PWU, Flags
  <1>3. ASSUME NEW data \in Data, Write(id, v, data)
        PROVE  VmTypeOK' /\ JobRange' /\ [KernelNext]_vars
    <2>1. E(id, v).frame \in Frames /\ data \in Value
      BY <1>1, EntryType DEF PageEntry, Value
    <2>2. mem' \in [Frames -> Value] /\ view' \in [Ids -> [VPages -> Value]]
      BY <1>1, <1>3, <2>1 DEF Write, VmTypeOK, E
    <2>3. Procs' = Procs /\ UNCHANGED <<vars, job>>
      BY <1>3 DEF Write, Procs, UsedIds, vars
    <2> QED BY <1>1, <1>3, <2>2, <2>3 DEF Write, VmTypeOK, TypeInv, JobRange
  <1>4. CASE pgflt_handler(id, v)
    <2>1. /\ For("pgflt_handler") \in Job
          /\ For("pgflt_handler").caller = "pgflt_handler"
      BY IdleType
    <2>2. CASE alloc_page(For("pgflt_handler"), id, v, PWU)
      BY <1>2, <2>1, <2>2, AllocPageType
    <2>3. CASE alloc_page_fails(id, [Idle EXCEPT !.op = "halt"])
      <3>1. [Idle EXCEPT !.op = "halt"] \in Job
        BY IdleType DEF Job
      <3>2. VmTypeOK' /\ KernelNext /\ job' = [Idle EXCEPT !.op = "halt"]
        BY <2>3, <3>1, AllocPageFailsType
      <3> QED BY <3>2 DEF JobRange, Idle
    <2> QED BY <1>4, <2>2, <2>3 DEF pgflt_handler
  <1>5. CASE pgflt_handler_panics(id, v)
    <2>1. job' \in Job /\ job'.op = "halt" /\ job'.first = job.first
          /\ job'.caller = job.caller
      BY <1>1, <1>5 DEF pgflt_handler_panics, Goto, Job
    <2>2. VmTypeOK' /\ UNCHANGED vars
      BY <1>1, <1>5, <2>1 DEF pgflt_handler_panics, VmTypeOK
    <2> QED BY <2>1, <2>2 DEF JobRange, TypeInv
  <1>6. CASE sys_puts(id, v)
    <2> DEFINE read == [For("pt_copyin") EXCEPT !.op = "read", !.pid = id, !.first = v]
    <2>1. For("pt_copyin") \in Job /\ For("pt_copyin").caller = "pt_copyin"
      BY IdleType
    <2>2. /\ read \in Job /\ read.op = "read" /\ read.pid = id
          /\ read.caller = "pt_copyin"
      BY Zenon, <1>1, <2>1 DEF Job
    <2> HIDE DEF read
    <2>3. ASSUME job' = read, UsedIds' = UsedIds
          PROVE  JobRange'
      <3>1. Procs' = Procs
        BY <2>3 DEF Procs
      <3> QED BY <2>2, <2>3, <3>1 DEF JobRange
    <2>4. CASE job' = read /\ UNCHANGED <<vars, PDirPool, ptbl, mem, view, partial>>
      <3>1. UsedIds' = UsedIds
        BY <2>4 DEF UsedIds, vars
      <3> QED BY <1>1, <2>2, <2>3, <2>4, <3>1 DEF VmTypeOK
    <2>5. CASE alloc_page(For("pt_copyin"), id, v, PWU)
      BY <1>2, <2>1, <2>5, AllocPageType
    <2>6. CASE alloc_page_fails(id, read)
      BY <2>2, <2>3, <2>6, AllocPageFailsType
    <2> QED BY <1>6, <2>4, <2>5, <2>6 DEF sys_puts, read
  <1> QED BY <1>3, <1>4, <1>5, <1>6

\* sys_mmap keeps the types.
LEMMA MmapType ==
  ASSUME TypeInv, NEW id \in Procs, NEW v \in MmapPages, NEW perm \in MmapPerms,
         sys_mmap(id, v, perm)
  PROVE  VmTypeOK' /\ JobRange' /\ KernelNext
  <1>1. /\ v \in VPages /\ perm \in SUBSET Flags /\ SUPER_LEN \in Lens
        /\ perm \cup {"P_SUPER"} \in SUBSET Flags
    BY ForkAssumption DEF PWU, Flags
  <1>2. For("sys_mmap") \in Job /\ For("sys_mmap").caller = "sys_mmap" /\ Idle \in Job
    BY IdleType
  <1>3. v \in Nat /\ SUPER_LEN \in Nat /\ SUPER_LEN > 0 /\ Lens \subseteq Nat
        /\ NPDE * NPTE \in Nat
    BY <1>1, Indices, Spaces
  <1>4. ASSUME job' = Idle
        PROVE  JobRange'
    BY <1>4 DEF JobRange, Idle
  <1>5. CASE /\ v + 2 * SUPER_LEN - 2 \in VPages
             /\ \/ alloc_super_page(For("sys_mmap"), id, v, perm)
                \/ alloc_consecutive_page_fails(id, SUPER_LEN, Idle)
    <2>1. v + SUPER_LEN <= NPDE * NPTE
      BY <1>3, <1>5 DEF VPages
    <2>2. CASE alloc_super_page(For("sys_mmap"), id, v, perm)
      BY <1>1, <1>2, <2>1, <2>2, AllocRunType DEF alloc_super_page
    <2>3. CASE alloc_consecutive_page_fails(id, SUPER_LEN, Idle)
      BY <1>1, <1>2, <1>4, <2>3, AllocRunFailsType
    <2> QED BY <1>5, <2>2, <2>3
  <1>6. ASSUME NEW len \in Lens \ {0}, v + len - 1 \in VPages,
               \/ alloc_consecutive_page(For("sys_mmap"), id, v, perm, len)
               \/ alloc_consecutive_page_fails(id, len, Idle)
        PROVE  VmTypeOK' /\ JobRange' /\ KernelNext
    <2>1. len \in Nat /\ v + len <= NPDE * NPTE
      BY <1>3, <1>6 DEF VPages
    <2>2. CASE alloc_consecutive_page(For("sys_mmap"), id, v, perm, len)
      BY <1>1, <1>2, <2>1, <2>2, AllocRunType
    <2>3. CASE alloc_consecutive_page_fails(id, len, Idle)
      BY <1>1, <1>2, <1>4, <2>3, AllocRunFailsType
    <2> QED BY <1>6, <2>2, <2>3
  <1>7. CASE alloc_page(For("sys_mmap"), id, v, perm)
    BY <1>1, <1>2, <1>7, AllocPageType
  <1>8. CASE alloc_page_fails(id, Idle)
    BY <1>2, <1>4, <1>8, AllocPageFailsType
  <1> QED BY <1>5, <1>6, <1>7, <1>8 DEF sys_mmap

\* Copy-on-write keeps the types, of common pages and of super pages.
LEMMA CowType ==
  ASSUME TypeInv, NEW id \in Procs, NEW v \in VPages,
         copy_on_write(id, v) \/ copy_on_write_super(id, v)
  PROVE  VmTypeOK' /\ JobRange' /\ [KernelNext]_vars
  <1>1. /\ id \in Ids /\ id \in UsedIds /\ QuotaInv /\ VmTypeOK /\ job \in Job
        /\ job.op = "user"
    BY DEF TypeInv, VmTypeOK, Procs, UsedIds, copy_on_write, copy_on_write_super,
           WritesToCow, InUser
  <1>2. PWU \in SUBSET Flags /\ PWU \cup {"P_SUPER"} \in SUBSET Flags
    BY DEF PWU, Flags
  <1>3. E(id, v).frame \in Frames
    BY <1>1, EntryType DEF PageEntry
  <1>4. CASE copy_on_write(id, v)
    <2>1. UsedIds' = UsedIds /\ Got(id) \subseteq Norm /\ KernelNext
      BY <1>1, <1>4, AllocGot DEF copy_on_write, KernelNext
    <2>2. Procs' = Procs /\ UNCHANGED job
      BY <1>4, <2>1 DEF Procs, copy_on_write
    <2>3. CASE UNCHANGED <<ptbl, mem>>
      BY Zenon, <1>1, <1>4, <2>1, <2>2, <2>3 DEF copy_on_write, VmTypeOK, TypeInv, JobRange
    <2>4. ASSUME NEW page \in Got(id),
                 ptbl' = set_ptbl_entry_by_va(id, v, Entry(page, PWU)),
                 mem' = [mem EXCEPT ![page] = mem[get_ptbl_entry_by_va(id, v).frame]]
          PROVE  VmTypeOK'
      <3>1. page \in Nat
        BY <2>1, Pages
      <3>2. ptbl' \in [Norm -> [Ptes -> PageEntry]]
        BY <1>1, <1>2, <2>4, <3>1, MadeEntryType, SetType
      <3>3. mem' \in [Frames -> Value]
        BY Zenon, <1>1, <1>3, <2>4 DEF VmTypeOK, E
      <3> QED BY <1>1, <1>4, <2>2, <3>2, <3>3
                 DEF copy_on_write, VmTypeOK, Ptes, PageEntry
    <2> QED BY <1>4, <2>1, <2>2, <2>3, <2>4 DEF copy_on_write, TypeInv, JobRange
  <1>5. CASE copy_on_write_super(id, v)
    <2> DEFINE base == [For("alloc_super_page") EXCEPT
                          !.from = get_ptbl_entry_by_va(id, v).frame]
               next == [base EXCEPT !.op = "remap", !.pid = id, !.first = v,
                                    !.va = v, !.page = MagicNumber]
    <2>1. base \in Job /\ base.caller = "alloc_super_page"
      BY <1>3, IdleType DEF Job, E
    <2>2. v \in Nat /\ v \in 0 .. NPDE * NPTE /\ MagicNumber \in Nat
      BY Spaces DEF VPages, MagicNumber
    <2>3. /\ next \in Job /\ next.op = "remap" /\ next.pid = id
          /\ next.caller = "alloc_super_page" /\ next.first = v
      BY Zenon, <1>1, <2>1, <2>2 DEF Job
    <2>4. v + SUPER_LEN <= NPDE * NPTE /\ SUPER_LEN \in Lens
      BY <1>5, <2>2, Spaces, ForkAssumption DEF copy_on_write_super, VPages
    <2>5. CASE /\ Goto("hang")
               /\ UNCHANGED <<vars, PDirPool, ptbl, mem, view, partial>>
      <3>1. job' \in Job /\ job'.op = "hang" /\ job'.first = job.first
            /\ job'.caller = job.caller
        BY <1>1, <2>5 DEF Goto, Job
      <3>2. VmTypeOK' /\ UNCHANGED vars
        BY <1>1, <2>5, <3>1 DEF VmTypeOK
      <3> QED BY <3>1, <3>2 DEF JobRange, TypeInv
    <2> HIDE DEF base
    <2>6. CASE alloc_super_page(base, id, v, PWU)
      BY <1>2, <2>1, <2>4, <2>6, AllocRunType DEF alloc_super_page
    <2> HIDE DEF next
    <2>7. CASE alloc_consecutive_page_fails(id, SUPER_LEN, next)
      <3>1. VmTypeOK' /\ UsedIds' = UsedIds /\ KernelNext /\ job' = next
        BY <2>3, <2>4, <2>7, AllocRunFailsType
      <3>2. Procs' = Procs
        BY <3>1 DEF Procs
      <3> QED BY <2>3, <2>4, <3>1, <3>2 DEF JobRange
    <2> QED BY <1>5, <2>5, <2>6, <2>7 DEF copy_on_write_super, base, next
  <1> QED BY <1>4, <1>5

\* The rest of the copying of a super page.
LEMMA SuperType ==
  ASSUME TypeInv, copy_on_write_remaps \/ copy_on_write_copies
  PROVE  VmTypeOK' /\ JobRange' /\ UNCHANGED vars
  <1>1. /\ job.pid \in Procs /\ job.pid \in Ids /\ VmTypeOK /\ job \in Job
        /\ job.first \in VPages
    BY DEF TypeInv, VmTypeOK, JobRange, Procs, UsedIds, copy_on_write_remaps,
           copy_on_write_copies, Job
  <1>2. CASE copy_on_write_remaps
    <2>1. UNCHANGED vars /\ Procs' = Procs
      BY <1>2 DEF copy_on_write_remaps, vars, Procs, UsedIds
    <2>2. CASE Goto("hang") /\ UNCHANGED ptbl
      <3>1. job' \in Job /\ job'.op = "hang" /\ job'.first = job.first
            /\ job'.caller = job.caller
        BY <1>1, <2>2 DEF Goto, Job
      <3>2. VmTypeOK'
        BY <1>1, <1>2, <2>2, <3>1 DEF VmTypeOK, copy_on_write_remaps
      <3> QED BY <2>1, <3>1, <3>2 DEF JobRange, TypeInv
    <2>3. CASE /\ ptbl' = unmap_page(job.pid, job.first)
               /\ job' = [job EXCEPT !.op = "map", !.caller = "copy_on_write",
                            !.va = job.first, !.left = SUPER_LEN,
                            !.perm = PWU \cup {"P_SUPER"}]
      <3>1. /\ job.first \in 0 .. NPDE * NPTE /\ SUPER_LEN \in Nat
            /\ job.first + SUPER_LEN <= NPDE * NPTE
            /\ PWU \cup {"P_SUPER"} \in SUBSET Flags
        BY <1>1, <1>2, Spaces
           DEF copy_on_write_remaps, TypeInv, JobRange, VPages, PWU, Flags
      <3>2. /\ job' \in Job /\ job'.pid = job.pid /\ job'.op = "map"
            /\ job'.caller = "copy_on_write"
            /\ job'.va + job'.left <= NPDE * NPTE
        BY Zenon, <1>1, <2>3, <3>1 DEF Job
      <3>3. ASSUME NEW vs
            PROVE  rmv_ptbl_entries(job.pid, vs) \in [Norm -> [Ptes -> PageEntry]]
        <4>1. Zero \in PageEntry
          BY Spaces DEF Zero, PageEntry
        <4>2. ptbl \in [Norm -> [Ptes -> PageEntry]]
          BY <1>1 DEF VmTypeOK, Ptes, PageEntry
        <4> QED BY Zenon, <4>1, <4>2 DEF rmv_ptbl_entries, Ptes
      <3>4. ptbl' \in [Norm -> [Ptes -> PageEntry]]
        BY <2>3, <3>3 DEF unmap_page, unmap_consecutive_page
      <3>5. VmTypeOK'
        BY <1>1, <1>2, <3>2, <3>4
           DEF VmTypeOK, copy_on_write_remaps, Ptes, PageEntry
      <3> QED BY <1>1, <2>1, <3>2, <3>5 DEF JobRange
    <2> QED BY <1>2, <2>2, <2>3 DEF copy_on_write_remaps
  <1>3. CASE copy_on_write_copies
    <2> DEFINE from == job.from
               to   == get_ptbl_entry_by_va(job.pid, job.first).frame
               Source(i) == IF from < to THEN from + (i % (to - from)) ELSE from + i
    <2>1. from \in Nat /\ to \in Nat /\ FRAMES \in Nat /\ FRAMES > 0
      BY <1>1, EntryType, Spaces DEF Job, E, PageEntry, Frames
    <2>2. mem' = [f \in Frames |->
             IF \E i \in 0 .. SUPER_LEN - 1 : f = (to + i) % FRAMES
             THEN mem[Source((f - to) % FRAMES) % FRAMES]
             ELSE mem[f]]
      BY <1>3 DEF copy_on_write_copies
    <2>3. ASSUME NEW f \in Frames
          PROVE  Source((f - to) % FRAMES) % FRAMES \in Frames
      <3> DEFINE i == (f - to) % FRAMES
      <3>1. i \in Nat
        BY <2>1 DEF Frames
      <3> HIDE DEF i, to, from
      <3>2. Source(i) \in Nat
        <4>1. CASE from < to
          <5>1. to - from \in Nat /\ to - from > 0
            BY <2>1, <4>1
          <5>2. i % (to - from) \in Nat
            BY <3>1, <5>1
          <5> QED BY <2>1, <4>1, <5>2
        <4>2. CASE ~(from < to)
          BY <2>1, <3>1, <4>2
        <4> QED BY <4>1, <4>2
      <3> HIDE DEF Source
      <3>3. Source(i) % FRAMES \in 0 .. FRAMES - 1
        BY <2>1, <3>2
      <3> QED BY <3>3 DEF Frames, i
    <2>4. mem' \in [Frames -> Value]
      <3> HIDE DEF Source, to, from
      <3> QED BY <1>1, <2>2, <2>3 DEF VmTypeOK
    <2>5. job' \in Job /\ JobRange' /\ UNCHANGED vars
      BY <1>3, IdleType DEF copy_on_write_copies, Return, JobRange, Idle
    <2> QED BY <1>1, <1>3, <2>4, <2>5 DEF copy_on_write_copies, VmTypeOK
  <1> QED BY <1>2, <1>3

\* A process can always give half of what it has left.
LEMMA ForkQuotaFits ==
  ASSUME QuotaInv, NEW id \in UsedIds
  PROVE  ForkQuota(id) \in Nat /\ container_can_consume(id, ForkQuota(id))
  <1> DEFINE d == CONTAINER[id].quota - CONTAINER[id].usage
  <1>1. /\ CONTAINER[id].quota \in Nat /\ CONTAINER[id].usage \in Nat
        /\ CONTAINER[id].usage <= CONTAINER[id].quota
        /\ CONTAINER[id].quota <= RealQuota
    BY DEF QuotaInv, TypeOK, Container, UsageWithinQuota, QuotaBounded, UsedIds
  <1>2. d \in Nat /\ d < WORD /\ WORD \in Nat
    BY <1>1, RealQuotaType, ContainerAssumption
  <1>3. d % WORD = d
    BY <1>2, ModBelow
  <1>4. ForkQuota(id) = d \div 2
    BY DEF ForkQuota
  <1> HIDE DEF d
  <1>5. d \div 2 \in Nat /\ d \div 2 <= d
    BY <1>2
  <1> QED BY <1>3, <1>4, <1>5 DEF container_can_consume, d

\* A process that is created is a split of the container layer.
LEMMA SplitIsKernel ==
  ASSUME QuotaInv, NEW id \in UsedIds, NEW quota \in Nat, NEW child \in Ids,
         container_can_consume(id, quota), container_split(id, quota, child),
         UNCHANGED <<allocated, held>>
  PROVE  KernelNext
  <1>1. alloc_mem_quota(id, quota)
    BY DEF alloc_mem_quota
  <1>2. id \in Ids
    BY DEF UsedIds
  <1>3. CONTAINER[id].usage + quota <= CONTAINER[id].quota
    BY <1>2, CanConsume
  <1>4. /\ CONTAINER[id].usage \in Nat /\ CONTAINER[id].quota \in Nat
        /\ CONTAINER[id].quota <= RealQuota
    BY <1>2 DEF QuotaInv, TypeOK, Container, QuotaBounded
  <1>5. quota \in 0 .. RealQuota
    BY <1>3, <1>4, RealQuotaType
  <1> QED BY <1>1, <1>5 DEF KernelNext

\* The creation of a process keeps the types.
LEMMA CreateType ==
  ASSUME TypeInv, NEW id \in UsedIds,
         proc_fork(id) \/ \E quota \in ProcQuotas : proc_create(id, quota)
  PROVE  VmTypeOK' /\ JobRange' /\ KernelNext
  <1>1. id \in Ids /\ QuotaInv /\ VmTypeOK
    BY DEF TypeInv, UsedIds
  <1>2. CASE proc_fork(id)
    <2>1. PICK child \in Ids :
            /\ container_split(id, ForkQuota(id), child)
            /\ job' = [Idle EXCEPT !.op = "vmm_copy", !.pid = child]
            /\ view' = [view EXCEPT ![child] = view[id]]
            /\ partial' = IF id \in partial THEN partial \cup {child} ELSE partial
      BY Zenon, <1>2 DEF proc_fork
    <2>2. ForkQuota(id) \in Nat /\ container_can_consume(id, ForkQuota(id))
      BY <1>1, ForkQuotaFits
    <2>3. child # 0 /\ UsedIds' = UsedIds \cup {child}
      BY <1>1, <2>1, <2>2, SplitChild
    <2>4. KernelNext
      BY Zenon, <1>1, <1>2, <2>1, <2>2, SplitIsKernel DEF proc_fork
    <2>5. job' \in Job /\ job'.op = "vmm_copy" /\ job'.pid = child
          /\ job'.caller = "none"
      BY Zenon, <2>1, IdleType DEF Idle, Job
    <2>6. child \in Procs'
      BY <2>3 DEF Procs
    <2>7. VmTypeOK'
      BY Zenon, <1>1, <1>2, <2>1, <2>5 DEF proc_fork, VmTypeOK
    <2> QED BY <2>4, <2>5, <2>6, <2>7 DEF JobRange
  <1>3. ASSUME NEW quota \in ProcQuotas, proc_create(id, quota)
        PROVE  VmTypeOK' /\ JobRange' /\ KernelNext
    <2>1. PICK child \in Ids, v \in NextPage(-1) :
            /\ container_split(id, quota, child)
            /\ job' = [Idle EXCEPT !.op = "load", !.pid = child, !.first = v]
      BY Zenon, <1>3 DEF proc_create
    <2>2. quota \in Nat /\ container_can_consume(id, quota)
      BY Zenon, <1>3, ForkAssumption DEF proc_create
    <2>3. child # 0 /\ UsedIds' = UsedIds \cup {child}
      BY <1>1, <2>1, <2>2, SplitChild
    <2>4. KernelNext
      BY Zenon, <1>1, <1>3, <2>1, <2>2, SplitIsKernel DEF proc_create
    <2>6. v \in VPages
      BY ForkAssumption DEF NextPage, ImagePages
    <2>7. job' \in Job /\ job'.op = "load" /\ job'.pid = child
          /\ job'.caller = "none"
      BY Zenon, <2>1, <2>6, IdleType DEF Idle, Job
    <2>8. child \in Procs'
      BY <2>3 DEF Procs
    <2>9. VmTypeOK'
      BY Zenon, <1>1, <1>3, <2>7 DEF proc_create, VmTypeOK
    <2> QED BY <2>4, <2>7, <2>8, <2>9 DEF JobRange
  <1> QED BY <1>2, <1>3

\* The copying of page tables keeps the types.
LEMMA CopyType ==
  ASSUME TypeInv, vmm_copy \/ vmm_copy_returns
  PROVE  VmTypeOK' /\ JobRange' /\ [KernelNext]_vars
  <1>1. /\ job.pid \in Procs /\ job.pid \in Ids /\ job.pid \in UsedIds
        /\ VmTypeOK /\ job \in Job /\ QuotaInv
    BY Zenon DEF TypeInv, VmTypeOK, JobRange, Procs, UsedIds, vmm_copy, vmm_copy_returns
  <1>2. ASSUME Return
        PROVE  job' \in Job /\ JobRange'
    BY <1>2, IdleType DEF Return, JobRange, Idle
  <1>3. CASE vmm_copy_returns
    BY <1>1, <1>2, <1>3 DEF vmm_copy_returns, VmTypeOK
  <1>4. CASE vmm_copy
    <2> DEFINE parent == CONTAINER[job.pid].parent
               Copy(i, t) == [j \in 0 .. NPTE - 1 |->
                       LET e == ptbl[PDirPool[parent][i]][j]
                       IN  IF "PTE_P" \in e.perm THEN Shared(e) ELSE ptbl[t][j]]
    <2>1. PICK i \in 0 .. NPDE - 1 :
            /\ NextPde(parent, i)
            /\ container_alloc(job.pid)
            /\ \/ /\ partial' = partial \cup {job.pid}
                  /\ Return
                  /\ UNCHANGED <<PDirPool, ptbl>>
               \/ \E page \in Got(job.pid) :
                    /\ PDirPool' = [PDirPool EXCEPT ![job.pid][i] = page]
                    /\ ptbl' = [ptbl EXCEPT
                         ![PDirPool[parent][i]] = Copy(i, PDirPool[parent][i]),
                         ![page] = Copy(i, page)]
                    /\ job' = [job EXCEPT !.va = i + 1]
                    /\ UNCHANGED partial
      BY Zenon, <1>4 DEF vmm_copy
    <2>2. UsedIds' = UsedIds /\ Got(job.pid) \subseteq Norm /\ KernelNext
      <3>1. container_alloc(job.pid)
        BY Zenon, <2>1
      <3> QED BY <1>1, <3>1, AllocGot DEF KernelNext
    <2>3. UNCHANGED <<mem, view>>
      BY Zenon, <1>4 DEF vmm_copy
    <2>4. CASE /\ partial' = partial \cup {job.pid}
               /\ Return
               /\ UNCHANGED <<PDirPool, ptbl>>
      BY <1>1, <1>2, <2>2, <2>3, <2>4 DEF VmTypeOK
    <2>5. ASSUME NEW page \in Got(job.pid),
                 PDirPool' = [PDirPool EXCEPT ![job.pid][i] = page],
                 ptbl' = [ptbl EXCEPT
                         ![PDirPool[parent][i]] = Copy(i, PDirPool[parent][i]),
                         ![page] = Copy(i, page)],
                 job' = [job EXCEPT !.va = i + 1],
                 UNCHANGED partial
          PROVE  VmTypeOK' /\ JobRange'
      <3>1. parent \in Ids /\ page \in Norm
        BY <1>1, <2>2 DEF QuotaInv, TypeOK, Container
      <3>2. PDirPool[parent][i] \in Norm
        <4>1. PDirPool[parent][i] # 0
          BY Zenon, <2>1 DEF NextPde
        <4>2. PDirPool \in [Ids -> [0 .. NPDE - 1 -> Norm \cup {0}]]
          BY <1>1 DEF VmTypeOK
        <4> HIDE DEF parent
        <4> QED BY Zenon, <3>1, <4>1, <4>2
      <3>3. \A e \in PageEntry : Shared(e) \in PageEntry
        BY DEF Shared, PageEntry, Flags
      <3>4. ptbl \in [Norm -> [Ptes -> PageEntry]]
        BY <1>1 DEF VmTypeOK, Ptes, PageEntry
      <3>5. ASSUME NEW t \in Norm
            PROVE  Copy(i, t) \in [Ptes -> PageEntry]
        <4> HIDE DEF parent
        <4> QED BY Zenon, <3>2, <3>3, <3>4 DEF Ptes
      <3>6. ptbl' \in [Norm -> [Ptes -> PageEntry]]
        <4>1. Copy(i, page) \in [Ptes -> PageEntry]
              /\ Copy(i, PDirPool[parent][i]) \in [Ptes -> PageEntry]
          BY Zenon, <3>1, <3>2, <3>5
        <4> HIDE DEF Copy, parent
        <4> QED BY Zenon, <2>5, <3>4, <4>1
      <3>7. PDirPool' \in [Ids -> [Pdes -> Norm \cup {0}]]
        BY Zenon, <1>1, <2>5, <3>1 DEF VmTypeOK, Pdes
      <3>8. i + 1 \in 0 .. NPDE * NPTE
        BY Spaces
      <3>9. job' \in Job /\ job'.op = job.op /\ job'.pid = job.pid
            /\ job'.caller = job.caller /\ job'.first = job.first
        BY Zenon, <1>1, <2>5, <3>8 DEF Job
      <3>10. VmTypeOK'
        BY Zenon, <1>1, <2>3, <2>5, <3>6, <3>7, <3>9 DEF VmTypeOK, Pdes, Ptes, PageEntry
      <3>11. Procs' = Procs
        BY <2>2 DEF Procs
      <3>12. job'.op = "vmm_copy"
        BY Zenon, <1>4, <3>9 DEF vmm_copy
      <3> QED BY <1>1, <3>9, <3>10, <3>11, <3>12 DEF JobRange, TypeInv
    <2> QED BY Zenon, <2>1, <2>2, <2>4, <2>5
  <1> QED BY <1>3, <1>4

\* The loading of a program and pt_copyin keep the types.
LEMMA LoadType ==
  ASSUME TypeInv, elf_load \/ pt_copyout_allocates \/ pt_copyout \/ pt_copyin
  PROVE  VmTypeOK' /\ JobRange' /\ [KernelNext]_vars
  <1>1. /\ job.pid \in Procs /\ job.pid \in Ids /\ VmTypeOK /\ job \in Job
        /\ job.first \in VPages /\ QuotaInv
    BY Zenon DEF TypeInv, VmTypeOK, JobRange, Procs, UsedIds, elf_load, pt_copyin,
           pt_copyout_allocates, pt_copyout, Job
  <1>2. PWU \in SUBSET Flags /\ {"PTE_P", "PTE_U"} \in SUBSET Flags
    BY DEF PWU, Flags
  <1>3. ASSUME Return
        PROVE  job' \in Job /\ JobRange'
    BY <1>3, IdleType DEF Return, JobRange, Idle
  <1>4. ASSUME NEW next \in Job, next.op = "fill", next.pid = job.pid,
               next.caller = "elf_load", next.first = job.first,
               alloc_page_fails(job.pid, next)
        PROVE  VmTypeOK' /\ JobRange' /\ [KernelNext]_vars
    <2>1. VmTypeOK' /\ UsedIds' = UsedIds /\ KernelNext /\ job' = next
      BY <1>1, <1>4, AllocPageFailsType
    <2>2. Procs' = Procs
      BY <2>1 DEF Procs
    <2> QED BY <1>1, <1>4, <2>1, <2>2 DEF JobRange, TypeInv
  <1>5. CASE elf_load
    <2>1. PICK tries \in {1, 2} :
       LET base == [job EXCEPT !.caller = "elf_load", !.tries = tries]
           perm == IF job.first \in TextPages THEN {"PTE_P", "PTE_U"} ELSE PWU
       IN  \/ alloc_page(base, job.pid, job.first, perm)
           \/ alloc_page_fails(job.pid, [base EXCEPT !.op = "fill"])
      BY Zenon, <1>5 DEF elf_load
    <2> DEFINE base == [job EXCEPT !.caller = "elf_load", !.tries = tries]
               perm == IF job.first \in TextPages THEN {"PTE_P", "PTE_U"} ELSE PWU
    <2>2. base \in Job /\ base.caller = "elf_load"
          /\ base.pid = job.pid /\ base.first = job.first
      <3>1. tries \in 0 .. 2
        OBVIOUS
      <3> HIDE DEF perm
      <3> QED BY Zenon, <1>1, <3>1 DEF Job
    <2>6. perm \in SUBSET Flags
      BY <1>2
    <2>3. \/ alloc_page(base, job.pid, job.first, perm)
          \/ alloc_page_fails(job.pid, [base EXCEPT !.op = "fill"])
      BY <2>1
    <2> HIDE DEF base, perm
    <2>4. CASE alloc_page(base, job.pid, job.first, perm)
      BY <1>1, <2>2, <2>4, <2>6, AllocPageType
    <2>5. CASE alloc_page_fails(job.pid, [base EXCEPT !.op = "fill"])
      <3> DEFINE next == [base EXCEPT !.op = "fill"]
      <3>1. /\ next \in Job /\ next.op = "fill" /\ next.pid = job.pid
            /\ next.caller = "elf_load" /\ next.first = job.first
        BY <2>2 DEF Job
      <3> HIDE DEF next
      <3> QED BY Zenon, <1>4, <2>5, <3>1 DEF next
    <2> QED BY <2>3, <2>4, <2>5
  <1>6. CASE pt_copyout_allocates
    <2> DEFINE base == [job EXCEPT !.tries = @ - 1]
    <2>1. job.tries - 1 \in 0 .. 2
      BY <1>1, <1>6 DEF pt_copyout_allocates, Job
    <2>2. base \in Job /\ base.pid = job.pid /\ base.first = job.first
          /\ base.caller = "elf_load" /\ base.op = "fill"
      BY <1>1, <1>6, <2>1 DEF Job, pt_copyout_allocates, TypeInv, JobRange
    <2>3. \/ alloc_page(base, job.pid, job.first, PWU)
          \/ alloc_page_fails(job.pid, base)
      BY <1>6 DEF pt_copyout_allocates
    <2> HIDE DEF base
    <2>4. CASE alloc_page(base, job.pid, job.first, PWU)
      BY <1>1, <1>2, <2>2, <2>4, AllocPageType
    <2>5. CASE alloc_page_fails(job.pid, base)
      BY <1>4, <2>2, <2>5
    <2> QED BY <2>3, <2>4, <2>5
  <1>7. CASE pt_copyout
    <2>1. E(job.pid, job.first).frame \in Frames
      BY <1>1, EntryType DEF PageEntry
    <2>2. /\ mem' \in [Frames -> Value] /\ view' \in [Ids -> [VPages -> Value]]
          /\ partial' \subseteq Ids
      BY Zenon, <1>1, <1>7, <2>1 DEF pt_copyout, VmTypeOK, Value, E
    <2>3. UNCHANGED <<vars, PDirPool, ptbl>> /\ Procs' = Procs
      BY Zenon, <1>7 DEF pt_copyout, vars, Procs, UsedIds
    <2>4. job' \in Job /\ JobRange'
      <3>1. CASE Return
        BY <1>3, <3>1
      <3>2. ASSUME NEW v \in NextPage(job.first),
                   job' = [Idle EXCEPT !.op = "load", !.pid = job.pid, !.first = v]
            PROVE  job' \in Job /\ JobRange'
        <4>1. v \in VPages
          BY ForkAssumption DEF NextPage, ImagePages
        <4>2. job' \in Job /\ job'.op = "load" /\ job'.pid = job.pid
              /\ job'.caller = "none"
          BY Zenon, <1>1, <3>2, <4>1, IdleType DEF Job, Idle
        <4> QED BY <1>1, <2>3, <4>2 DEF JobRange
      <3> QED BY Zenon, <1>7, <3>1, <3>2 DEF pt_copyout
    <2> QED BY <1>1, <2>2, <2>3, <2>4 DEF VmTypeOK
  <1>8. CASE pt_copyin
    BY <1>1, <1>3, <1>8 DEF pt_copyin, VmTypeOK
  <1> QED BY <1>5, <1>6, <1>7, <1>8

\* Every step keeps the types and uses the containers as it may.
LEMMA TypeNext ==
  ASSUME TypeInv, [Next]_vmVars
  PROVE  TypeInv' /\ [KernelNext]_vars
  <1> DEFINE Goal == VmTypeOK' /\ JobRange' /\ [KernelNext]_vars
  <1>1. ASSUME map_consecutive_page \/ alloc_ptbl \/ map_returns
        PROVE  Goal
    BY <1>1, MapType
  <1>2. ASSUME copy_on_write_remaps \/ copy_on_write_copies
        PROVE  Goal
    BY <1>2, SuperType
  <1>3. ASSUME vmm_copy \/ vmm_copy_returns
        PROVE  Goal
    BY <1>3, CopyType
  <1>4. ASSUME elf_load \/ pt_copyout_allocates \/ pt_copyout \/ pt_copyin
        PROVE  Goal
    BY <1>4, LoadType
  <1>5. ASSUME NEW id \in Procs, NEW v \in VPages,
               \/ \E data \in Data : Write(id, v, data)
               \/ pgflt_handler(id, v) \/ pgflt_handler_panics(id, v)
               \/ sys_puts(id, v)
        PROVE  Goal
    BY <1>5, AccessType
  <1>6. ASSUME NEW id \in Procs, NEW v \in VPages,
               copy_on_write(id, v) \/ copy_on_write_super(id, v)
        PROVE  Goal
    BY <1>6, CowType
  <1>7. ASSUME NEW id \in Procs, NEW v \in MmapPages, NEW perm \in MmapPerms,
               sys_mmap(id, v, perm)
        PROVE  Goal
    BY <1>7, MmapType
  <1>8. ASSUME NEW id \in Procs,
               proc_fork(id) \/ \E quota \in ProcQuotas : proc_create(id, quota)
        PROVE  Goal
    <2>1. id \in UsedIds
      BY DEF Procs
    <2> QED BY <1>8, <2>1, CreateType
  <1>9. ASSUME NEW quota \in ProcQuotas, proc_create(0, quota)
        PROVE  Goal
    <2>1. 0 \in UsedIds
      BY Spaces DEF TypeInv, QuotaInv, ContainerTree, UsedIds
    <2> QED BY <1>9, <2>1, CreateType
  <1>10. ASSUME UNCHANGED vmVars
         PROVE  Goal
    BY <1>10 DEF vmVars, vars, TypeInv, VmTypeOK, JobRange, Procs, UsedIds
  <1>11. Goal
    BY <1>1, <1>2, <1>3, <1>4, <1>5, <1>6, <1>7, <1>8, <1>9, <1>10
       DEF Next, KernelWork
  <1>12. QuotaInv'
    BY <1>11, NextQuota DEF TypeInv
  <1> QED BY <1>11, <1>12 DEF TypeInv

\* The machine starts with the types right.
LEMMA TypeInit == paging_init => TypeInv
  <1> SUFFICES ASSUME paging_init PROVE TypeInv
    OBVIOUS
  <1>1. QuotaInv
    BY InitQuota DEF paging_init
  <1>2. job \in Job /\ JobRange
    BY IdleType DEF paging_init, JobRange, Idle
  <1>3. PDirPool \in [Ids -> [0 .. NPDE - 1 -> Norm \cup {0}]]
    BY DEF paging_init, pdir_init
  <1>4. ptbl \in [Norm -> [0 .. NPTE - 1 -> [frame : Frames, perm : SUBSET Flags]]]
    <2>1. Zero \in [frame : Frames, perm : SUBSET Flags]
      BY Spaces DEF Zero
    <2> QED BY <2>1 DEF paging_init, pdir_init
  <1>5. /\ mem \in [Frames -> Value] /\ view \in [Ids -> [VPages -> Value]]
        /\ partial \subseteq Ids
    BY DEF paging_init, Value
  <1> QED BY <1>1, <1>2, <1>3, <1>4, <1>5 DEF TypeInv, VmTypeOK

-----------------------------------------------------------------------------
(***************************************************************************)
(* What the page structures say after a step.                              *)
(***************************************************************************)

\* A page is present when its entry says so.
LEMMA PresentIs ==
  \A id \in Ids, v \in VPages :
    /\ Present(id, v) <=> "PTE_P" \in E(id, v).perm
    /\ Present(id, v) <=> E(id, v) # Zero
  <1>1. Zero.perm = {}
    BY DEF Zero
  <1> QED BY <1>1 DEF Present, E, get_ptbl_entry_by_va

\* What an entry is, before and after a step.
LEMMA EntryIs ==
  ASSUME NEW id \in Ids, NEW v \in VPages
  PROVE  /\ \A t : t = PDirPool[id][PdeIndex(v)] => E(id, v) =
              IF t # 0 /\ "PTE_P" \in ptbl[t][PteIndex(v)].perm
              THEN ptbl[t][PteIndex(v)] ELSE Zero
         /\ \A t : t = PDirPool'[id][PdeIndex(v)] => E(id, v)' =
              IF t # 0 /\ "PTE_P" \in ptbl'[t][PteIndex(v)].perm
              THEN ptbl'[t][PteIndex(v)] ELSE Zero
  BY DEF E, get_ptbl_entry_by_va, get_pdir_entry_by_va

\* A step that leaves directories and tables alone changes no mapping.
LEMMA SameTables ==
  ASSUME UNCHANGED <<PDirPool, ptbl>>
  PROVE  /\ \A id \in Ids, v \in VPages :
              E(id, v)' = E(id, v) /\ (Present(id, v)' <=> Present(id, v))
         /\ \A p : (IsTable(p)' <=> IsTable(p)) /\ (IsMapped(p)' <=> IsMapped(p))
  <1>1. \A id \in Ids, v \in VPages :
          E(id, v)' = E(id, v) /\ (Present(id, v)' <=> Present(id, v))
    BY DEF E, Present, get_ptbl_entry_by_va, get_pdir_entry_by_va
  <1> QED BY <1>1 DEF IsTable, IsMapped

\* Setting the entry of a page that has a table changes this mapping only.
LEMMA SetFrame ==
  ASSUME VmTypeOK, TablesInv, NEW id \in Ids, NEW v \in VPages, NEW e \in PageEntry,
         "PTE_P" \in e.perm, get_pdir_entry_by_va(id, v) # 0,
         UNCHANGED PDirPool, ptbl' = set_ptbl_entry_by_va(id, v, e)
  PROVE  /\ \A i \in Ids, w \in VPages :
              E(i, w)' = IF i = id /\ w = v THEN e ELSE E(i, w)
         /\ \A p : (IsTable(p)' <=> IsTable(p))
         /\ \A q \in Norm, k \in Ptes : ptbl'[q][k] # Zero => IsTable(q)'
  <1> DEFINE t == PDirPool[id][PdeIndex(v)]
  <1>1. /\ t \in Norm /\ t # 0 /\ PteIndex(v) \in Ptes /\ PdeIndex(v) \in Pdes
        /\ ptbl \in [Norm -> [Ptes -> PageEntry]]
        /\ PDirPool \in [Ids -> [Pdes -> Norm \cup {0}]]
    <2>1. PDirPool \in [Ids -> [Pdes -> Norm \cup {0}]]
      BY DEF VmTypeOK, Pdes
    <2>2. ptbl \in [Norm -> [Ptes -> PageEntry]]
      BY DEF VmTypeOK, Ptes, PageEntry
    <2> QED BY <2>1, <2>2, Indices DEF get_pdir_entry_by_va
  <1>2. ptbl' = [ptbl EXCEPT ![t][PteIndex(v)] = e]
    BY DEF set_ptbl_entry_by_va, get_pdir_entry_by_va
  <1>a. \A i \in Ids, h \in Pdes :
          PDirPool[i][h] = t => i = id /\ h = PdeIndex(v)
    BY <1>1 DEF TablesInv
  <1>3. ASSUME NEW i \in Ids, NEW w \in VPages
        PROVE  E(i, w)' = IF i = id /\ w = v THEN e ELSE E(i, w)
    <2> DEFINE u == PDirPool[i][PdeIndex(w)]
    <2>1. PdeIndex(w) \in Pdes /\ PteIndex(w) \in Ptes
      BY Indices
    <2>2. u \in Norm \cup {0}
      BY <1>1, <2>1
    <2>3. u = t => i = id /\ PdeIndex(w) = PdeIndex(v)
      BY Zenon, <1>a, <2>1
    <2>4. u = t /\ PteIndex(w) = PteIndex(v) <=> i = id /\ w = v
      BY <2>3, Indices
    <2>5. u # 0 => ptbl'[u][PteIndex(w)] =
                     IF i = id /\ w = v THEN e ELSE ptbl[u][PteIndex(w)]
      <3> HIDE DEF t, u
      <3> QED BY <1>1, <1>2, <2>1, <2>2, <2>4
    <2>6. E(i, w)' = IF u # 0
                     THEN IF "PTE_P" \in ptbl'[u][PteIndex(w)].perm
                          THEN ptbl'[u][PteIndex(w)] ELSE Zero
                     ELSE Zero
      BY DEF E, get_ptbl_entry_by_va, get_pdir_entry_by_va
    <2>7. E(i, w) = IF u # 0
                    THEN IF "PTE_P" \in ptbl[u][PteIndex(w)].perm
                         THEN ptbl[u][PteIndex(w)] ELSE Zero
                    ELSE Zero
      BY DEF E, get_ptbl_entry_by_va, get_pdir_entry_by_va
    <2>8. i = id /\ w = v => u # 0
      BY <1>1
    <2> HIDE DEF u
    <2> QED BY <2>5, <2>6, <2>7, <2>8
  <1>4. \A p : (IsTable(p)' <=> IsTable(p))
    BY DEF IsTable
  <1>5. \A q \in Norm, k \in Ptes : ptbl'[q][k] # Zero => IsTable(q)'
    <2>1. IsTable(t)
      BY <1>1 DEF IsTable
    <2> HIDE DEF t
    <2>2. \A q \in Norm, k \in Ptes : q # t => ptbl'[q][k] = ptbl[q][k]
      BY <1>1, <1>2
    <2> QED BY <1>4, <2>1, <2>2 DEF TablesInv
  <1> QED BY <1>3, <1>4, <1>5

-----------------------------------------------------------------------------
\* Nothing is taken back.
Grows ==
  /\ \A i \in Ids : held[i] \subseteq held'[i]
  /\ UsedIds \subseteq UsedIds'

\* What is known of every step before its effect on the mappings is looked at.
VmStep == VmInv /\ TypeInv' /\ OwnershipInv' /\ RangeInv' /\ Grows

\* Several pages for a process, when requests do not wrap: they are what it
\* asked for, from the first free page on.
LEMMA RunFresh ==
  ASSUME RoomAbove, RequestsDoNotWrap, QuotaInv, OwnershipInv, NEW id \in UsedIds,
         NEW len \in Lens, container_consecutive_alloc(id, len), Got(id) # {}
  PROVE  /\ len > 0 /\ len <= RealQuota
         /\ \E page \in Norm : Got(id) = PageRun(page, len)
  <1>1. /\ id \in Ids /\ held \in [Ids -> SUBSET Nat] /\ len \in Nat
        /\ CONTAINER[id].usage \in Nat /\ CONTAINER[id].quota \in Nat
        /\ CONTAINER[id].usage <= RealQuota /\ CONTAINER[id].quota <= RealQuota
        /\ CONTAINER[id].usage <= CONTAINER[id].quota
    BY Spaces, RealQuotaType
       DEF UsedIds, QuotaInv, TypeOK, Container, UsageWithinQuota, QuotaBounded
  <1>2. held' # held
    BY DEF Got
  <1>3. PICK page \in Norm \cup {0, VM_USERLO_PI} :
          /\ page # 0
          /\ consecutive_palloc(len, page)
          /\ (CONTAINER[id].usage + len) % WORD <= CONTAINER[id].quota
          /\ held' = [held EXCEPT ![id] = @ \cup PageRun(page, len)]
    BY <1>2 DEF container_consecutive_alloc, vars
  <1>4. Got(id) = PageRun(page, len) \ held[id] /\ page \in Nat
    BY <1>1, <1>3, PageAssumption DEF Got
  <1>5. len # 0
    BY <1>1, <1>4 DEF PageRun
  <1>6. FirstFree(page) /\ page \in Norm
    BY <1>1, <1>3, <1>5 DEF consecutive_palloc, FirstFree, FreePages
  <1>7. \A p \in held[id] : p < page /\ p \in Nat
    BY <1>1, <1>6 DEF OwnershipInv, FreeAboveHeld, FirstFree
  <1>8. \A p \in PageRun(page, len) : p \in Int /\ page <= p
    BY <1>1, <1>4 DEF PageRun
  <1>9. PageRun(page, len) \cap held[id] = {}
    BY <1>4, <1>7, <1>8
  <1>10. len <= RealQuota
    <2>1. CONTAINER[id].usage + len < WORD /\ WORD \in Nat
      BY <1>1, RealQuotaType, ContainerAssumption DEF RequestsDoNotWrap
    <2>2. (CONTAINER[id].usage + len) % WORD = CONTAINER[id].usage + len
      BY <1>1, <2>1, ModBelow
    <2> QED BY <1>1, <1>3, <2>2, RealQuotaType
  <1> QED BY <1>1, <1>4, <1>5, <1>6, <1>9, <1>10

\* The containers only grow, and hand out pages of the user area only.
LEMMA KernelGrows ==
  ASSUME RoomAbove, RequestsDoNotWrap, QuotaInv, OwnershipInv, RangeInv,
         [KernelNext]_vars
  PROVE  Grows /\ OwnershipInv' /\ RangeInv'
  <1>1. OwnershipInv'
    BY NextOwnership
  <1>2. CASE UNCHANGED vars
    BY <1>1, <1>2 DEF vars, Grows, RangeInv, UsedIds
  <1>3. ASSUME NEW id \in UsedIds, NEW quota \in 0 .. RealQuota,
               alloc_mem_quota(id, quota)
        PROVE  Grows /\ RangeInv'
    <2>1. PICK child \in Ids \cup {NUM_IDS} : container_split(id, quota, child)
      BY <1>3 DEF alloc_mem_quota
    <2>2. UNCHANGED held /\ quota \in Nat
      BY <1>3 DEF alloc_mem_quota
    <2>3. UsedIds \subseteq UsedIds'
      <3>1. CASE UNCHANGED CONTAINER
        BY <3>1 DEF UsedIds
      <3>2. CASE child \in Ids
        BY <2>1, <2>2, <3>2, SplitChild
      <3>3. child \in Ids \/ UNCHANGED CONTAINER
        BY <2>1, ContainerAssumption DEF container_split
      <3> QED BY <3>1, <3>2, <3>3
    <2> QED BY <2>2, <2>3 DEF Grows, RangeInv
  <1>4. ASSUME NEW id \in UsedIds, held \in [Ids -> SUBSET Nat],
               held' = [held EXCEPT ![id] = held[id] \cup Got(id)],
               UsedIds' = UsedIds, Got(id) \subseteq VM_USERLO_PI .. VM_USERHI_PI - 1
        PROVE  Grows /\ RangeInv'
    BY <1>4 DEF Grows, RangeInv, UsedIds
  <1>5. held \in [Ids -> SUBSET Nat]
    BY DEF QuotaInv, TypeOK
  <1>6. ASSUME NEW id \in UsedIds, container_alloc(id)
        PROVE  Grows /\ RangeInv'
    <2>1. /\ UsedIds' = UsedIds
          /\ held' = [held EXCEPT ![id] = held[id] \cup Got(id)]
          /\ Got(id) \subseteq Norm
      BY <1>6, AllocGot
    <2> QED BY Zenon, <1>4, <1>5, <2>1, PageAssumption
  <1>7. ASSUME NEW id \in UsedIds, NEW len \in Lens,
               container_consecutive_alloc(id, len)
        PROVE  Grows /\ RangeInv'
    <2>1. /\ UsedIds' = UsedIds
          /\ held' = [held EXCEPT ![id] = held[id] \cup Got(id)]
      BY <1>7, RunGot
    <2>2. CASE Got(id) = {}
      BY Zenon, <1>4, <1>5, <2>1, <2>2
    <2>3. CASE Got(id) # {}
      <3>1. /\ len \in Nat /\ len <= RealQuota
            /\ \E page \in Norm : Got(id) = PageRun(page, len)
        BY <1>7, <2>3, RunFresh, Spaces
      <3>2. PICK page \in Norm : Got(id) = PageRun(page, len)
        BY <3>1
      <3>3. /\ page + RealQuota <= VM_USERHI_PI /\ page >= VM_USERLO_PI
            /\ page \in Nat /\ VM_USERLO_PI \in Nat /\ VM_USERHI_PI \in Nat
        BY PageAssumption DEF RoomAbove
      <3>4. Got(id) \subseteq VM_USERLO_PI .. VM_USERHI_PI - 1
        BY <3>1, <3>2, <3>3, RealQuotaType DEF PageRun
      <3> QED BY Zenon, <1>4, <1>5, <2>1, <3>4
    <2> QED BY <2>2, <2>3
  <1> QED BY <1>1, <1>2, <1>3, <1>6, <1>7 DEF KernelNext

\* A page that was just handed out has no history.
LEMMA FreshPage ==
  ASSUME VmStep, NEW id \in Ids, NEW p \in Got(id)
  PROVE  /\ p \in held'[id] /\ p \notin Owned /\ p \in Frames /\ p # 0
         /\ p >= VM_USERLO_PI /\ ~IsTable(p) /\ ~IsMapped(p) /\ mem[p] = 0
         /\ p \in Norm => \A k \in Ptes : ptbl[p][k] = Zero
  <1>1. p \in held'[id] /\ p \notin held[id]
    BY DEF Got
  <1>2. p \notin Owned
    BY <1>1 DEF Owned, VmStep, Grows, OwnershipInv, NoDoubleGrant
  <1>3. p \in VM_USERLO_PI .. VM_USERHI_PI - 1
    BY <1>1 DEF VmStep, RangeInv
  <1>4. p \in Frames /\ p # 0 /\ p >= VM_USERLO_PI /\ p \in Nat
    BY <1>3, PageAssumption, PagingAssumption DEF Frames
  <1>a. TablesInv /\ EntriesInv /\ MemInv
    BY DEF VmStep, VmInv, PagingInv
  <1>5. ~IsTable(p)
    BY <1>2, <1>4, <1>a DEF IsTable, TablesInv, Owned
  <1>6. ~IsMapped(p)
    BY <1>2, <1>a DEF IsMapped, EntriesInv
  <1>7. mem[p] = 0
    BY <1>2, <1>4, <1>a DEF MemInv
  <1>8. p \in Norm => \A k \in Ptes : ptbl[p][k] = Zero
    BY <1>5, <1>a DEF TablesInv
  <1> QED BY <1>1, <1>2, <1>4, <1>5, <1>6, <1>7, <1>8

\* What is owned stays owned.
LEMMA OwnedGrows == ASSUME Grows PROVE Owned \subseteq Owned' /\ Procs \subseteq Procs'
  BY DEF Grows, Owned, Procs
=============================================================================
