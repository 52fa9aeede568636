-------------------------- MODULE MPTForkMap_lemmas --------------------------
(***************************************************************************)
(* The invariant of virtual memory is kept by mappings, by what programs   *)
(* do to their memory, and by copy-on-write.                               *)
(***************************************************************************)
EXTENDS MPTFork_lemmas

-----------------------------------------------------------------------------
\* A step that changes no page structure keeps what is known about them.
LEMMA QuietTables ==
  ASSUME VmStep, UNCHANGED <<PDirPool, ptbl>>
  PROVE  TablesInv' /\ EntriesInv'
  <1>1. /\ \A id \in Ids, v \in VPages :
             E(id, v)' = E(id, v) /\ (Present(id, v)' <=> Present(id, v))
        /\ \A p : (IsTable(p)' <=> IsTable(p))
    BY SameTables
  <1>2. Owned \subseteq Owned' /\ Procs \subseteq Procs' /\ Grows
    BY OwnedGrows DEF VmStep
  <1>3. TablesInv /\ EntriesInv
    BY DEF VmStep, VmInv, PagingInv
  <1>4. TablesInv'
    BY <1>1, <1>2, <1>3 DEF TablesInv, Grows
  <1>5. EntriesInv'
    BY <1>1, <1>2, <1>3 DEF EntriesInv
  <1> QED BY <1>4, <1>5

\* A step that changes no memory either keeps what is known about the content
\* of pages.
LEMMA QuietMem ==
  ASSUME VmStep, UNCHANGED <<PDirPool, ptbl, mem, view, partial>>,
         Procs' = Procs, job.op # "vmm_copy"
  PROVE  MemInv'
  <1>1. \A id \in Ids, v \in VPages :
             E(id, v)' = E(id, v) /\ (Present(id, v)' <=> Present(id, v))
    BY SameTables
  <1>2. Owned \subseteq Owned' /\ MemInv /\ Procs \subseteq Ids
    BY OwnedGrows DEF VmStep, VmInv, PagingInv, Procs, UsedIds
  <1>3. \A id \in Ids, v \in VPages : Content(id, v)' = Content(id, v)
    BY <1>1 DEF Content, E
  <1> QED BY <1>2, <1>3 DEF MemInv

-----------------------------------------------------------------------------
\* The start of a mapping.
LEMMA StartMap ==
  ASSUME VmStep, NEW base \in Job, NEW id \in Procs, NEW v \in VPages,
         NEW perm, perm \subseteq PWU, "PTE_P" \in perm,
         NEW page \in Nat, NEW n \in Nat \ {0}, Got(id) = PageRun(page, n),
         job' = MapJob(base, id, v, perm, page, n),
         UNCHANGED <<PDirPool, ptbl, mem, view, partial>>,
         Procs' = Procs, job.op # "vmm_copy",
         base.caller \in {"sys_mmap", "pgflt_handler", "elf_load", "pt_copyin"},
         base.caller = "elf_load" => id = job.pid /\ job.op \in {"load", "fill"}
  PROVE  PagingInv'
  <1>1. TablesInv' /\ EntriesInv' /\ MemInv'
    BY QuietTables, QuietMem
  <1>2. /\ \A i \in Ids, w \in VPages :
             E(i, w)' = E(i, w) /\ (Present(i, w)' <=> Present(i, w))
        /\ \A p : (IsTable(p)' <=> IsTable(p)) /\ (IsMapped(p)' <=> IsMapped(p))
    BY SameTables
  <1>3. id \in Ids /\ perm \in SUBSET Flags
    BY DEF Procs, UsedIds, PWU, Flags
  <1>4. /\ page \in PageRun(page, n) /\ PageRun(page, n) \subseteq Nat
        /\ \A p \in PageRun(page, n) : p >= page
    BY DEF PageRun
  <1>7. /\ job'.op = "map" /\ job'.pid = id /\ job'.first = v /\ job'.va = v
        /\ job'.perm = perm /\ job'.left = n /\ job'.page = page
        /\ job'.caller = base.caller
    BY <1>3, MapJobType
  <1>8. MapInv'
    <2>1. ASSUME NEW p \in PageRun(page, n)
          PROVE  p \in held'[id] /\ ~IsTable(p)' /\ ~IsMapped(p)' /\ mem'[p] = 0
      BY <1>2, <1>3, FreshPage
    <2>2. v \in Nat /\ v .. v - 1 = {}
      BY Indices
    <2> QED BY <1>7, <2>1, <2>2 DEF MapInv
  <1>9. JobInv'
    <2>1. base.caller = "elf_load" =>
             \A w \in VPages : Present(id, w) => "PTE_COW" \notin E(id, w).perm
      BY DEF VmStep, VmInv, PagingInv, JobInv
    <2> QED BY <1>2, <1>3, <1>7, <2>1 DEF JobInv
  <1>10. CopyInv'
    BY <1>7 DEF CopyInv
  <1> QED BY <1>1, <1>8, <1>9, <1>10 DEF PagingInv

\* One page for a process, and its mapping.
LEMMA AllocPageInv ==
  ASSUME VmStep, NEW base \in Job, NEW id \in Procs, NEW v \in VPages,
         NEW perm, perm \subseteq PWU, "PTE_P" \in perm,
         alloc_page(base, id, v, perm), job.op # "vmm_copy",
         base.caller \in {"sys_mmap", "pgflt_handler", "elf_load", "pt_copyin"},
         base.caller = "elf_load" => id = job.pid /\ job.op \in {"load", "fill"}
  PROVE  PagingInv'
  <1>1. id \in UsedIds /\ QuotaInv
    BY DEF VmStep, VmInv, TypeInv, Procs
  <1>2. UsedIds' = UsedIds
    BY <1>1, AllocGot DEF alloc_page
  <1>3. PICK page \in Norm : /\ Got(id) = {page}
                             /\ job' = MapJob(base, id, v, perm, page, 1)
    BY <1>1, AllocGot DEF alloc_page
  <1>4. page \in Nat /\ PageRun(page, 1) = {page}
    BY Pages DEF PageRun
  <1>5. Procs' = Procs
    BY <1>2 DEF Procs
  <1> QED BY <1>3, <1>4, <1>5, StartMap DEF alloc_page

\* Several pages for a process, and their mapping.
LEMMA AllocRunInv ==
  ASSUME RoomAbove, RequestsDoNotWrap, VmStep,
         NEW base \in Job, NEW id \in Procs, NEW v \in VPages,
         NEW perm, perm \subseteq PWU, "PTE_P" \in perm, NEW len \in Lens,
         alloc_consecutive_page(base, id, v, perm, len), job.op # "vmm_copy",
         base.caller = "sys_mmap"
  PROVE  PagingInv'
  <1>1. id \in UsedIds /\ QuotaInv /\ OwnershipInv
    BY DEF VmStep, VmInv, TypeInv, Procs
  <1>2. UsedIds' = UsedIds
    BY <1>1, RunGot DEF alloc_consecutive_page
  <1>3. len \in Nat /\ len > 0 /\ \E page \in Norm : Got(id) = PageRun(page, len)
    BY <1>1, RunFresh, Spaces DEF alloc_consecutive_page
  <1>4. PICK page \in Norm : Got(id) = PageRun(page, len)
    BY <1>3
  <1>5. page \in Nat /\ Procs' = Procs
    BY <1>2, Pages DEF Procs
  <1>6. page \in PageRun(page, len) /\ \A q \in PageRun(page, len) : q \in Int /\ page <= q
    BY <1>3, <1>5 DEF PageRun
  <1>7. PICK q \in Got(id) : /\ \A r \in Got(id) : q <= r
                             /\ job' = MapJob(base, id, v, perm, q, len)
    BY DEF alloc_consecutive_page
  <1>8. job' = MapJob(base, id, v, perm, page, len)
    <2>1. q = page
      BY <1>4, <1>5, <1>6, <1>7
    <2> QED BY <1>7, <2>1
  <1> QED BY <1>3, <1>4, <1>5, <1>8, StartMap DEF alloc_consecutive_page

\* A step to another job that is no mapping and no copying.
LEMMA NextJob ==
  ASSUME VmStep, UNCHANGED <<PDirPool, ptbl, mem, view, partial>>,
         Procs' = Procs, job.op # "vmm_copy",
         job'.op \in {"user", "halt", "load", "fill", "read"},
         job'.caller \notin {"alloc_super_page", "copy_on_write"},
         job'.op \in {"load", "fill"} =>
           /\ job'.pid = job.pid
           /\ job.op \in {"load", "fill"} \/ (job.op = "map" /\ job.caller = "elf_load"),
         NEW pid \in Ids, job'.pid = pid, NEW v \in VPages, job'.first = v,
         job'.op = "read" =>
           Present(pid, v) \/ FreePages' = {} \/ ~container_can_consume(pid, 1)'
  PROVE  PagingInv'
  <1>1. TablesInv' /\ EntriesInv' /\ MemInv'
    BY QuietTables, QuietMem
  <1>2. /\ \A i \in Ids, w \in VPages :
             E(i, w)' = E(i, w) /\ (Present(i, w)' <=> Present(i, w))
    BY SameTables
  <1>3. MapInv' /\ CopyInv'
    BY DEF MapInv, CopyInv
  <1>4. JobInv
    BY DEF VmStep, VmInv, PagingInv
  <1>5. job'.op \in {"load", "fill"} =>
          \A w \in VPages : Present(pid, w)' => "PTE_COW" \notin E(pid, w)'.perm
    BY <1>2, <1>4 DEF JobInv
  <1>6. job'.op = "read" /\ ~Present(pid, v)' =>
           FreePages' = {} \/ ~container_can_consume(pid, 1)'
    BY <1>2
  <1>7. JobInv'
    BY <1>5, <1>6 DEF JobInv
  <1> QED BY <1>1, <1>3, <1>7 DEF PagingInv

\* A page that nobody has mapped is mapped.
LEMMA SetInv ==
  ASSUME VmStep, NEW id \in Procs, NEW v \in VPages, NEW page, NEW perm,
         perm \subseteq PWU, "PTE_P" \in perm, page \in held'[id],
         ~IsTable(page), ~IsMapped(page), get_pdir_entry_by_va(id, v) # 0,
         UNCHANGED PDirPool,
         ptbl' = set_ptbl_entry_by_va(id, v, Entry(page, perm))
  PROVE  /\ Entry(page, perm) = [frame |-> page, perm |-> perm]
         /\ \A i \in Ids, w \in VPages :
              /\ E(i, w)' = IF i = id /\ w = v THEN Entry(page, perm) ELSE E(i, w)
              /\ ~(i = id /\ w = v) => (Present(i, w)' <=> Present(i, w))
         /\ Present(id, v)'
         /\ \A p : (IsTable(p)' <=> IsTable(p)) /\ (IsMapped(p)' => IsMapped(p) \/ p = page)
         /\ TablesInv' /\ EntriesInv'
  <1>1. id \in Ids /\ VmTypeOK /\ TablesInv /\ EntriesInv /\ Grows
    BY DEF Procs, UsedIds, VmStep, VmInv, TypeInv, PagingInv
  <1>2. /\ Owned \subseteq Owned' /\ Procs \subseteq Procs' /\ page \in Owned'
    BY <1>1, OwnedGrows DEF Owned
  <1>3. page \in Nat /\ page < FRAMES /\ FRAMES \in Nat
    <2>1. page \in VM_USERLO_PI .. VM_USERHI_PI - 1
      BY <1>1 DEF VmStep, RangeInv
    <2> QED BY <2>1, PageAssumption, PagingAssumption
  <1>4. Entry(page, perm) = [frame |-> page, perm |-> perm]
    BY <1>3, ModBelow DEF Entry
  <1>5. Entry(page, perm) \in PageEntry /\ Entry(page, perm) # Zero
    <2>1. perm \in SUBSET Flags /\ perm # {}
      BY DEF PWU, Flags
    <2> QED BY <1>3, <1>4, <2>1, MadeEntryType DEF Zero
  <1>6. /\ \A i \in Ids, w \in VPages :
             E(i, w)' = IF i = id /\ w = v THEN Entry(page, perm) ELSE E(i, w)
        /\ \A p : (IsTable(p)' <=> IsTable(p))
        /\ \A q \in Norm, k \in Ptes : ptbl'[q][k] # Zero => IsTable(q)'
    BY <1>1, <1>4, <1>5, SetFrame
  <1>7. \A i \in Ids, w \in VPages :
          Present(i, w)' <=> (i = id /\ w = v) \/ Present(i, w)
    BY <1>5, <1>6 DEF Present, E
  <1>8. \A p : IsMapped(p)' => IsMapped(p) \/ p = page
    BY <1>4, <1>6, <1>7 DEF IsMapped
  <1>9. TablesInv'
    <2>1. PDirPool' = PDirPool
      OBVIOUS
    <2>2. \A i \in Ids, g \in Pdes :
            PDirPool[i][g] # 0 => PDirPool[i][g] \in held'[i] /\ i \in Procs'
      BY <1>1, <1>2 DEF TablesInv, Grows
    <2>3. \A i, j \in Ids, g, h \in Pdes :
            PDirPool[i][g] # 0 /\ PDirPool[i][g] = PDirPool[j][h] => i = j /\ g = h
      BY <1>1 DEF TablesInv
    <2>4. \A q \in Norm, k \in Ptes : ptbl'[q][k] # Zero => IsTable(q)'
      BY <1>6
    <2> QED BY <2>1, <2>2, <2>3, <2>4 DEF TablesInv
  <1>10. EntriesInv'
    <2>1. ASSUME NEW i \in Ids, NEW w \in VPages, Present(i, w)'
          PROVE  /\ E(i, w)'.frame \in Owned' /\ ~IsTable(E(i, w)'.frame)
                 /\ "P_SUPER" \notin E(i, w)'.perm
                 /\ "PTE_W" \in E(i, w)'.perm => "PTE_COW" \notin E(i, w)'.perm
      <3>1. CASE i = id /\ w = v
        BY <1>2, <1>4, <1>6, <3>1 DEF PWU
      <3>2. CASE ~(i = id /\ w = v)
        <4>1. Present(i, w) /\ E(i, w)' = E(i, w)
          BY Zenon, <1>6, <1>7, <2>1, <3>2
        <4>2. /\ E(i, w).frame \in Owned /\ ~IsTable(E(i, w).frame)
              /\ "P_SUPER" \notin E(i, w).perm
              /\ "PTE_W" \in E(i, w).perm => "PTE_COW" \notin E(i, w).perm
          BY Zenon, <1>1, <4>1 DEF EntriesInv
        <4> QED BY Zenon, <1>2, <4>1, <4>2
      <3> QED BY <3>1, <3>2
    <2>2. ASSUME NEW i \in Ids, NEW j \in Ids, NEW w \in VPages, NEW x \in VPages,
                 Present(i, w)', "PTE_COW" \notin E(i, w)'.perm, Present(j, x)',
                 E(i, w)'.frame = E(j, x)'.frame
          PROVE  i = j /\ w = x
      <3>1. CASE i = id /\ w = v /\ ~(j = id /\ x = v)
        BY <1>4, <1>6, <1>7, <2>2, <3>1 DEF IsMapped
      <3>2. CASE ~(i = id /\ w = v) /\ j = id /\ x = v
        BY <1>4, <1>6, <1>7, <2>2, <3>2 DEF IsMapped
      <3>3. CASE ~(i = id /\ w = v) /\ ~(j = id /\ x = v)
        BY <1>1, <1>6, <1>7, <2>2, <3>3 DEF EntriesInv
      <3> QED BY <3>1, <3>2, <3>3
    <2>3. \A p : (IsTable(p)' <=> IsTable(p))
      BY <1>6
    <2> QED BY <2>1, <2>2, <2>3 DEF EntriesInv
  <1>11. \A i \in Ids, w \in VPages :
           /\ E(i, w)' = IF i = id /\ w = v THEN Entry(page, perm) ELSE E(i, w)
           /\ ~(i = id /\ w = v) => (Present(i, w)' <=> Present(i, w))
    BY <1>6, <1>7
  <1>12. Present(id, v)'
    BY <1>1, <1>7
  <1> QED BY <1>4, <1>6, <1>8, <1>9, <1>10, <1>11, <1>12

\* What a mapping job works on.
LEMMA MapLocals ==
  ASSUME VmInv, job.op = "map", job.left > 0
  PROVE  \E pid \in Procs, va \in VPages, page \in Nat, left \in Nat \ {0},
            first \in VPages :
           /\ job.pid = pid /\ job.va = va /\ job.page = page /\ job.left = left
           /\ job.first = first
  <1>1. /\ job \in Job /\ job.pid \in Procs
        /\ job.va + job.left <= NPDE * NPTE
    BY DEF VmInv, TypeInv, VmTypeOK, JobRange
  <1>2. /\ job.va \in 0 .. NPDE * NPTE /\ job.left \in Nat /\ job.page \in Nat
        /\ job.first \in VPages
    BY <1>1 DEF Job
  <1>3. job.va \in VPages
    BY <1>1, <1>2, Spaces DEF VPages
  <1> QED BY <1>1, <1>2, <1>3

\* The loop of a mapping: one page.
LEMMA MapPageInv ==
  ASSUME VmStep, map_consecutive_page
  PROVE  PagingInv'
  <1>1. /\ job \in Job /\ job.op = "map" /\ job.left > 0
        /\ VmInv /\ MapInv /\ JobInv /\ MemInv /\ VmTypeOK
    BY DEF VmStep, VmInv, TypeInv, VmTypeOK, PagingInv, map_consecutive_page
  <1>2. PICK pid \in Procs, va \in VPages, page \in Nat, left \in Nat \ {0},
             first \in VPages :
           /\ job.pid = pid /\ job.va = va /\ job.page = page /\ job.left = left
           /\ job.first = first
    BY <1>1, MapLocals
  <1>3. PICK perm \in SUBSET Flags : job.perm = perm
    BY <1>1 DEF Job
  <1>4. /\ perm \subseteq PWU /\ "PTE_P" \in perm /\ va >= first
        /\ \A p \in PageRun(page, left) :
             p \in held[pid] /\ ~IsTable(p) /\ ~IsMapped(p) /\ mem[p] = 0
        /\ \A v \in first .. va - 1 :
             page - (va - v) \in held[pid] /\ E(pid, v) = Entry(page - (va - v), perm)
    BY <1>1, <1>2, <1>3 DEF MapInv
  <1>5. /\ page \in PageRun(page, left) /\ pid \in Ids
        /\ va \in Nat /\ first \in Nat
    BY Indices DEF PageRun, Procs, UsedIds
  <1>6. /\ UNCHANGED <<held, PDirPool, mem, partial>> /\ Procs' = Procs
        /\ Owned' = Owned
    BY DEF map_consecutive_page, vars, UsedIds, Procs, Owned
  <1>7. /\ Entry(page, perm) = [frame |-> page, perm |-> perm]
        /\ \A i \in Ids, w \in VPages :
              /\ E(i, w)' = IF i = pid /\ w = va THEN Entry(page, perm) ELSE E(i, w)
              /\ ~(i = pid /\ w = va) => (Present(i, w)' <=> Present(i, w))
        /\ Present(pid, va)'
        /\ \A p : /\ (IsTable(p)' <=> IsTable(p))
                  /\ (IsMapped(p)' => IsMapped(p) \/ p = page)
        /\ TablesInv' /\ EntriesInv'
    <2>1. page \in held'[pid] /\ ~IsTable(page) /\ ~IsMapped(page)
      BY <1>4, <1>5, <1>6
    <2>2. /\ get_pdir_entry_by_va(pid, va) # 0
          /\ ptbl' = set_ptbl_entry_by_va(pid, va, Entry(page, perm))
      BY <1>2, <1>3 DEF map_consecutive_page
    <2> QED BY <1>4, <1>6, <2>1, <2>2, SetInv
  <1>8. /\ job'.op = "map" /\ job'.pid = pid /\ job'.perm = perm
        /\ job'.first = first /\ job'.caller = job.caller
        /\ job'.va = va + 1 /\ job'.left = left - 1 /\ job'.page = page + 1
    BY <1>1, <1>2, <1>3 DEF map_consecutive_page, Job
  <1>9. MapInv'
    <2>1. ASSUME NEW p \in PageRun(page + 1, left - 1)
          PROVE  p \in held[pid] /\ ~IsTable(p)' /\ ~IsMapped(p)' /\ mem[p] = 0
      <3>1. p \in PageRun(page, left) /\ p # page
        BY DEF PageRun
      <3> QED BY Zenon, <1>4, <1>7, <3>1
    <2>2. ASSUME NEW v \in first .. va
          PROVE  /\ (page + 1) - ((va + 1) - v) \in held[pid]
                 /\ E(pid, v)' = Entry((page + 1) - ((va + 1) - v), perm)
      <3>1. (page + 1) - ((va + 1) - v) = page - (va - v) /\ v \in VPages
        BY <1>5, Spaces DEF VPages
      <3>2. CASE v = va
        <4>1. page - (va - v) = page
          BY <1>5, <3>2
        <4> QED BY Zenon, <1>4, <1>5, <1>7, <3>1, <3>2, <4>1
      <3>3. CASE v # va
        <4>1. v \in first .. va - 1
          BY <1>5, <3>3
        <4> QED BY Zenon, <1>4, <1>5, <1>7, <3>1, <3>3, <4>1
      <3> QED BY <3>2, <3>3
    <2>3. va + 1 >= first /\ va + 1 > first /\ (va + 1) - 1 = va
      BY <1>4, <1>5
    <2> QED BY <1>4, <1>6, <1>8, <2>1, <2>2, <2>3 DEF MapInv
  <1>10. JobInv'
    <2>1. job.caller \notin {"alloc_super_page", "copy_on_write"}
      BY <1>1 DEF JobInv
    <2>2. job.caller = "elf_load" => \A w \in VPages :
            Present(pid, w)' => "PTE_COW" \notin E(pid, w)'.perm
      <3>1. "PTE_COW" \notin Entry(page, perm).perm
        BY <1>4, <1>7 DEF PWU
      <3>2. job.caller = "elf_load" => \A w \in VPages :
              Present(pid, w) => "PTE_COW" \notin E(pid, w).perm
        BY <1>1, <1>2 DEF JobInv
      <3> QED BY <1>5, <1>7, <3>1, <3>2
    <2> QED BY <1>8, <2>1, <2>2 DEF JobInv
  <1>11. CopyInv'
    BY <1>8 DEF CopyInv
  <1>12. MemInv'
    <2>1. view' = [view EXCEPT ![pid][va] = 0]
      BY <1>1, <1>2 DEF JobInv, map_consecutive_page
    <2>2. \A i \in Ids, w \in VPages : view'[i][w] =
             IF i = pid /\ w = va THEN 0 ELSE view[i][w]
      BY <1>1, <1>5, <2>1 DEF VmTypeOK
    <2>3. \A i \in Ids, w \in VPages : Content(i, w)' =
             IF i = pid /\ w = va THEN 0 ELSE Content(i, w)
      <3>1. Content(pid, va)' = mem[page]
        BY <1>5, <1>6, <1>7 DEF Content, E
      <3>2. mem[page] = 0
        BY Zenon, <1>4, <1>5
      <3> QED BY <1>6, <1>7, <3>1, <3>2 DEF Content, E
    <2>4. Procs \subseteq Ids
      BY DEF Procs, UsedIds
    <2> QED BY <1>1, <1>6, <1>8, <2>2, <2>3, <2>4 DEF MemInv
  <1> QED BY <1>7, <1>9, <1>10, <1>11, <1>12 DEF PagingInv

\* Back to user mode.
LEMMA ReturnInv ==
  ASSUME VmStep, Return, UNCHANGED <<PDirPool, ptbl, mem, view, partial>>,
         Procs' = Procs, job.op # "vmm_copy"
  PROVE  PagingInv'
  <1>1. /\ job'.op = "user" /\ job'.caller = "none" /\ job'.pid = 0
        /\ job'.first = 0
    BY DEF Return, Idle
  <1>2. 0 \in Ids /\ 0 \in VPages
    BY Spaces
  <1> QED BY <1>1, <1>2, NextJob

\* The end of a mapping.
LEMMA AfterMapInv ==
  ASSUME VmStep, NEW ok \in BOOLEAN, job.op = "map", AfterMap(ok),
         UNCHANGED <<PDirPool, ptbl, mem, view, partial>>, Procs' = Procs,
         NEW pid \in Ids, job.pid = pid, NEW v \in VPages, job.first = v,
         Present(pid, v) \/ FreePages' = {} \/ ~container_can_consume(pid, 1)'
  PROVE  PagingInv'
  <1>1. job \in Job /\ job.caller \notin {"alloc_super_page", "copy_on_write"}
    BY DEF VmStep, VmInv, TypeInv, VmTypeOK, PagingInv, JobInv
  <1>2. ASSUME NEW op \in {"halt", "fill", "read"}, Goto(op),
               op = "fill" => job.caller = "elf_load"
        PROVE  PagingInv'
    <2>1. /\ job'.op = op /\ job'.caller = job.caller /\ job'.pid = pid
          /\ job'.first = v
      BY <1>1, <1>2 DEF Goto, Job
    <2> QED BY <1>1, <1>2, <2>1, NextJob
  <1>3. CASE Return
    BY <1>3, ReturnInv
  <1> QED BY <1>1, <1>2, <1>3 DEF AfterMap

\* All pages are mapped.
LEMMA MapReturnsInv ==
  ASSUME VmStep, map_returns
  PROVE  PagingInv'
  <1>1. /\ job \in Job /\ job.op = "map" /\ job.left = 0 /\ MapInv
        /\ job.pid \in Ids /\ job.first \in VPages /\ job.va \in Nat
    BY Spaces DEF VmStep, VmInv, TypeInv, VmTypeOK, Job, PagingInv, map_returns
  <1>2. Procs' = Procs
    BY DEF map_returns, vars, Procs, UsedIds
  <1>3. Present(job.pid, job.first)
    <2>1. job.va > job.first /\ job.first \in Nat
      BY <1>1, Indices DEF MapInv
    <2>2. job.first \in job.first .. job.va - 1
      BY <1>1, <2>1
    <2>3. "PTE_P" \in E(job.pid, job.first).perm
      <3>1. /\ "PTE_P" \in job.perm
            /\ E(job.pid, job.first) = Entry(job.page - (job.va - job.first), job.perm)
        BY <1>1, <2>2 DEF MapInv
      <3> QED BY <3>1 DEF Entry
    <2> QED BY <1>1, <2>3, PresentIs
  <1> QED BY Zenon, <1>1, <1>2, <1>3, AfterMapInv DEF map_returns

\* A new page table changes no mapping.
LEMMA NewTable ==
  ASSUME VmStep, NEW id \in Procs, NEW g \in Pdes, PDirPool[id][g] = 0,
         NEW page \in Got(id), page \in Norm, UNCHANGED ptbl,
         PDirPool' = [PDirPool EXCEPT ![id][g] = page]
  PROVE  /\ \A i \in Ids, w \in VPages :
              E(i, w)' = E(i, w) /\ (Present(i, w)' <=> Present(i, w))
         /\ \A p : /\ IsTable(p)' => IsTable(p) \/ p = page
                   /\ IsMapped(p)' <=> IsMapped(p)
         /\ TablesInv' /\ EntriesInv'
  <1>1. /\ id \in Ids /\ PDirPool \in [Ids -> [Pdes -> Norm \cup {0}]]
        /\ TablesInv /\ EntriesInv /\ Grows
    BY DEF Procs, UsedIds, VmStep, VmInv, TypeInv, VmTypeOK, PagingInv, Pdes
  <1>2. /\ page \in held'[id] /\ page \notin Owned /\ page # 0 /\ ~IsTable(page)
        /\ \A k \in Ptes : ptbl[page][k] = Zero
    BY <1>1, FreshPage
  <1>3. \A i \in Ids, h \in Pdes :
          PDirPool'[i][h] = IF i = id /\ h = g THEN page ELSE PDirPool[i][h]
    BY <1>1
  <1>4. ASSUME NEW i \in Ids, NEW w \in VPages
        PROVE  E(i, w)' = E(i, w)
    <2>1. PdeIndex(w) \in Pdes /\ PteIndex(w) \in Ptes
      BY Indices
    <2>2. CASE i = id /\ PdeIndex(w) = g
      <3>1. E(i, w) = Zero
        BY <2>2 DEF E, get_ptbl_entry_by_va, get_pdir_entry_by_va
      <3>2. PDirPool'[i][PdeIndex(w)] = page /\ ptbl'[page][PteIndex(w)] = Zero
        BY <1>2, <1>3, <2>1, <2>2
      <3>3. E(i, w)' = Zero
        BY <3>2 DEF E, get_ptbl_entry_by_va, get_pdir_entry_by_va
      <3> QED BY <3>1, <3>3
    <2>3. CASE ~(i = id /\ PdeIndex(w) = g)
      <3>1. PDirPool'[i][PdeIndex(w)] = PDirPool[i][PdeIndex(w)]
        BY <1>3, <2>1, <2>3
      <3> QED BY <3>1 DEF E, get_ptbl_entry_by_va, get_pdir_entry_by_va
    <2> QED BY <2>2, <2>3
  <1>5. \A i \in Ids, w \in VPages : Present(i, w)' <=> Present(i, w)
    BY <1>4 DEF Present, E
  <1>6. \A p : /\ IsTable(p)' => IsTable(p) \/ p = page
               /\ IsMapped(p)' <=> IsMapped(p)
    BY <1>3, <1>4, <1>5 DEF IsTable, IsMapped
  <1>7. Owned \subseteq Owned' /\ Procs \subseteq Procs'
    BY <1>1, OwnedGrows
  <1>8. TablesInv'
    <2>1. \A i \in Ids, h \in Pdes : PDirPool'[i][h] # 0 =>
            PDirPool'[i][h] \in held'[i] /\ i \in Procs'
      BY <1>1, <1>2, <1>3, <1>7 DEF TablesInv, Grows
    <2>2. ASSUME NEW i \in Ids, NEW j \in Ids, NEW h \in Pdes, NEW k \in Pdes,
                 PDirPool'[i][h] # 0, PDirPool'[i][h] = PDirPool'[j][k]
          PROVE  i = j /\ h = k
      <3>1. \A l \in Ids, m \in Pdes : PDirPool[l][m] # page
        BY <1>2 DEF IsTable
      <3> QED BY <1>1, <1>3, <2>2, <3>1 DEF TablesInv
    <2>3. \A t \in Norm, k \in Ptes : ptbl'[t][k] # Zero => IsTable(t)'
      <3> SUFFICES ASSUME NEW t \in Norm, IsTable(t)
                   PROVE  IsTable(t)'
        BY <1>1 DEF TablesInv
      <3>1. PICK i \in Ids, h \in Pdes : PDirPool[i][h] = t
        BY DEF IsTable
      <3>2. PDirPool'[i][h] = t
        BY <1>3, <3>1, Pages
      <3> QED BY <3>2 DEF IsTable
    <2> QED BY <2>1, <2>2, <2>3 DEF TablesInv
  <1>9. EntriesInv'
    <2>1. ASSUME NEW i \in Ids, NEW w \in VPages, Present(i, w),
                 NEW f, f = E(i, w).frame
          PROVE  f \in Owned' /\ ~IsTable(f)'
      BY <1>1, <1>2, <1>6, <1>7, <2>1 DEF EntriesInv
    <2>2. ASSUME NEW i \in Ids, NEW w \in VPages, Present(i, w)'
          PROVE  /\ E(i, w)'.frame \in Owned' /\ ~IsTable(E(i, w).frame)'
                 /\ "P_SUPER" \notin E(i, w)'.perm
                 /\ "PTE_W" \in E(i, w)'.perm => "PTE_COW" \notin E(i, w)'.perm
      BY <1>1, <1>4, <1>5, <2>1, <2>2 DEF EntriesInv
    <2>3. ASSUME NEW i \in Ids, NEW j \in Ids, NEW v \in VPages, NEW w \in VPages,
                 Present(i, v)', "PTE_COW" \notin E(i, v)'.perm,
                 Present(j, w)', E(i, v)'.frame = E(j, w)'.frame
          PROVE  i = j /\ v = w
      <3>1. /\ Present(i, v) /\ "PTE_COW" \notin E(i, v).perm
            /\ Present(j, w) /\ E(i, v).frame = E(j, w).frame
        BY <1>4, <1>5, <2>3
      <3> QED BY Zenon, <1>1, <3>1 DEF EntriesInv
    <2> QED BY Zenon, <2>2, <2>3 DEF EntriesInv
  <1> QED BY <1>4, <1>5, <1>6, <1>8, <1>9

\* A page table on the way of a mapping.
LEMMA AllocTableInv ==
  ASSUME VmStep, alloc_ptbl
  PROVE  PagingInv'
  <1>1. /\ job \in Job /\ job.op = "map" /\ job.left > 0 /\ QuotaInv /\ OwnershipInv
        /\ VmInv /\ MapInv /\ JobInv /\ MemInv /\ VmTypeOK
    BY DEF VmStep, VmInv, TypeInv, VmTypeOK, PagingInv, alloc_ptbl
  <1>2. PICK pid \in Procs, va \in VPages, page \in Nat, left \in Nat \ {0},
             first \in VPages :
           /\ job.pid = pid /\ job.va = va /\ job.page = page /\ job.left = left
           /\ job.first = first
    BY <1>1, MapLocals
  <1>3. pid \in UsedIds /\ pid \in Ids /\ PdeIndex(va) \in Pdes
    BY Indices DEF Procs, UsedIds
  <1>4. container_alloc(pid) /\ PDirPool[pid][PdeIndex(va)] = 0
    BY <1>2 DEF alloc_ptbl, get_pdir_entry_by_va
  <1>5. /\ Procs' = Procs /\ Got(pid) \subseteq Norm
        /\ UNCHANGED <<ptbl, mem, view, partial>>
    BY <1>1, <1>3, <1>4, AllocGot DEF Procs, alloc_ptbl
  <1>6. CASE Got(pid) = {} /\ AfterMap(FALSE) /\ UNCHANGED PDirPool
    <2>1. FreePages' = {} \/ ~container_can_consume(pid, 1)'
      BY <1>1, <1>3, <1>4, <1>6, AllocFails DEF OwnershipInv
    <2> QED BY Zenon, <1>1, <1>2, <1>3, <1>5, <1>6, <2>1, AfterMapInv
  <1>7. ASSUME NEW t \in Got(pid), UNCHANGED job,
               PDirPool' = [PDirPool EXCEPT ![pid][PdeIndex(va)] = t]
        PROVE  PagingInv'
    <2>1. /\ \A i \in Ids, w \in VPages :
               E(i, w)' = E(i, w) /\ (Present(i, w)' <=> Present(i, w))
          /\ \A p : /\ IsTable(p)' => IsTable(p) \/ p = t
                    /\ IsMapped(p)' <=> IsMapped(p)
          /\ TablesInv' /\ EntriesInv'
      BY Zenon, <1>3, <1>4, <1>5, <1>7, NewTable
    <2>2. Owned \subseteq Owned' /\ held[pid] \subseteq held'[pid] /\ Procs \subseteq Ids
      BY <1>3, OwnedGrows DEF VmStep, Grows, Procs, UsedIds
    <2>3. t \notin Owned
      BY <1>3, FreshPage
    <2>4. MapInv'
      <3>1. ASSUME NEW p \in PageRun(page, left)
            PROVE  /\ p \in held'[pid] /\ ~IsTable(p)' /\ ~IsMapped(p)' /\ mem'[p] = 0
        <4>1. p \in held[pid] /\ ~IsTable(p) /\ ~IsMapped(p) /\ mem[p] = 0
          BY <1>1, <1>2 DEF MapInv
        <4>2. p # t
          BY <1>3, <2>3, <4>1 DEF Owned
        <4> QED BY Zenon, <1>5, <2>1, <2>2, <4>1, <4>2
      <3>2. ASSUME NEW v \in first .. va - 1
            PROVE  /\ page - (va - v) \in held'[pid]
                   /\ E(pid, v)' = Entry(page - (va - v), job.perm)
        <4>1. /\ page - (va - v) \in held[pid]
              /\ E(pid, v) = Entry(page - (va - v), job.perm)
          BY <1>1, <1>2 DEF MapInv
        <4>2. v \in VPages
          BY Spaces DEF VPages
        <4> QED BY Zenon, <1>3, <2>1, <2>2, <4>1, <4>2
      <3>3. /\ job.perm \subseteq PWU /\ "PTE_P" \in job.perm
            /\ va >= first /\ (left = 0 => va > first)
        BY Zenon, <1>1, <1>2 DEF MapInv
      <3> QED BY <1>2, <1>7, <3>1, <3>2, <3>3 DEF MapInv
    <2>5. JobInv'
      <3>1. job.caller = "elf_load" => \A w \in VPages :
              Present(pid, w)' => "PTE_COW" \notin E(pid, w)'.perm
        BY Zenon, <1>1, <1>2, <1>3, <2>1 DEF JobInv
      <3>2. job.caller \notin {"alloc_super_page", "copy_on_write"}
        BY <1>1 DEF JobInv
      <3> QED BY <1>1, <1>2, <1>7, <3>1, <3>2 DEF JobInv
    <2>6. CopyInv'
      BY <1>1, <1>7 DEF CopyInv
    <2>7. MemInv'
      <3>1. \A i \in Ids, w \in VPages : Content(i, w)' = Content(i, w)
        BY Zenon, <1>5, <2>1 DEF Content, E
      <3> QED BY <1>1, <1>5, <1>7, <2>2, <3>1 DEF MemInv
    <2> QED BY <2>1, <2>4, <2>5, <2>6, <2>7 DEF PagingInv
  <1> QED BY Zenon, <1>2, <1>6, <1>7 DEF alloc_ptbl

-----------------------------------------------------------------------------
\* Writing, through an entry that is not copy-on-write, to a page that is
\* present: by a program, or by pt_copyout for it.
LEMMA StoreMem ==
  ASSUME VmInv, NEW id \in Procs, NEW v \in VPages, NEW data,
         Present(id, v), "PTE_COW" \notin E(id, v).perm,
         UNCHANGED <<vars, PDirPool, ptbl, partial>>,
         mem' = [mem EXCEPT ![E(id, v).frame] = data],
         view' = [view EXCEPT ![id][v] = data],
         job.op # "vmm_copy"
  PROVE  MemInv'
  <1>1. /\ id \in Ids /\ Procs \subseteq Ids /\ VmTypeOK /\ EntriesInv /\ MemInv
    BY DEF Procs, UsedIds, VmInv, TypeInv, PagingInv
  <1>2. /\ \A i \in Ids, w \in VPages :
             E(i, w)' = E(i, w) /\ (Present(i, w)' <=> Present(i, w))
    BY SameTables
  <1>3. Procs' = Procs /\ Owned' = Owned /\ partial' = partial
    BY DEF vars, Procs, UsedIds, Owned
  <1>4. E(id, v).frame \in Frames /\ E(id, v).frame \in Owned
    BY <1>1, EntryType DEF EntriesInv, PageEntry
  <1>5. \A f \in Frames : mem'[f] = IF f = E(id, v).frame THEN data ELSE mem[f]
    BY <1>1, <1>4 DEF VmTypeOK
  <1>6. \A i \in Ids, w \in VPages :
          view'[i][w] = IF i = id /\ w = v THEN data ELSE view[i][w]
    BY <1>1 DEF VmTypeOK
  <1>7. ASSUME NEW i \in Ids, NEW w \in VPages
        PROVE  Content(i, w)' = IF i = id /\ w = v THEN data ELSE Content(i, w)
    <2>1. E(i, w).frame \in Frames
      BY <1>1, EntryType DEF PageEntry
    <2>2. Present(i, w) /\ E(i, w).frame = E(id, v).frame => i = id /\ w = v
      BY <1>1 DEF EntriesInv
    <2>3. Content(i, w)' = IF Present(i, w) THEN mem'[E(i, w).frame] ELSE 0
      BY <1>2 DEF Content, E
    <2>4. Content(i, w) = IF Present(i, w) THEN mem[E(i, w).frame] ELSE 0
      BY DEF Content, E
    <2> QED BY <1>5, <2>1, <2>2, <2>3, <2>4
  <1>8. \A f \in Frames : f >= VM_USERLO_PI /\ f \notin Owned => mem'[f] = 0
    BY <1>1, <1>4, <1>5 DEF MemInv
  <1>9. \A i \in Ids \ Procs, w \in VPages : view'[i][w] = 0
    BY <1>1, <1>6 DEF MemInv
  <1>10. \A i \in Procs \ partial, w \in VPages : Content(i, w)' = view'[i][w]
    BY <1>1, <1>6, <1>7 DEF MemInv
  <1> QED BY <1>3, <1>8, <1>9, <1>10 DEF MemInv

\* A program writes to a page it may write.
LEMMA WriteInv ==
  ASSUME VmStep, NEW id \in Procs, NEW v \in VPages, NEW data \in Data,
         Write(id, v, data)
  PROVE  PagingInv'
  <1>1. id \in Ids /\ VmInv /\ EntriesInv /\ JobInv /\ job.op = "user"
    BY DEF Procs, UsedIds, VmStep, VmInv, PagingInv, Write, InUser
  <1>2. Present(id, v) /\ "PTE_COW" \notin E(id, v).perm
    <2>1. "PTE_W" \in E(id, v).perm
      BY DEF Write, E
    <2>2. E(id, v) # Zero
      BY <2>1 DEF Zero
    <2> QED BY <1>1, <2>1, <2>2, PresentIs DEF EntriesInv
  <1>3. TablesInv' /\ EntriesInv'
    BY QuietTables DEF Write
  <1>4. MemInv'
    BY Zenon, <1>1, <1>2, StoreMem DEF Write, E
  <1>5. MapInv' /\ JobInv' /\ CopyInv'
    BY <1>1 DEF Write, MapInv, JobInv, CopyInv
  <1> QED BY <1>3, <1>4, <1>5 DEF PagingInv

\* A page fault on a page that is not mapped, or that may not be written.
LEMMA FaultInv ==
  ASSUME VmStep, NEW id \in Procs, NEW v \in VPages,
         pgflt_handler(id, v) \/ pgflt_handler_panics(id, v)
  PROVE  PagingInv'
  <1>1. /\ id \in Ids /\ job \in Job /\ job.op = "user" /\ QuotaInv
        /\ id \in UsedIds /\ JobInv
    BY DEF Procs, UsedIds, VmStep, VmInv, TypeInv, VmTypeOK, pgflt_handler, InUser,
           pgflt_handler_panics, PagingInv
  <1>2. CASE alloc_page(For("pgflt_handler"), id, v, PWU)
    <2>1. /\ For("pgflt_handler") \in Job
          /\ For("pgflt_handler").caller = "pgflt_handler"
      BY IdleType
    <2>2. PWU \subseteq PWU /\ "PTE_P" \in PWU
      BY DEF PWU
    <2> QED BY <1>1, <1>2, <2>1, <2>2, AllocPageInv
  <1>3. CASE alloc_page_fails(id, [Idle EXCEPT !.op = "halt"])
    <2>1. /\ job'.op = "halt" /\ job'.caller = "none" /\ job'.pid = 0
          /\ job'.first = 0
      BY <1>3 DEF alloc_page_fails, Idle
    <2>2. Procs' = Procs
      BY <1>1, <1>3, AllocGot DEF Procs, alloc_page_fails
    <2>3. 0 \in Ids /\ 0 \in VPages
      BY Spaces
    <2> QED BY <1>1, <1>3, <2>1, <2>2, <2>3, NextJob DEF alloc_page_fails
  <1>4. CASE pgflt_handler_panics(id, v)
    <2>1. /\ job'.op = "halt" /\ job'.caller = job.caller /\ job'.pid = job.pid
          /\ job'.first = job.first /\ job.pid \in Ids /\ job.first \in VPages
      BY <1>1, <1>4 DEF pgflt_handler_panics, Goto, Job
    <2>2. job.caller \notin {"alloc_super_page", "copy_on_write"}
      BY Zenon, <1>1 DEF JobInv
    <2>3. Procs' = Procs
      BY Zenon, <1>4 DEF Procs, UsedIds, vars, pgflt_handler_panics
    <2> QED BY Zenon, <1>1, <1>4, <2>1, <2>2, <2>3, NextJob DEF pgflt_handler_panics
  <1> QED BY <1>2, <1>3, <1>4 DEF pgflt_handler

\* sys_mmap without super pages.
LEMMA MmapInv ==
  ASSUME NoSuperPages, RoomAbove, RequestsDoNotWrap, VmStep, NEW id \in Procs,
         NEW v \in MmapPages, NEW perm \in MmapPerms, sys_mmap(id, v, perm)
  PROVE  PagingInv'
  <1>1. /\ id \in UsedIds /\ job.op = "user" /\ QuotaInv
    BY DEF Procs, VmStep, VmInv, TypeInv, sys_mmap, InUser
  <1>2. v \in VPages /\ perm \subseteq PWU /\ "PTE_P" \in perm
    BY ForkAssumption
  <1>3. For("sys_mmap") \in Job /\ For("sys_mmap").caller = "sys_mmap"
    BY IdleType
  <1>4. ASSUME job' = Idle, UsedIds' = UsedIds,
               UNCHANGED <<PDirPool, ptbl, mem, view, partial>>
        PROVE  PagingInv'
    <2>1. Procs' = Procs
      BY <1>4 DEF Procs
    <2> QED BY <1>1, <1>4, <2>1, ReturnInv DEF Return
  <1>5. ASSUME NEW len \in Lens \ {0},
               \/ alloc_consecutive_page(For("sys_mmap"), id, v, perm, len)
               \/ alloc_consecutive_page_fails(id, len, Idle)
        PROVE  PagingInv'
    <2>1. CASE alloc_consecutive_page(For("sys_mmap"), id, v, perm, len)
      BY <1>1, <1>2, <1>3, <2>1, AllocRunInv
    <2>2. CASE alloc_consecutive_page_fails(id, len, Idle)
      <3>1. UsedIds' = UsedIds
        BY <1>1, <2>2, RunGot DEF alloc_consecutive_page_fails
      <3> QED BY <1>4, <2>2, <3>1 DEF alloc_consecutive_page_fails
    <2> QED BY <1>5, <2>1, <2>2
  <1>6. CASE alloc_page(For("sys_mmap"), id, v, perm)
    BY <1>1, <1>2, <1>3, <1>6, AllocPageInv
  <1>7. CASE alloc_page_fails(id, Idle)
    <2>1. UsedIds' = UsedIds
      BY <1>1, <1>7, AllocGot DEF alloc_page_fails
    <2> QED BY <1>4, <1>7, <2>1 DEF alloc_page_fails
  <1> QED BY <1>5, <1>6, <1>7 DEF sys_mmap, NoSuperPages

\* A write to a page that is shared: the process gets a copy of its own.
LEMMA CowInv ==
  ASSUME VmStep, NEW id \in Procs, NEW v \in VPages, copy_on_write(id, v)
  PROVE  PagingInv'
  <1>1. /\ id \in Ids /\ id \in UsedIds /\ QuotaInv /\ VmTypeOK /\ EntriesInv
        /\ JobInv /\ MemInv /\ job.op = "user" /\ Procs \subseteq Ids
    BY DEF Procs, UsedIds, VmStep, VmInv, TypeInv, PagingInv, copy_on_write,
           WritesToCow, InUser
  <1>2. Procs' = Procs /\ Got(id) \subseteq Norm
    BY <1>1, AllocGot DEF Procs, copy_on_write
  <1>3. UNCHANGED <<PDirPool, job, view, partial>>
    BY DEF copy_on_write
  <1>4. MapInv' /\ JobInv' /\ CopyInv'
    BY Zenon, <1>1, <1>3 DEF MapInv, JobInv, CopyInv
  <1>5. CASE UNCHANGED <<ptbl, mem>>
    BY <1>1, <1>2, <1>3, <1>4, <1>5, QuietTables, QuietMem DEF PagingInv
  <1>6. ASSUME NEW page \in Got(id),
               ptbl' = set_ptbl_entry_by_va(id, v, Entry(page, PWU)),
               mem' = [mem EXCEPT ![page] = mem[E(id, v).frame]]
        PROVE  PagingInv'
    <2>1. Present(id, v)
      <3>1. "PTE_COW" \in E(id, v).perm
        BY DEF copy_on_write, WritesToCow, E
      <3>2. E(id, v) # Zero
        BY <3>1 DEF Zero
      <3> QED BY Zenon, <1>1, <3>2, PresentIs
    <2>2. get_pdir_entry_by_va(id, v) # 0
      BY <2>1 DEF Present, get_ptbl_entry_by_va
    <2>3. /\ page \in held'[id] /\ page \notin Owned /\ page \in Frames
          /\ ~IsTable(page) /\ ~IsMapped(page)
      BY <1>1, FreshPage
    <2>4. /\ Entry(page, PWU) = [frame |-> page, perm |-> PWU]
          /\ \A i \in Ids, w \in VPages :
               /\ E(i, w)' = IF i = id /\ w = v THEN Entry(page, PWU) ELSE E(i, w)
               /\ ~(i = id /\ w = v) => (Present(i, w)' <=> Present(i, w))
          /\ Present(id, v)'
          /\ TablesInv' /\ EntriesInv'
      <3>1. PWU \subseteq PWU /\ "PTE_P" \in PWU
        BY DEF PWU
      <3> QED BY <1>3, <1>6, <2>2, <2>3, <3>1, SetInv
    <2>5. Owned \subseteq Owned' /\ page \in Owned'
      BY <1>1, <2>3, OwnedGrows DEF VmStep, Owned
    <2>6. E(id, v).frame \in Frames
      BY <1>1, EntryType DEF PageEntry
    <2>7. \A f \in Frames :
            mem'[f] = IF f = page THEN mem[E(id, v).frame] ELSE mem[f]
      BY Zenon, <1>1, <1>6, <2>3 DEF VmTypeOK
    <2>8. ASSUME NEW i \in Ids, NEW w \in VPages
          PROVE  Content(i, w)' = Content(i, w)
      <3>1. Content(i, w) = IF Present(i, w) THEN mem[E(i, w).frame] ELSE 0
        BY Zenon DEF Content, E
      <3>2. CASE i = id /\ w = v
        <4>1. Content(i, w)' = mem'[page]
          BY <2>4, <3>2 DEF Content, E
        <4> QED BY Zenon, <2>1, <2>3, <2>7, <3>1, <3>2, <4>1
      <3>3. CASE ~(i = id /\ w = v)
        <4>1. Content(i, w)' = IF Present(i, w) THEN mem'[E(i, w).frame] ELSE 0
          BY <2>4, <3>3 DEF Content, E
        <4>2. Present(i, w) => E(i, w).frame # page
          BY <2>3 DEF IsMapped
        <4>3. E(i, w).frame \in Frames
          BY <1>1, EntryType DEF PageEntry
        <4> QED BY Zenon, <2>7, <3>1, <4>1, <4>2, <4>3
      <3> QED BY <3>2, <3>3
    <2>9. MemInv'
      <3>1. \A f \in Frames : f >= VM_USERLO_PI /\ f \notin Owned' => mem'[f] = 0
        BY Zenon, <1>1, <2>5, <2>7 DEF MemInv
      <3> QED BY <1>1, <1>2, <1>3, <2>8, <3>1 DEF MemInv
    <2> QED BY <1>4, <2>4, <2>9 DEF PagingInv
  <1> QED BY <1>5, <1>6 DEF copy_on_write, E

\* sys_puts, and the reading it does.
LEMMA PutsInv ==
  ASSUME VmStep, NEW id \in Procs, NEW v \in VPages, sys_puts(id, v)
  PROVE  PagingInv'
  <1> DEFINE read == [For("pt_copyin") EXCEPT !.op = "read", !.pid = id, !.first = v]
  <1>1. /\ id \in Ids /\ id \in UsedIds /\ QuotaInv /\ OwnershipInv
        /\ job.op = "user"
    BY DEF Procs, UsedIds, VmStep, VmInv, TypeInv, sys_puts, InUser
  <1>2. For("pt_copyin") \in Job /\ For("pt_copyin").caller = "pt_copyin"
    BY IdleType
  <1>3. read.op = "read" /\ read.caller = "pt_copyin" /\ read.pid = id /\ read.first = v
    BY <1>2 DEF Job
  <1> HIDE DEF read
  <1>4. CASE /\ Present(id, v) /\ job' = read
             /\ UNCHANGED <<vars, PDirPool, ptbl, mem, view, partial>>
    <2>1. Procs' = Procs
      BY <1>4 DEF vars, Procs, UsedIds
    <2> QED BY Zenon, <1>1, <1>3, <1>4, <2>1, NextJob
  <1>5. CASE alloc_page(For("pt_copyin"), id, v, PWU)
    <2>1. PWU \subseteq PWU /\ "PTE_P" \in PWU
      BY DEF PWU
    <2> QED BY <1>1, <1>2, <1>5, <2>1, AllocPageInv
  <1>6. CASE alloc_page_fails(id, read)
    <2>1. Procs' = Procs
      BY <1>1, <1>6, AllocGot DEF Procs, alloc_page_fails
    <2>2. FreePages' = {} \/ ~container_can_consume(id, 1)'
      BY <1>1, <1>6, AllocFails DEF OwnershipInv, alloc_page_fails
    <2> QED BY Zenon, <1>1, <1>3, <1>6, <2>1, <2>2, NextJob DEF alloc_page_fails
  <1> QED BY <1>4, <1>5, <1>6 DEF sys_puts, read

\* The end of a read.
LEMMA CopyinInv ==
  ASSUME VmStep, pt_copyin
  PROVE  PagingInv'
  <1>1. Procs' = Procs
    BY DEF vars, Procs, UsedIds, pt_copyin
  <1> QED BY <1>1, ReturnInv DEF pt_copyin
=============================================================================
