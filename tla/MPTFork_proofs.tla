--------------------------- MODULE MPTFork_proofs ---------------------------
(***************************************************************************)
(* What virtual memory guarantees, for any address space, memory, programs *)
(* and requests.                                                           *)
(***************************************************************************)
EXTENDS MPTForkMap_lemmas

\* Every reachable state has the types of VmTypeOK: directories point to pages
\* that palloc can hand out, entries name frames, and the locals of a job are
\* in range, super pages included (pmap, MPTOp, MPTFork).
THEOREM VmTypes == Spec => []VmTypeOK
  <1>1. TypeInv /\ [Next]_vmVars => TypeInv'
    BY TypeNext
  <1>2. TypeInv => VmTypeOK
    BY DEF TypeInv
  <1> QED BY <1>1, <1>2, TypeInit, PTL DEF Spec

\* The virtual memory layers use the containers only in the ways of
\* KernelSpec: proc_fork and alloc_super_page too ask for what a container may
\* be asked for.  So QuotaSafe, TreeSafe and the other theorems about
\* KernelSpec hold of a machine that runs programs.
THEOREM VmUsesContainers == Spec => UsesContainers
  <1>1. TypeInv /\ [Next]_vmVars => TypeInv' /\ [KernelNext]_vars
    BY TypeNext
  <1>2. paging_init => container_init
    BY DEF paging_init
  <1> QED BY <1>1, <1>2, TypeInit, PTL DEF Spec, UsesContainers, KernelSpec

-----------------------------------------------------------------------------
\* The allocations of elf_load and pt_copyout.
LEMMA LoadInv ==
  ASSUME VmStep, elf_load \/ pt_copyout_allocates
  PROVE  PagingInv'
  <1>1. /\ job \in Job /\ job.pid \in Procs /\ QuotaInv /\ JobRange
        /\ job.op \in {"load", "fill"}
    BY DEF VmStep, VmInv, TypeInv, VmTypeOK, JobRange, elf_load,
           pt_copyout_allocates
  <1>2. PICK pid \in Procs, v \in VPages : job.pid = pid /\ job.first = v
    BY <1>1 DEF Job
  <1>3. pid \in Ids /\ pid \in UsedIds
    BY DEF Procs, UsedIds
  <1>4. /\ PWU \subseteq PWU /\ "PTE_P" \in PWU
        /\ {"PTE_P", "PTE_U"} \subseteq PWU /\ "PTE_P" \in {"PTE_P", "PTE_U"}
    BY DEF PWU
  <1>5. ASSUME NEW base \in Job, base.caller = "elf_load", base.pid = pid,
               base.first = v, NEW perm, perm \subseteq PWU, "PTE_P" \in perm,
               NEW next \in Job, next.op = "fill", next.caller = "elf_load",
               next.pid = pid, next.first = v,
               alloc_page(base, pid, v, perm) \/ alloc_page_fails(pid, next)
        PROVE  PagingInv'
    <2>1. CASE alloc_page(base, pid, v, perm)
      BY <1>1, <1>2, <1>5, <2>1, AllocPageInv
    <2>2. CASE alloc_page_fails(pid, next)
      <3>1. Procs' = Procs
        BY <1>1, <1>3, <2>2, AllocGot DEF Procs, alloc_page_fails
      <3> QED BY <1>1, <1>2, <1>3, <1>5, <2>2, <3>1, NextJob DEF alloc_page_fails
    <2> QED BY <1>5, <2>1, <2>2
  <1>6. CASE elf_load
    <2>1. PICK tries \in {1, 2} :
       LET base == [job EXCEPT !.caller = "elf_load", !.tries = tries]
           perm == IF job.first \in TextPages THEN {"PTE_P", "PTE_U"} ELSE PWU
       IN  \/ alloc_page(base, job.pid, job.first, perm)
           \/ alloc_page_fails(job.pid, [base EXCEPT !.op = "fill"])
      BY Zenon, <1>6 DEF elf_load
    <2> DEFINE base == [job EXCEPT !.caller = "elf_load", !.tries = tries]
               perm == IF job.first \in TextPages THEN {"PTE_P", "PTE_U"} ELSE PWU
               next == [base EXCEPT !.op = "fill"]
    <2>2. alloc_page(base, pid, v, perm) \/ alloc_page_fails(pid, next)
      BY <1>2, <2>1
    <2>3. perm \subseteq PWU /\ "PTE_P" \in perm
      BY <1>4
    <2>4. tries \in 0 .. 2
      OBVIOUS
    <2> HIDE DEF perm
    <2>5. base \in Job /\ base.caller = "elf_load" /\ base.pid = pid /\ base.first = v
      BY Zenon, <1>1, <1>2, <2>4 DEF Job
    <2> HIDE DEF base
    <2>6. next \in Job /\ next.op = "fill" /\ next.caller = "elf_load"
          /\ next.pid = pid /\ next.first = v
      BY <2>5 DEF Job
    <2> HIDE DEF next
    <2> QED BY <1>5, <2>2, <2>3, <2>5, <2>6
  <1>7. CASE pt_copyout_allocates
    <2> DEFINE base == [job EXCEPT !.tries = @ - 1]
    <2>1. job.tries - 1 \in 0 .. 2
      BY <1>1, <1>7 DEF pt_copyout_allocates, Job
    <2>2. base \in Job /\ base.pid = pid /\ base.first = v
          /\ base.caller = "elf_load" /\ base.op = "fill"
      BY <1>1, <1>2, <1>7, <2>1 DEF Job, pt_copyout_allocates, JobRange
    <2>3. alloc_page(base, pid, v, PWU) \/ alloc_page_fails(pid, base)
      BY <1>2, <1>7 DEF pt_copyout_allocates
    <2> HIDE DEF base
    <2> QED BY <1>4, <1>5, <2>2, <2>3
  <1> QED BY <1>6, <1>7

\* A page of the program is written, to its page or, if it has none, to page 0.
LEMMA CopyoutInv ==
  ASSUME VmStep, pt_copyout
  PROVE  PagingInv'
  <1>1. /\ job \in Job /\ job.pid \in Procs /\ job.op = "fill" /\ VmTypeOK
        /\ VmInv /\ JobInv /\ MemInv /\ EntriesInv /\ Procs \subseteq Ids
    BY Zenon DEF VmStep, VmInv, TypeInv, VmTypeOK, JobRange, PagingInv, pt_copyout,
           Procs, UsedIds
  <1>2. PICK pid \in Procs, v \in VPages : job.pid = pid /\ job.first = v
    BY <1>1 DEF Job
  <1>3. /\ pid \in Ids /\ UNCHANGED <<vars, PDirPool, ptbl>> /\ Procs' = Procs
        /\ Owned' = Owned
    <2>1. pid \in Ids
      BY DEF Procs, UsedIds
    <2>2. UNCHANGED <<vars, PDirPool, ptbl>>
      BY DEF pt_copyout
    <2>3. CONTAINER' = CONTAINER /\ held' = held
      BY <2>2 DEF vars
    <2>4. Procs' = Procs
      BY <2>3 DEF Procs, UsedIds
    <2> QED BY <2>1, <2>2, <2>3, <2>4 DEF Owned
  <1>4. TablesInv' /\ EntriesInv'
    BY <1>3, QuietTables
  <1>5. \A i \in Ids, w \in VPages :
          E(i, w)' = E(i, w) /\ (Present(i, w)' <=> Present(i, w))
    BY <1>3, SameTables
  <1>6. /\ job'.op = "user" \/ (job'.op = "load" /\ job'.pid = pid)
        /\ job'.caller = "none"
    <2>1. CASE Return
      BY <2>1 DEF Return, Idle
    <2>2. CASE \E w \in NextPage(job.first) :
                 job' = [Idle EXCEPT !.op = "load", !.pid = job.pid, !.first = w]
      BY <1>2, <2>2 DEF Idle
    <2> QED BY Zenon, <2>1, <2>2 DEF pt_copyout
  <1>7. \A w \in VPages : Present(pid, w) => "PTE_COW" \notin E(pid, w).perm
    BY <1>1, <1>2 DEF JobInv
  <1>8. JobInv'
    <2>1. \A w \in VPages : Present(pid, w)' => "PTE_COW" \notin E(pid, w)'.perm
      BY <1>3, <1>5, <1>7
    <2> QED BY <1>6, <2>1 DEF JobInv
  <1>9. MapInv' /\ CopyInv'
    BY Zenon, <1>6 DEF MapInv, CopyInv
  <1>10. /\ mem' = [mem EXCEPT ![E(pid, v).frame] = Image]
         /\ view' = [view EXCEPT ![pid][v] = Image]
         /\ partial' = IF Present(pid, v) THEN partial ELSE partial \cup {pid}
    BY Zenon, <1>2 DEF pt_copyout, E
  <1>11. CASE Present(pid, v)
    <2>1. UNCHANGED partial /\ "PTE_COW" \notin E(pid, v).perm
      BY <1>7, <1>10, <1>11
    <2>2. MemInv'
      BY Zenon, <1>1, <1>3, <1>10, <1>11, <2>1, StoreMem
    <2> QED BY <1>4, <1>8, <1>9, <2>2 DEF PagingInv
  <1>12. CASE ~Present(pid, v)
    <2>1. E(pid, v).frame = 0 /\ partial' = partial \cup {pid} /\ 0 \in Frames
      BY <1>1, <1>3, <1>10, <1>12, EntryType, Spaces
    <2>2. \A f \in Frames : f # 0 => mem'[f] = mem[f]
      BY <1>1, <1>10, <2>1 DEF VmTypeOK
    <2>3. \A i \in Ids, w \in VPages : i # pid => view'[i][w] = view[i][w]
      BY <1>1, <1>10 DEF VmTypeOK
    <2>4. ASSUME NEW i \in Ids, NEW w \in VPages
          PROVE  Content(i, w)' = Content(i, w)
      <3>1. Content(i, w) = IF Present(i, w) THEN mem[E(i, w).frame] ELSE 0
        BY DEF Content, E
      <3>2. Content(i, w)' = IF Present(i, w) THEN mem'[E(i, w).frame] ELSE 0
        BY <1>5 DEF Content, E
      <3>3. Present(i, w) => E(i, w).frame # 0
        <4>1. 0 \notin Owned
          BY PageAssumption DEF VmStep, VmInv, RangeInv, Owned
        <4> QED BY <1>1, <4>1 DEF EntriesInv
      <3>4. E(i, w).frame \in Frames
        BY <1>1, EntryType DEF PageEntry
      <3> QED BY <2>2, <3>1, <3>2, <3>3, <3>4
    <2>5. MemInv'
      <3>1. \A f \in Frames : f >= VM_USERLO_PI /\ f \notin Owned' => mem'[f] = 0
        <4>1. \A f \in Frames : f >= VM_USERLO_PI => f # 0
          BY PageAssumption
        <4> QED BY <1>1, <1>3, <2>2, <4>1 DEF MemInv
      <3>2. \A i \in Ids \ Procs, w \in VPages : view'[i][w] = 0
        BY <1>1, <2>3 DEF MemInv
      <3>3. \A i \in Procs \ partial', w \in VPages : Content(i, w)' = view'[i][w]
        BY <1>1, <2>1, <2>3, <2>4 DEF MemInv
      <3> QED BY <1>3, <3>1, <3>2, <3>3 DEF MemInv
    <2> QED BY <1>4, <1>8, <1>9, <2>5 DEF PagingInv
  <1> QED BY <1>11, <1>12

-----------------------------------------------------------------------------
\* A container that is not a process has no page.
LEMMA NoPages ==
  ASSUME VmInv, NEW id \in Ids, id \notin Procs
  PROVE  /\ \A g \in Pdes : PDirPool[id][g] = 0
         /\ \A v \in VPages : E(id, v) = Zero /\ ~Present(id, v)
  <1>1. \A g \in Pdes : PDirPool[id][g] = 0
    BY DEF VmInv, PagingInv, TablesInv
  <1>2. \A v \in VPages : E(id, v) = Zero
    BY <1>1, Indices DEF E, get_ptbl_entry_by_va, get_pdir_entry_by_va
  <1> QED BY <1>1, <1>2, PresentIs

\* proc_fork: a child with the parent's view and none of its pages yet.
LEMMA ForkInv ==
  ASSUME VmStep, NEW id \in Procs, proc_fork(id)
  PROVE  PagingInv'
  <1>1. /\ id \in Ids /\ id \in UsedIds /\ QuotaInv /\ VmTypeOK /\ VmInv /\ MemInv
        /\ Procs \subseteq Ids /\ job.op = "user" /\ id # 0
    BY DEF Procs, UsedIds, VmStep, VmInv, TypeInv, PagingInv, proc_fork, InUser
  <1>2. PICK child \in Ids :
            /\ container_split(id, ForkQuota(id), child)
            /\ job' = [Idle EXCEPT !.op = "vmm_copy", !.pid = child]
            /\ view' = [view EXCEPT ![child] = view[id]]
            /\ partial' = IF id \in partial THEN partial \cup {child} ELSE partial
    BY Zenon DEF proc_fork
  <1>3. /\ child \notin UsedIds /\ child # 0 /\ child # id
        /\ UsedIds' = UsedIds \cup {child} /\ CONTAINER'[child].parent = id
    BY <1>1, <1>2, ForkQuotaFits, SplitChild
  <1>4. Procs' = Procs \cup {child} /\ child \notin Procs
    BY <1>3 DEF Procs
  <1>5. UNCHANGED <<allocated, held, PDirPool, ptbl, mem>> /\ Owned' = Owned
    BY DEF proc_fork, Owned
  <1>6. TablesInv' /\ EntriesInv'
    BY <1>5, QuietTables
  <1>7. \A i \in Ids, w \in VPages :
          E(i, w)' = E(i, w) /\ (Present(i, w)' <=> Present(i, w))
    BY <1>5, SameTables
  <1>8. /\ job'.op = "vmm_copy" /\ job'.pid = child /\ job'.va = 0
        /\ job'.caller = "none"
    BY <1>2 DEF Idle
  <1>9. MapInv' /\ JobInv'
    BY Zenon, <1>8 DEF MapInv, JobInv
  <1>10. \A i \in Ids, w \in VPages :
           view'[i][w] = IF i = child THEN view[id][w] ELSE view[i][w]
    BY <1>1, <1>2 DEF VmTypeOK
  <1>11. CopyInv'
    <2>1. /\ id \in Procs' /\ id # child /\ 0 \in 0 .. NPDE
          /\ (id \in partial' => child \in partial')
      BY <1>2, <1>3, <1>4, Spaces
    <2>2. \A w \in VPages : view'[child][w] = view'[id][w] /\ ~(PdeIndex(w) < 0)
      BY <1>1, <1>3, <1>10, Indices DEF Pdes
    <2>3. \A g \in Pdes : PDirPool'[child][g] = 0
      BY Zenon, <1>1, <1>4, <1>5, NoPages
    <2> QED BY Zenon, <1>3, <1>8, <2>1, <2>2, <2>3 DEF CopyInv
  <1>12. MemInv'
    <2>1. \A i \in Ids, w \in VPages : Content(i, w)' = Content(i, w)
      BY Zenon, <1>5, <1>7 DEF Content, E
    <2>2. \A i \in Ids \ Procs', w \in VPages : view'[i][w] = 0
      BY <1>1, <1>4, <1>10 DEF MemInv
    <2>3. ASSUME NEW i \in Procs' \ partial', NEW w \in VPages, i # child
          PROVE  Content(i, w)' = view'[i][w]
      <3>1. i \in Procs \ partial
        BY <1>2, <1>4, <2>3
      <3> QED BY <1>1, <1>10, <2>1, <2>3, <3>1 DEF MemInv
    <2> QED BY Zenon, <1>1, <1>5, <1>8, <2>2, <2>3 DEF MemInv
  <1> QED BY <1>6, <1>9, <1>11, <1>12 DEF PagingInv

\* proc_create: a process with no page.
LEMMA CreateInv ==
  ASSUME VmStep, NEW id \in UsedIds, NEW quota \in ProcQuotas, proc_create(id, quota)
  PROVE  PagingInv'
  <1>1. /\ id \in Ids /\ QuotaInv /\ VmTypeOK /\ VmInv /\ MemInv
        /\ Procs \subseteq Ids /\ job.op = "user"
    BY DEF Procs, UsedIds, VmStep, VmInv, TypeInv, PagingInv, proc_create, InUser
  <1>2. PICK child \in Ids, v \in NextPage(-1) :
            /\ container_split(id, quota, child)
            /\ job' = [Idle EXCEPT !.op = "load", !.pid = child, !.first = v]
    BY Zenon DEF proc_create
  <1>3. /\ child \notin UsedIds /\ child # 0
        /\ UsedIds' = UsedIds \cup {child}
    BY <1>1, <1>2, ForkAssumption, SplitChild
  <1>4. Procs' = Procs \cup {child} /\ child \notin Procs
    BY <1>3 DEF Procs
  <1>5. /\ UNCHANGED <<allocated, held, PDirPool, ptbl, mem, view, partial>>
        /\ Owned' = Owned
    BY DEF proc_create, Owned
  <1>6. TablesInv' /\ EntriesInv'
    BY <1>5, QuietTables
  <1>7. \A i \in Ids, w \in VPages :
          E(i, w)' = E(i, w) /\ (Present(i, w)' <=> Present(i, w))
    BY <1>5, SameTables
  <1>8. job'.op = "load" /\ job'.pid = child /\ job'.caller = "none"
    BY <1>2 DEF Idle
  <1>9. \A w \in VPages : ~Present(child, w) /\ ~Present(child, w)'
    BY <1>1, <1>4, <1>7, NoPages
  <1>10. MapInv' /\ JobInv' /\ CopyInv'
    BY Zenon, <1>8, <1>9 DEF MapInv, JobInv, CopyInv
  <1>11. MemInv'
    <2>1. \A i \in Ids, w \in VPages : Content(i, w)' = Content(i, w)
      BY <1>5, <1>7 DEF Content, E
    <2>2. \A w \in VPages : Content(child, w) = 0 /\ view[child][w] = 0
      BY <1>1, <1>4, <1>9 DEF Content, MemInv
    <2>3. \A i \in Procs' \ partial, w \in VPages : Content(i, w)' = view[i][w]
      BY <1>1, <1>4, <2>1, <2>2 DEF MemInv
    <2> QED BY <1>1, <1>4, <1>5, <2>3 DEF MemInv
  <1> QED BY <1>6, <1>10, <1>11 DEF PagingInv

\* What a fork works on.
LEMMA CopyLocals ==
  ASSUME VmInv, job.op = "vmm_copy"
  PROVE  \E child \in Procs, parent \in Procs, va \in 0 .. NPDE :
           /\ job.pid = child /\ CONTAINER[child].parent = parent /\ job.va = va
           /\ parent # child /\ (parent \in partial => child \in partial)
           /\ \A v \in VPages :
                /\ view[child][v] = view[parent][v]
                /\ PdeIndex(v) < va => /\ Present(child, v) <=> Present(parent, v)
                                       /\ E(child, v).frame = E(parent, v).frame
           /\ \A g \in Pdes : g >= va => PDirPool[child][g] = 0
  <1>1. job.pid \in Procs /\ CopyInv
    BY DEF VmInv, TypeInv, JobRange, PagingInv
  <1> QED BY Zenon, <1>1 DEF CopyInv

\* The end of the copying: the child has every page of the parent.
LEMMA CopyReturnsInv ==
  ASSUME VmStep, vmm_copy_returns
  PROVE  PagingInv'
  <1>1. /\ VmInv /\ MemInv /\ Procs \subseteq Ids /\ job.op = "vmm_copy" /\ VmTypeOK
    BY Zenon DEF Procs, UsedIds, VmStep, VmInv, TypeInv, PagingInv, vmm_copy_returns
  <1>2. PICK child \in Procs, parent \in Procs, va \in 0 .. NPDE :
           /\ job.pid = child /\ CONTAINER[child].parent = parent /\ job.va = va
           /\ parent # child /\ (parent \in partial => child \in partial)
           /\ \A v \in VPages :
                /\ view[child][v] = view[parent][v]
                /\ PdeIndex(v) < va => /\ Present(child, v) <=> Present(parent, v)
                                       /\ E(child, v).frame = E(parent, v).frame
           /\ \A g \in Pdes : g >= va => PDirPool[child][g] = 0
    BY Zenon, <1>1, CopyLocals
  <1>3. /\ UNCHANGED <<vars, PDirPool, ptbl, mem, view, partial>>
        /\ Procs' = Procs /\ Owned' = Owned
        /\ \A g \in va .. NPDE - 1 : PDirPool[parent][g] = 0
    BY <1>2 DEF vmm_copy_returns, vars, Procs, UsedIds, Owned
  <1>4. TablesInv' /\ EntriesInv'
    BY <1>3, QuietTables
  <1>5. \A i \in Ids, w \in VPages :
          E(i, w)' = E(i, w) /\ (Present(i, w)' <=> Present(i, w))
    BY <1>3, SameTables
  <1>6. job'.op = "user" /\ job'.caller = "none"
    BY DEF vmm_copy_returns, Return, Idle
  <1>7. MapInv' /\ JobInv' /\ CopyInv'
    BY Zenon, <1>6 DEF MapInv, JobInv, CopyInv
  <1>8. ASSUME NEW v \in VPages
        PROVE  Content(child, v) = Content(parent, v)
    <2>1. CASE PdeIndex(v) < va
      BY Zenon, <1>2, <2>1 DEF Content, E
    <2>2. CASE ~(PdeIndex(v) < va)
      <3>1. PdeIndex(v) \in Pdes /\ PdeIndex(v) >= va /\ PdeIndex(v) \in va .. NPDE - 1
        BY <2>2, Indices, Spaces DEF Pdes
      <3>2. PDirPool[child][PdeIndex(v)] = 0 /\ PDirPool[parent][PdeIndex(v)] = 0
        BY <1>2, <1>3, <3>1
      <3>3. ~Present(child, v) /\ ~Present(parent, v)
        BY <3>2 DEF Present, get_ptbl_entry_by_va, get_pdir_entry_by_va
      <3> QED BY <3>3 DEF Content
    <2> QED BY <2>1, <2>2
  <1>9. MemInv'
    <2>1. \A i \in Ids, w \in VPages : Content(i, w)' = Content(i, w)
      BY <1>3, <1>5 DEF Content, E
    <2>2. ASSUME NEW i \in Procs \ partial, NEW w \in VPages
          PROVE  Content(i, w) = view[i][w]
      <3>1. CASE i # child
        BY <1>1, <1>2, <3>1 DEF MemInv
      <3>2. CASE i = child
        <4>1. parent \notin partial
          BY <1>2, <3>2
        <4>2. Content(parent, w) = view[parent][w]
          BY <1>1, <1>2, <4>1 DEF MemInv
        <4> QED BY Zenon, <1>2, <1>8, <3>2, <4>2
      <3> QED BY <3>1, <3>2
    <2> QED BY <1>1, <1>3, <2>1, <2>2 DEF MemInv
  <1> QED BY <1>4, <1>7, <1>9 DEF PagingInv

\* The writes of vmm_copy for entry g of the directories: the child gets page as
\* its table, and in both tables what the parent's table t maps is shared.
TableCopied(child, parent, g, t, page, new, old) ==
  /\ parent # child /\ g \in Pdes /\ PDirPool[child][g] = 0
  /\ t = PDirPool[parent][g] /\ t # 0
  /\ page \in Got(child) /\ page \in Norm
  /\ PDirPool' = [PDirPool EXCEPT ![child][g] = page]
  /\ \A j \in Ptes : new[j] = IF "PTE_P" \in ptbl[t][j].perm
                              THEN Shared(ptbl[t][j]) ELSE ptbl[page][j]
  /\ \A j \in Ptes : old[j] = IF "PTE_P" \in ptbl[t][j].perm
                              THEN Shared(ptbl[t][j]) ELSE ptbl[t][j]
  /\ ptbl' = [ptbl EXCEPT ![t] = old, ![page] = new]

\* One page table is copied: parent and child share its pages.
LEMMA CopyFrame ==
  ASSUME VmStep, NEW child \in Procs, NEW parent \in Procs, NEW g, NEW t, NEW page,
         NEW new, NEW old, TableCopied(child, parent, g, t, page, new, old)
  PROVE  /\ \A i \in Ids, w \in VPages : E(i, w)' =
              IF i \in {parent, child} /\ PdeIndex(w) = g
              THEN IF Present(parent, w) THEN Shared(E(parent, w)) ELSE Zero
              ELSE E(i, w)
         /\ \A w \in VPages : PdeIndex(w) = g => E(child, w) = Zero
         /\ \A p : IsTable(p)' => IsTable(p) \/ p = page
         /\ TablesInv'
  <1> USE DEF TableCopied
  <1>1. /\ child \in Ids /\ parent \in Ids /\ TablesInv /\ Grows
        /\ PDirPool \in [Ids -> [Pdes -> Norm \cup {0}]]
        /\ ptbl \in [Norm -> [Ptes -> PageEntry]]
    BY Zenon DEF Procs, UsedIds, VmStep, VmInv, TypeInv, VmTypeOK, PagingInv, Pdes, Ptes,
           PageEntry
  <1>2. /\ page \in held'[child] /\ page # 0 /\ ~IsTable(page)
        /\ \A k \in Ptes : ptbl[page][k] = Zero
    BY <1>1, FreshPage
  <1>3. t \in Norm /\ t # page /\ IsTable(t)
    BY <1>1, <1>2 DEF IsTable
  <1>4. \A i \in Ids, h \in Pdes :
          PDirPool'[i][h] = IF i = child /\ h = g THEN page ELSE PDirPool[i][h]
    BY Zenon, <1>1
  <1>5. \A q \in Norm : ptbl'[q] = IF q = page THEN new ELSE IF q = t THEN old ELSE ptbl[q]
    BY <1>1, <1>3
  <1>6. \A i \in Ids, h \in Pdes : /\ PDirPool[i][h] # page
                                   /\ PDirPool[i][h] = t => i = parent /\ h = g
    BY <1>1, <1>2 DEF IsTable, TablesInv
  <1>7. \A e : "PTE_P" \in Shared(e).perm
    BY DEF Shared
  <1>8. "PTE_P" \notin Zero.perm
    BY DEF Zero
  <1>9. ASSUME NEW w \in VPages, PdeIndex(w) = g
        PROVE  /\ E(child, w) = Zero
               /\ E(parent, w) = IF "PTE_P" \in ptbl[t][PteIndex(w)].perm
                                 THEN ptbl[t][PteIndex(w)] ELSE Zero
               /\ Present(parent, w) <=> "PTE_P" \in ptbl[t][PteIndex(w)].perm
    <2>1. E(child, w) = Zero
      BY <1>9 DEF E, get_ptbl_entry_by_va, get_pdir_entry_by_va
    <2>2. E(parent, w) = IF "PTE_P" \in ptbl[t][PteIndex(w)].perm
                         THEN ptbl[t][PteIndex(w)] ELSE Zero
      BY <1>9 DEF E, get_ptbl_entry_by_va, get_pdir_entry_by_va
    <2> QED BY Zenon, <1>1, <1>8, <2>1, <2>2, PresentIs
  <1>10. ASSUME NEW i \in Ids, NEW w \in VPages
         PROVE  E(i, w)' =
              IF i \in {parent, child} /\ PdeIndex(w) = g
              THEN IF Present(parent, w) THEN Shared(E(parent, w)) ELSE Zero
              ELSE E(i, w)
    <2> DEFINE u == PDirPool'[i][PdeIndex(w)]
    <2>1. PdeIndex(w) \in Pdes /\ PteIndex(w) \in Ptes
      BY Indices
    <2>2. E(i, w)' = IF u # 0 /\ "PTE_P" \in ptbl'[u][PteIndex(w)].perm
                     THEN ptbl'[u][PteIndex(w)] ELSE Zero
      BY Zenon, EntryIs
    <2>3. CASE i = parent /\ PdeIndex(w) = g
      <3>1. u = t /\ ptbl'[t][PteIndex(w)] =
              IF "PTE_P" \in ptbl[t][PteIndex(w)].perm
              THEN Shared(ptbl[t][PteIndex(w)]) ELSE ptbl[t][PteIndex(w)]
        <4>1. u = t
          BY <1>4, <2>1, <2>3
        <4>2. ptbl'[t] = old
          BY Zenon, <1>3, <1>5
        <4> QED BY <2>1, <4>1, <4>2
      <3> HIDE DEF u
      <3> QED BY Zenon, <1>7, <1>9, <2>2, <2>3, <3>1
    <2>4. CASE i = child /\ PdeIndex(w) = g
      <3>1. u = page /\ ptbl'[page][PteIndex(w)] =
              IF "PTE_P" \in ptbl[t][PteIndex(w)].perm
              THEN Shared(ptbl[t][PteIndex(w)]) ELSE Zero
        BY <1>1, <1>2, <1>3, <1>4, <1>5, <2>1, <2>4
      <3> HIDE DEF u
      <3> QED BY <1>2, <1>7, <1>8, <1>9, <2>2, <2>4, <3>1
    <2>5. CASE ~(i \in {parent, child} /\ PdeIndex(w) = g)
      <3>1. /\ u = PDirPool[i][PdeIndex(w)] /\ u \in Norm \cup {0} /\ u # t /\ u # page
        BY <1>1, <1>4, <1>6, <2>1, <2>5
      <3>2. u # 0 => ptbl'[u] = ptbl[u]
        BY Zenon, <1>5, <3>1
      <3>3. E(i, w) = IF u # 0
                      THEN IF "PTE_P" \in ptbl[u][PteIndex(w)].perm
                           THEN ptbl[u][PteIndex(w)] ELSE Zero
                      ELSE Zero
        BY <3>1 DEF E, get_ptbl_entry_by_va, get_pdir_entry_by_va
      <3> HIDE DEF u
      <3> QED BY <2>2, <2>5, <3>2, <3>3
    <2> QED BY <2>3, <2>4, <2>5
  <1>11. \A p : IsTable(p)' => IsTable(p) \/ p = page
    BY <1>4 DEF IsTable
  <1>12. TablesInv'
    <2>1. Procs \subseteq Procs'
      BY <1>1, OwnedGrows
    <2>2. \A i \in Ids, h \in Pdes : PDirPool'[i][h] # 0 =>
            PDirPool'[i][h] \in held'[i] /\ i \in Procs'
      BY <1>1, <1>2, <1>4, <2>1 DEF TablesInv, Grows
    <2>3. ASSUME NEW i \in Ids, NEW j \in Ids, NEW h \in Pdes, NEW k \in Pdes,
                 PDirPool'[i][h] # 0, PDirPool'[i][h] = PDirPool'[j][k]
          PROVE  i = j /\ h = k
      BY <1>1, <1>4, <1>6, <2>3 DEF TablesInv
    <2>4. ASSUME NEW q \in Norm, NEW k \in Ptes, ptbl'[q][k] # Zero
          PROVE  IsTable(q)'
      <3>1. CASE q = page
        BY Zenon, <1>1, <1>4, <3>1 DEF IsTable
      <3>2. CASE q # page
        <4>1. IsTable(q)
          BY Zenon, <1>1, <1>3, <1>5, <2>4, <3>2 DEF TablesInv
        <4>2. PICK i \in Ids, h \in Pdes : PDirPool[i][h] = q
          BY <4>1 DEF IsTable
        <4>3. PDirPool'[i][h] = q
          BY <1>4, <4>2, Pages
        <4> QED BY <4>3 DEF IsTable
      <3> QED BY <3>1, <3>2
    <2>5. \A i, j \in Ids, h, k \in Pdes :
            PDirPool'[i][h] # 0 /\ PDirPool'[i][h] = PDirPool'[j][k] => i = j /\ h = k
      BY <2>3
    <2>6. \A q \in Norm, k \in Ptes : ptbl'[q][k] # Zero => IsTable(q)'
      BY Zenon, <2>4
    <2> QED BY Zenon, <2>2, <2>5, <2>6 DEF TablesInv
  <1> QED BY <1>9, <1>10, <1>11, <1>12

\* vmm_copy: one page table, or no memory for it.
LEMMA CopyTableInv ==
  ASSUME VmStep, vmm_copy
  PROVE  PagingInv'
  <1>1. /\ VmInv /\ MemInv /\ EntriesInv /\ TablesInv /\ Procs \subseteq Ids
        /\ job.op = "vmm_copy" /\ VmTypeOK /\ QuotaInv /\ job \in Job
    BY Zenon DEF Procs, UsedIds, VmStep, VmInv, TypeInv, PagingInv, vmm_copy, VmTypeOK
  <1>2. PICK child \in Procs, parent \in Procs, va \in 0 .. NPDE :
           /\ job.pid = child /\ CONTAINER[child].parent = parent /\ job.va = va
           /\ parent # child /\ (parent \in partial => child \in partial)
           /\ \A v \in VPages :
                /\ view[child][v] = view[parent][v]
                /\ PdeIndex(v) < va => /\ Present(child, v) <=> Present(parent, v)
                                       /\ E(child, v).frame = E(parent, v).frame
           /\ \A g \in Pdes : g >= va => PDirPool[child][g] = 0
    BY Zenon, <1>1, CopyLocals
  <1> DEFINE Copy(i, t) == [j \in 0 .. NPTE - 1 |->
                 LET e == ptbl[PDirPool[parent][i]][j]
                 IN  IF "PTE_P" \in e.perm THEN Shared(e) ELSE ptbl[t][j]]
             Raw(i, t) == [j \in 0 .. NPTE - 1 |->
                 LET e == ptbl[PDirPool[CONTAINER[job.pid].parent][i]][j]
                 IN  IF "PTE_P" \in e.perm THEN Shared(e) ELSE ptbl[t][j]]
  <1>10. \A i, t : Raw(i, t) = Copy(i, t)
    BY <1>2
  <1>11. \E g \in 0 .. NPDE - 1 :
          /\ NextPde(CONTAINER[job.pid].parent, g)
          /\ container_alloc(job.pid)
          /\ \/ /\ partial' = partial \cup {job.pid}
                /\ Return
                /\ UNCHANGED <<PDirPool, ptbl>>
             \/ \E page \in Got(job.pid) :
                  /\ PDirPool' = [PDirPool EXCEPT ![job.pid][g] = page]
                  /\ ptbl' = [ptbl EXCEPT
                       ![PDirPool[CONTAINER[job.pid].parent][g]] =
                          Raw(g, PDirPool[CONTAINER[job.pid].parent][g]),
                       ![page] = Raw(g, page)]
                  /\ job' = [job EXCEPT !.va = g + 1]
                  /\ UNCHANGED partial
    BY Zenon DEF vmm_copy
  <1> HIDE DEF Raw, Copy
  <1>3. PICK g \in 0 .. NPDE - 1 :
          /\ NextPde(parent, g)
          /\ container_alloc(child)
          /\ \/ /\ partial' = partial \cup {child}
                /\ Return
                /\ UNCHANGED <<PDirPool, ptbl>>
             \/ \E page \in Got(child) :
                  /\ PDirPool' = [PDirPool EXCEPT ![child][g] = page]
                  /\ ptbl' = [ptbl EXCEPT
                       ![PDirPool[parent][g]] = Copy(g, PDirPool[parent][g]),
                       ![page] = Copy(g, page)]
                  /\ job' = [job EXCEPT !.va = g + 1]
                  /\ UNCHANGED partial
    BY <1>2, <1>10, <1>11
  <1>4. /\ child \in Ids /\ parent \in Ids /\ child \in UsedIds /\ g \in Pdes
        /\ container_alloc(child)
    BY <1>3 DEF Procs, UsedIds, Pdes
  <1>5. /\ PDirPool[parent][g] # 0 /\ va <= g /\ PDirPool[child][g] = 0
        /\ \A h \in va .. g - 1 : PDirPool[parent][h] = 0
    BY <1>2, <1>3, <1>4 DEF NextPde
  <1>6. /\ Procs' = Procs /\ Got(child) \subseteq Norm
        /\ CONTAINER'[child].parent = parent
    BY <1>1, <1>2, <1>4, AllocGot DEF Procs
  <1>7. UNCHANGED <<mem, view>> /\ Owned \subseteq Owned'
    BY Zenon, OwnedGrows DEF vmm_copy, VmStep
  <1>8. CASE partial' = partial \cup {child} /\ Return /\ UNCHANGED <<PDirPool, ptbl>>
    <2>1. job'.op = "user" /\ job'.caller = "none"
      BY <1>8 DEF Return, Idle
    <2>2. MapInv' /\ JobInv' /\ CopyInv'
      BY Zenon, <2>1 DEF MapInv, JobInv, CopyInv
    <2>3. \A i \in Ids, w \in VPages :
            E(i, w)' = E(i, w) /\ (Present(i, w)' <=> Present(i, w))
      BY <1>8, SameTables
    <2>4. \A i \in Ids, w \in VPages : Content(i, w)' = Content(i, w)
      BY <1>7, <2>3 DEF Content, E
    <2>5. MemInv'
      <3>1. \A i \in Procs \ partial', w \in VPages : Content(i, w)' = view[i][w]
        BY <1>1, <1>2, <1>8, <2>4 DEF MemInv
      <3> QED BY <1>1, <1>6, <1>7, <3>1 DEF MemInv
    <2> QED BY <1>8, <2>2, <2>5, QuietTables DEF PagingInv
  <1>9. ASSUME NEW page \in Got(child),
               PDirPool' = [PDirPool EXCEPT ![child][g] = page],
               ptbl' = [ptbl EXCEPT
                    ![PDirPool[parent][g]] = Copy(g, PDirPool[parent][g]),
                    ![page] = Copy(g, page)],
               job' = [job EXCEPT !.va = g + 1],
               UNCHANGED partial
        PROVE  PagingInv'
    <2> DEFINE InGroup(i, w) == i \in {parent, child} /\ PdeIndex(w) = g
    <2>1. PICK t : t = PDirPool[parent][g]
      OBVIOUS
    <2>2. PICK new, old : new = Copy(g, page) /\ old = Copy(g, PDirPool[parent][g])
      OBVIOUS
    <2>3. /\ \A j \in Ptes : new[j] = IF "PTE_P" \in ptbl[t][j].perm
                                      THEN Shared(ptbl[t][j]) ELSE ptbl[page][j]
          /\ \A j \in Ptes : old[j] = IF "PTE_P" \in ptbl[t][j].perm
                                      THEN Shared(ptbl[t][j]) ELSE ptbl[t][j]
      BY <2>1, <2>2 DEF Ptes, Copy
    <2>4. ptbl' = [ptbl EXCEPT ![t] = old, ![page] = new] /\ page \in Norm /\ t # 0
      BY <1>5, <1>6, <1>9, <2>1, <2>2
    <2>5. /\ \A i \in Ids, w \in VPages : E(i, w)' =
               IF i \in {parent, child} /\ PdeIndex(w) = g
               THEN IF Present(parent, w) THEN Shared(E(parent, w)) ELSE Zero
               ELSE E(i, w)
          /\ \A w \in VPages : PdeIndex(w) = g => E(child, w) = Zero
          /\ \A p : IsTable(p)' => IsTable(p) \/ p = page
          /\ TablesInv'
      <3>1. TableCopied(child, parent, g, t, page, new, old)
        BY Zenon, <1>2, <1>4, <1>5, <1>9, <2>1, <2>3, <2>4 DEF TableCopied
      <3> QED BY Zenon, <3>1, CopyFrame
    <2>6. \A e : Shared(e).frame = e.frame /\ Shared(e) # Zero
      BY DEF Shared, Zero
    <2>7. ASSUME NEW i \in Ids, NEW w \in VPages
          PROVE  /\ InGroup(i, w) =>
                      /\ Present(i, w)' <=> Present(parent, w)
                      /\ Present(i, w)' => /\ E(i, w)' = Shared(E(parent, w))
                                           /\ E(i, w)'.frame = E(parent, w).frame
                 /\ ~InGroup(i, w) =>
                      E(i, w)' = E(i, w) /\ (Present(i, w)' <=> Present(i, w))
      <3>1. (Present(i, w)' <=> E(i, w)' # Zero) /\ (Present(i, w) <=> E(i, w) # Zero)
        BY DEF Present, E
      <3> QED BY <2>5, <2>6, <3>1
    <2>8. page \notin Owned
      BY Zenon, <1>4, FreshPage
    <2>9. EntriesInv'
      <3>1. ASSUME NEW i \in Ids, NEW w \in VPages, Present(i, w)'
            PROVE  \E j \in Ids : Present(j, w) /\ E(i, w)'.frame = E(j, w).frame
        BY <1>4, <2>7, <3>1
      <3>2. ASSUME NEW i \in Ids, NEW w \in VPages, Present(i, w)',
                   NEW f, f = E(i, w)'.frame
            PROVE  f \in Owned' /\ ~IsTable(f)'
        <4>1. PICK j \in Ids : Present(j, w) /\ f = E(j, w).frame
          BY Zenon, <3>1, <3>2
        <4>2. f \in Owned /\ ~IsTable(f)
          BY <1>1, <4>1 DEF EntriesInv
        <4> QED BY <1>7, <2>5, <2>8, <4>2
      <3>3. ASSUME NEW i \in Ids, NEW w \in VPages, Present(i, w)'
            PROVE  /\ "P_SUPER" \notin E(i, w)'.perm
                   /\ "PTE_W" \in E(i, w)'.perm => "PTE_COW" \notin E(i, w)'.perm
        <4>1. CASE InGroup(i, w)
          <5>1. Present(parent, w) /\ E(i, w)' = Shared(E(parent, w))
            BY <2>7, <3>3, <4>1
          <5>2. "P_SUPER" \notin E(parent, w).perm
            BY Zenon, <1>1, <1>4, <5>1 DEF EntriesInv
          <5> QED BY <5>1, <5>2 DEF Shared
        <4>2. CASE ~InGroup(i, w)
          BY Zenon, <1>1, <2>7, <3>3, <4>2 DEF EntriesInv
        <4> QED BY Zenon, <4>1, <4>2
      <3>4. ASSUME NEW i \in Ids, NEW j \in Ids, NEW w \in VPages, NEW x \in VPages,
                   Present(i, w)', "PTE_COW" \notin E(i, w)'.perm, Present(j, x)',
                   E(i, w)'.frame = E(j, x)'.frame
            PROVE  i = j /\ w = x
        <4>1. ~InGroup(i, w)
          BY <2>7, <3>4 DEF Shared
        <4>2. E(i, w)' = E(i, w) /\ Present(i, w)
          BY Zenon, <2>7, <3>4, <4>1
        <4>3. CASE ~InGroup(j, x)
          BY Zenon, <1>1, <2>7, <3>4, <4>2, <4>3 DEF EntriesInv
        <4>4. CASE InGroup(j, x)
          <5>1. Present(parent, x) /\ E(j, x)'.frame = E(parent, x).frame
            BY Zenon, <2>7, <3>4, <4>4
          <5>2. i = parent /\ w = x
            BY Zenon, <1>1, <1>4, <3>4, <4>2, <5>1 DEF EntriesInv
          <5> QED BY <4>1, <4>4, <5>2
        <4> QED BY <4>3, <4>4
      <3> QED BY <3>2, <3>3, <3>4 DEF EntriesInv
    <2>10. /\ job'.op = "vmm_copy" /\ job'.pid = child /\ job'.va = g + 1
           /\ job'.caller = job.caller
      BY <1>1, <1>2, <1>9 DEF Job
    <2>11. MapInv' /\ JobInv'
      BY Zenon, <1>1, <2>10 DEF MapInv, JobInv, VmInv, PagingInv
    <2>12. \A w \in VPages : PdeIndex(w) \in Int /\ PdeIndex(w) \in Pdes
      BY Indices DEF Pdes
    <2>13. CopyInv'
      <3>1. ASSUME NEW w \in VPages, PdeIndex(w) < g + 1
            PROVE  /\ Present(child, w)' <=> Present(parent, w)'
                   /\ E(child, w)'.frame = E(parent, w)'.frame
        <4>1. CASE PdeIndex(w) < va
          <5>1. ~InGroup(child, w) /\ ~InGroup(parent, w)
            BY <1>5, <2>12, <4>1
          <5> QED BY Zenon, <1>2, <1>4, <2>7, <4>1, <5>1
        <4>2. CASE PdeIndex(w) = g
          BY <1>4, <2>5, <2>7, <4>2
        <4>3. CASE ~(PdeIndex(w) < va) /\ PdeIndex(w) # g
          <5>1. /\ PdeIndex(w) \in va .. g - 1 /\ PdeIndex(w) >= va
                /\ PdeIndex(w) \in Pdes
            BY <2>12, <3>1, <4>3
          <5>2. PDirPool[child][PdeIndex(w)] = 0 /\ PDirPool[parent][PdeIndex(w)] = 0
            BY Zenon, <1>2, <1>5, <5>1
          <5>3. E(child, w) = Zero /\ E(parent, w) = Zero
            BY <5>2 DEF E, get_ptbl_entry_by_va, get_pdir_entry_by_va
          <5>4. E(child, w)' = Zero /\ E(parent, w)' = Zero
            BY <1>4, <2>5, <4>3, <5>3
          <5> QED BY <5>4 DEF Present, E
        <4> QED BY <4>1, <4>2, <4>3
      <3>2. \A h \in Pdes : h >= g + 1 => PDirPool'[child][h] = 0
        <4>1. \A h \in Pdes : h >= g + 1 => h # g /\ h >= va
          BY <1>5 DEF Pdes
        <4>2. \A h \in Pdes : h # g => PDirPool'[child][h] = PDirPool[child][h]
          BY <1>1, <1>4, <1>9 DEF VmTypeOK, Pdes
        <4> QED BY <1>2, <4>1, <4>2
      <3>3. g + 1 \in 0 .. NPDE
        BY <1>3, Spaces
      <3>4. \A w \in VPages : view'[child][w] = view'[parent][w]
        BY <1>2, <1>7
      <3>5. parent \in Procs' /\ parent # child /\ (parent \in partial' => child \in partial')
        BY <1>2, <1>6, <1>9
      <3> QED BY Zenon, <1>6, <2>10, <3>1, <3>2, <3>3, <3>4, <3>5 DEF CopyInv
    <2>14. MemInv'
      <3>1. ASSUME NEW i \in Ids, i # child, NEW w \in VPages
            PROVE  Content(i, w)' = Content(i, w)
        <4>1. (Present(i, w)' <=> Present(i, w))
              /\ (Present(i, w) => E(i, w)'.frame = E(i, w).frame)
          BY <2>7, <3>1
        <4> QED BY <1>7, <4>1 DEF Content, E
      <3>2. \A i \in Procs \ partial, w \in VPages :
              i # child => Content(i, w)' = view[i][w]
        BY <1>1, <1>2, <3>1 DEF MemInv
      <3> QED BY <1>1, <1>6, <1>7, <1>9, <2>10, <3>2 DEF MemInv
    <2> QED BY <2>5, <2>9, <2>11, <2>13, <2>14 DEF PagingInv
  <1> QED BY <1>3, <1>8, <1>9

-----------------------------------------------------------------------------
(***************************************************************************)
(* The invariant, and what follows from it.                                *)
(***************************************************************************)

\* A user program, a system call or a page fault enters the kernel.
LEMMA UserStepInv ==
  ASSUME NoSuperPages, RoomAbove, RequestsDoNotWrap, VmStep,
         \/ \E id \in Procs, v \in VPages :
              \/ \E data \in Data : Write(id, v, data)
              \/ pgflt_handler(id, v) \/ pgflt_handler_panics(id, v)
              \/ copy_on_write(id, v) \/ copy_on_write_super(id, v)
              \/ sys_puts(id, v)
         \/ \E id \in Procs, v \in MmapPages, perm \in MmapPerms : sys_mmap(id, v, perm)
         \/ \E id \in Procs : proc_fork(id)
         \/ \E id \in Procs, quota \in ProcQuotas : proc_create(id, quota)
         \/ \E quota \in ProcQuotas : Procs = {} /\ proc_create(0, quota)
  PROVE  PagingInv'
  <1>1. EntriesInv /\ QuotaInv
    BY DEF VmStep, VmInv, PagingInv, TypeInv
  <1>2. ASSUME NEW id \in Procs, NEW v \in VPages, NEW data \in Data, Write(id, v, data)
        PROVE  PagingInv'
    BY <1>2, WriteInv
  <1>3. ASSUME NEW id \in Procs, NEW v \in VPages,
               pgflt_handler(id, v) \/ pgflt_handler_panics(id, v)
        PROVE  PagingInv'
    BY <1>3, FaultInv
  <1>4. ASSUME NEW id \in Procs, NEW v \in VPages, copy_on_write(id, v)
        PROVE  PagingInv'
    BY <1>4, CowInv
  <1>5. ASSUME NEW id \in Procs, NEW v \in VPages, copy_on_write_super(id, v)
        PROVE  FALSE
    <2>1. "P_SUPER" \in E(id, v).perm /\ id \in Ids
      BY Zenon, <1>5 DEF copy_on_write_super, E, Procs, UsedIds
    <2>2. Zero.perm = {}
      BY DEF Zero
    <2>3. Present(id, v)
      BY Zenon, <2>1, <2>2 DEF Present, E
    <2> QED BY Zenon, <1>1, <2>1, <2>3 DEF EntriesInv
  <1>6. ASSUME NEW id \in Procs, NEW v \in VPages, sys_puts(id, v)
        PROVE  PagingInv'
    BY <1>6, PutsInv
  <1>7. ASSUME NEW id \in Procs, NEW v \in MmapPages, NEW perm \in MmapPerms,
               sys_mmap(id, v, perm)
        PROVE  PagingInv'
    BY <1>7, MmapInv
  <1>8. ASSUME NEW id \in Procs, proc_fork(id)
        PROVE  PagingInv'
    BY <1>8, ForkInv
  <1>9. 0 \in UsedIds /\ Procs \subseteq UsedIds
    BY Zenon, <1>1, Spaces DEF QuotaInv, ContainerTree, UsedIds, Procs
  <1>10. ASSUME NEW id \in UsedIds, NEW quota \in ProcQuotas, proc_create(id, quota)
         PROVE  PagingInv'
    BY <1>10, CreateInv
  <1> QED BY <1>2, <1>3, <1>4, <1>5, <1>6, <1>7, <1>8, <1>9, <1>10

\* The kernel goes on with what it was asked for.
LEMMA KernelStepInv ==
  ASSUME VmStep, KernelWork
  PROVE  PagingInv'
  <1>1. ~copy_on_write_remaps /\ ~copy_on_write_copies
    BY DEF VmStep, VmInv, PagingInv, JobInv, copy_on_write_remaps, copy_on_write_copies
  <1> QED BY <1>1, MapPageInv, AllocTableInv, MapReturnsInv, CopyTableInv,
             CopyReturnsInv, LoadInv, CopyoutInv, CopyinInv
          DEF KernelWork

\* The invariant is inductive.
LEMMA VmNext ==
  ASSUME NoSuperPages, RoomAbove, RequestsDoNotWrap, VmInv, [Next]_vmVars
  PROVE  VmInv'
  <1>1. TypeInv' /\ [KernelNext]_vars
    BY TypeNext DEF VmInv
  <1>2. Grows /\ OwnershipInv' /\ RangeInv'
    BY <1>1, KernelGrows DEF VmInv, TypeInv
  <1>3. VmStep
    BY <1>1, <1>2 DEF VmStep
  <1>4. PagingInv'
    <2>1. CASE UNCHANGED vmVars
      <3>1. /\ UNCHANGED <<allocated, CONTAINER, held>>
            /\ UNCHANGED <<PDirPool, ptbl, mem, job, view, partial>>
        BY <2>1 DEF vmVars, vars
      <3>2. TablesInv' /\ EntriesInv'
        BY <1>3, <3>1, QuietTables
      <3>3. MapInv /\ JobInv /\ CopyInv /\ MemInv
        BY DEF VmInv, PagingInv
      <3>4. PICK pid : pid = job.pid /\ pid = job'.pid
        BY <3>1
      <3>5. /\ \A i, w : E(i, w)' = E(i, w) /\ (Present(i, w)' <=> Present(i, w))
            /\ \A p : (IsTable(p)' <=> IsTable(p)) /\ (IsMapped(p)' <=> IsMapped(p))
        BY <3>1, SameTables DEF E, Present, get_ptbl_entry_by_va, get_pdir_entry_by_va
      <3>6. MapInv'
        BY <3>1, <3>3, <3>4, <3>5 DEF MapInv
      <3>7. JobInv'
        BY Zenon, <3>1, <3>3, <3>5 DEF JobInv, FreePages, container_can_consume, UsedIds
      <3>8. CopyInv'
        BY <3>1, <3>3, <3>5 DEF CopyInv, Procs, UsedIds
      <3>9. MemInv'
        <4>1. Procs' = Procs /\ Owned' = Owned
          BY <3>1 DEF Procs, UsedIds, Owned
        <4>2. \A i, w : Content(i, w)' = Content(i, w)
          BY <3>1, <3>5 DEF Content, E
        <4> QED BY <3>1, <3>3, <3>4, <4>1, <4>2 DEF MemInv
      <3> QED BY <3>2, <3>6, <3>7, <3>8, <3>9 DEF PagingInv
    <2>2. CASE KernelWork
      BY <1>3, <2>2, KernelStepInv
    <2> QED BY <1>3, <2>1, <2>2, UserStepInv DEF Next
  <1> QED BY <1>1, <1>2, <1>4 DEF VmInv

\* The invariant holds when paging_init returns.
LEMMA VmInit == paging_init => VmInv
  <1> SUFFICES ASSUME paging_init PROVE VmInv
    OBVIOUS
  <1>1. TypeInv /\ job = Idle /\ container_init /\ pdir_init /\ partial = {}
    BY TypeInit DEF paging_init
  <1>2. \A id \in Ids : held[id] = {}
    BY <1>1 DEF container_init
  <1>3. OwnershipInv /\ RangeInv
    BY <1>1 DEF container_init, OwnershipInv, HeldIsAllocated, FreeAboveHeld,
                NoDoubleGrant, RangeInv
  <1>4. /\ \A id \in Ids, g \in Pdes : PDirPool[id][g] = 0
        /\ \A t \in Norm, k \in Ptes : ptbl[t][k] = Zero
    BY <1>1 DEF pdir_init, Pdes, Ptes
  <1>5. \A id \in Ids, v \in VPages : E(id, v) = Zero /\ ~Present(id, v)
    BY <1>4, Indices DEF E, Present, get_ptbl_entry_by_va, get_pdir_entry_by_va
  <1>6. TablesInv
    BY <1>4 DEF TablesInv
  <1>7. EntriesInv
    BY <1>5 DEF EntriesInv
  <1>8. MapInv /\ JobInv /\ CopyInv
    BY Zenon, <1>1 DEF MapInv, JobInv, CopyInv, Idle
  <1>9. MemInv
    <2>1. /\ \A f \in Frames : f >= VM_USERLO_PI => mem[f] = 0
          /\ \A id \in Ids, v \in VPages : view[id][v] = 0
      BY PageAssumption, Spaces DEF paging_init, Frames
    <2>2. \A id \in Ids, v \in VPages : Content(id, v) = 0
      BY Zenon, <1>5 DEF Content
    <2> QED BY <2>1, <2>2 DEF MemInv, Procs, UsedIds
  <1> QED BY <1>1, <1>3, <1>6, <1>7, <1>8, <1>9 DEF VmInv, PagingInv

\* VmInv is an invariant of virtual memory without super pages.
THEOREM VmInvariant ==
  ASSUME NoSuperPages, RoomAbove, RequestsDoNotWrap
  PROVE  Spec => []VmInv
  <1>1. VmInv /\ [Next]_vmVars => VmInv'
    BY VmNext
  <1> QED BY <1>1, VmInit, PTL DEF Spec


\* A process that was built completely finds in every page what it wrote there
\* last, or inherited or loaded (vmm_copy, copy_on_write, alloc_page, elf_load).
THEOREM MemoryIsPrivate ==
  ASSUME NoSuperPages, RoomAbove, RequestsDoNotWrap
  PROVE  Spec => []PrivateMemory
  <1>1. VmInv => PrivateMemory
    BY DEF VmInv, PagingInv, MemInv, PrivateMemory, InUser
  <1> QED BY <1>1, VmInvariant, PTL

\* A frame that a process can write is mapped nowhere else (copy_on_write,
\* vmm_copy's removal of PTE_W).
THEOREM WritersAreAlone ==
  ASSUME NoSuperPages, RoomAbove, RequestsDoNotWrap
  PROVE  Spec => []WritableExclusive
  <1>1. VmInv => WritableExclusive
    <2> SUFFICES ASSUME VmInv,
                        NEW i \in Procs, NEW j \in Procs, NEW v \in VPages, NEW w \in VPages,
                        "PTE_W" \in E(i, v).perm, Present(j, w), E(i, v).frame = E(j, w).frame
                 PROVE  i = j /\ v = w
      BY DEF WritableExclusive, E
    <2>1. i \in Ids /\ j \in Ids /\ EntriesInv
      BY DEF Procs, UsedIds, VmInv, PagingInv
    <2>2. Present(i, v)
      BY DEF Present, E, Zero
    <2>3. "PTE_COW" \notin E(i, v).perm
      BY Zenon, <2>1, <2>2 DEF EntriesInv
    <2> QED BY Zenon, <2>1, <2>2, <2>3 DEF EntriesInv
  <1> QED BY <1>1, VmInvariant, PTL

\* A page table belongs to one directory entry of the process that paid for it,
\* and nobody has it mapped as data (alloc_ptbl, vmm_copy).
THEOREM TablesArePrivate ==
  ASSUME NoSuperPages, RoomAbove, RequestsDoNotWrap
  PROVE  Spec => []TablesPrivate
  <1>1. VmInv => TablesPrivate
    <2> SUFFICES ASSUME VmInv, NEW i \in Ids, NEW g \in Pdes, PDirPool[i][g] # 0
                 PROVE  /\ PDirPool[i][g] \in held[i]
                        /\ \A j \in Ids, h \in Pdes :
                             PDirPool[j][h] = PDirPool[i][g] => j = i /\ h = g
                        /\ \A j \in Procs, v \in VPages :
                             Present(j, v) => E(j, v).frame # PDirPool[i][g]
      BY DEF TablesPrivate, Pdes, E
    <2>1. TablesInv /\ EntriesInv /\ Procs \subseteq Ids /\ IsTable(PDirPool[i][g])
      BY DEF VmInv, PagingInv, Procs, UsedIds, IsTable
    <2>2. PDirPool[i][g] \in held[i]
      BY <2>1 DEF TablesInv
    <2>3. \A j \in Ids, h \in Pdes : PDirPool[j][h] = PDirPool[i][g] => j = i /\ h = g
      BY <2>1 DEF TablesInv
    <2>4. \A j \in Procs, v \in VPages : Present(j, v) => E(j, v).frame # PDirPool[i][g]
      BY <2>1 DEF EntriesInv
    <2> QED BY <2>2, <2>3, <2>4
  <1> QED BY <1>1, VmInvariant, PTL

\* The pages sys_mmap maps are consecutive pages of the caller, from the address
\* it asked for on, page tables allocated on the way notwithstanding
\* (map_consecutive_page).
THEOREM MmapIsConsecutive ==
  ASSUME NoSuperPages, RoomAbove, RequestsDoNotWrap
  PROVE  Spec => []MmapConsecutive
  <1>1. VmInv => MmapConsecutive
    <2> SUFFICES ASSUME VmInv, job.op = "map", NEW v \in job.first .. job.va - 1
                 PROVE  /\ E(job.pid, v) = Entry(job.page - (job.va - v), job.perm)
                        /\ E(job.pid, v).frame \in held[job.pid]
      BY DEF MmapConsecutive, E
    <2> DEFINE p == job.page - (job.va - v)
    <2>1. p \in held[job.pid] /\ E(job.pid, v) = Entry(p, job.perm) /\ job.pid \in Ids
      BY Zenon DEF VmInv, PagingInv, MapInv, TypeInv, VmTypeOK, Job
    <2>2. p \in VM_USERLO_PI .. VM_USERHI_PI - 1
      BY <2>1 DEF VmInv, RangeInv
    <2> HIDE DEF p
    <2>3. p % FRAMES = p
      BY <2>2, PageAssumption, PagingAssumption
    <2>4. E(job.pid, v).frame = p
      BY <2>1, <2>3 DEF Entry
    <2> QED BY <2>1, <2>4 DEF p
  <1> QED BY <1>1, VmInvariant, PTL

\* A page that palloc can still hand out holds zeros, as data and as a page table
\* (alloc_page and alloc_ptbl never clear what they get).
THEOREM FreePagesStayZero ==
  ASSUME NoSuperPages, RoomAbove, RequestsDoNotWrap
  PROVE  Spec => []FreePagesAreZero
  <1>1. VmInv => FreePagesAreZero
    <2> SUFFICES ASSUME VmInv, NEW p \in FreePages
                 PROVE  mem[p] = 0 /\ \A j \in Ptes : ptbl[p][j] = Zero
      BY DEF FreePagesAreZero, Ptes
    <2>1. /\ p \in Norm /\ p \in VM_USERLO_PI .. VM_USERHI_PI - 1
          /\ TablesInv /\ MemInv /\ OwnershipInv
      BY PageAssumption DEF FreePages, VmInv, PagingInv
    <2>2. p \notin Owned
      BY <2>1 DEF OwnershipInv, HeldIsAllocated, FreePages, Owned
    <2>3. p # 0 /\ p \in Frames /\ p >= VM_USERLO_PI
      BY <2>1, PageAssumption, PagingAssumption DEF Frames
    <2>4. ~IsTable(p)
      BY <2>1, <2>2, <2>3 DEF IsTable, TablesInv, Owned
    <2>5. mem[p] = 0
      BY <2>1, <2>2, <2>3 DEF MemInv
    <2>6. \A j \in Ptes : ptbl[p][j] = Zero
      BY <2>1, <2>4 DEF TablesInv
    <2> QED BY <2>5, <2>6
  <1> QED BY <1>1, VmInvariant, PTL

\* What sys_puts prints is the memory of the caller, mapped or not when it is
\* called, unless there is no memory to map it (pt_copyin).
THEOREM PutsReadsCaller ==
  ASSUME NoSuperPages, RoomAbove, RequestsDoNotWrap
  PROVE  Spec => []ReadsOwnMemory
  <1>1. VmInv => ReadsOwnMemory
    <2> SUFFICES ASSUME VmInv, job.op = "read", job.pid \notin partial
                 PROVE  IF Present(job.pid, job.first)
                        THEN mem[E(job.pid, job.first).frame] = view[job.pid][job.first]
                        ELSE FreePages = {} \/ ~container_can_consume(job.pid, 1)
      BY Zenon DEF ReadsOwnMemory, E
    <2>1. job.pid \in Procs /\ job.first \in VPages /\ MemInv /\ JobInv
      BY DEF VmInv, PagingInv, TypeInv, JobRange, VmTypeOK, Job
    <2>2. Content(job.pid, job.first) = view[job.pid][job.first]
      BY <2>1 DEF MemInv
    <2> QED BY Zenon, <2>1, <2>2 DEF JobInv, Content, E
  <1> QED BY <1>1, VmInvariant, PTL
=============================================================================
