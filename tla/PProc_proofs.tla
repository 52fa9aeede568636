---------------------------- MODULE PProc_proofs ----------------------------
(***************************************************************************)
(* What holds of processes and scheduling for any number of processes, any *)
(* memory map and any quotas: ProcInv is invariant, the process layer uses *)
(* the container layer as KernelSpec says, the ready queue is served in    *)
(* order, and saved registers are private.                                 *)
(***************************************************************************)
EXTENDS PProc, MContainer_proofs

\* What EAX may hold.
Regs == CallNr \cup ErrorNr \cup {"zero"}

-----------------------------------------------------------------------------
\* Process numbers, and the two values that are none.
LEMMA IdFacts ==
  /\ NUM_IDS \in Nat /\ NUM_IDS > 1
  /\ Ids = 0 .. NUM_IDS - 1 /\ 0 \in Ids
  /\ \A i \in Ids : i \in 0 .. NUM_IDS
  /\ NUM_IDS \notin Ids /\ ARG = NUM_IDS + 1
  BY ContainerAssumption, ProcAssumption DEF Ids, ARG

\* What the invariant says of the current process outside of the monitor.
LEMMA Current ==
  ASSUME ProcInv
  PROVE  /\ CURID \in Ids /\ CURID \in UsedIds
         /\ tcb_state[CURID] = "RUN"
         /\ CURID # 0 => uctx_pool[CURID].image = image[CURID]
         /\ kernel = "user" => CURID # 0 /\ newpid = NUM_IDS
  <1>1. CURID \in Ids /\ newpid \in 0 .. NUM_IDS
    BY DEF ProcInv, ProcTypeOK
  <1>2. CURID \in {i \in Ids : tcb_state[i] = "RUN"}
    BY DEF ProcInv, SchedulerConsistent
  <1>3. CURID \in {i \in Ids : tcb_state[i] # "DEAD"}
    BY <1>2
  <1>4. CURID \in UsedIds
    BY <1>3 DEF ProcInv, SchedulerConsistent
  <1>5. kernel = "elf_load" => CURID # newpid
    BY <1>1, IdFacts DEF ProcInv, UnderConstruction
  <1>6. CURID # 0 => uctx_pool[CURID].image = image[CURID]
    BY <1>1, <1>3, <1>5 DEF ProcInv, SavedFrames
  <1>7. kernel = "user" => CURID # 0 /\ newpid = NUM_IDS
    BY <1>1, IdFacts DEF ProcInv, RunsAsItself, UnderConstruction
  <1> QED BY <1>1, <1>2, <1>4, <1>6, <1>7

\* A trap saves a frame of the program that runs.
LEMMA TrapFrames ==
  ASSUME ProcInv, kernel = "user", NEW eax \in Regs, NEW ebx \in 0 .. ARG
  PROVE  /\ trap(eax, ebx) \in [Ids -> Frame]
         /\ \A i \in Ids : trap(eax, ebx)[i].image = uctx_pool[i].image
         /\ trap(eax, ebx)[CURID].eax = eax
  <1>1. uctx_pool \in [Ids -> Frame] /\ cpu \in Frame
    BY DEF ProcInv, ProcTypeOK
  <1>2. cpu.image = image[CURID] /\ image[CURID] = uctx_pool[CURID].image /\ CURID \in Ids
    BY Current DEF ProcInv, RunsAsItself
  <1>3. [eax |-> eax, ebx |-> ebx, image |-> cpu.image] \in Frame
    BY <1>1 DEF Frame, Regs
  <1> QED BY <1>1, <1>2, <1>3 DEF trap

\* The result of a system call goes to the caller's frame.
LEMMA ErrnoFrames ==
  ASSUME NEW f \in [Ids -> Frame], NEW p \in Ids, NEW eax \in Regs,
         uctx_pool' = [f EXCEPT ![p].eax = eax]
  PROVE  /\ uctx_pool' \in [Ids -> Frame]
         /\ \A i \in Ids : uctx_pool'[i].image = f[i].image
  BY DEF Frame, Regs

\* What a call writes to a frame leaves it a frame of the same process.
LEMMA ResultFrames ==
  ASSUME NEW f \in [Ids -> Frame], NEW p \in Ids, NEW eax \in Regs, NEW ebx \in 0 .. ARG
  PROVE  uctx_pool' = [f EXCEPT ![p].eax = eax, ![p].ebx = ebx] =>
           /\ uctx_pool' \in [Ids -> Frame]
           /\ \A i \in Ids : uctx_pool'[i].image = f[i].image
  <1> DEFINE g == [f EXCEPT ![p].eax = eax]
  <1>1. g \in [Ids -> Frame] /\ \A i \in Ids : g[i].image = f[i].image
    BY DEF Frame, Regs
  <1> HAVE uctx_pool' = [g EXCEPT ![p].ebx = ebx]
  <1> HIDE DEF g
  <1> QED BY <1>1 DEF Frame

(***************************************************************************)
(* Containers                                                              *)
(***************************************************************************)

\* kctx_new asks for no more than the container has, so it is a split of the
\* container layer.
LEMMA KctxIsSplit ==
  ASSUME QuotaInv, NEW id \in UsedIds, NEW quota \in Nat, NEW child \in 0 .. NUM_IDS,
         kctx_new(id, quota, child)
  PROVE  [KernelNext]_vars
  <1>1. CASE ~container_can_consume(id, quota)
    BY <1>1 DEF kctx_new
  <1>2. CASE container_can_consume(id, quota)
    <2>1. alloc_mem_quota(id, quota)
      BY <1>2, IdFacts DEF kctx_new, alloc_mem_quota
    <2>2. id \in Ids
      BY DEF UsedIds
    <2>3. CONTAINER[id].usage + quota <= CONTAINER[id].quota
      BY <1>2, <2>2, CanConsume
    <2>4. /\ CONTAINER[id].usage \in Nat /\ CONTAINER[id].quota \in Nat
          /\ CONTAINER[id].quota <= RealQuota
      BY <2>2 DEF QuotaInv, TypeOK, Container, QuotaBounded
    <2>5. quota \in 0 .. RealQuota
      BY <2>3, <2>4, RealQuotaType
    <2> QED BY <2>1, <2>5 DEF KernelNext
  <1> QED BY <1>1, <1>2

\* A child that is created takes a container nobody uses.
LEMMA KctxFresh ==
  ASSUME QuotaInv, NEW id \in UsedIds, NEW quota \in Nat, NEW child \in Ids,
         kctx_new(id, quota, child)
  PROVE  /\ child \notin UsedIds /\ child # 0
         /\ UsedIds' = UsedIds \cup {child}
         /\ kctx_pool' = [kctx_pool EXCEPT ![child] = "proc_start_user"]
  <1> DEFINE c == ChildId(id, CONTAINER[id].nchildren)
  <1>1. /\ CONTAINER[id].nchildren < MAX_CHILDREN /\ c < NUM_IDS
        /\ child = c
        /\ CONTAINER' = [CONTAINER EXCEPT
              ![id].nchildren = @ + 1,
              ![id].usage = @ + quota,
              ![c] = [quota |-> quota, usage |-> 0, parent |-> id,
                      nchildren |-> 0, used |-> 1]]
        /\ kctx_pool' = [kctx_pool EXCEPT ![child] = "proc_start_user"]
    BY IdFacts DEF kctx_new, container_split
  <1>2. c \in Ids /\ c # id /\ c # 0 /\ CONTAINER[c] = Unused
    BY <1>1, FreshChild
  <1>3. id \in Ids /\ CONTAINER \in [Ids -> Container]
    BY DEF UsedIds, QuotaInv, TypeOK
  <1>4. \A i \in Ids \ {c} : CONTAINER'[i].used = CONTAINER[i].used
    BY <1>1, <1>2, <1>3 DEF Container
  <1>5. CONTAINER'[c].used = 1
    BY <1>1, <1>2, <1>3
  <1>6. c \notin UsedIds
    BY <1>2 DEF UsedIds, Unused
  <1>7. UsedIds' = UsedIds \cup {c}
    <2> HIDE DEF c
    <2> QED BY <1>2, <1>4, <1>5 DEF UsedIds
  <1> QED BY <1>1, <1>2, <1>6, <1>7

\* A failing kctx_new leaves the containers in use as they are.
LEMMA KctxFails ==
  ASSUME NEW id, NEW quota, kctx_new(id, quota, NUM_IDS),
         kctx_pool \in [0 .. NUM_IDS -> {"none", "proc_start_user", "thread_yield", "mon_start_user"}]
  PROVE  /\ UsedIds' = UsedIds
         /\ kctx_pool' \in [0 .. NUM_IDS -> {"none", "proc_start_user", "thread_yield", "mon_start_user"}]
         /\ \A i \in Ids : kctx_pool'[i] = kctx_pool[i]
  BY SMTT(30), IdFacts DEF kctx_new, container_split, UsedIds, vars

\* Allocations put no container into use.
LEMMA AllocUsed ==
  ASSUME QuotaInv, NEW id \in UsedIds, NEW len,
         container_alloc(id) \/ container_consecutive_alloc(id, len)
  PROVE  UsedIds' = UsedIds
  <1>1. id \in Ids /\ CONTAINER \in [Ids -> Container]
    BY DEF UsedIds, QuotaInv, TypeOK
  <1>2. \/ UNCHANGED CONTAINER
        \/ \E u : CONTAINER' = [CONTAINER EXCEPT ![id].usage = u]
    BY DEF container_alloc, container_consecutive_alloc, vars
  <1>3. \A i \in Ids : CONTAINER'[i].used = CONTAINER[i].used
    BY <1>1, <1>2 DEF Container
  <1> QED BY <1>3 DEF UsedIds

\* Nothing changes in the container layer.
LEMMA SameContainers ==
  ASSUME QuotaInv, UNCHANGED vars
  PROVE  QuotaInv' /\ UsedIds' = UsedIds /\ [KernelNext]_vars
  <1>1. QuotaInv'
    BY NextQuota
  <1> QED BY <1>1 DEF UsedIds, vars

(***************************************************************************)
(* Steps that leave the threads alone                                      *)
(***************************************************************************)
KctxType ==
  [0 .. NUM_IDS -> {"none", "proc_start_user", "thread_yield", "mon_start_user"}]

\* The current process returns to user mode, or works on its own memory, with
\* all frames in order.
LEMMA Continue ==
  ASSUME ProcInv, QuotaInv', UsedIds' = UsedIds, CURID # 0,
         UNCHANGED <<tcb_state, ready, CURID, image, shared, pic>>,
         kctx_pool' \in KctxType, \A i \in Ids : kctx_pool'[i] = kctx_pool[i],
         uctx_pool' \in [Ids -> Frame],
         \A i \in Ids \ {0} : tcb_state[i] # "DEAD" => uctx_pool'[i].image = image[i],
         refault' \in {0, 1}, newpid' = NUM_IDS,
         \/ proc_start_user
         \/ kernel' \in {"memory", "halt"} /\ cr3' \in Ids /\ tss' \in Ids /\ cpu' \in Frame
  PROVE  ProcInv'
  <1>1. /\ CURID \in Ids /\ tcb_state[CURID] = "RUN"
        /\ ready \in Seq(Ids) /\ Len(ready) \in Nat
        /\ tcb_state \in [Ids -> {"READY", "RUN", "DEAD"}]
    BY Current DEF ProcInv, ProcTypeOK
  <1>2. uctx_pool'[CURID].image = image[CURID] /\ uctx_pool'[CURID] \in Frame
    BY <1>1
  <1>3. ProcTypeOK'
    <2>1. /\ kernel' \in {"monitor", "user", "elf_load", "vmm_copy", "memory", "halt"}
          /\ cr3' \in Ids /\ tss' \in Ids /\ cpu' \in Frame
      BY <1>1, <1>2 DEF proc_start_user
    <2>2. newpid' \in 0 .. NUM_IDS
      BY IdFacts
    <2>3. image \in [Ids -> Ids] /\ shared \subseteq Ids
      BY DEF ProcInv, ProcTypeOK
    <2> QED BY <1>1, <2>1, <2>2, <2>3 DEF ProcTypeOK, KctxType
  <1>4. \A k \in 1 .. Len(ready) : ready[k] \in Ids
    BY <1>1
  <1>5. \A k \in 1 .. Len(ready) : tcb_state[ready[k]] = "READY"
    <2> TAKE k \in 1 .. Len(ready)
    <2>1. ready[k] \in {i \in Ids : tcb_state[i] = "READY"}
      BY DEF ProcInv, SchedulerConsistent
    <2> QED BY <2>1
  <1>6. \A k \in 1 .. Len(ready) : ready[k] # 0
    BY <1>5, IdFacts DEF ProcInv, SchedulerConsistent
  <1>7. SchedulerConsistent'
    BY <1>4, <1>5, <1>6 DEF ProcInv, SchedulerConsistent
  <1>8. RunsAsItself'
    BY <1>2 DEF RunsAsItself, proc_start_user
  <1>9. UnderConstruction'
    BY IdFacts DEF UnderConstruction, proc_start_user
  <1>10. SavedFrames'
    BY IdFacts DEF SavedFrames
  <1> QED BY <1>3, <1>7, <1>8, <1>9, <1>10 DEF ProcInv

\* The special case in which no frame gets another program.
LEMMA ContinueSame ==
  ASSUME ProcInv, QuotaInv', UsedIds' = UsedIds, CURID # 0, newpid = NUM_IDS,
         UNCHANGED <<tcb_state, ready, CURID, image, shared, pic, newpid>>,
         kctx_pool' \in KctxType, \A i \in Ids : kctx_pool'[i] = kctx_pool[i],
         uctx_pool' \in [Ids -> Frame],
         \A i \in Ids : uctx_pool'[i].image = uctx_pool[i].image,
         refault' \in {0, 1},
         \/ proc_start_user
         \/ kernel' \in {"memory", "halt"} /\ cr3' \in Ids /\ tss' \in Ids /\ cpu' \in Frame
  PROVE  ProcInv'
  <1>1. \A i \in Ids \ {0} : tcb_state[i] # "DEAD" => uctx_pool'[i].image = image[i]
    BY IdFacts DEF ProcInv, SavedFrames
  <1> QED BY <1>1, Continue

(***************************************************************************)
(* Steps that change the ready queue                                       *)
(***************************************************************************)

\* The invariant, for the members of the ready queue.
LEMMA Waiting ==
  ASSUME ProcInv
  PROVE  /\ ready \in Seq(Ids) /\ Len(ready) \in Nat
         /\ \A k \in 1 .. Len(ready) :
              ready[k] \in Ids \ {0, CURID} /\ tcb_state[ready[k]] = "READY"
         /\ \A i \in Ids : tcb_state[i] = "READY" =>
              \E k \in 1 .. Len(ready) : ready[k] = i
         /\ \A i \in Ids : tcb_state[i] = "RUN" <=> i \in {0, CURID}
         /\ \A i \in Ids : tcb_state[i] # "DEAD" <=> i \in UsedIds
         /\ tcb_state \in [Ids -> {"READY", "RUN", "DEAD"}]
  <1>1. /\ ready \in Seq(Ids) /\ Len(ready) \in Nat
        /\ tcb_state \in [Ids -> {"READY", "RUN", "DEAD"}]
    BY DEF ProcInv, ProcTypeOK
  <1>2. \A i \in Ids : tcb_state[i] = "RUN" <=> i \in {0, CURID}
    BY DEF ProcInv, SchedulerConsistent
  <1>3. \A i \in Ids : tcb_state[i] # "DEAD" <=> i \in UsedIds
    BY DEF ProcInv, SchedulerConsistent
  <1>4. {i \in Ids : tcb_state[i] = "READY"} = {ready[k] : k \in 1 .. Len(ready)}
    BY DEF ProcInv, SchedulerConsistent
  <1>5. \A k \in 1 .. Len(ready) : ready[k] \in Ids /\ tcb_state[ready[k]] = "READY"
    BY <1>4
  <1>6. \A i \in Ids : tcb_state[i] = "READY" =>
              \E k \in 1 .. Len(ready) : ready[k] = i
    BY <1>4
  <1>7. \A k \in 1 .. Len(ready) : ready[k] \notin {0, CURID}
    BY <1>2, <1>5
  <1> QED BY <1>1, <1>2, <1>3, <1>5, <1>6, <1>7

\* The way back: SchedulerConsistent from facts about single threads.
LEMMA Consistent ==
  ASSUME ready' \in Seq(Ids),
         \A j, k \in 1 .. Len(ready') : ready'[j] = ready'[k] => j = k,
         \A k \in 1 .. Len(ready') : tcb_state'[ready'[k]] = "READY",
         \A i \in Ids : tcb_state'[i] = "READY" => \E k \in 1 .. Len(ready') : ready'[k] = i,
         CURID' \in Ids,
         \A i \in Ids : tcb_state'[i] = "RUN" <=> i \in {0, CURID'},
         \A i \in Ids : tcb_state'[i] # "DEAD" <=> i \in UsedIds',
         \A k \in 1 .. Len(ready') :
           kctx_pool'[ready'[k]] \in {"proc_start_user", "thread_yield"},
         kernel' = "user" => \A k \in 1 .. Len(ready') :
           uctx_pool'[ready'[k]].image = image'[ready'[k]]
  PROVE  SchedulerConsistent'
  <1>1. \A k \in 1 .. Len(ready') : ready'[k] \in Ids
    OBVIOUS
  <1>2. {i \in Ids : tcb_state'[i] = "READY"} = {ready'[k] : k \in 1 .. Len(ready')}
    BY <1>1
  <1>3. {i \in Ids : tcb_state'[i] = "RUN"} = {0, CURID'}
    BY IdFacts
  <1>4. {i \in Ids : tcb_state'[i] # "DEAD"} = UsedIds'
    BY DEF UsedIds
  <1> QED BY <1>2, <1>3, <1>4 DEF SchedulerConsistent

\* thread_spawn: the child is appended to the ready queue and is being made.
LEMMA SpawnStep ==
  ASSUME ProcInv, NEW quota \in Nat, NEW pid \in Ids, NEW img \in Ids,
         thread_spawn(CURID, quota, pid),
         newpid = NUM_IDS, newpid' = pid,
         UNCHANGED <<CURID, pic, refault, cpu, tss>>,
         image' = [image EXCEPT ![pid] = img],
         shared' \subseteq Ids,
         uctx_pool' \in [Ids -> Frame],
         \A i \in Ids \ {pid} : uctx_pool'[i].image = uctx_pool[i].image,
         cr3' = 0, kernel' \in {"elf_load", "vmm_copy"},
         kernel' = "elf_load" => img = pid,
         kernel' = "vmm_copy" => uctx_pool'[pid].image = img /\ CURID # 0
  PROVE  ProcInv' /\ [KernelNext]_vars
  <1>1. kctx_new(CURID, quota, pid) /\ CURID \in UsedIds /\ QuotaInv
    BY Current DEF thread_spawn, ProcInv
  <1>2. /\ pid \notin UsedIds /\ pid # 0
        /\ UsedIds' = UsedIds \cup {pid}
        /\ kctx_pool' = [kctx_pool EXCEPT ![pid] = "proc_start_user"]
    BY <1>1, KctxFresh
  <1>3. [KernelNext]_vars
    BY <1>1, KctxIsSplit, IdFacts
  <1>4. QuotaInv'
    BY <1>1, <1>3, NextQuota
  <1>5. /\ tcb_state' = [tcb_state EXCEPT ![pid] = "READY"]
        /\ ready' = Append(ready, pid)
    BY IdFacts DEF thread_spawn
  <1>6. /\ tcb_state[pid] = "DEAD" /\ pid # CURID
        /\ \A k \in 1 .. Len(ready) : ready[k] # pid
    BY <1>1, <1>2, Waiting
  <1>7. /\ ready' \in Seq(Ids) /\ Len(ready') = Len(ready) + 1
        /\ \A k \in 1 .. Len(ready) : ready'[k] = ready[k]
        /\ ready'[Len(ready) + 1] = pid
    BY <1>5, Waiting
  <1>8. ProcTypeOK'
    <2>1. tcb_state' \in [Ids -> {"READY", "RUN", "DEAD"}]
      BY <1>5, Waiting
    <2>2. kctx_pool' \in [0 .. NUM_IDS ->
                    {"none", "proc_start_user", "thread_yield", "mon_start_user"}]
      BY <1>2, IdFacts DEF ProcInv, ProcTypeOK
    <2>3. image' \in [Ids -> Ids]
      BY DEF ProcInv, ProcTypeOK
    <2>4. newpid' \in 0 .. NUM_IDS
      BY IdFacts
    <2> QED BY Zenon, <1>7, <2>1, <2>2, <2>3, <2>4, IdFacts DEF ProcInv, ProcTypeOK
  <1>9. SchedulerConsistent'
    <2>1. \A j, k \in 1 .. Len(ready') : ready'[j] = ready'[k] => j = k
      BY SMTT(30), <1>6, <1>7, Waiting DEF ProcInv, SchedulerConsistent
    <2>2. \A k \in 1 .. Len(ready') : tcb_state'[ready'[k]] = "READY"
      BY <1>5, <1>6, <1>7, Waiting
    <2>3. \A i \in Ids : tcb_state'[i] = "READY" =>
            \E k \in 1 .. Len(ready') : ready'[k] = i
      BY <1>5, <1>7, Waiting
    <2>4. \A i \in Ids : tcb_state'[i] = "RUN" <=> i \in {0, CURID'}
      BY <1>2, <1>5, <1>6, Waiting
    <2>5. \A i \in Ids : tcb_state'[i] # "DEAD" <=> i \in UsedIds'
      BY <1>2, <1>5, Waiting
    <2>6. \A k \in 1 .. Len(ready') :
            kctx_pool'[ready'[k]] \in {"proc_start_user", "thread_yield"}
      <3>1. \A i \in Ids : kctx_pool'[i] = IF i = pid THEN "proc_start_user" ELSE kctx_pool[i]
        <4>1. DOMAIN kctx_pool = 0 .. NUM_IDS
          BY DEF ProcInv, ProcTypeOK
        <4>2. \A i \in Ids : i \in DOMAIN kctx_pool
          BY <4>1, IdFacts
        <4> QED BY <1>2, <4>2
      <3>2. \A k \in 1 .. Len(ready) :
              kctx_pool[ready[k]] \in {"proc_start_user", "thread_yield"}
        BY DEF ProcInv, SchedulerConsistent
      <3> QED BY <1>7, <3>1, <3>2, Waiting
    <2>7. CURID' \in Ids /\ kernel' # "user"
      BY Current
    <2> QED BY SMTT(30), <1>7, <2>1, <2>2, <2>3, <2>4, <2>5, <2>6, <2>7, Consistent
  <1>10. RunsAsItself'
    BY DEF RunsAsItself
  <1>11. UnderConstruction'
    <2>1. CURID = 0 => ready = <<>>
      BY IdFacts DEF ProcInv, UnderConstruction
    <2>2. CURID = 0 => ready' = <<pid>>
      BY <1>5, <2>1
    <2>3. tcb_state'[pid] = "READY" /\ image'[pid] = img
      BY <1>5, Waiting DEF ProcInv, ProcTypeOK
    <2> QED BY <1>2, <1>6, <2>2, <2>3 DEF UnderConstruction
  <1>12. SavedFrames'
    <2> SUFFICES ASSUME NEW i \in Ids \ {0}, tcb_state'[i] # "DEAD",
                        ~(kernel' = "elf_load" /\ i = pid)
                 PROVE  uctx_pool'[i].image = image'[i]
      BY DEF SavedFrames
    <2>1. CASE i = pid
      BY <2>1 DEF ProcInv, ProcTypeOK
    <2>2. CASE i # pid
      <3>1. tcb_state[i] # "DEAD" /\ image'[i] = image[i]
        BY <1>5, <2>2, Waiting DEF ProcInv, ProcTypeOK
      <3>2. i # newpid
        BY IdFacts
      <3> QED BY <2>2, <3>1, <3>2 DEF ProcInv, SavedFrames
    <2> QED BY <2>1, <2>2
  <1> QED BY <1>3, <1>4, <1>8, <1>9, <1>10, <1>11, <1>12 DEF ProcInv

\* Resume keeps the program of every frame.
LEMMA ResumeFrames ==
  ASSUME NEW f \in [Ids -> Frame], NEW p \in Ids, Resume(p, f)
  PROVE  /\ uctx_pool' \in [Ids -> Frame]
         /\ \A i \in Ids : uctx_pool'[i].image = f[i].image
  <1>1. [f EXCEPT ![p].eax = "E_SUCC"] \in [Ids -> Frame]
    BY DEF Frame, ErrorNr
  <1>2. \A i \in Ids : [f EXCEPT ![p].eax = "E_SUCC"][i].image = f[i].image
    BY SMTT(30) DEF Frame
  <1> QED BY <1>1, <1>2 DEF Resume

\* sys_yield with somebody waiting: the head of the ready queue runs, and the
\* caller waits behind everybody else.
LEMMA SwitchStep ==
  ASSUME ProcInv, kernel = "user", ready # <<>>,
         ready' = Append(Tail(ready), CURID),
         tcb_state' = [tcb_state EXCEPT ![CURID] = "READY", ![Head(ready)] = "RUN"],
         CURID' = Head(ready),
         kctx_pool' = [kctx_pool EXCEPT ![CURID] = "thread_yield"],
         uctx_pool' \in [Ids -> Frame],
         \A i \in Ids : uctx_pool'[i].image = uctx_pool[i].image,
         UNCHANGED <<vars, newpid, pic, refault, history>>,
         proc_start_user
  PROVE  ProcInv'
  <1> DEFINE n == Len(ready)
             h == ready[1]
  <1>1. /\ CURID \in Ids /\ CURID # 0 /\ newpid = NUM_IDS
        /\ QuotaInv /\ QuotaInv' /\ UsedIds' = UsedIds
        /\ image' = image /\ shared' = shared
    BY Current, SameContainers DEF ProcInv, history
  <1>2. /\ n \in Nat /\ n > 0 /\ Head(ready) = h
        /\ h \in Ids \ {0, CURID} /\ tcb_state[h] = "READY"
    BY Waiting
  <1>3. /\ ready' \in Seq(Ids) /\ Len(ready') = n
        /\ \A k \in 1 .. n - 1 : ready'[k] = ready[k + 1]
        /\ ready'[n] = CURID
    BY <1>1, <1>2, Waiting
  <1>4. /\ tcb_state'[h] = "RUN" /\ tcb_state'[CURID] = "READY"
        /\ \A i \in Ids \ {h, CURID} : tcb_state'[i] = tcb_state[i]
    BY <1>1, <1>2, Waiting
  <1>5. \A i \in Ids : kctx_pool'[i] = IF i = CURID THEN "thread_yield" ELSE kctx_pool[i]
    <2>1. DOMAIN kctx_pool = 0 .. NUM_IDS
      BY DEF ProcInv, ProcTypeOK
    <2>2. \A i \in Ids : i \in DOMAIN kctx_pool
      BY <2>1, IdFacts
    <2> QED BY <2>2
  <1>6. \A i \in Ids \ {0} : tcb_state[i] # "DEAD" => uctx_pool'[i].image = image[i]
    BY <1>1, IdFacts DEF ProcInv, SavedFrames
  <1>7. uctx_pool'[h].image = image[h] /\ uctx_pool'[h] \in Frame
    BY <1>2, <1>6
  <1>8. \A j, k \in 1 .. n : ready[j] = ready[k] => j = k
    BY DEF ProcInv, SchedulerConsistent
  <1>9. \A k \in 1 .. n : ready[k] \in Ids \ {0, CURID} /\ tcb_state[ready[k]] = "READY"
    BY Waiting
  <1>all. \A i \in Ids : tcb_state[i] = "READY" => \E k \in 1 .. n : ready[k] = i
    BY Waiting
  <1>10. /\ 1 \in 1 .. n /\ n \in 1 .. n
         /\ \A k \in 1 .. n : k # n => k \in 1 .. n - 1
         /\ \A k \in 1 .. n - 1 : k \in 1 .. n /\ k + 1 \in 1 .. n /\ k + 1 # 1 /\ k # n
         /\ \A k \in 1 .. n : k # 1 => k - 1 \in 1 .. n - 1 /\ (k - 1) + 1 = k
         /\ \A j, k \in 1 .. n : j + 1 = k + 1 => j = k
    BY <1>2
  <1>11. n = Len(ready')
    BY <1>3
  <1> HIDE DEF n, h
  <1>12. ProcTypeOK'
    <2>1. tcb_state' \in [Ids -> {"READY", "RUN", "DEAD"}]
      BY <1>1, <1>2, Waiting
    <2>2. kctx_pool' \in [0 .. NUM_IDS ->
                    {"none", "proc_start_user", "thread_yield", "mon_start_user"}]
      BY Zenon DEF ProcInv, ProcTypeOK
    <2>3. /\ kernel' = "user" /\ CURID' \in Ids /\ cr3' \in Ids /\ tss' \in Ids
          /\ cpu' \in Frame
      BY <1>2, <1>7 DEF proc_start_user
    <2>4. newpid \in 0 .. NUM_IDS /\ refault \in {0, 1} /\ image \in [Ids -> Ids]
          /\ shared \subseteq Ids
      BY DEF ProcInv, ProcTypeOK
    <2> QED BY Zenon, <1>1, <1>3, <2>1, <2>2, <2>3, <2>4 DEF ProcTypeOK
  <1>13. SchedulerConsistent'
    <2>1. \A j, k \in 1 .. n : ready'[j] = ready'[k] => j = k
      <3>1. \A k \in 1 .. n - 1 : ready'[k] # CURID
        BY <1>3, <1>9, <1>10
      <3> QED BY <1>3, <1>8, <1>10, <3>1
    <2>2. \A k \in 1 .. n : tcb_state'[ready'[k]] = "READY"
      <3>1. tcb_state'[ready'[n]] = "READY"
        BY <1>1, <1>2, <1>3, <1>4
      <3>2. ASSUME NEW k \in 1 .. n - 1 PROVE tcb_state'[ready'[k]] = "READY"
        <4>1. ready'[k] = ready[k + 1] /\ ready[k + 1] # ready[1]
          BY <1>3, <1>8, <1>10
        <4>2. k + 1 \in 1 .. n
          BY <1>10
        <4>3. ready[k + 1] \in Ids \ {h, CURID} /\ tcb_state[ready[k + 1]] = "READY"
          BY <1>9, <4>1, <4>2 DEF h
        <4> QED BY Zenon, <1>4, <4>1, <4>3
      <3> QED BY Zenon, <1>10, <3>1, <3>2
    <2>3. \A i \in Ids : tcb_state'[i] = "READY" => \E k \in 1 .. n : ready'[k] = i
      <3> SUFFICES ASSUME NEW i \in Ids, tcb_state'[i] = "READY"
                   PROVE  \E k \in 1 .. n : ready'[k] = i
        BY Zenon
      <3>1. CASE i = CURID
        BY <1>3, <1>10, <3>1
      <3>2. CASE i # CURID
        <4>1. tcb_state[i] = "READY" /\ i # h
          BY Zenon, <1>4, <3>2
        <4>2. PICK k \in 1 .. n : ready[k] = i
          BY <1>all, <4>1
        <4>3. k # 1
          BY <4>1, <4>2 DEF h
        <4>4. k - 1 \in 1 .. n - 1 /\ (k - 1) + 1 = k
          BY <1>10, <4>3
        <4>5. ready'[k - 1] = i
          BY <1>3, <4>2, <4>4
        <4> QED BY Zenon, <1>10, <4>4, <4>5
      <3> QED BY Zenon, <3>1, <3>2
    <2>4. \A i \in Ids : tcb_state'[i] = "RUN" <=> i \in {0, CURID'}
      BY <1>1, <1>2, <1>4, Waiting
    <2>5. \A i \in Ids : tcb_state'[i] # "DEAD" <=> i \in UsedIds'
      BY <1>1, <1>2, <1>4, Waiting, Current
    <2>6. \A k \in 1 .. n : ready'[k] = CURID \/ \E j \in 1 .. n : ready'[k] = ready[j]
      BY <1>3, <1>10
    <2>7. \A k \in 1 .. n : ready'[k] \in Ids \ {0}
      <3> TAKE k \in 1 .. n
      <3>1. CASE ready'[k] = CURID
        BY Zenon, <1>1, <3>1
      <3>2. ASSUME NEW j \in 1 .. n, ready'[k] = ready[j] PROVE ready'[k] \in Ids \ {0}
        BY <1>9, <3>2, Zenon
      <3> QED BY Zenon, <2>6, <3>1, <3>2
    <2>8. \A k \in 1 .. n : kctx_pool'[ready'[k]] \in {"proc_start_user", "thread_yield"}
      <3>1. \A k \in 1 .. n : kctx_pool[ready[k]] \in {"proc_start_user", "thread_yield"}
        BY DEF ProcInv, SchedulerConsistent, n
      <3> TAKE k \in 1 .. n
      <3>2. CASE ready'[k] = CURID
        BY Zenon, <1>1, <1>5, <3>2
      <3>3. ASSUME NEW j \in 1 .. n, ready'[k] = ready[j]
            PROVE  kctx_pool'[ready'[k]] \in {"proc_start_user", "thread_yield"}
        <4>1. ready[j] \in Ids /\ ready[j] # CURID
          BY <1>9
        <4>2. kctx_pool'[ready[j]] = kctx_pool[ready[j]]
          BY <1>5, <4>1
        <4> QED BY Zenon, <3>1, <3>3, <4>2
      <3> QED BY Zenon, <2>6, <3>2, <3>3
    <2>9. \A k \in 1 .. n : uctx_pool'[ready'[k]].image = image'[ready'[k]]
      <3>1. \A k \in 1 .. n : tcb_state[ready'[k]] # "DEAD"
        BY Zenon, <1>9, <2>6, Current
      <3> QED BY Zenon, <1>1, <1>6, <2>7, <3>1
    <2>10. CURID' \in Ids
      BY <1>2
    <2>11. /\ \A j, k \in 1 .. Len(ready') : ready'[j] = ready'[k] => j = k
           /\ \A k \in 1 .. Len(ready') : tcb_state'[ready'[k]] = "READY"
           /\ \A i \in Ids : tcb_state'[i] = "READY" =>
                \E k \in 1 .. Len(ready') : ready'[k] = i
           /\ \A k \in 1 .. Len(ready') :
                kctx_pool'[ready'[k]] \in {"proc_start_user", "thread_yield"}
           /\ \A k \in 1 .. Len(ready') : uctx_pool'[ready'[k]].image = image'[ready'[k]]
      BY Zenon, <1>11, <2>1, <2>2, <2>3, <2>8, <2>9
    <2>12. ready' \in Seq(Ids)
      BY <1>3
    <2> QED BY Zenon, <2>4, <2>5, <2>10, <2>11, <2>12, Consistent
  <1>14. RunsAsItself'
    BY <1>1, <1>2, <1>7 DEF RunsAsItself, proc_start_user
  <1>15. UnderConstruction'
    BY <1>1, <1>2, IdFacts DEF UnderConstruction, proc_start_user
  <1>16. SavedFrames'
    BY SMTT(30), <1>1, <1>2, <1>4, <1>6, IdFacts, Waiting DEF SavedFrames, proc_start_user
  <1> QED BY <1>1, <1>12, <1>13, <1>14, <1>15, <1>16 DEF ProcInv

\* The monitor's switch to the first process: the ready queue is empty then.
LEMMA FirstSwitch ==
  ASSUME ProcInv, mon_start_user_switches
  PROVE  ProcInv' /\ UNCHANGED vars
  <1>1. /\ kernel = "elf_load" /\ CURID = 0 /\ newpid \in Ids \ {0}
        /\ ready = <<newpid>> /\ tcb_state[newpid] = "READY" /\ image[newpid] = newpid
    BY IdFacts DEF mon_start_user_switches, ProcInv, UnderConstruction
  <1>2. /\ QuotaInv' /\ UsedIds' = UsedIds /\ UNCHANGED vars
        /\ UNCHANGED <<image, shared, pic, refault>>
        /\ CURID' = newpid /\ newpid' = NUM_IDS
        /\ tcb_state' = [tcb_state EXCEPT ![newpid] = "RUN"]
        /\ kctx_pool' = [kctx_pool EXCEPT ![0] = "mon_start_user"]
        /\ uctx_pool' = [uctx_pool EXCEPT ![newpid].image = newpid]
    BY SameContainers DEF mon_start_user_switches, ProcInv, history
  <1>3. ready' = [j \in 1 .. 0 |-> ready[j + 1]]
    <2>1. Len(ready) = 1
      BY <1>1
    <2>2. PICK k \in 1 .. 1 :
            ready' = [j \in 1 .. 1 - 1 |-> IF j < k THEN ready[j] ELSE ready[j + 1]]
      BY <2>1 DEF mon_start_user_switches, tqueue_remove
    <2> QED BY <2>2
  <1>4. ready' \in Seq(Ids) /\ Len(ready') = 0
    BY <1>3
  <1>5. /\ tcb_state'[newpid] = "RUN"
        /\ \A i \in Ids \ {newpid} : tcb_state'[i] = tcb_state[i]
        /\ tcb_state' \in [Ids -> {"READY", "RUN", "DEAD"}]
    BY <1>1, <1>2, Waiting
  <1>6. /\ uctx_pool' \in [Ids -> Frame] /\ uctx_pool'[newpid].image = newpid
        /\ \A i \in Ids \ {newpid} : uctx_pool'[i] = uctx_pool[i]
    BY <1>1, <1>2 DEF ProcInv, ProcTypeOK, Frame
  <1>7. kernel' = "user" /\ tss' = newpid /\ cr3' = newpid /\ cpu' = uctx_pool'[newpid]
    BY <1>2 DEF mon_start_user_switches, proc_start_user
  <1>8. ProcTypeOK'
    <2>1. kctx_pool' \in [0 .. NUM_IDS ->
                    {"none", "proc_start_user", "thread_yield", "mon_start_user"}]
      BY Zenon, <1>2 DEF ProcInv, ProcTypeOK
    <2>2. NUM_IDS \in 0 .. NUM_IDS
      BY IdFacts
    <2>3. cpu' \in Frame
      BY <1>1, <1>6, <1>7
    <2>4. refault \in {0, 1} /\ image \in [Ids -> Ids] /\ shared \subseteq Ids
      BY DEF ProcInv, ProcTypeOK
    <2> QED BY <1>1, <1>2, <1>4, <1>5, <1>6, <1>7, <2>1, <2>2, <2>3, <2>4 DEF ProcTypeOK
  <1>9. SchedulerConsistent'
    <2>1. \A k \in 1 .. Len(ready') : FALSE
      BY <1>4
    <2>2. \A i \in Ids : tcb_state[i] = "READY" => i = newpid
      BY <1>1, Waiting
    <2>3. \A i \in Ids : tcb_state'[i] # "READY"
      BY <1>5, <2>2
    <2>4. \A i \in Ids : tcb_state'[i] = "RUN" <=> i \in {0, CURID'}
      BY <1>1, <1>2, <1>5, Waiting
    <2>5. \A i \in Ids : tcb_state'[i] # "DEAD" <=> i \in UsedIds'
      BY <1>1, <1>2, <1>5, Waiting
    <2>6. CURID' \in Ids
      BY <1>1, <1>2
    <2> QED BY <1>4, <2>1, <2>3, <2>4, <2>5, <2>6, Consistent
  <1>10. RunsAsItself'
    BY <1>1, <1>2, <1>6, <1>7 DEF RunsAsItself
  <1>11. UnderConstruction'
    BY <1>1, <1>2, <1>7, IdFacts DEF UnderConstruction
  <1>12. SavedFrames'
    <2>1. \A i \in Ids \ {0, newpid} : tcb_state[i] # "DEAD" => uctx_pool[i].image = image[i]
      BY DEF ProcInv, SavedFrames
    <2> QED BY <1>1, <1>2, <1>5, <1>6, <1>7, <2>1 DEF SavedFrames
  <1> QED BY <1>2, <1>8, <1>9, <1>10, <1>11, <1>12 DEF ProcInv

(***************************************************************************)
(* Interrupts                                                              *)
(***************************************************************************)

\* What devinit leaves in the controllers.
LEMMA Devinit ==
  devinit = [irqmask |-> Lines \ {IRQ_SLAVE, IRQ_TIMER, IRQ_KBD, IRQ_SERIAL13},
             imr     |-> Lines \ {IRQ_SLAVE, IRQ_TIMER, IRQ_KBD, IRQ_SERIAL13},
             isr     |-> {}]
  <1> DEFINE P(m) == [irqmask |-> m, imr |-> m, isr |-> {}]
  <1>1. intr_enable(pic_init, IRQ_TIMER) = P((Lines \ {IRQ_SLAVE}) \ {IRQ_TIMER})
    BY DEF intr_enable, pic_enable, pic_setmask, pic_init, IRQ_TIMER
  <1>2. ASSUME NEW m PROVE intr_enable(P(m), IRQ_KBD) = P(m \ {IRQ_KBD})
    BY DEF intr_enable, pic_enable, pic_setmask, IRQ_KBD
  <1>3. ASSUME NEW m PROVE intr_enable(P(m), IRQ_SERIAL13) = P(m \ {IRQ_SERIAL13})
    BY DEF intr_enable, pic_enable, pic_setmask, IRQ_SERIAL13
  <1>4. (((Lines \ {IRQ_SLAVE}) \ {IRQ_TIMER}) \ {IRQ_KBD}) \ {IRQ_SERIAL13}
          = Lines \ {IRQ_SLAVE, IRQ_TIMER, IRQ_KBD, IRQ_SERIAL13}
    OBVIOUS
  <1> HIDE DEF P
  <1>5. devinit = P(Lines \ {IRQ_SLAVE, IRQ_TIMER, IRQ_KBD, IRQ_SERIAL13})
    BY Zenon, <1>1, <1>2, <1>3, <1>4 DEF devinit
  <1> QED BY <1>5 DEF P

\* The lines that are let through then.
LEMMA Open ==
  \A irq \in Lines :
    Deliverable(devinit, irq) <=> irq \in {IRQ_TIMER, IRQ_KBD, IRQ_SERIAL13}
  <1>1. \A irq \in Lines : Deliverable(devinit, irq) <=>
          \/ irq \in Master \ {IRQ_SLAVE} /\ irq \notin devinit.imr
          \/ irq \in Slave /\ irq \notin devinit.imr /\ IRQ_SLAVE \notin devinit.imr
    BY Devinit DEF Deliverable, Passes
  <1> QED BY <1>1, Devinit
          DEF Lines, Master, Slave, IRQ_SLAVE, IRQ_TIMER, IRQ_KBD, IRQ_SERIAL13

\* After an interrupt the controllers are as before it.
LEMMA Acknowledge ==
  ASSUME NEW irq \in Lines, Deliverable(devinit, irq)
  PROVE  /\ Handled(Acknowledged(devinit, irq), irq) = devinit
         /\ Handled(devinit, IRQ_SPURIOUS) = devinit
  <1>1. irq \in Master /\ irq \notin Slave /\ irq # IRQ_SPURIOUS
    BY Open DEF Master, Slave, IRQ_TIMER, IRQ_KBD, IRQ_SERIAL13, IRQ_SPURIOUS
  <1>2. Acknowledged(devinit, irq) = [devinit EXCEPT !.isr = {irq}]
    BY <1>1, Devinit DEF Acknowledged
  <1>3. {l \in {irq} : \A o \in {irq} : l <= o} = {irq}
    BY DEF Lines
  <1> DEFINE p == [devinit EXCEPT !.isr = {irq}]
  <1>4. p.isr = {irq} /\ p.isr \cap Master = {irq} /\ p.isr \cap Slave = {}
    BY <1>1, Devinit
  <1>5. {irq} # {} /\ {irq} \ ({irq} \cup {}) = {}
    OBVIOUS
  <1>6. pic_eoi(p) = [p EXCEPT !.isr = {}]
    <2> HIDE DEF p
    <2>1. pic_eoi(p) = [p EXCEPT !.isr = {irq} \ ({irq} \cup {})]
      <3>1. {l \in {} : \A o \in {} : l <= o} = {}
        OBVIOUS
      <3> QED BY <1>3, <1>4, <3>1 DEF pic_eoi
    <2> QED BY <1>5, <2>1
  <1>7. [[devinit EXCEPT !.isr = {irq}] EXCEPT !.isr = {}] = devinit
    <2> DEFINE R == [irqmask : SUBSET Lines, imr : SUBSET Lines, isr : SUBSET Lines]
               q == [[devinit EXCEPT !.isr = {irq}] EXCEPT !.isr = {}]
    <2>1. devinit \in R /\ devinit.isr = {}
      BY Devinit
    <2>2. q \in R /\ q.irqmask = devinit.irqmask /\ q.imr = devinit.imr /\ q.isr = {}
      BY Zenon, <2>1
    <2> HIDE DEF q
    <2>3. q = devinit
      BY <2>1, <2>2
    <2> QED BY <2>3 DEF q
  <1> QED BY <1>1, <1>2, <1>6, <1>7 DEF Handled

-----------------------------------------------------------------------------
(***************************************************************************)
(* The actions                                                             *)
(***************************************************************************)

\* A system call that ends at once, and a trap the process does not notice.
LEMMA QuickTrap ==
  ASSUME ProcInv, kernel = "user", UNCHANGED <<vars, threadVars, newpid, pic, history>>,
         uctx_pool' \in [Ids -> Frame],
         \A i \in Ids : uctx_pool'[i].image = uctx_pool[i].image,
         refault' \in {0, 1},
         \/ proc_start_user
         \/ kernel' \in {"memory", "halt"} /\ cr3' = 0 /\ UNCHANGED <<cpu, tss>>
  PROVE  ProcInv'
  <1>1. CURID # 0 /\ newpid = NUM_IDS /\ QuotaInv' /\ UsedIds' = UsedIds
    BY Current, SameContainers DEF ProcInv
  <1>2. kctx_pool' \in KctxType /\ \A i \in Ids : kctx_pool'[i] = kctx_pool[i]
    BY DEF threadVars, ProcInv, ProcTypeOK, KctxType
  <1>3. \/ proc_start_user
        \/ kernel' \in {"memory", "halt"} /\ cr3' \in Ids /\ tss' \in Ids /\ cpu' \in Frame
    BY Zenon, IdFacts DEF ProcInv, ProcTypeOK
  <1> QED BY <1>1, <1>2, <1>3, ContinueSame DEF threadVars, history

\* A thread that could not be created: the caller gets the error at once.
LEMMA SpawnFails ==
  ASSUME ProcInv, kernel = "user", NEW quota \in Nat,
         thread_spawn(CURID, quota, NUM_IDS),
         UNCHANGED <<CURID, newpid, pic, refault, history>>,
         uctx_pool' \in [Ids -> Frame],
         \A i \in Ids : uctx_pool'[i].image = uctx_pool[i].image,
         proc_start_user
  PROVE  ProcInv' /\ [KernelNext]_vars
  <1>1. /\ kctx_new(CURID, quota, NUM_IDS) /\ UNCHANGED <<tcb_state, ready>>
        /\ CURID \in UsedIds /\ CURID # 0 /\ newpid = NUM_IDS /\ QuotaInv
    BY Current DEF thread_spawn, ProcInv
  <1>2. [KernelNext]_vars
    BY <1>1, KctxIsSplit, IdFacts
  <1>3. QuotaInv'
    BY <1>1, <1>2, NextQuota
  <1>4. /\ UsedIds' = UsedIds /\ kctx_pool' \in KctxType
        /\ \A i \in Ids : kctx_pool'[i] = kctx_pool[i]
    BY <1>1, KctxFails DEF ProcInv, ProcTypeOK, KctxType
  <1>5. refault' \in {0, 1}
    BY DEF ProcInv, ProcTypeOK
  <1> QED BY <1>1, <1>2, <1>3, <1>4, <1>5, ContinueSame DEF history

\* Nothing the scheduler looks at changes.
LEMMA SameScheduler ==
  ASSUME ProcInv, UsedIds' = UsedIds,
         UNCHANGED <<tcb_state, ready, CURID, kctx_pool, uctx_pool, kernel, image>>
  PROVE  SchedulerConsistent'
  <1>1. SchedulerConsistent
    BY DEF ProcInv
  <1>2. \A j, k \in 1 .. Len(ready') : ready'[j] = ready'[k] => j = k
    BY <1>1 DEF SchedulerConsistent
  <1>3. {i \in Ids : tcb_state'[i] = "READY"} = {ready'[k] : k \in 1 .. Len(ready')}
    BY <1>1 DEF SchedulerConsistent
  <1>4. {i \in Ids : tcb_state'[i] = "RUN"} = {0, CURID'}
    BY <1>1 DEF SchedulerConsistent
  <1>5. {i \in Ids : tcb_state'[i] # "DEAD"} = UsedIds'
    BY <1>1 DEF SchedulerConsistent
  <1>6. \A k \in 1 .. Len(ready') :
          /\ kctx_pool'[ready'[k]] \in {"proc_start_user", "thread_yield"}
          /\ kernel' = "user" => uctx_pool'[ready'[k]].image = image'[ready'[k]]
    BY <1>1 DEF SchedulerConsistent
  <1> QED BY <1>2, <1>3, <1>4, <1>5, <1>6 DEF SchedulerConsistent

\* A page for the process under construction changes nothing but containers.
LEMMA ChildAllocates ==
  ASSUME ProcInv, AllocForChild
  PROVE  ProcInv' /\ [KernelNext]_vars
  <1>1. newpid \in Ids /\ tcb_state[newpid] = "READY" /\ QuotaInv
    BY DEF AllocForChild, ProcInv, UnderConstruction
  <1>2. newpid \in UsedIds
    BY <1>1, Waiting
  <1>3. [KernelNext]_vars /\ UsedIds' = UsedIds
    BY <1>1, <1>2, AllocUsed DEF AllocForChild, KernelNext
  <1>4. QuotaInv'
    BY <1>1, <1>3, NextQuota
  <1>5. /\ UNCHANGED <<tcb_state, ready, CURID, kctx_pool, uctx_pool, cpu, cr3, tss>>
        /\ UNCHANGED <<kernel, newpid, pic, refault, image, shared>>
    BY DEF AllocForChild, threadVars, trapVars, history
  <1>6. ProcTypeOK' /\ RunsAsItself' /\ UnderConstruction' /\ SavedFrames'
    BY <1>5 DEF ProcInv, ProcTypeOK, RunsAsItself, UnderConstruction, SavedFrames
  <1>7. SchedulerConsistent'
    BY <1>3, <1>5, SameScheduler
  <1> QED BY <1>3, <1>4, <1>5, <1>6, <1>7 DEF ProcInv

\* Memory for the current process.
LEMMA CallerAllocates ==
  ASSUME ProcInv,
         container_alloc(CURID) \/ \E len \in Lens : container_consecutive_alloc(CURID, len)
  PROVE  QuotaInv' /\ UsedIds' = UsedIds /\ [KernelNext]_vars
  <1>1. CURID \in UsedIds /\ QuotaInv
    BY Current DEF ProcInv
  <1>2. [KernelNext]_vars
    BY <1>1 DEF KernelNext
  <1>3. UsedIds' = UsedIds
    BY <1>1, AllocUsed
  <1> QED BY <1>1, <1>2, <1>3, NextQuota

\* While a process works on its own memory, it is not thread 0 and nobody is
\* under construction.
LEMMA InMemory ==
  ASSUME ProcInv, kernel = "memory"
  PROVE  CURID # 0 /\ newpid = NUM_IDS
  BY IdFacts DEF ProcInv, ProcTypeOK, UnderConstruction

\* Half of what is left of a quota is a number, since usage is within it.
LEMMA ForkQuotaType == ASSUME ProcInv PROVE ForkQuota \in Nat
  <1>1. /\ CONTAINER[CURID].quota \in Nat /\ CONTAINER[CURID].usage \in Nat
        /\ CONTAINER[CURID].usage <= CONTAINER[CURID].quota
    BY Current DEF ProcInv, QuotaInv, TypeOK, Container, UsageWithinQuota
  <1> QED BY <1>1 DEF ForkQuota

\* sys_yield: either there is nobody to switch to, or the head of the ready
\* queue takes over.
LEMMA YieldInv ==
  ASSUME ProcInv, sys_yield
  PROVE  ProcInv' /\ UNCHANGED vars
  <1> DEFINE frames == trap("SYS_yield", cpu.ebx)
  <1>1. /\ kernel = "user" /\ UNCHANGED <<vars, newpid, pic, refault, history>>
        /\ proc_start_user /\ refault' \in {0, 1}
    BY DEF sys_yield, Running, ProcInv, ProcTypeOK
  <1>2. cpu.ebx \in 0 .. ARG /\ "SYS_yield" \in Regs /\ "E_SUCC" \in Regs
    BY DEF ProcInv, ProcTypeOK, Frame, Regs, CallNr, ErrorNr
  <1>3. /\ frames \in [Ids -> Frame] /\ CURID \in Ids
        /\ \A i \in Ids : frames[i].image = uctx_pool[i].image
    BY <1>1, <1>2, TrapFrames, Current
  <1>4. \/ /\ uctx_pool' = [frames EXCEPT ![CURID].eax = "E_SUCC"]
           /\ UNCHANGED threadVars
        \/ /\ ready # <<>>
           /\ ready' = Append(Tail(ready), CURID)
           /\ tcb_state' = [tcb_state EXCEPT ![CURID] = "READY", ![Head(ready)] = "RUN"]
           /\ CURID' = Head(ready)
           /\ kctx_pool' = [kctx_pool EXCEPT ![CURID] = "thread_yield"]
           /\ Resume(Head(ready), frames)
    BY DEF sys_yield
  <1> HIDE DEF frames
  <1>5. CASE uctx_pool' = [frames EXCEPT ![CURID].eax = "E_SUCC"] /\ UNCHANGED threadVars
    <2>1. /\ uctx_pool' \in [Ids -> Frame]
          /\ \A i \in Ids : uctx_pool'[i].image = uctx_pool[i].image
      BY Zenon, <1>2, <1>3, <1>5, ErrnoFrames
    <2> QED BY <1>1, <1>5, <2>1, QuickTrap
  <1>6. CASE /\ ready # <<>>
             /\ ready' = Append(Tail(ready), CURID)
             /\ tcb_state' = [tcb_state EXCEPT ![CURID] = "READY", ![Head(ready)] = "RUN"]
             /\ CURID' = Head(ready)
             /\ kctx_pool' = [kctx_pool EXCEPT ![CURID] = "thread_yield"]
             /\ Resume(Head(ready), frames)
    <2>1. Head(ready) \in Ids
      BY <1>6, Waiting
    <2>2. /\ uctx_pool' \in [Ids -> Frame]
          /\ \A i \in Ids : uctx_pool'[i].image = uctx_pool[i].image
      BY <1>3, <1>6, <2>1, ResumeFrames
    <2>3. ProcInv'
      BY <1>1, <1>6, <2>2, SwitchStep
    <2> QED BY <1>1, <2>3
  <1> QED BY <1>4, <1>5, <1>6

\* sys_spawn up to the loading of the program, and its failure.
LEMMA SpawnInv ==
  ASSUME ProcInv, sys_spawn_fails \/ sys_spawn
  PROVE  ProcInv' /\ [KernelNext]_vars
  <1>1. /\ "SYS_spawn" \in Regs /\ "E_INVAL_PID" \in Regs
        /\ ARG \in 0 .. ARG /\ NUM_IDS \in 0 .. ARG
    BY IdFacts DEF Regs, CallNr, ErrorNr
  <1>2. kernel = "user" /\ refault \in {0, 1}
    BY DEF sys_spawn_fails, sys_spawn, Running, ProcInv, ProcTypeOK
  <1> DEFINE frames == trap("SYS_spawn", ARG)
  <1>3. /\ frames \in [Ids -> Frame] /\ CURID \in Ids /\ CURID # 0 /\ newpid = NUM_IDS
        /\ \A i \in Ids : frames[i].image = uctx_pool[i].image
    BY <1>1, <1>2, TrapFrames, Current
  <1>4. SpawnQuotas \subseteq Nat
    BY ContainerAssumption, ProcAssumption
  <1>5. CASE sys_spawn_fails
    <2> HIDE DEF frames
    <2>1. /\ \/ UNCHANGED <<vars, threadVars>>
             \/ /\ \E quota \in SpawnQuotas : thread_spawn(CURID, quota, NUM_IDS)
                /\ UNCHANGED CURID
          /\ uctx_pool' = [frames EXCEPT ![CURID].eax = "E_INVAL_PID", ![CURID].ebx = NUM_IDS]
          /\ UNCHANGED <<newpid, pic, refault, history>>
          /\ proc_start_user
      BY <1>5 DEF sys_spawn_fails, frames
    <2>2. /\ uctx_pool' \in [Ids -> Frame]
          /\ \A i \in Ids : uctx_pool'[i].image = uctx_pool[i].image
      BY Zenon, <1>1, <1>3, <2>1, ResultFrames
    <2>3. CASE UNCHANGED <<vars, threadVars>>
      BY <1>2, <2>1, <2>2, <2>3, QuickTrap
    <2>4. CASE /\ \E quota \in SpawnQuotas : thread_spawn(CURID, quota, NUM_IDS)
               /\ UNCHANGED CURID
      BY <1>2, <1>4, <2>1, <2>2, <2>4, SpawnFails
    <2> QED BY <2>1, <2>3, <2>4
  <1>6. CASE sys_spawn
    <2> HIDE DEF frames
    <2>1. PICK quota \in SpawnQuotas, pid \in Ids :
            /\ thread_spawn(CURID, quota, pid)
            /\ newpid' = pid
            /\ image' = [image EXCEPT ![pid] = pid]
      BY Zenon, <1>6 DEF sys_spawn
    <2>2. /\ uctx_pool' = frames /\ kernel' = "elf_load" /\ cr3' = 0
          /\ UNCHANGED <<CURID, pic, refault, cpu, tss, shared>> /\ shared \subseteq Ids
      BY <1>6 DEF sys_spawn, EnterKernel, frames, ProcInv, ProcTypeOK
    <2> QED BY Zenon, <1>3, <1>4, <2>1, <2>2, SpawnStep
  <1> QED BY <1>5, <1>6

\* sys_fork up to the copying of memory, and its failure.
LEMMA ForkInv ==
  ASSUME ProcInv, sys_fork_fails \/ sys_fork
  PROVE  ProcInv' /\ [KernelNext]_vars
  <1>1. /\ "SYS_fork" \in Regs /\ "E_INVAL_PID" \in Regs
        /\ cpu.ebx \in 0 .. ARG /\ NUM_IDS \in 0 .. ARG
    BY IdFacts DEF Regs, CallNr, ErrorNr, ProcInv, ProcTypeOK, Frame
  <1>2. kernel = "user" /\ ForkQuota \in Nat /\ image[CURID] \in Ids
    BY ForkQuotaType, Current DEF sys_fork_fails, sys_fork, Running, ProcInv, ProcTypeOK
  <1> DEFINE frames == trap("SYS_fork", cpu.ebx)
  <1>3. /\ frames \in [Ids -> Frame] /\ CURID \in Ids /\ CURID # 0 /\ newpid = NUM_IDS
        /\ \A i \in Ids : frames[i].image = uctx_pool[i].image
    BY <1>1, <1>2, TrapFrames, Current
  <1> HIDE DEF frames
  <1>4. CASE sys_fork_fails
    <2>1. /\ thread_spawn(CURID, ForkQuota, NUM_IDS)
          /\ uctx_pool' = [frames EXCEPT ![CURID].eax = "E_INVAL_PID", ![CURID].ebx = NUM_IDS]
          /\ UNCHANGED <<CURID, newpid, pic, refault, history>>
          /\ proc_start_user
      BY <1>4 DEF sys_fork_fails, frames
    <2>2. /\ uctx_pool' \in [Ids -> Frame]
          /\ \A i \in Ids : uctx_pool'[i].image = uctx_pool[i].image
      BY Zenon, <1>1, <1>3, <2>1, ResultFrames
    <2> QED BY <1>2, <2>1, <2>2, SpawnFails
  <1>5. CASE sys_fork
    <2>1. PICK pid \in Ids :
            /\ thread_spawn(CURID, ForkQuota, pid)
            /\ newpid' = pid
            /\ image' = [image EXCEPT ![pid] = image[CURID]]
            /\ shared' = shared \cup {CURID, pid}
            /\ uctx_pool' = [frames EXCEPT ![pid] = frames[CURID]]
      BY Zenon, <1>5 DEF sys_fork, frames
    <2>2. /\ kernel' = "vmm_copy" /\ cr3' = 0
          /\ UNCHANGED <<CURID, pic, refault, cpu, tss>>
      BY <1>5 DEF sys_fork, EnterKernel
    <2>3. shared' \subseteq Ids
      BY <1>3, <2>1 DEF ProcInv, ProcTypeOK
    <2>4. /\ uctx_pool' \in [Ids -> Frame]
          /\ \A i \in Ids \ {pid} : uctx_pool'[i].image = uctx_pool[i].image
          /\ uctx_pool'[pid].image = image[CURID]
      BY <1>3, <2>1, Current
    <2> QED BY Zenon, <1>2, <1>3, <2>1, <2>2, <2>3, <2>4, SpawnStep
  <1> QED BY <1>4, <1>5

\* The traps that leave threads and containers alone.
LEMMA TrapInv ==
  ASSUME ProcInv,
         \/ MemoryTrap \/ sys_get_ptbl_entry \/ syscall_dispatch_default
         \/ interrupt_handler
  PROVE  ProcInv' /\ UNCHANGED vars
  <1>1. /\ cpu.eax \in Regs /\ cpu.ebx \in 0 .. ARG /\ ARG \in 0 .. ARG
        /\ {"SYS_mmap", "SYS_puts", "SYS_ADV", "E_SUCC", "E_INVAL_CALLNR"} \subseteq Regs
    BY IdFacts DEF Regs, CallNr, ErrorNr, ProcInv, ProcTypeOK, Frame
  <1>2. kernel = "user" /\ refault \in {0, 1}
    BY DEF MemoryTrap, sys_get_ptbl_entry, syscall_dispatch_default, interrupt_handler,
           Running, ProcInv, ProcTypeOK
  <1>3. \A eax \in Regs, ebx \in 0 .. ARG :
          /\ trap(eax, ebx) \in [Ids -> Frame]
          /\ \A i \in Ids : trap(eax, ebx)[i].image = uctx_pool[i].image
    BY <1>2, TrapFrames
  <1>4. /\ UNCHANGED <<vars, threadVars, newpid, refault, history>>
        /\ \/ proc_start_user
           \/ kernel' \in {"memory", "halt"} /\ cr3' = 0 /\ UNCHANGED <<cpu, tss>>
    BY DEF MemoryTrap, sys_get_ptbl_entry, syscall_dispatch_default, interrupt_handler,
           EnterKernel
  <1>5. /\ uctx_pool' \in [Ids -> Frame]
        /\ \A i \in Ids : uctx_pool'[i].image = uctx_pool[i].image
    <2>1. CASE sys_get_ptbl_entry
      <3> DEFINE f == trap("SYS_ADV", ARG)
      <3>1. /\ f \in [Ids -> Frame] /\ CURID \in Ids
            /\ \A i \in Ids : f[i].image = uctx_pool[i].image
        BY <1>1, <1>3, Current
      <3>2. uctx_pool' = [f EXCEPT ![CURID].eax = "E_SUCC"]
        BY <2>1 DEF sys_get_ptbl_entry
      <3> HIDE DEF f
      <3>3. /\ uctx_pool' \in [Ids -> Frame]
            /\ \A i \in Ids : uctx_pool'[i].image = f[i].image
        BY Zenon, <1>1, <3>1, <3>2, ErrnoFrames
      <3> QED BY <3>1, <3>3
    <2>2. CASE MemoryTrap
      BY <1>1, <1>3, <2>2 DEF MemoryTrap
    <2>3. CASE syscall_dispatch_default
      BY <1>1, <1>3, <2>3 DEF syscall_dispatch_default
    <2>4. CASE interrupt_handler
      BY <1>1, <1>3, <2>4 DEF interrupt_handler
    <2> QED BY <2>1, <2>2, <2>3, <2>4
  <1>6. UNCHANGED pic
    <2>1. CASE interrupt_handler
      BY <2>1, Acknowledge DEF interrupt_handler, ProcInv
    <2> QED BY <2>1 DEF MemoryTrap, sys_get_ptbl_entry, syscall_dispatch_default
  <1> QED BY <1>2, <1>4, <1>5, <1>6, QuickTrap

\* A halted machine.
LEMMA PanicInv ==
  ASSUME ProcInv, KERN_PANIC
  PROVE  ProcInv' /\ UNCHANGED vars
  <1>1. /\ UNCHANGED <<vars, threadVars, newpid, pic, refault, history>>
        /\ kernel' = "halt" /\ cr3' = 0 /\ UNCHANGED <<cpu, tss>>
        /\ kernel \in {"user", "memory"} /\ CURID # 0 /\ newpid = NUM_IDS
    BY Current, InMemory DEF KERN_PANIC, EnterKernel, Running
  <1>2. /\ uctx_pool' \in [Ids -> Frame]
        /\ \A i \in Ids : uctx_pool'[i].image = uctx_pool[i].image
    <2>1. CASE kernel = "user"
      <3>1. cpu.eax \in Regs /\ cpu.ebx \in 0 .. ARG
        BY DEF Regs, ProcInv, ProcTypeOK, Frame
      <3> QED BY <2>1, <3>1, TrapFrames DEF KERN_PANIC
    <2>2. CASE kernel # "user"
      BY <2>2 DEF KERN_PANIC, ProcInv, ProcTypeOK
    <2> QED BY <2>1, <2>2
  <1>3. /\ kctx_pool' \in KctxType /\ \A i \in Ids : kctx_pool'[i] = kctx_pool[i]
        /\ QuotaInv' /\ UsedIds' = UsedIds
        /\ refault' \in {0, 1} /\ cr3' \in Ids /\ tss' \in Ids /\ cpu' \in Frame
    BY <1>1, SameContainers, IdFacts DEF threadVars, ProcInv, ProcTypeOK, KctxType
  <1> QED BY <1>1, <1>2, <1>3, ContinueSame DEF threadVars, history

\* The page fault handler and sys_mmap: allocations for the current process.
LEMMA MemoryInv ==
  ASSUME ProcInv, copy_on_write \/ AllocForCaller
  PROVE  ProcInv' /\ [KernelNext]_vars
  <1>1. QuotaInv' /\ UsedIds' = UsedIds /\ [KernelNext]_vars
    BY CallerAllocates DEF copy_on_write, AllocForCaller
  <1>2. /\ CURID # 0 /\ newpid = NUM_IDS /\ UNCHANGED <<threadVars, newpid, pic, history>>
        /\ refault' \in {0, 1}
    BY Current, InMemory DEF copy_on_write, AllocForCaller, ProcInv, ProcTypeOK
  <1>3. kctx_pool' \in KctxType /\ \A i \in Ids : kctx_pool'[i] = kctx_pool[i]
    BY <1>2 DEF threadVars, ProcInv, ProcTypeOK, KctxType
  <1>4. /\ uctx_pool' \in [Ids -> Frame]
        /\ \A i \in Ids : uctx_pool'[i].image = uctx_pool[i].image
    <2>1. CASE copy_on_write
      <3>1. cpu.eax \in Regs /\ cpu.ebx \in 0 .. ARG
        BY DEF Regs, ProcInv, ProcTypeOK, Frame
      <3> QED BY <2>1, <3>1, TrapFrames DEF copy_on_write
    <2>2. CASE AllocForCaller
      BY <2>2 DEF AllocForCaller, trapVars, ProcInv, ProcTypeOK
    <2> QED BY <2>1, <2>2
  <1>5. \/ proc_start_user
        \/ kernel' \in {"memory", "halt"} /\ cr3' \in Ids /\ tss' \in Ids /\ cpu' \in Frame
    BY DEF copy_on_write, AllocForCaller, trapVars, ProcInv, ProcTypeOK
  <1> QED BY <1>1, <1>2, <1>3, <1>4, <1>5, ContinueSame DEF threadVars, history

\* The end of sys_spawn and of sys_fork.
LEMMA ReturnInv ==
  ASSUME ProcInv, KernelReturns
  PROVE  ProcInv' /\ UNCHANGED vars
  <1>1. CASE mon_start_user_switches
    BY <1>1, FirstSwitch
  <1>2. CASE MemoryTrapReturns
    <2>1. /\ kernel = "memory" /\ UNCHANGED <<vars, threadVars, newpid, pic, refault, history>>
          /\ proc_start_user /\ CURID # 0 /\ newpid = NUM_IDS /\ CURID \in Ids
      BY <1>2, InMemory, Current DEF MemoryTrapReturns
    <2>2. /\ kctx_pool' \in KctxType /\ \A i \in Ids : kctx_pool'[i] = kctx_pool[i]
          /\ QuotaInv' /\ UsedIds' = UsedIds /\ refault' \in {0, 1}
      BY <2>1, SameContainers DEF threadVars, ProcInv, ProcTypeOK, KctxType
    <2>3. /\ uctx_pool \in [Ids -> Frame] /\ ARG \in 0 .. ARG
          /\ {"E_SUCC", "E_MEM", "E_INVAL_ADDR"} \subseteq Regs
      BY IdFacts DEF ProcInv, ProcTypeOK, Regs, ErrorNr
    <2>4. /\ uctx_pool' \in [Ids -> Frame]
          /\ \A i \in Ids : uctx_pool'[i].image = uctx_pool[i].image
      <3>1. CASE \E errno \in {"E_SUCC", "E_MEM"} :
                   uctx_pool' = [uctx_pool EXCEPT ![CURID].eax = errno, ![CURID].ebx = ARG]
        <4>1. PICK errno \in {"E_SUCC", "E_MEM"} :
                uctx_pool' = [uctx_pool EXCEPT ![CURID].eax = errno, ![CURID].ebx = ARG]
          BY Zenon, <3>1
        <4>2. errno \in Regs
          BY <2>3
        <4> QED BY Zenon, <2>1, <2>3, <4>1, <4>2, ResultFrames
      <3>2. CASE \E errno \in {"E_SUCC", "E_MEM", "E_INVAL_ADDR"} :
                   uctx_pool' = [uctx_pool EXCEPT ![CURID].eax = errno]
        BY Zenon, <2>1, <2>3, <3>2, ErrnoFrames
      <3>3. CASE UNCHANGED uctx_pool
        BY <2>3, <3>3
      <3> QED BY <1>2, <3>1, <3>2, <3>3 DEF MemoryTrapReturns
    <2> QED BY <2>1, <2>2, <2>4, ContinueSame DEF threadVars, history
  <1>3. CASE sys_spawn_returns \/ sys_fork_returns
    <2>1. /\ UNCHANGED <<vars, threadVars, pic, refault, history>>
          /\ newpid' = NUM_IDS /\ proc_start_user
          /\ kernel \in {"elf_load", "vmm_copy"}
      BY <1>3 DEF sys_spawn_returns, sys_fork_returns
    <2>2. newpid \in Ids \ {0, CURID} /\ CURID \in Ids /\ CURID # 0
      BY <1>3, <2>1, Current
         DEF ProcInv, UnderConstruction, sys_spawn_returns, sys_fork_returns
    <2>3. /\ kctx_pool' \in KctxType /\ \A i \in Ids : kctx_pool'[i] = kctx_pool[i]
          /\ QuotaInv' /\ UsedIds' = UsedIds /\ refault' \in {0, 1}
      BY <2>1, SameContainers DEF threadVars, ProcInv, ProcTypeOK, KctxType
    <2>4. /\ uctx_pool \in [Ids -> Frame] /\ newpid \in 0 .. ARG /\ "E_SUCC" \in Regs
      BY <2>2, IdFacts DEF ProcInv, ProcTypeOK, Regs, ErrorNr
    <2>5. /\ uctx_pool' \in [Ids -> Frame]
          /\ \A i \in Ids \ {0} : tcb_state[i] # "DEAD" => uctx_pool'[i].image = image[i]
      <3>1. CASE sys_fork_returns
        <4>1. /\ kernel = "vmm_copy"
              /\ uctx_pool' = [uctx_pool EXCEPT ![CURID].eax = "E_SUCC", ![CURID].ebx = newpid]
          BY <3>1 DEF sys_fork_returns
        <4>2. /\ uctx_pool' \in [Ids -> Frame]
              /\ \A i \in Ids : uctx_pool'[i].image = uctx_pool[i].image
          BY Zenon, <2>2, <2>4, <4>1, ResultFrames
        <4> QED BY <4>1, <4>2 DEF ProcInv, SavedFrames
      <3>2. CASE sys_spawn_returns
        <4> DEFINE f == [uctx_pool EXCEPT ![newpid].image = newpid]
        <4>1. /\ f \in [Ids -> Frame] /\ f[newpid].image = newpid
              /\ \A i \in Ids \ {newpid} : f[i] = uctx_pool[i]
          BY <2>2, <2>4 DEF Frame
        <4>2. /\ kernel = "elf_load"
              /\ uctx_pool' = [f EXCEPT ![CURID].eax = "E_SUCC", ![CURID].ebx = newpid]
          BY <3>2 DEF sys_spawn_returns
        <4> HIDE DEF f
        <4>3. /\ uctx_pool' \in [Ids -> Frame]
              /\ \A i \in Ids : uctx_pool'[i].image = f[i].image
          BY Zenon, <2>2, <2>4, <4>1, <4>2, ResultFrames
        <4>4. image[newpid] = newpid
          BY <4>2 DEF ProcInv, UnderConstruction
        <4>5. \A i \in Ids \ {0, newpid} : tcb_state[i] # "DEAD" => uctx_pool[i].image = image[i]
          BY DEF ProcInv, SavedFrames
        <4> QED BY <2>2, <4>1, <4>3, <4>4, <4>5
      <3> QED BY <1>3, <3>1, <3>2
    <2> QED BY <2>1, <2>2, <2>3, <2>5, Continue DEF threadVars, history
  <1> QED BY <1>1, <1>2, <1>3 DEF KernelReturns

\* mon_start_user creates the first process.
LEMMA StartInv ==
  ASSUME ProcInv, mon_start_user
  PROVE  ProcInv' /\ [KernelNext]_vars
  <1>1. kernel = "monitor" /\ CURID = 0 /\ newpid = NUM_IDS
    <2>1. kernel = "monitor" /\ newpid \in 0 .. NUM_IDS
      BY DEF mon_start_user, ProcInv, ProcTypeOK
    <2>2. newpid \notin Ids /\ CURID = 0
      BY <2>1 DEF ProcInv, UnderConstruction
    <2> QED BY <2>1, <2>2, IdFacts
  <1>2. PICK pid \in Ids :
          /\ thread_spawn(CURID, IDLE_QUOTA, pid)
          /\ newpid' = pid
          /\ image' = [image EXCEPT ![pid] = pid]
    BY Zenon, <1>1 DEF mon_start_user
  <1>3. /\ kernel' = "elf_load" /\ cr3' = 0
        /\ UNCHANGED <<CURID, uctx_pool, pic, refault, shared, cpu, tss>>
    BY DEF mon_start_user, EnterKernel
  <1>4. IDLE_QUOTA \in Nat /\ shared \subseteq Ids /\ uctx_pool \in [Ids -> Frame]
    BY ProcAssumption, RealQuotaType DEF ProcInv, ProcTypeOK
  <1> QED BY Zenon, <1>1, <1>2, <1>3, <1>4, SpawnStep

\* The state in which the monitor starts.
LEMMA ProcInit == thread_init => ProcInv
  <1> SUFFICES ASSUME thread_init PROVE ProcInv
    OBVIOUS
  <1> USE DEF thread_init
  <1>1. ZeroFrame \in Frame
    BY IdFacts DEF ZeroFrame, Frame
  <1>2. ProcTypeOK
    BY <1>1, IdFacts DEF ProcTypeOK
  <1>3. QuotaInv
    BY InitQuota
  <1>4. UsedIds = {0}
    BY IdFacts DEF UsedIds, container_init, Unused
  <1>5. SchedulerConsistent
    BY <1>4, IdFacts DEF SchedulerConsistent
  <1>6. RunsAsItself /\ UnderConstruction /\ SavedFrames
    BY IdFacts DEF RunsAsItself, UnderConstruction, SavedFrames
  <1> QED BY <1>2, <1>3, <1>5, <1>6 DEF ProcInv

\* Every step of the process layer keeps ProcInv, and is a step of the
\* container layer or leaves it alone.
LEMMA ProcNext == ProcInv /\ [Next]_procVars => ProcInv' /\ [KernelNext]_vars
  <1> SUFFICES ASSUME ProcInv, [Next]_procVars PROVE ProcInv' /\ [KernelNext]_vars
    OBVIOUS
  <1>1. CASE sys_yield
    BY <1>1, YieldInv
  <1>2. CASE sys_spawn_fails \/ sys_spawn
    BY <1>2, SpawnInv
  <1>3. CASE sys_fork_fails \/ sys_fork
    BY <1>3, ForkInv
  <1>4. CASE AllocForChild
    BY <1>4, ChildAllocates
  <1>5. CASE AllocForCaller \/ copy_on_write
    BY <1>5, MemoryInv
  <1>6. CASE \/ MemoryTrap \/ sys_get_ptbl_entry \/ syscall_dispatch_default
             \/ interrupt_handler
    BY <1>6, TrapInv
  <1>7. CASE KERN_PANIC
    BY <1>7, PanicInv
  <1>8. CASE mon_start_user
    BY <1>8, StartInv
  <1>9. CASE KernelReturns
    BY <1>9, ReturnInv
  <1>10. CASE UNCHANGED procVars
    <2>1. /\ UNCHANGED <<tcb_state, ready, CURID, kctx_pool, uctx_pool, cpu, cr3, tss>>
          /\ UNCHANGED <<vars, kernel, newpid, pic, refault, image, shared>>
      BY <1>10 DEF procVars, threadVars, trapVars, history
    <2>2. QuotaInv' /\ UsedIds' = UsedIds
      BY SMTT(30), <2>1, SameContainers DEF ProcInv
    <2>3. ProcTypeOK' /\ RunsAsItself' /\ UnderConstruction' /\ SavedFrames'
      BY <2>1 DEF ProcInv, ProcTypeOK, RunsAsItself, UnderConstruction, SavedFrames
    <2>4. SchedulerConsistent'
      BY <2>1, <2>2, SameScheduler
    <2> QED BY <2>1, <2>2, <2>3, <2>4 DEF ProcInv
  <1> QED BY <1>1, <1>2, <1>3, <1>4, <1>5, <1>6, <1>7, <1>8, <1>9, <1>10 DEF Next

(***************************************************************************)
(* The theorems                                                            *)
(***************************************************************************)
\* The invariant that the others rest on: types and quotas, thread states and
\* ready queue, the identity of the process that runs, what a process under
\* construction looks like, the frames of the others, and the interrupt
\* controllers (every handler of the kernel keeps it).
THEOREM ProcInvariant == Spec => []ProcInv
  BY ProcInit, ProcNext, PTL DEF Spec

\* However many processes there are and whatever they call, thread states,
\* ready queue and containers agree (thread_spawn, thread_yield).
THEOREM ProcSafe == Spec => []SchedulerConsistent
  <1>1. ProcInv => SchedulerConsistent
    BY DEF ProcInv
  <1> QED BY <1>1, ProcInvariant, PTL

\* A process in user mode runs on its own page directory, with its own kernel
\* stack in the TSS and its own registers, however many switches happened
\* (proc_start_user, kctx_switch, trap).
THEOREM ProcIdentity == Spec => []RunsAsItself
  <1>1. ProcInv => RunsAsItself
    BY DEF ProcInv
  <1> QED BY <1>1, ProcInvariant, PTL

\* Whenever a process runs, the timer, the keyboard and the serial line can
\* interrupt it and no other line can, whatever
\* interrupts arrive in whatever order (interrupt_handler).
THEOREM ProcLines == Spec => []LinesOpen
  <1>1. ProcInv => LinesOpen
    <2>1. pic = devinit => LinesOpen
      BY Open DEF LinesOpen, Lines, IRQ_TIMER, IRQ_KBD, IRQ_SERIAL13
    <2> QED BY <2>1 DEF ProcInv
  <1> QED BY <1>1, ProcInvariant, PTL

\* The process layer uses the container layer as its specification allows:
\* thread creation asks for no more than the parent has, and allocations are
\* for processes that exist.
THEOREM ProcRefines == Spec => UsesContainers
  <1>1. thread_init => container_init
    BY DEF thread_init
  <1>2. ProcInv /\ [Next]_procVars => [KernelNext]_vars
    BY ProcNext
  <1> QED BY <1>1, <1>2, ProcInvariant, PTL DEF Spec, UsesContainers, KernelSpec

\* So the quotas bind processes: no process has more memory and children's
\* quotas than it was given (container_can_consume in kctx_new).
THEOREM ProcQuotas == Spec => [](UsageWithinQuota /\ ContainerTree)
  <1>1. ProcInv => UsageWithinQuota /\ ContainerTree
    BY DEF ProcInv, QuotaInv
  <1> QED BY <1>1, ProcInvariant, PTL

\* What a step does to the ready queue.
LEMMA QueueStep ==
  ASSUME ProcInv, [Next]_procVars
  PROVE  \/ UNCHANGED ready
         \/ \E pid \in Ids : ready' = Append(ready, pid)
         \/ ready # <<>> /\ ready' = Append(Tail(ready), CURID) /\ CURID' = Head(ready)
         \/ ready = <<newpid>> /\ CURID' = newpid
  <1>1. CASE sys_yield
    BY <1>1 DEF sys_yield, threadVars
  <1>2. CASE sys_spawn_fails \/ sys_fork_fails
    BY <1>2 DEF sys_spawn_fails, sys_fork_fails, thread_spawn, threadVars
  <1>3. CASE sys_spawn \/ sys_fork \/ mon_start_user
    <2>1. CASE sys_spawn
      BY <2>1 DEF sys_spawn, thread_spawn
    <2>2. CASE sys_fork
      BY <2>2 DEF sys_fork, thread_spawn
    <2>3. CASE mon_start_user
      BY <2>3 DEF mon_start_user, thread_spawn
    <2> QED BY <1>3, <2>1, <2>2, <2>3
  <1>4. CASE mon_start_user_switches
    <2>1. newpid \in Ids /\ CURID = 0 /\ kernel = "elf_load"
      BY <1>4 DEF mon_start_user_switches, ProcInv, UnderConstruction
    <2> QED BY <1>4, <2>1 DEF mon_start_user_switches, ProcInv, UnderConstruction
  <1>5. CASE \/ AllocForChild \/ AllocForCaller \/ copy_on_write \/ MemoryTrap
             \/ KERN_PANIC \/ interrupt_handler \/ sys_get_ptbl_entry
             \/ syscall_dispatch_default \/ sys_spawn_returns \/ sys_fork_returns
             \/ MemoryTrapReturns
    BY <1>5 DEF AllocForChild, AllocForCaller, copy_on_write, MemoryTrap, KERN_PANIC,
                interrupt_handler, sys_get_ptbl_entry, syscall_dispatch_default,
                sys_spawn_returns, sys_fork_returns, MemoryTrapReturns, threadVars
  <1>6. CASE UNCHANGED procVars
    BY <1>6 DEF procVars, threadVars
  <1> QED BY <1>1, <1>2, <1>3, <1>4, <1>5, <1>6 DEF Next, KernelReturns

\* Nobody in the ready queue is overtaken, however long the queue is
\* (thread_yield and thread_spawn append).
THEOREM RoundRobin == Spec => NoOvertaking
  <1> DEFINE Keeps ==
        \A k \in 1 .. Len(ready) :
          \/ k <= Len(ready') /\ ready'[k] = ready[k]
          \/ IF k = 1 THEN CURID' = ready[1] ELSE ready'[k - 1] = ready[k]
  <1>1. ProcInv /\ [Next]_procVars => [Keeps]_procVars
    <2> SUFFICES ASSUME ProcInv, [Next]_procVars PROVE Keeps
      OBVIOUS
    <2>1. ready \in Seq(Ids) /\ Len(ready) \in Nat /\ CURID \in Ids
      BY Waiting, Current
    <2>2. CASE UNCHANGED ready
      BY <2>1, <2>2
    <2>3. CASE \E pid \in Ids : ready' = Append(ready, pid)
      BY <2>1, <2>3
    <2>4. CASE ready # <<>> /\ ready' = Append(Tail(ready), CURID) /\ CURID' = Head(ready)
      BY <2>1, <2>4
    <2>5. CASE ready = <<newpid>> /\ CURID' = newpid
      BY <2>5
    <2> QED BY <2>2, <2>3, <2>4, <2>5, QueueStep
  <1> QED BY <1>1, ProcInvariant, PTL DEF Spec, NoOvertaking
-----------------------------------------------------------------------------
(***************************************************************************)
(* No process touches the saved registers of another one, and a process    *)
(* that is resumed gets its own back.                                      *)
(***************************************************************************)

\* A trap touches the frame of the current process only.
LEMMA OtherFrames ==
  ASSUME ProcInv, NEW eax, NEW ebx
  PROVE  /\ \A i \in Ids \ {CURID} : trap(eax, ebx)[i] = uctx_pool[i]
         /\ trap(eax, ebx)[CURID].eax = eax
         /\ DOMAIN trap(eax, ebx) = Ids
  BY Current DEF trap, ProcInv, ProcTypeOK

\* As long as no thread changes its state, the current process may do as it
\* likes with its own frame.
LEMMA OwnFrame ==
  ASSUME ProcInv, YieldFrames, UNCHANGED <<tcb_state, CURID>>,
         \A i \in Ids : kctx_pool'[i] = kctx_pool[i],
         \A i \in Ids \ {CURID} : uctx_pool'[i].eax = uctx_pool[i].eax,
         newpid' \in {newpid, NUM_IDS}
  PROVE  YieldFrames'
  BY Current, IdFacts DEF YieldFrames

\* A thread is created with a frame that is not in sys_yield.
LEMMA NewFrame ==
  ASSUME ProcInv, YieldFrames, NEW quota \in Nat, NEW pid \in Ids,
         thread_spawn(CURID, quota, pid), newpid' = pid,
         \A i \in Ids \ {CURID, pid} : uctx_pool'[i].eax = uctx_pool[i].eax,
         uctx_pool'[pid].eax # "SYS_yield"
  PROVE  YieldFrames' /\ pid \notin UsedIds /\ pid # CURID
  <1>1. kctx_new(CURID, quota, pid) /\ CURID \in UsedIds /\ QuotaInv
    BY Current DEF thread_spawn, ProcInv
  <1>2. pid \notin UsedIds /\ kctx_pool' = [kctx_pool EXCEPT ![pid] = "proc_start_user"]
    BY <1>1, KctxFresh
  <1>3. /\ tcb_state'[pid] = "READY"
        /\ \A i \in Ids \ {pid} : tcb_state'[i] = tcb_state[i]
    BY Zenon, IdFacts, Waiting DEF thread_spawn
  <1>4. \A i \in Ids : i \in DOMAIN kctx_pool
    BY IdFacts DEF ProcInv, ProcTypeOK
  <1>5. /\ kctx_pool'[pid] = "proc_start_user"
        /\ \A i \in Ids \ {pid} : kctx_pool'[i] = kctx_pool[i]
    BY <1>2, <1>4
  <1>6. tcb_state[CURID] = "RUN" /\ pid # CURID
    BY <1>1, <1>2, Current
  <1>7. \A i \in Ids : tcb_state'[i] = "DEAD" => uctx_pool'[i].eax # "SYS_yield"
    BY <1>3, <1>6 DEF YieldFrames
  <1>8. \A i \in Ids : tcb_state'[i] = "READY" =>
          (kctx_pool'[i] = "thread_yield" <=> uctx_pool'[i].eax = "SYS_yield")
    BY <1>3, <1>5, <1>6 DEF YieldFrames
  <1> QED BY <1>2, <1>5, <1>6, <1>7, <1>8 DEF YieldFrames

\* What FramesPrivate says of a step.
Private ==
  /\ \A p \in UsedIds \ {CURID, CURID', newpid} : uctx_pool'[p] = uctx_pool[p]
  /\ kernel' = "user" /\ CURID' # CURID =>
       LET p == CURID'
       IN  /\ cpu'.ebx = uctx_pool[p].ebx
           /\ cpu'.eax = IF uctx_pool[p].eax = "SYS_yield"
                         THEN "E_SUCC" ELSE uctx_pool[p].eax

\* A switch changes the frame of the thread it resumes, and only its EAX.
LEMMA SwitchFrames ==
  ASSUME ProcInv, YieldFrames, sys_yield, ready # <<>>
  PROVE  YieldFrames' /\ Private
  <1> DEFINE frames == trap("SYS_yield", cpu.ebx)
             h == Head(ready)
  <1>1. /\ h \in Ids \ {0, CURID} /\ tcb_state[h] = "READY" /\ CURID \in Ids
        /\ newpid = NUM_IDS
    BY Waiting, Current DEF sys_yield, Running
  <1>2. /\ tcb_state' = [tcb_state EXCEPT ![CURID] = "READY", ![h] = "RUN"]
        /\ CURID' = h
        /\ kctx_pool' = [kctx_pool EXCEPT ![CURID] = "thread_yield"]
        /\ Resume(h, frames)
        /\ newpid' = newpid /\ proc_start_user
    BY DEF sys_yield
  <1>3. /\ \A i \in Ids \ {CURID} : frames[i] = uctx_pool[i]
        /\ frames[CURID].eax = "SYS_yield"
        /\ DOMAIN frames = Ids
    BY OtherFrames
  <1> HIDE DEF frames, h
  <1>4. /\ \A i \in Ids \ {h} : uctx_pool'[i] = frames[i]
        /\ uctx_pool'[h] = IF kctx_pool[h] = "thread_yield"
                           THEN [frames[h] EXCEPT !.eax = "E_SUCC"] ELSE frames[h]
    BY <1>1, <1>2, <1>3 DEF Resume
  <1>5. \A i \in Ids : i \in DOMAIN kctx_pool
    BY IdFacts DEF ProcInv, ProcTypeOK
  <1>6. \A i \in Ids : kctx_pool'[i] = IF i = CURID THEN "thread_yield" ELSE kctx_pool[i]
    BY <1>2, <1>5
  <1>7. /\ tcb_state'[h] = "RUN" /\ tcb_state'[CURID] = "READY"
        /\ \A i \in Ids \ {h, CURID} : tcb_state'[i] = tcb_state[i]
    BY <1>1, <1>2, Waiting
  <1>8. YieldFrames'
    <2>1. \A i \in Ids \ {h, CURID} : uctx_pool'[i] = uctx_pool[i] /\ kctx_pool'[i] = kctx_pool[i]
      BY <1>3, <1>4, <1>6
    <2>2. uctx_pool'[CURID].eax = "SYS_yield" /\ kctx_pool'[CURID] = "thread_yield"
      BY <1>1, <1>3, <1>4, <1>6
    <2>3. newpid' \notin Ids
      BY <1>1, <1>2, IdFacts
    <2>4. \A i \in Ids : tcb_state'[i] = "DEAD" => uctx_pool'[i].eax # "SYS_yield"
      BY <1>7, <2>1 DEF YieldFrames
    <2>5. \A i \in Ids : tcb_state'[i] = "READY" =>
            (kctx_pool'[i] = "thread_yield" <=> uctx_pool'[i].eax = "SYS_yield")
      BY <1>7, <2>1, <2>2 DEF YieldFrames
    <2> QED BY <2>3, <2>4, <2>5 DEF YieldFrames
  <1>9. \A p \in UsedIds \ {CURID, CURID', newpid} : uctx_pool'[p] = uctx_pool[p]
    BY <1>2, <1>3, <1>4 DEF UsedIds
  <1>10. cpu' = uctx_pool'[h] /\ uctx_pool[h] \in Frame
    BY <1>1, <1>2 DEF proc_start_user, ProcInv, ProcTypeOK
  <1>11. kctx_pool[h] = "thread_yield" <=> uctx_pool[h].eax = "SYS_yield"
    BY <1>1 DEF YieldFrames
  <1>12. /\ cpu'.ebx = uctx_pool[h].ebx
         /\ cpu'.eax = IF uctx_pool[h].eax = "SYS_yield" THEN "E_SUCC" ELSE uctx_pool[h].eax
    <2>1. CASE kctx_pool[h] = "thread_yield"
      <3>1. cpu' = [uctx_pool[h] EXCEPT !.eax = "E_SUCC"]
        BY <1>1, <1>3, <1>4, <1>10, <2>1
      <3> QED BY <1>10, <1>11, <2>1, <3>1 DEF Frame
    <2>2. CASE kctx_pool[h] # "thread_yield"
      <3>1. cpu' = uctx_pool[h]
        BY <1>1, <1>3, <1>4, <1>10, <2>2
      <3> QED BY <1>11, <2>2, <3>1
    <2> QED BY <2>1, <2>2
  <1> QED BY <1>2, <1>8, <1>9, <1>12 DEF Private

\* The actions in which only the current process changes its frame.
LEMMA QuietFrames ==
  ASSUME ProcInv, YieldFrames, UNCHANGED <<tcb_state, CURID>>,
         \A i \in Ids : kctx_pool'[i] = kctx_pool[i],
         \A i \in Ids \ {CURID, newpid} : uctx_pool'[i] = uctx_pool[i],
         \A i \in Ids \ {CURID} : uctx_pool'[i].eax = uctx_pool[i].eax,
         newpid' \in {newpid, NUM_IDS}
  PROVE  YieldFrames' /\ Private
  <1>1. YieldFrames'
    BY OwnFrame
  <1>2. UsedIds \subseteq Ids
    BY DEF UsedIds
  <1> QED BY <1>1, <1>2 DEF Private

\* Every step keeps frames private.
LEMMA FrameStep ==
  ASSUME ProcInv, YieldFrames, [Next]_procVars
  PROVE  YieldFrames' /\ Private
  <1>1. kctx_pool \in KctxType /\ CURID \in Ids /\ uctx_pool \in [Ids -> Frame]
    BY DEF ProcInv, ProcTypeOK, KctxType
  <1>2. CASE sys_yield
    <2>1. CASE ready # <<>>
      BY <1>2, <2>1, SwitchFrames
    <2>2. CASE ready = <<>>
      <3>1. /\ UNCHANGED <<threadVars, newpid>>
            /\ uctx_pool' = [trap("SYS_yield", cpu.ebx) EXCEPT ![CURID].eax = "E_SUCC"]
        BY <1>2, <2>2 DEF sys_yield
      <3>2. \A i \in Ids \ {CURID} : uctx_pool'[i] = uctx_pool[i]
        BY <3>1, OtherFrames
      <3> QED BY <3>1, <3>2, QuietFrames DEF threadVars
    <2> QED BY <2>1, <2>2
  <1>3. CASE sys_spawn_fails \/ sys_fork_fails
    <2>1. /\ UNCHANGED <<tcb_state, ready, CURID, newpid>>
          /\ \A i \in Ids : kctx_pool'[i] = kctx_pool[i]
      <3>1. \/ UNCHANGED <<tcb_state, CURID, kctx_pool, ready>>
            \/ /\ UNCHANGED <<tcb_state, CURID, ready>>
               /\ \E quota : kctx_new(CURID, quota, NUM_IDS)
        BY <1>3 DEF sys_spawn_fails, sys_fork_fails, thread_spawn, threadVars
      <3> QED BY Zenon, <1>1, <1>3, <3>1, KctxFails
              DEF sys_spawn_fails, sys_fork_fails, KctxType
    <2>2. \E eax, ebx :
            uctx_pool' = [trap(eax, ebx) EXCEPT ![CURID].eax = "E_INVAL_PID",
                                                ![CURID].ebx = NUM_IDS]
      BY <1>3 DEF sys_spawn_fails, sys_fork_fails
    <2>3. \A i \in Ids \ {CURID} : uctx_pool'[i] = uctx_pool[i]
      BY <2>2, OtherFrames
    <2> QED BY <2>1, <2>3, QuietFrames
  <1>4. CASE sys_spawn
    <2>1. PICK quota \in SpawnQuotas, pid \in Ids : thread_spawn(CURID, quota, pid) /\ newpid' = pid
      BY <1>4 DEF sys_spawn
    <2>2. uctx_pool' = trap("SYS_spawn", ARG) /\ CURID' = CURID
      BY <1>4 DEF sys_spawn
    <2>3. \A i \in Ids \ {CURID} : uctx_pool'[i] = uctx_pool[i]
      BY <2>2, OtherFrames
    <2>4. quota \in Nat
      BY ContainerAssumption, ProcAssumption
    <2>5. pid \notin UsedIds /\ pid # CURID /\ tcb_state[pid] = "DEAD"
      BY <2>1, <2>4, Current, KctxFresh, Waiting DEF thread_spawn, ProcInv
    <2>6. uctx_pool'[pid].eax # "SYS_yield"
      BY <2>3, <2>5 DEF YieldFrames
    <2>7. YieldFrames'
      BY <2>1, <2>3, <2>4, <2>6, NewFrame
    <2> QED BY <2>2, <2>3, <2>7 DEF Private, UsedIds
  <1>5. CASE sys_fork
    <2> DEFINE frames == trap("SYS_fork", cpu.ebx)
    <2>1. PICK pid \in Ids : /\ thread_spawn(CURID, ForkQuota, pid) /\ newpid' = pid
                             /\ uctx_pool' = [frames EXCEPT ![pid] = frames[CURID]]
      BY <1>5 DEF sys_fork
    <2>2. /\ \A i \in Ids \ {CURID} : frames[i] = uctx_pool[i]
          /\ frames[CURID].eax = "SYS_fork" /\ DOMAIN frames = Ids
          /\ CURID' = CURID /\ ForkQuota \in Nat
      BY <1>5, OtherFrames, ForkQuotaType DEF sys_fork
    <2> HIDE DEF frames
    <2>3. /\ \A i \in Ids \ {CURID, pid} : uctx_pool'[i] = uctx_pool[i]
          /\ uctx_pool'[pid].eax = "SYS_fork"
      BY <2>1, <2>2
    <2>4. YieldFrames' /\ pid \notin UsedIds
      BY <2>1, <2>2, <2>3, NewFrame
    <2> QED BY <2>2, <2>3, <2>4 DEF Private, UsedIds
  <1>6. CASE mon_start_user
    <2>1. PICK pid \in Ids : thread_spawn(CURID, IDLE_QUOTA, pid) /\ newpid' = pid
      BY <1>6 DEF mon_start_user, ProcInv, UnderConstruction
    <2>2. UNCHANGED <<uctx_pool, CURID>> /\ IDLE_QUOTA \in Nat
      BY <1>6, ProcAssumption, RealQuotaType DEF mon_start_user
    <2>3. tcb_state[pid] = "DEAD"
      BY <2>1, <2>2, Current, KctxFresh, Waiting DEF thread_spawn, ProcInv
    <2>4. YieldFrames'
      BY <2>1, <2>2, <2>3, NewFrame DEF YieldFrames
    <2> QED BY <2>2, <2>4 DEF Private
  <1>7. CASE AllocForChild \/ AllocForCaller \/ UNCHANGED procVars
    BY <1>7, QuietFrames DEF AllocForChild, AllocForCaller, procVars, threadVars, trapVars
  <1>8. CASE \/ copy_on_write \/ MemoryTrap \/ KERN_PANIC \/ interrupt_handler
             \/ syscall_dispatch_default
    <2>1. UNCHANGED <<threadVars, newpid>>
      BY <1>8 DEF copy_on_write, MemoryTrap, KERN_PANIC, interrupt_handler,
                  syscall_dispatch_default
    <2>2. UNCHANGED uctx_pool \/ \E eax, ebx : uctx_pool' = trap(eax, ebx)
      BY <1>8 DEF copy_on_write, MemoryTrap, KERN_PANIC, interrupt_handler,
                  syscall_dispatch_default
    <2>3. \A i \in Ids \ {CURID} : uctx_pool'[i] = uctx_pool[i]
      BY <2>2, OtherFrames
    <2> QED BY <2>1, <2>3, QuietFrames DEF threadVars
  <1>9. CASE sys_get_ptbl_entry
    <2>1. /\ UNCHANGED <<threadVars, newpid>>
          /\ uctx_pool' = [trap("SYS_ADV", ARG) EXCEPT ![CURID].eax = "E_SUCC"]
      BY <1>9 DEF sys_get_ptbl_entry
    <2>2. \A i \in Ids \ {CURID} : uctx_pool'[i] = uctx_pool[i]
      BY <2>1, OtherFrames
    <2> QED BY <2>1, <2>2, QuietFrames DEF threadVars
  <1>10. CASE MemoryTrapReturns \/ sys_fork_returns
    <2>1. UNCHANGED threadVars /\ newpid' \in {newpid, NUM_IDS}
      BY <1>10 DEF MemoryTrapReturns, sys_fork_returns
    <2>2. \A i \in Ids \ {CURID} : uctx_pool'[i] = uctx_pool[i]
      BY <1>1, <1>10 DEF MemoryTrapReturns, sys_fork_returns
    <2> QED BY <2>1, <2>2, QuietFrames DEF threadVars
  <1>11. CASE sys_spawn_returns
    <2>1. UNCHANGED threadVars /\ newpid' = NUM_IDS /\ newpid \in Ids \ {CURID}
      BY <1>11 DEF sys_spawn_returns, ProcInv, UnderConstruction
    <2>2. \A i \in Ids \ {CURID, newpid} : uctx_pool'[i] = uctx_pool[i]
      BY <1>1, <1>11, <2>1 DEF sys_spawn_returns
    <2>3. uctx_pool'[newpid].eax = uctx_pool[newpid].eax
      BY <1>1, <1>11, <2>1 DEF sys_spawn_returns, Frame
    <2> QED BY <2>1, <2>2, <2>3, QuietFrames DEF threadVars
  <1>12. CASE mon_start_user_switches
    <2>1. /\ newpid \in Ids \ {0} /\ CURID = 0 /\ tcb_state[newpid] = "READY"
          /\ CURID' = newpid /\ newpid' = NUM_IDS
          /\ tcb_state' = [tcb_state EXCEPT ![newpid] = "RUN"]
          /\ kctx_pool' = [kctx_pool EXCEPT ![0] = "mon_start_user"]
          /\ uctx_pool' = [uctx_pool EXCEPT ![newpid].image = newpid]
          /\ proc_start_user
      BY <1>12, IdFacts DEF mon_start_user_switches, ProcInv, UnderConstruction
    <2>2. \A i \in Ids : i \in DOMAIN kctx_pool
      BY <1>1, IdFacts DEF KctxType
    <2>3. \A i \in Ids \ {0} : kctx_pool'[i] = kctx_pool[i]
      BY <2>1, <2>2
    <2>4. /\ \A i \in Ids \ {newpid} : tcb_state'[i] = tcb_state[i]
          /\ tcb_state'[newpid] = "RUN" /\ tcb_state[0] = "RUN"
      BY SMTT(30), <2>1, Waiting, IdFacts
    <2>5. \A i \in Ids \ {newpid} : uctx_pool'[i] = uctx_pool[i]
      BY <1>1, <2>1
    <2>6. YieldFrames'
      BY <2>1, <2>3, <2>4, <2>5, IdFacts DEF YieldFrames
    <2>7. uctx_pool[newpid].eax # "SYS_yield"
      BY <2>1 DEF YieldFrames
    <2>8. /\ cpu'.ebx = uctx_pool[newpid].ebx /\ cpu'.eax = uctx_pool[newpid].eax
      BY <1>1, <2>1 DEF proc_start_user, Frame
    <2> QED BY <2>1, <2>5, <2>6, <2>7, <2>8 DEF Private, UsedIds
  <1> QED BY SMTT(30), <1>2, <1>3, <1>4, <1>5, <1>6, <1>7, <1>8, <1>9, <1>10, <1>11, <1>12
          DEF Next, KernelReturns

\* A waiting process keeps its registers while others run, and finds them as
\* it left them, whatever the others call (trap, sys_yield, proc_start_user).
THEOREM FramesSafe == Spec => FramesPrivate
  <1>1. thread_init => YieldFrames
    BY IdFacts DEF thread_init, YieldFrames, ZeroFrame
  <1>2. ProcInv /\ YieldFrames /\ [Next]_procVars => YieldFrames' /\ Private
    BY FrameStep
  <1>3. Spec => []YieldFrames
    BY <1>1, <1>2, ProcInvariant, PTL DEF Spec
  <1> QED BY <1>2, <1>3, ProcInvariant, PTL DEF Spec, FramesPrivate, Private
=============================================================================
