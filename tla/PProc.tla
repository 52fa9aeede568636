-------------------------------- MODULE PProc --------------------------------
(***************************************************************************)
(* Processes: thread creation and scheduling (PThread, PKCtxNew, PCurID),  *)
(* process creation (PProc), the trap path into the kernel and back        *)
(* (TTrapHandler, TDispatch, TSyscall) and the monitor command that starts *)
(* the first process.                                                      *)
(*                                                                         *)
(* There is one processor and the kernel runs with interrupts off, so the  *)
(* actions are the kernel's work between two points where a process or     *)
(* another kernel thread takes over.  The work that allocates pages one by *)
(* one (elf_load, vmm_copy, sys_mmap, the page fault handler) takes one    *)
(* step per allocation; nothing else runs in between.                      *)
(*                                                                         *)
(* Only the ready queue is modelled: no kernel code uses a sleep queue.    *)
(***************************************************************************)
EXTENDS MContainer, Sequences, Pic

CONSTANTS
  IDLE_QUOTA,   \* what mon_start_user gives to the first process (10000)
  SpawnQuotas   \* the quotas processes pass to sys_spawn

ASSUME ProcAssumption ==
  /\ NUM_IDS > 1
  /\ IDLE_QUOTA \in 0 .. RealQuota
  /\ SpawnQuotas \subseteq 0 .. WORD - 1

VARIABLES
  tcb_state,  \* TCBPool[pid].state
  ready,      \* the queue NUM_IDS, head first
  CURID,
  kctx_pool,  \* where each kernel thread resumes; slot NUM_IDS is the
              \*   memory right behind the array
  uctx_pool,  \* the saved user registers of each process
  cpu,        \* the user registers while a process runs
  cr3,        \* the process whose page directory is in use
  tss,        \* the process whose kernel stack the next trap uses
  kernel,     \* what the processor is doing
  newpid,     \* the process under construction
  pic,        \* the interrupt controllers
  refault,    \* 1: the instruction of the current process that writes to a
              \*   copy-on-write page has faulted and will fault again
  image,      \* history: whose program a process runs
  shared      \* history: the processes that took part in a fork, and so
              \*   have copy-on-write pages

threadVars == <<tcb_state, ready, CURID, kctx_pool>>
trapVars   == <<uctx_pool, cpu, cr3, tss>>
history    == <<image, shared>>
procVars   == <<vars, threadVars, trapVars, kernel, newpid, pic, refault, history>>

\* The register values the kernel tells apart: EAX carries a call number in
\* and an error number out, EBX an argument in and a result out.  "image" is
\* the rest of the frame, which belongs to the program.
CallNr  == {"SYS_yield", "SYS_spawn", "SYS_fork", "SYS_mmap", "SYS_puts",
            "SYS_ADV"}
ErrorNr == {"E_SUCC", "E_MEM", "E_INVAL_CALLNR", "E_INVAL_ADDR", "E_INVAL_PID"}
ARG     == NUM_IDS + 1

ZeroFrame == [eax |-> "zero", ebx |-> 0, image |-> 0]

\* thread_init, on top of the initialisation of the lower layers.
thread_init ==
  /\ container_init
  /\ tcb_state = [i \in Ids |-> IF i = 0 THEN "RUN" ELSE "DEAD"]
  /\ ready = <<>>
  /\ CURID = 0
  /\ kctx_pool = [i \in 0 .. NUM_IDS |-> "none"]
  /\ uctx_pool = [i \in Ids |-> ZeroFrame]
  /\ cpu = ZeroFrame
  /\ cr3 = 0
  /\ tss = 0
  /\ kernel = "monitor"
  /\ newpid = NUM_IDS
  /\ pic = devinit
  /\ refault = 0
  /\ image = [i \in Ids |-> 0]
  /\ shared = {}

-----------------------------------------------------------------------------
(***************************************************************************)
(* Threads                                                                 *)
(***************************************************************************)

\* A slip: the quota is not tested first.
kctx_new_unchecked(id, quota, child) ==
  /\ container_split(id, quota, child)
  /\ kctx_pool' = [kctx_pool EXCEPT ![child] = "proc_start_user"]
  /\ UNCHANGED <<allocated, held>>

\* The result of container_split is not tested before the context is set.
kctx_new(id, quota, child) ==
  \/ /\ ~container_can_consume(id, quota)
     /\ child = NUM_IDS
     /\ UNCHANGED <<vars, kctx_pool>>
  \/ /\ container_can_consume(id, quota)
     /\ container_split(id, quota, child)
     /\ kctx_pool' = [kctx_pool EXCEPT ![child] = "proc_start_user"]
     /\ UNCHANGED <<allocated, held>>

\* A slip: the child goes to the head of the ready queue.
thread_spawn_at_head(id, quota, child) ==
  /\ kctx_new(id, quota, child)
  /\ IF child = NUM_IDS
     THEN UNCHANGED <<tcb_state, ready>>
     ELSE /\ tcb_state' = [tcb_state EXCEPT ![child] = "READY"]
          /\ ready' = <<child>> \o ready

thread_spawn(id, quota, child) ==
  /\ kctx_new(id, quota, child)
  /\ IF child = NUM_IDS
     THEN UNCHANGED <<tcb_state, ready>>
     ELSE /\ tcb_state' = [tcb_state EXCEPT ![child] = "READY"]
          /\ ready' = Append(ready, child)

(***************************************************************************)
(* Traps.  A trap saves the user registers in the slot of the current      *)
(* process; proc_start_user takes TSS, page directory and registers from   *)
(* the process that is current when the kernel is left.                    *)
(***************************************************************************)
trap(eax, ebx) ==
  [uctx_pool EXCEPT ![CURID] = [eax |-> eax, ebx |-> ebx, image |-> cpu.image]]

\* A slip: the kernel stack of the process that was interrupted is kept.
proc_start_user_keeps_tss ==
  /\ kernel' = "user"
  /\ tss' = CURID
  /\ cr3' = CURID'
  /\ cpu' = uctx_pool'[CURID']

proc_start_user ==
  /\ kernel' = "user"
  /\ tss' = CURID'
  /\ cr3' = CURID'
  /\ cpu' = uctx_pool'[CURID']

\* The current process runs its program, or repeats an instruction.
Running == kernel = "user" /\ refault = 0

\* In the kernel: the page directory is that of process 0.
EnterKernel(work) ==
  /\ kernel' = work
  /\ cr3' = 0
  /\ UNCHANGED <<cpu, tss>>

-----------------------------------------------------------------------------
(***************************************************************************)
(* System calls                                                            *)
(***************************************************************************)

\* A slip: the error number is written before the switch, to the frame of the
\* thread that is next, whether or not that thread is in a sys_yield.
Resume_sets_next(next, frames) ==
  uctx_pool' = [frames EXCEPT ![next].eax = "E_SUCC"]

\* The thread that is switched to continues where it left the processor:
\* behind the kctx_switch in its own sys_yield, or in proc_start_user when it
\* runs for the first time.  Either way the kernel is left as this thread.
Resume(next, frames) ==
  uctx_pool' = IF kctx_pool[next] = "thread_yield"
               THEN [frames EXCEPT ![next].eax = "E_SUCC"]
               ELSE frames

\* A slip: the caller is not put back into the ready queue.
sys_yield_forgets_caller ==
  /\ Running
  /\ ready # <<>>
  /\ ready' = Tail(ready)
  /\ tcb_state' = [tcb_state EXCEPT ![CURID] = "READY", ![Head(ready)] = "RUN"]
  /\ CURID' = Head(ready)
  /\ kctx_pool' = [kctx_pool EXCEPT ![CURID] = "thread_yield"]
  /\ Resume(Head(ready), trap("SYS_yield", cpu.ebx))
  /\ UNCHANGED <<vars, newpid, pic, refault, history>>
  /\ proc_start_user

sys_yield ==
  /\ Running
  /\ LET frames == trap("SYS_yield", cpu.ebx)
     IN  \/ /\ ready = <<>>
            /\ uctx_pool' = [frames EXCEPT ![CURID].eax = "E_SUCC"]
            /\ UNCHANGED threadVars
         \/ /\ ready # <<>>
            /\ ready' = Append(Tail(ready), CURID)
            /\ tcb_state' = [tcb_state EXCEPT ![CURID] = "READY",
                                              ![Head(ready)] = "RUN"]
            /\ CURID' = Head(ready)
            /\ kctx_pool' = [kctx_pool EXCEPT ![CURID] = "thread_yield"]
            /\ Resume(Head(ready), frames)
  /\ UNCHANGED <<vars, newpid, pic, refault, history>>
  /\ proc_start_user

\* An unknown ELF image, and a thread that could not be created.
sys_spawn_fails ==
  /\ Running
  /\ \/ UNCHANGED <<vars, threadVars>>
     \/ /\ \E quota \in SpawnQuotas : thread_spawn(CURID, quota, NUM_IDS)
        /\ UNCHANGED CURID
  /\ uctx_pool' = [trap("SYS_spawn", ARG) EXCEPT
                     ![CURID].eax = "E_INVAL_PID", ![CURID].ebx = NUM_IDS]
  /\ UNCHANGED <<newpid, pic, refault, history>>
  /\ proc_start_user

\* proc_create, up to the call of elf_load.
sys_spawn ==
  /\ Running
  /\ \E quota \in SpawnQuotas, pid \in Ids :
       /\ thread_spawn(CURID, quota, pid)
       /\ newpid' = pid
       /\ image' = [image EXCEPT ![pid] = pid]
  /\ uctx_pool' = trap("SYS_spawn", ARG)
  /\ EnterKernel("elf_load")
  /\ UNCHANGED <<CURID, pic, refault, shared>>

ForkQuota == (CONTAINER[CURID].quota - CONTAINER[CURID].usage) \div 2

sys_fork_fails ==
  /\ Running
  /\ thread_spawn(CURID, ForkQuota, NUM_IDS)
  /\ uctx_pool' = [trap("SYS_fork", cpu.ebx) EXCEPT
                     ![CURID].eax = "E_INVAL_PID", ![CURID].ebx = NUM_IDS]
  /\ UNCHANGED <<CURID, newpid, pic, refault, history>>
  /\ proc_start_user

\* proc_fork, up to the call of vmm_copy: the child's frame is a copy.
sys_fork ==
  /\ Running
  /\ \E pid \in Ids :
       /\ thread_spawn(CURID, ForkQuota, pid)
       /\ newpid' = pid
       /\ image' = [image EXCEPT ![pid] = image[CURID]]
       /\ shared' = shared \cup {CURID, pid}
       /\ LET frames == trap("SYS_fork", cpu.ebx)
          IN  uctx_pool' = [frames EXCEPT ![pid] = frames[CURID]]
  /\ EnterKernel("vmm_copy")
  /\ UNCHANGED <<CURID, pic, refault>>

-----------------------------------------------------------------------------
(***************************************************************************)
(* Work of several allocations                                             *)
(***************************************************************************)

\* One page for the process under construction: alloc_page in elf_load, and
\* the page table in vmm_copy.
AllocForChild ==
  /\ kernel \in {"elf_load", "vmm_copy"}
  /\ container_alloc(newpid)
  /\ UNCHANGED <<threadVars, trapVars, kernel, newpid, pic, refault, history>>

\* The end of proc_create and of proc_fork, and the result for the caller.
\* proc_create fills in the frame; its registers stay as they were.
sys_spawn_returns ==
  /\ kernel = "elf_load" /\ CURID # 0
  /\ uctx_pool' = [uctx_pool EXCEPT ![newpid].image = newpid,
                                    ![CURID].eax = "E_SUCC",
                                    ![CURID].ebx = newpid]
  /\ newpid' = NUM_IDS
  /\ UNCHANGED <<vars, threadVars, pic, refault, history>>
  /\ proc_start_user

sys_fork_returns ==
  /\ kernel = "vmm_copy"
  /\ uctx_pool' = [uctx_pool EXCEPT ![CURID].eax = "E_SUCC",
                                    ![CURID].ebx = newpid]
  /\ newpid' = NUM_IDS
  /\ UNCHANGED <<vars, threadVars, pic, refault, history>>
  /\ proc_start_user

\* A write to a copy-on-write page.  Without memory for the copy,
\* copy_on_write returns, and the instruction faults again.
copy_on_write ==
  /\ kernel = "user"
  /\ CURID \in shared
  /\ container_alloc(CURID)
  /\ refault' = IF held' # held THEN 0 ELSE 1
  /\ uctx_pool' = trap(cpu.eax, cpu.ebx)
  /\ UNCHANGED <<threadVars, newpid, pic, history>>
  /\ proc_start_user

\* Another page fault (EAX and EBX are the program's own), sys_mmap or
\* sys_puts, which maps the pages of the string that are not mapped yet.
MemoryTrap ==
  /\ Running
  /\ \E eax \in {"SYS_mmap", "SYS_puts", cpu.eax} : uctx_pool' = trap(eax, cpu.ebx)
  /\ EnterKernel("memory")
  /\ UNCHANGED <<vars, threadVars, newpid, pic, refault, history>>

AllocForCaller ==
  /\ kernel = "memory"
  /\ \/ container_alloc(CURID)
     \/ \E len \in Lens : container_consecutive_alloc(CURID, len)
  /\ UNCHANGED <<threadVars, trapVars, kernel, newpid, pic, refault, history>>

\* The system calls report their result; the page fault handler returns.
MemoryTrapReturns ==
  /\ kernel = "memory"
  /\ \/ /\ uctx_pool[CURID].eax = "SYS_mmap"
        /\ \E errno \in {"E_SUCC", "E_MEM"} :
             uctx_pool' = [uctx_pool EXCEPT ![CURID].eax = errno,
                                            ![CURID].ebx = ARG]
     \/ /\ uctx_pool[CURID].eax = "SYS_puts"
        /\ \E errno \in {"E_SUCC", "E_MEM", "E_INVAL_ADDR"} :
             uctx_pool' = [uctx_pool EXCEPT ![CURID].eax = errno]
     \/ /\ uctx_pool[CURID].eax \notin {"SYS_mmap", "SYS_puts"}
        /\ UNCHANGED uctx_pool
  /\ UNCHANGED <<vars, threadVars, newpid, pic, refault, history>>
  /\ proc_start_user

\* sys_get_ptbl_entry, and a call number that is not known.
sys_get_ptbl_entry ==
  /\ Running
  /\ uctx_pool' = [trap("SYS_ADV", ARG) EXCEPT ![CURID].eax = "E_SUCC"]
  /\ UNCHANGED <<vars, threadVars, newpid, pic, refault, history>>
  /\ proc_start_user

syscall_dispatch_default ==
  /\ Running
  /\ uctx_pool' = trap("E_INVAL_CALLNR", cpu.ebx)
  /\ UNCHANGED <<vars, threadVars, newpid, pic, refault, history>>
  /\ proc_start_user

\* KERN_PANIC: an exception nobody handles, or a page fault without memory.
KERN_PANIC ==
  /\ \/ Running
     \/ kernel = "memory" /\ uctx_pool[CURID].eax \notin {"SYS_mmap", "SYS_puts"}
  /\ EnterKernel("halt")
  /\ uctx_pool' = IF kernel = "user" THEN trap(cpu.eax, cpu.ebx) ELSE uctx_pool
  /\ UNCHANGED <<vars, threadVars, newpid, pic, refault, history>>

\* A slip: only the timer is acknowledged.
Handled_timer_only(p, irq) == IF irq = IRQ_TIMER THEN pic_eoi(p) ELSE p

\* What the handlers do: a spurious interrupt, which is not in service, needs
\* no end of interrupt.
Handled(p, irq) == IF irq = IRQ_SPURIOUS THEN p ELSE pic_eoi(p)

\* A device interrupt, or one whose request has gone before the processor
\* takes it.  The interrupted process goes on.
interrupt_handler ==
  /\ kernel = "user"
  /\ \E irq \in Lines :
       /\ Deliverable(pic, irq)
       /\ \/ pic' = Handled(Acknowledged(pic, irq), irq)
          \/ pic' = Handled(pic, IRQ_SPURIOUS)
  /\ uctx_pool' = trap(cpu.eax, cpu.ebx)
  /\ UNCHANGED <<vars, threadVars, newpid, refault, history>>
  /\ proc_start_user

-----------------------------------------------------------------------------
(***************************************************************************)
(* The monitor                                                             *)
(***************************************************************************)

\* mon_start_user creates the idle process as a child of thread 0 ...
mon_start_user ==
  /\ kernel = "monitor"
  /\ \E pid \in Ids :
       /\ thread_spawn(0, IDLE_QUOTA, pid)
       /\ newpid' = pid
       /\ image' = [image EXCEPT ![pid] = pid]
  /\ EnterKernel("elf_load")
  /\ UNCHANGED <<CURID, uctx_pool, pic, refault, shared>>

tqueue_remove(pid) ==
  \E k \in 1 .. Len(ready) :
    /\ ready[k] = pid
    /\ ready' = [j \in 1 .. Len(ready) - 1 |-> IF j < k THEN ready[j] ELSE ready[j + 1]]

\* A slip: the idle process stays in the ready queue.
mon_start_user_switches_queued ==
  /\ kernel = "elf_load" /\ CURID = 0
  /\ tcb_state' = [tcb_state EXCEPT ![newpid] = "RUN"]
  /\ CURID' = newpid
  /\ kctx_pool' = [kctx_pool EXCEPT ![0] = "mon_start_user"]
  /\ uctx_pool' = [uctx_pool EXCEPT ![newpid].image = newpid]
  /\ newpid' = NUM_IDS
  /\ UNCHANGED <<vars, ready, pic, refault, history>>
  /\ proc_start_user

\* ... takes it out of the ready queue and switches to it.
mon_start_user_switches ==
  /\ kernel = "elf_load" /\ CURID = 0
  /\ tqueue_remove(newpid)
  /\ tcb_state' = [tcb_state EXCEPT ![newpid] = "RUN"]
  /\ CURID' = newpid
  /\ kctx_pool' = [kctx_pool EXCEPT ![0] = "mon_start_user"]
  /\ uctx_pool' = [uctx_pool EXCEPT ![newpid].image = newpid]
  /\ newpid' = NUM_IDS
  /\ UNCHANGED <<vars, pic, refault, history>>
  /\ proc_start_user

KernelReturns ==
  \/ sys_spawn_returns
  \/ sys_fork_returns
  \/ MemoryTrapReturns
  \/ mon_start_user_switches

Next ==
  \/ sys_yield
  \/ sys_spawn_fails \/ sys_spawn
  \/ sys_fork_fails \/ sys_fork
  \/ AllocForChild \/ AllocForCaller
  \/ copy_on_write
  \/ MemoryTrap
  \/ KERN_PANIC
  \/ interrupt_handler
  \/ sys_get_ptbl_entry \/ syscall_dispatch_default
  \/ mon_start_user
  \/ KernelReturns

(***************************************************************************)
(* The kernel's loops are finite.  A program that has returned from main   *)
(* calls yield for ever (user/lib/entry.S), so a program that keeps        *)
(* running yields in the end; one that is stuck on an instruction does not. *)
(***************************************************************************)
Fairness ==
  /\ WF_procVars(KernelReturns)
  /\ WF_procVars(copy_on_write /\ refault = 1)
  /\ SF_procVars(sys_yield)

Spec == thread_init /\ [][Next]_procVars /\ Fairness

-----------------------------------------------------------------------------
(***************************************************************************)
(* Properties                                                              *)
(***************************************************************************)
Frame == [eax : CallNr \cup ErrorNr \cup {"zero"}, ebx : 0 .. ARG, image : Ids]

\* Thread ids stay in range wherever the kernel stores one, and frames hold
\* what a trap or a system call can put there.  Part of ProcInv.
ProcTypeOK ==
  /\ tcb_state \in [Ids -> {"READY", "RUN", "DEAD"}]
  /\ ready \in Seq(Ids)
  /\ CURID \in Ids /\ cr3 \in Ids /\ tss \in Ids
  /\ kctx_pool \in [0 .. NUM_IDS ->
                    {"none", "proc_start_user", "thread_yield", "mon_start_user"}]
  /\ uctx_pool \in [Ids -> Frame]
  /\ cpu \in Frame
  /\ kernel \in {"monitor", "user", "elf_load", "vmm_copy", "memory", "halt"}
  /\ newpid \in 0 .. NUM_IDS
  /\ refault \in {0, 1}
  /\ image \in [Ids -> Ids]
  /\ shared \subseteq Ids

\* Thread states, ready queue and containers agree: a thread is in the ready
\* queue, once, exactly if it is READY; only the current thread and thread 0,
\* which mon_start_user leaves for good, are RUN; a thread exists exactly if
\* its container is in use.  In particular tqueue_enqueue is never called for
\* a thread that is queued already, and thread 0 is never scheduled again
\* ("mon_start_user() should never reach here").  Whoever waits in the ready
\* queue has a kernel context to be resumed at, and a user frame of its own
\* program by the time a process runs.
SchedulerConsistent ==
  /\ \A j, k \in 1 .. Len(ready) : ready[j] = ready[k] => j = k
  /\ {i \in Ids : tcb_state[i] = "READY"} = {ready[k] : k \in 1 .. Len(ready)}
  /\ {i \in Ids : tcb_state[i] = "RUN"} = {0, CURID}
  /\ {i \in Ids : tcb_state[i] # "DEAD"} = UsedIds
  /\ \A k \in 1 .. Len(ready) :
       /\ kctx_pool[ready[k]] \in {"proc_start_user", "thread_yield"}
       /\ kernel = "user" => uctx_pool[ready[k]].image = image[ready[k]]

\* While a process runs, the timer, the keyboard and the serial line can
\* interrupt it, and nothing else can: no interrupt that was served before
\* holds a line back for want of its end of interrupt, and enabling one line
\* has not masked another (intr_enable, interrupt_handler).
LinesOpen ==
  kernel = "user" =>
    {irq \in Lines : Deliverable(pic, irq)} = {IRQ_TIMER, IRQ_KBD, IRQ_SERIAL13}

\* In user mode the processor runs the current process on its own page
\* directory, with its own kernel stack in the TSS and its own registers, no
\* matter how many switches happened since it last ran.
RunsAsItself ==
  kernel = "user" =>
    /\ cr3 = CURID /\ tss = CURID
    /\ cpu.image = image[CURID]
    /\ CURID # 0

\* A trap of one process does not touch the saved frame of another one that
\* is waiting, unless that one is resumed or is being created.  A process that
\* is resumed finds its registers as it left them, except that its own
\* sys_yield has set EAX to E_SUCC, although the error number is written after
\* other processes have run.
FramesPrivate ==
  [][/\ \A p \in UsedIds \ {CURID, CURID', newpid} :
          uctx_pool'[p] = uctx_pool[p]
     /\ kernel' = "user" /\ CURID' # CURID =>
          LET p == CURID'
          IN  /\ cpu'.ebx = uctx_pool[p].ebx
              /\ cpu'.eax = IF uctx_pool[p].eax = "SYS_yield"
                            THEN "E_SUCC" ELSE uctx_pool[p].eax]_procVars

\* The ready queue is served round robin: nobody is overtaken (thread_yield
\* appends the caller, thread_spawn appends the child).
NoOvertaking ==
  [][\A k \in 1 .. Len(ready) :
       \/ k <= Len(ready') /\ ready'[k] = ready[k]
       \/ IF k = 1 THEN CURID' = ready[1] ELSE ready'[k - 1] = ready[k]]_procVars

\* The process layer uses containers only in the ways of KernelSpec, so what
\* is shown of the container layer holds of the kernel.
UsesContainers == KernelSpec

\* A thread that is ready to run gets the processor, unless the machine halts
\* or the current process is stuck on a copy-on-write page.
ReadyRuns ==
  \A p \in Ids :
    tcb_state[p] = "READY" ~> CURID = p \/ kernel = "halt" \/ refault = 1

\* Any threads that are ready to be scheduled are scheduled in a round-robin
\* manner (kern/thread/PTQueueIntro), as long as the machine runs.
ReadyAlwaysRuns ==
  \A p \in Ids : tcb_state[p] = "READY" ~> CURID = p \/ kernel = "halt"

(***************************************************************************)
(* The inductive strengthening.  A process under construction is ready and *)
(* is not the one that creates it; thread 0 creates only the first one;    *)
(* and everyone but a process whose image is being loaded has a saved      *)
(* frame of its own program, the current process included.                 *)
(***************************************************************************)
UnderConstruction ==
  /\ newpid \in Ids <=> kernel \in {"elf_load", "vmm_copy"}
  /\ newpid \in Ids => newpid \notin {0, CURID} /\ tcb_state[newpid] = "READY"
  /\ kernel = "elf_load" => image[newpid] = newpid
  /\ kernel = "monitor" => CURID = 0 /\ ready = <<>>
  /\ CURID = 0 => \/ kernel = "monitor"
                  \/ kernel = "elf_load" /\ ready = <<newpid>>

SavedFrames ==
  \A i \in Ids \ {0} :
    tcb_state[i] # "DEAD" /\ ~(kernel = "elf_load" /\ i = newpid) =>
      uctx_pool[i].image = image[i]

\* A thread that waits in its sys_yield is known by its saved EAX: nobody else
\* who waits, or is created, has the number of sys_yield there.
YieldFrames ==
  /\ \A i \in Ids : tcb_state[i] = "DEAD" => uctx_pool[i].eax # "SYS_yield"
  /\ \A i \in Ids : tcb_state[i] = "READY" =>
       (kctx_pool[i] = "thread_yield" <=> uctx_pool[i].eax = "SYS_yield")
  /\ newpid \in Ids => kctx_pool[newpid] = "proc_start_user"

ProcInv ==
  /\ ProcTypeOK
  /\ QuotaInv
  /\ SchedulerConsistent
  /\ RunsAsItself
  /\ UnderConstruction
  /\ SavedFrames
  /\ pic = devinit
=============================================================================
