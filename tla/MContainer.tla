----------------------------- MODULE MContainer -----------------------------
(***************************************************************************)
(* The container layer: per-process memory quotas on top of the physical   *)
(* page allocator.                                                         *)
(*                                                                         *)
(* CONTAINER is the code's array.  "held" is a history variable: the pages *)
(* each process was handed by a successful allocation and has not given    *)
(* back, i.e. what the callers of this layer believe they own.             *)
(***************************************************************************)
EXTENDS MATOp, FiniteSets

CONSTANTS
  NUM_IDS,   \* number of containers
  WORD,      \* 2^32: the width of the unsigned arithmetic on page counts
  SUPER_LEN, \* pages of a super page (1024)
  Lens       \* the lengths processes ask consecutive pages for

MAX_CHILDREN == 3

Ids == 0 .. NUM_IDS - 1

\* container_init: the number of unallocated normal pages at boot.
RealQuota == Cardinality(Norm)

ASSUME ContainerAssumption ==
  /\ NUM_IDS \in Nat \ {0}
  /\ IsFiniteSet(Norm)
  /\ WORD \in Nat
  /\ RealQuota \in 0 .. WORD - 1
  /\ SUPER_LEN \in Nat \ {0}
  /\ Lens \subseteq 0 .. WORD - 1

VARIABLES
  CONTAINER, \* the containers
  held       \* history: the pages each process owns

vars == <<allocated, CONTAINER, held>>

Container ==
  [quota : Nat, usage : Nat, parent : Ids, nchildren : 0 .. MAX_CHILDREN,
   used : {0, 1}]

\* CONTAINER is a static array, so the unused containers are all zero.
Unused == [quota |-> 0, usage |-> 0, parent |-> 0, nchildren |-> 0,
           used |-> 0]

container_init ==
  /\ allocated = {}
  /\ CONTAINER = [i \in Ids |->
       IF i = 0 THEN [quota |-> RealQuota, usage |-> 0, parent |-> 0,
                      nchildren |-> 0, used |-> 1]
                ELSE Unused]
  /\ held = [i \in Ids |-> {}]

UsedIds == {i \in Ids : CONTAINER[i].used = 1}

\* The difference of two ints, compared as an unsigned number.
container_can_consume(id, n) ==
  /\ id \in UsedIds
  /\ n <= (CONTAINER[id].quota - CONTAINER[id].usage) % WORD

-----------------------------------------------------------------------------
ChildId(id, nc) == id * MAX_CHILDREN + 1 + nc

\* Slips: the parent does not pay, and the child is not counted.
container_split_unpaid(id, quota, child) ==
  LET nc == CONTAINER[id].nchildren
      c  == ChildId(id, nc)
  IN  /\ nc < MAX_CHILDREN /\ c < NUM_IDS
      /\ child = c
      /\ CONTAINER' = [CONTAINER EXCEPT
           ![id].nchildren = @ + 1,
           ![c] = [quota |-> quota, usage |-> 0, parent |-> id,
                   nchildren |-> 0, used |-> 1]]

container_split_uncounted(id, quota, child) ==
  LET c == ChildId(id, CONTAINER[id].nchildren)
  IN  /\ c < NUM_IDS
      /\ child = c
      /\ CONTAINER' = [CONTAINER EXCEPT
           ![id].usage = @ + quota,
           ![c] = [quota |-> quota, usage |-> 0, parent |-> id,
                   nchildren |-> 0, used |-> 1]]

container_split(id, quota, child) ==
  LET nc == CONTAINER[id].nchildren
      c  == ChildId(id, nc)
  IN  \/ /\ nc >= MAX_CHILDREN \/ c >= NUM_IDS
         /\ child = NUM_IDS
         /\ UNCHANGED CONTAINER
      \/ /\ nc < MAX_CHILDREN /\ c < NUM_IDS
         /\ child = c
         /\ CONTAINER' = [CONTAINER EXCEPT
              ![id].nchildren = @ + 1,
              ![id].usage = @ + quota,
              ![c] = [quota |-> quota, usage |-> 0, parent |-> id,
                      nchildren |-> 0, used |-> 1]]

\* kctx_new, the only caller of the split outside the layer tests, asks
\* container_can_consume first.
alloc_mem_quota(id, quota) ==
  /\ container_can_consume(id, quota)
  /\ \E child \in Ids \cup {NUM_IDS} : container_split(id, quota, child)
  /\ UNCHANGED <<allocated, held>>

\* A slip: the quota is not tested.
container_alloc_unlimited(id) ==
  \E page_index \in Norm \cup {0} :
    /\ palloc(page_index)
    /\ IF page_index # 0
       THEN /\ CONTAINER' = [CONTAINER EXCEPT ![id].usage = @ + 1]
            /\ held' = [held EXCEPT ![id] = @ \cup {page_index}]
       ELSE UNCHANGED <<CONTAINER, held>>

\* palloc runs first: at full quota the page it marked is not given back.
container_alloc(id) ==
  \E page_index \in Norm \cup {0} :
    /\ palloc(page_index)
    /\ IF page_index # 0 /\ CONTAINER[id].usage < CONTAINER[id].quota
       THEN /\ CONTAINER' = [CONTAINER EXCEPT ![id].usage = @ + 1]
            /\ held' = [held EXCEPT ![id] = @ \cup {page_index}]
       ELSE UNCHANGED <<CONTAINER, held>>

\* The sum is unsigned, so it wraps at WORD.
container_consecutive_alloc(id, len) ==
  LET sum == (CONTAINER[id].usage + len) % WORD
  IN  \/ /\ sum > CONTAINER[id].quota
         /\ UNCHANGED vars
      \/ /\ sum <= CONTAINER[id].quota
         /\ \E page_index \in Norm \cup {0, VM_USERLO_PI} :
              /\ consecutive_palloc(len, page_index)
              /\ IF page_index # 0 /\ CONTAINER[id].usage < CONTAINER[id].quota
                 THEN /\ CONTAINER' = [CONTAINER EXCEPT ![id].usage = sum]
                      /\ held' = [held EXCEPT
                           ![id] = @ \cup PageRun(page_index, len)]
                 ELSE UNCHANGED <<CONTAINER, held>>

\* A slip: the usage is not reduced.
container_free_keeps_usage(id, page_index) ==
  /\ page_index \in held[id]
  /\ pfree(page_index)
  /\ held' = [held EXCEPT ![id] = @ \ {page_index}]
  /\ UNCHANGED CONTAINER

\* A process gives back a page it owns.
container_free(id, page_index) ==
  /\ page_index \in held[id]
  /\ IF CONTAINER[id].usage > 0
     THEN /\ CONTAINER' = [CONTAINER EXCEPT ![id].usage = @ - 1]
          /\ pfree(page_index)
          /\ held' = [held EXCEPT ![id] = @ \ {page_index}]
     ELSE UNCHANGED vars

container_consecutive_free(id, page_index, len) ==
  /\ PageRun(page_index, len) \subseteq held[id]
  /\ CONTAINER' = [CONTAINER EXCEPT ![id].usage = @ - len]
  /\ consecutive_pfree(page_index, len)
  /\ held' = [held EXCEPT ![id] = @ \ PageRun(page_index, len)]

container_super_free(id, page_index) ==
  container_consecutive_free(id, page_index, SUPER_LEN)

-----------------------------------------------------------------------------
(***************************************************************************)
(* The running kernel never gives memory back: the only caller of a free   *)
(* is free_ptbl, which no system call or trap handler reaches.             *)
(***************************************************************************)
KernelNext ==
  \/ \E id \in UsedIds, quota \in 0 .. RealQuota : alloc_mem_quota(id, quota)
  \/ \E id \in UsedIds : container_alloc(id)
  \/ \E id \in UsedIds, len \in Lens : container_consecutive_alloc(id, len)

KernelSpec == container_init /\ [][KernelNext]_vars

\* The layer as its interface offers it, to clients that free what they own.
LayerNext ==
  \/ KernelNext
  \/ \E id \in UsedIds : \E page \in held[id] : container_free(id, page)
  \/ \E id \in UsedIds : \E page \in held[id], len \in 1 .. RealQuota :
       container_consecutive_free(id, page, len)
  \/ \E id \in UsedIds : \E page \in held[id] : container_super_free(id, page)

LayerSpec == container_init /\ [][LayerNext]_vars

-----------------------------------------------------------------------------
TypeOK ==
  /\ allocated \subseteq Nat
  /\ CONTAINER \in [Ids -> Container]
  /\ held \in [Ids -> SUBSET Nat]

\* No process uses more than its quota, neither by allocating nor by giving
\* quota away to children (container_alloc, container_split).
UsageWithinQuota ==
  \A i \in Ids : CONTAINER[i].usage <= CONTAINER[i].quota

\* The containers form the tree the index arithmetic of container_split
\* promises: the k-th child slot of a used container is used exactly when it
\* has more than k children, and then names that container as its parent.
ContainerTree ==
  /\ CONTAINER[0].used = 1
  /\ \A i \in Ids, k \in 0 .. MAX_CHILDREN - 1 :
       ChildId(i, k) \in Ids =>
         /\ CONTAINER[ChildId(i, k)].used = 1 <=> k < CONTAINER[i].nchildren
         /\ CONTAINER[ChildId(i, k)].used = 1
              => CONTAINER[ChildId(i, k)].parent = i

\* A container once in use is never taken over by a later split: its quota
\* and its parent stay what they are (container_split reuses no slot).
SplitNeverReuses ==
  [][\A i \in UsedIds : /\ CONTAINER'[i].used = 1
                        /\ CONTAINER'[i].quota = CONTAINER[i].quota
                        /\ CONTAINER'[i].parent = CONTAINER[i].parent]_vars

\* The quota a process has dedicated to the child in its k-th slot.
Dedicated(id, k) ==
  LET c == ChildId(id, k)
  IN  IF c \in UsedIds /\ CONTAINER[c].parent = id
      THEN CONTAINER[c].quota ELSE 0

\* A process's usage is the number of pages it owns plus the quota it has
\* dedicated to its children, of which there are at most MAX_CHILDREN, however
\* allocations and splits interleave.
UsageIsAccounted ==
  \A i \in UsedIds :
    CONTAINER[i].usage = Cardinality(held[i])
      + Dedicated(i, 0) + Dedicated(i, 1) + Dedicated(i, 2)

\* No physical page is owned by two processes at once.
NoDoubleGrant ==
  \A i, j \in Ids : i # j => held[i] \cap held[j] = {}

\* A page somebody owns is marked in the allocation table, so that palloc
\* cannot hand it out again.
HeldIsAllocated ==
  \A i \in Ids : held[i] \subseteq allocated

(***************************************************************************)
(* The inductive strengthening behind the properties of the running        *)
(* kernel: quotas never grow, an unused container is blank, and, as long   *)
(* as nothing is freed, the free pages lie above every page owned.         *)
(***************************************************************************)
QuotaBounded ==
  \A i \in Ids : CONTAINER[i].quota <= RealQuota

UnusedIsBlank ==
  \A i \in Ids : CONTAINER[i].used = 0 => CONTAINER[i] = Unused

FreeAboveHeld ==
  \A i \in Ids : \A p \in held[i], q \in FreePages : p < q

QuotaInv ==
  /\ TypeOK
  /\ UsageWithinQuota
  /\ QuotaBounded
  /\ UnusedIsBlank
  /\ ContainerTree

OwnershipInv ==
  /\ HeldIsAllocated
  /\ FreeAboveHeld
  /\ NoDoubleGrant

AccountInv ==
  /\ \A i \in Ids : IsFiniteSet(held[i])
  /\ \A i \in Ids : CONTAINER[i].used = 0 => held[i] = {}
  /\ UsageIsAccounted
=============================================================================
