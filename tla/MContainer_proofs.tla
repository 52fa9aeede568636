-------------------------- MODULE MContainer_proofs --------------------------
(***************************************************************************)
(* What the container layer guarantees in the running kernel (KernelSpec), *)
(* for any number of containers, any memory map and any requests.          *)
(***************************************************************************)
EXTENDS MContainer, TLAPS

(***************************************************************************)
(* Two facts about the machine that the ownership theorem needs.  The user *)
(* area above any normal page is large enough for every page there is: it  *)
(* has 0xB0000 pages, and 2GB of memory gives fewer than half as many      *)
(* normal ones.  No request wraps the unsigned sum usage + len.            *)
(***************************************************************************)
RoomAbove == \A p \in Norm : p + RealQuota <= VM_USERHI_PI

RequestsDoNotWrap == \A len \in Lens : len + RealQuota < WORD

-----------------------------------------------------------------------------
\* The quota container_init computes is a number.
LEMMA RealQuotaType == RealQuota \in Nat
  BY ContainerAssumption

\* Unsigned arithmetic on numbers below the width.
LEMMA ModBelow ==
  ASSUME NEW a \in Nat, NEW w \in Nat, a < w
  PROVE  a % w = a
  OBVIOUS

\* A remainder is a natural number (sums wrap at WORD).
LEMMA ModType ==
  ASSUME NEW a \in Nat, NEW w \in Nat, 0 < w
  PROVE  a % w \in Nat
  OBVIOUS

\* container_init establishes the quota invariant.
LEMMA InitQuota == container_init => QuotaInv
  <1> SUFFICES ASSUME container_init PROVE QuotaInv
    OBVIOUS
  <1> USE RealQuotaType, ContainerAssumption
      DEF container_init, Ids, Unused, Container, MAX_CHILDREN
  <1>1. TypeOK
    BY DEF TypeOK
  <1>2. UsageWithinQuota
    BY DEF UsageWithinQuota
  <1>3. QuotaBounded /\ UnusedIsBlank
    BY DEF QuotaBounded, UnusedIsBlank
  <1>4. ContainerTree
    BY DEF ContainerTree, ChildId
  <1> QED BY <1>1, <1>2, <1>3, <1>4 DEF QuotaInv

\* The quota a process may give away is what it has left: the unsigned
\* comparison of container_can_consume does not wrap.
LEMMA CanConsume ==
  ASSUME QuotaInv, NEW id \in Ids, NEW n \in Nat, container_can_consume(id, n)
  PROVE  CONTAINER[id].usage + n <= CONTAINER[id].quota
  <1>1. /\ CONTAINER[id].quota \in Nat /\ CONTAINER[id].usage \in Nat
        /\ CONTAINER[id].usage <= CONTAINER[id].quota
        /\ CONTAINER[id].quota <= RealQuota
    BY DEF QuotaInv, TypeOK, Container, UsageWithinQuota, QuotaBounded
  <1>2. CONTAINER[id].quota - CONTAINER[id].usage \in Nat
    BY <1>1
  <1>3. CONTAINER[id].quota - CONTAINER[id].usage < WORD
    BY <1>1, RealQuotaType, ContainerAssumption
  <1>4. (CONTAINER[id].quota - CONTAINER[id].usage) % WORD
           = CONTAINER[id].quota - CONTAINER[id].usage
    BY <1>2, <1>3, ModBelow, ContainerAssumption
  <1> QED BY <1>1, <1>4 DEF container_can_consume

\* A step that only changes the usage of one container, within its quota,
\* keeps the quota invariant.
LEMMA UsageStep ==
  ASSUME QuotaInv, NEW id \in Ids, NEW u \in Nat, u <= CONTAINER[id].quota,
         CONTAINER' = [CONTAINER EXCEPT ![id].usage = u],
         id \in UsedIds,
         allocated' \subseteq Nat, held' \in [Ids -> SUBSET Nat]
  PROVE  QuotaInv'
  <1> USE DEF QuotaInv
  <1>1. CONTAINER \in [Ids -> Container]
    BY DEF TypeOK
  <1>2. CONTAINER' \in [Ids -> Container]
    BY <1>1 DEF Container
  <1>3. TypeOK'
    BY <1>2 DEF TypeOK
  <1>4. \A i \in Ids : /\ CONTAINER'[i].quota = CONTAINER[i].quota
                       /\ CONTAINER'[i].used = CONTAINER[i].used
                       /\ CONTAINER'[i].parent = CONTAINER[i].parent
                       /\ CONTAINER'[i].nchildren = CONTAINER[i].nchildren
                       /\ CONTAINER'[i].usage =
                            IF i = id THEN u ELSE CONTAINER[i].usage
                       /\ i # id => CONTAINER'[i] = CONTAINER[i]
    BY <1>1 DEF Container
  <1>5. UsageWithinQuota'
    BY <1>4 DEF UsageWithinQuota
  <1>6. QuotaBounded'
    BY <1>4 DEF QuotaBounded
  <1>7. UnusedIsBlank'
    BY <1>4 DEF UnusedIsBlank, UsedIds
  <1>8. ContainerTree'
    <2>1. 0 \in Ids
      BY ContainerAssumption DEF Ids
    <2> QED BY <1>4, <2>1 DEF ContainerTree
  <1> QED BY <1>3, <1>5, <1>6, <1>7, <1>8

\* The child slot container_split computes was never used before.
LEMMA FreshChild ==
  ASSUME QuotaInv, NEW id \in UsedIds,
         CONTAINER[id].nchildren < MAX_CHILDREN,
         ChildId(id, CONTAINER[id].nchildren) < NUM_IDS
  PROVE  LET c == ChildId(id, CONTAINER[id].nchildren)
         IN  /\ c \in Ids
             /\ c # id
             /\ c # 0
             /\ CONTAINER[c] = Unused
  <1> DEFINE c == ChildId(id, CONTAINER[id].nchildren)
  <1>1. id \in Nat /\ id \in Ids /\ CONTAINER[id].nchildren \in 0 .. 3
    BY ContainerAssumption
       DEF UsedIds, Ids, QuotaInv, TypeOK, Container, MAX_CHILDREN
  <1>2. c \in Ids /\ c > id
    BY <1>1, ContainerAssumption DEF Ids, ChildId, MAX_CHILDREN
  <1>3. CONTAINER[c].used # 1
    BY <1>1, <1>2 DEF QuotaInv, ContainerTree, MAX_CHILDREN
  <1>4. CONTAINER[c].used \in {0, 1}
    BY <1>2 DEF QuotaInv, TypeOK, Container
  <1>5. CONTAINER[c] = Unused
    BY <1>2, <1>3, <1>4 DEF QuotaInv, UnusedIsBlank
  <1> QED BY <1>1, <1>2, <1>5

\* container_split keeps the quota invariant when kctx_new guards it.
LEMMA SplitQuota ==
  ASSUME QuotaInv, NEW id \in UsedIds, NEW quota \in Nat,
         alloc_mem_quota(id, quota)
  PROVE  QuotaInv'
  <1> USE DEF QuotaInv
  <1> DEFINE nc == CONTAINER[id].nchildren
             c  == ChildId(id, nc)
  <1>1. CASE UNCHANGED CONTAINER
    BY <1>1 DEF TypeOK, UsageWithinQuota, QuotaBounded, UnusedIsBlank,
                ContainerTree, alloc_mem_quota
  <1>2. CASE ~UNCHANGED CONTAINER
    <2>1. /\ nc < MAX_CHILDREN
          /\ c < NUM_IDS
          /\ CONTAINER' = [CONTAINER EXCEPT
               ![id].nchildren = @ + 1,
               ![id].usage = @ + quota,
               ![c] = [quota |-> quota, usage |-> 0, parent |-> id,
                       nchildren |-> 0, used |-> 1]]
      BY <1>2 DEF alloc_mem_quota, container_split
    <2>2. c \in Ids /\ c # id /\ c # 0 /\ CONTAINER[c] = Unused
      BY <2>1, FreshChild
    <2>3. id \in Ids /\ id \in Nat
      BY ContainerAssumption DEF UsedIds, Ids
    <2>4. CONTAINER[id].usage + quota <= CONTAINER[id].quota
      BY <2>3, CanConsume DEF alloc_mem_quota
    <2>5. CONTAINER \in [Ids -> Container]
      BY DEF TypeOK
    <2>6. \A i \in Ids :
            /\ i # id /\ i # c => CONTAINER'[i] = CONTAINER[i]
            /\ i = id => CONTAINER'[i] = [CONTAINER[id] EXCEPT
                 !.nchildren = @ + 1, !.usage = @ + quota]
            /\ i = c => CONTAINER'[i] =
                 [quota |-> quota, usage |-> 0, parent |-> id,
                  nchildren |-> 0, used |-> 1]
      BY <2>1, <2>2, <2>3, <2>5
    <2>7. /\ CONTAINER'[id].quota = CONTAINER[id].quota
          /\ CONTAINER'[id].used = 1
          /\ CONTAINER'[id].parent = CONTAINER[id].parent
          /\ CONTAINER'[id].nchildren = nc + 1
          /\ CONTAINER'[id].usage = CONTAINER[id].usage + quota
      <3>1. CONTAINER[id] \in Container
        BY <2>3, <2>5
      <3>2. CONTAINER'[id] = [CONTAINER[id] EXCEPT
                                !.nchildren = @ + 1, !.usage = @ + quota]
        BY <2>3, <2>6
      <3>3. CONTAINER[id].used = 1
        BY DEF UsedIds
      <3> QED BY <3>1, <3>2, <3>3 DEF Container
    <2>8. /\ CONTAINER'[c].quota = quota
          /\ CONTAINER'[c].used = 1
          /\ CONTAINER'[c].parent = id
          /\ CONTAINER'[c].nchildren = 0
          /\ CONTAINER'[c].usage = 0
      BY <2>2, <2>6
    <2>9. TypeOK'
      <3>1. DOMAIN CONTAINER' = Ids
        BY <2>1, <2>5
      <3>2. CONTAINER'[id] \in Container
        BY <2>1, <2>3, <2>5, <2>6 DEF Container, MAX_CHILDREN
      <3>3. CONTAINER'[c] \in Container
        BY <2>2, <2>3, <2>6 DEF Container, MAX_CHILDREN
      <3>4. CONTAINER' \in [Ids -> Container]
        BY Zenon, <2>1, <2>5, <2>6, <3>1, <3>2, <3>3
      <3> QED BY <3>4 DEF TypeOK, alloc_mem_quota
    <2>10. UsageWithinQuota'
      BY <2>4, <2>6, <2>7, <2>8 DEF UsageWithinQuota
    <2>11. QuotaBounded'
      <3>1. quota <= RealQuota
        BY <2>3, <2>4, <2>5, RealQuotaType DEF Container, QuotaBounded
      <3> QED BY <2>6, <2>7, <2>8, <3>1 DEF QuotaBounded
    <2>12. UnusedIsBlank'
      BY <2>6, <2>7, <2>8 DEF UnusedIsBlank
    <2>13. ContainerTree'
      <3> SUFFICES ASSUME NEW i \in Ids, NEW k \in 0 .. MAX_CHILDREN - 1,
                          ChildId(i, k) \in Ids
                   PROVE  /\ CONTAINER'[ChildId(i, k)].used = 1
                               <=> k < CONTAINER'[i].nchildren
                          /\ CONTAINER'[ChildId(i, k)].used = 1
                               => CONTAINER'[ChildId(i, k)].parent = i
        <4>1. 0 \in Ids /\ CONTAINER[0].used = 1
          BY ContainerAssumption DEF Ids, ContainerTree
        <4>2. CONTAINER'[0].used = 1
          BY <2>2, <2>6, <2>7, <4>1
        <4> QED BY <4>2 DEF ContainerTree
      <3> DEFINE d == ChildId(i, k)
      <3>1. i \in Nat /\ k \in 0 .. 2 /\ nc \in 0 .. 2
        BY <2>1, <2>3, <2>5, ContainerAssumption
           DEF Ids, MAX_CHILDREN, Container
      <3>2. d = c <=> i = id /\ k = nc
        BY <2>3, <3>1 DEF ChildId, MAX_CHILDREN
      <3>3. /\ CONTAINER[d].used = 1 <=> k < CONTAINER[i].nchildren
            /\ CONTAINER[d].used = 1 => CONTAINER[d].parent = i
        BY DEF ContainerTree
      <3>4. /\ i # id /\ i # c => CONTAINER'[i].nchildren = CONTAINER[i].nchildren
            /\ CONTAINER[c].nchildren = 0
        BY <2>2, <2>6 DEF Unused
      <3>5. d # c => /\ CONTAINER'[d].used = CONTAINER[d].used
                     /\ CONTAINER'[d].parent = CONTAINER[d].parent
        BY <2>2, <2>3, <2>6, <2>7 DEF UsedIds
      <3>6. CASE d = c
        <4>1. i = id /\ k = nc
          BY <3>2, <3>6
        <4>2. CONTAINER'[d].used = 1 /\ CONTAINER'[d].parent = i
          BY <2>8, <3>6, <4>1
        <4>3. k < CONTAINER'[i].nchildren
          BY <2>7, <3>1, <4>1
        <4> QED BY <4>2, <4>3
      <3>7. CASE d # c
        BY <2>7, <2>8, <3>1, <3>2, <3>3, <3>4, <3>5, <3>7
      <3> QED BY <3>6, <3>7
    <2> QED BY <2>9, <2>10, <2>11, <2>12, <2>13
  <1> QED BY <1>1, <1>2

\* container_alloc: one page within the quota, or no change of the container.
LEMMA AllocQuota ==
  ASSUME QuotaInv, NEW id \in UsedIds, container_alloc(id)
  PROVE  QuotaInv'
  <1>1. id \in Ids
    BY DEF UsedIds
  <1>2. PICK page \in Norm \cup {0} :
          /\ palloc(page)
          /\ IF page # 0 /\ CONTAINER[id].usage < CONTAINER[id].quota
             THEN /\ CONTAINER' = [CONTAINER EXCEPT ![id].usage = @ + 1]
                  /\ held' = [held EXCEPT ![id] = @ \cup {page}]
             ELSE UNCHANGED <<CONTAINER, held>>
    BY DEF container_alloc
  <1>3. page \in Nat
    BY PageAssumption
  <1>4. allocated' \subseteq Nat
    BY <1>2, <1>3 DEF palloc, QuotaInv, TypeOK
  <1>5. CASE page # 0 /\ CONTAINER[id].usage < CONTAINER[id].quota
    <2>1. /\ CONTAINER[id].usage \in Nat
          /\ CONTAINER[id].quota \in Nat
      BY <1>1 DEF QuotaInv, TypeOK, Container
    <2>2. held' \in [Ids -> SUBSET Nat]
      BY <1>2, <1>3, <1>5 DEF QuotaInv, TypeOK
    <2> QED BY <1>1, <1>2, <1>4, <1>5, <2>1, <2>2, UsageStep
  <1>6. CASE ~(page # 0 /\ CONTAINER[id].usage < CONTAINER[id].quota)
    <2>1. UNCHANGED <<CONTAINER, held>>
      BY <1>2, <1>6
    <2> QED BY <1>4, <2>1 DEF QuotaInv, TypeOK, UsageWithinQuota,
                              QuotaBounded, UnusedIsBlank, ContainerTree
  <1> QED BY <1>5, <1>6

\* container_consecutive_alloc: even when usage + len wraps, the usage that
\* is stored is the wrapped sum that was compared with the quota.
LEMMA ConsecutiveQuota ==
  ASSUME QuotaInv, NEW id \in UsedIds, NEW len \in Lens,
         container_consecutive_alloc(id, len)
  PROVE  QuotaInv'
  <1> DEFINE sum == (CONTAINER[id].usage + len) % WORD
  <1>1. id \in Ids /\ len \in Nat /\ WORD \in Nat /\ 0 < WORD
    BY ContainerAssumption, RealQuotaType DEF UsedIds
  <1>2. /\ CONTAINER[id].usage \in Nat
        /\ CONTAINER[id].quota \in Nat
    BY <1>1 DEF QuotaInv, TypeOK, Container
  <1>3. sum \in Nat
    BY <1>1, <1>2, ModType
  <1>4. CASE UNCHANGED vars
    BY <1>4 DEF vars, QuotaInv, TypeOK, UsageWithinQuota, QuotaBounded,
                UnusedIsBlank, ContainerTree
  <1>5. ASSUME sum <= CONTAINER[id].quota,
               NEW page \in Norm \cup {0, VM_USERLO_PI},
               consecutive_palloc(len, page),
               IF page # 0 /\ CONTAINER[id].usage < CONTAINER[id].quota
               THEN /\ CONTAINER' = [CONTAINER EXCEPT ![id].usage = sum]
                    /\ held' = [held EXCEPT ![id] = @ \cup PageRun(page, len)]
               ELSE UNCHANGED <<CONTAINER, held>>
        PROVE  QuotaInv'
    <2>1. page \in Nat
      BY PageAssumption
    <2>2. \A n : PageRun(page, n) \subseteq Nat
      BY <2>1 DEF PageRun
    <2>3. allocated' \subseteq Nat
      BY <1>5, <2>2 DEF consecutive_palloc, QuotaInv, TypeOK
    <2>4. CASE page # 0 /\ CONTAINER[id].usage < CONTAINER[id].quota
      <3>1. held' \in [Ids -> SUBSET Nat]
        BY <1>5, <2>2, <2>4 DEF QuotaInv, TypeOK
      <3> QED BY <1>1, <1>3, <1>5, <2>3, <2>4, <3>1, UsageStep
    <2>5. CASE ~(page # 0 /\ CONTAINER[id].usage < CONTAINER[id].quota)
      <3>1. UNCHANGED <<CONTAINER, held>>
        BY <1>5, <2>5
      <3> QED BY <2>3, <3>1 DEF QuotaInv, TypeOK, UsageWithinQuota,
                                QuotaBounded, UnusedIsBlank, ContainerTree
    <2> QED BY <2>4, <2>5
  <1> QED BY <1>4, <1>5 DEF container_consecutive_alloc

\* Every step of the running kernel keeps the quota invariant.
LEMMA NextQuota == QuotaInv /\ [KernelNext]_vars => QuotaInv'
  <1> SUFFICES ASSUME QuotaInv, [KernelNext]_vars PROVE QuotaInv'
    OBVIOUS
  <1>1. ASSUME NEW id \in UsedIds, NEW quota \in 0 .. RealQuota,
               alloc_mem_quota(id, quota)
        PROVE  QuotaInv'
    <2>1. quota \in Nat
      BY RealQuotaType
    <2> QED BY <1>1, <2>1, SplitQuota
  <1>2. ASSUME NEW id \in UsedIds, container_alloc(id)
        PROVE  QuotaInv'
    BY <1>2, AllocQuota
  <1>3. ASSUME NEW id \in UsedIds, NEW len \in Lens,
               container_consecutive_alloc(id, len)
        PROVE  QuotaInv'
    BY <1>3, ConsecutiveQuota
  <1>4. CASE UNCHANGED vars
    BY <1>4 DEF vars, QuotaInv, TypeOK, UsageWithinQuota, QuotaBounded,
                UnusedIsBlank, ContainerTree
  <1> QED BY <1>1, <1>2, <1>3, <1>4 DEF KernelNext

\* In the running kernel the containers are well formed and no process ever
\* uses more than its quota, whatever lengths it asks for, lengths that wrap
\* the unsigned sum of container_consecutive_alloc included.
THEOREM QuotaSafe == KernelSpec => [](TypeOK /\ UsageWithinQuota)
  <1>1. QuotaInv => TypeOK /\ UsageWithinQuota
    BY DEF QuotaInv
  <1> QED BY <1>1, InitQuota, NextQuota, PTL DEF KernelSpec

\* The index arithmetic of container_split gives every container its own
\* child slots: in the running kernel the containers form a tree, of which
\* the fields nchildren and parent are two consistent views.
THEOREM TreeSafe == KernelSpec => []ContainerTree
  <1>1. QuotaInv => ContainerTree
    BY DEF QuotaInv
  <1> QED BY <1>1, InitQuota, NextQuota, PTL DEF KernelSpec

\* container_split never takes over a container that is in use, so a process
\* keeps its quota and its parent for ever.
THEOREM SplitFresh == KernelSpec => SplitNeverReuses
  <1> DEFINE Kept == \A i \in UsedIds :
                       /\ CONTAINER'[i].used = 1
                       /\ CONTAINER'[i].quota = CONTAINER[i].quota
                       /\ CONTAINER'[i].parent = CONTAINER[i].parent
  <1>1. QuotaInv /\ [KernelNext]_vars => [Kept]_vars
    <2> SUFFICES ASSUME QuotaInv, KernelNext, NEW i \in UsedIds
                 PROVE  /\ CONTAINER'[i].used = 1
                        /\ CONTAINER'[i].quota = CONTAINER[i].quota
                        /\ CONTAINER'[i].parent = CONTAINER[i].parent
      OBVIOUS
    <2>1. /\ i \in Ids /\ CONTAINER[i].used = 1
          /\ CONTAINER \in [Ids -> Container]
      BY DEF UsedIds, QuotaInv, TypeOK
    <2>3. ASSUME NEW id \in UsedIds, NEW quota \in 0 .. RealQuota,
                 alloc_mem_quota(id, quota)
          PROVE  /\ CONTAINER'[i].used = 1
                 /\ CONTAINER'[i].quota = CONTAINER[i].quota
                 /\ CONTAINER'[i].parent = CONTAINER[i].parent
      <3> DEFINE c == ChildId(id, CONTAINER[id].nchildren)
      <3>1. CASE UNCHANGED CONTAINER
        BY <2>1, <3>1
      <3>2. CASE ~UNCHANGED CONTAINER
        <4>1. /\ CONTAINER[id].nchildren < MAX_CHILDREN
              /\ c < NUM_IDS
              /\ CONTAINER' = [CONTAINER EXCEPT
                   ![id].nchildren = @ + 1,
                   ![id].usage = @ + quota,
                   ![c] = [quota |-> quota, usage |-> 0, parent |-> id,
                           nchildren |-> 0, used |-> 1]]
          BY <2>3, <3>2 DEF alloc_mem_quota, container_split
        <4>2. c \in Ids /\ CONTAINER[c] = Unused
          BY <2>3, <4>1, FreshChild
        <4>3. i # c
          BY <2>1, <4>2 DEF Unused
        <4> QED BY <2>1, <4>1, <4>3 DEF Container
      <3> QED BY <3>1, <3>2
    <2>4. ASSUME NEW id \in UsedIds, container_alloc(id)
          PROVE  /\ CONTAINER'[i].used = 1
                 /\ CONTAINER'[i].quota = CONTAINER[i].quota
                 /\ CONTAINER'[i].parent = CONTAINER[i].parent
      BY <2>1, <2>4 DEF container_alloc, Container
    <2>5. ASSUME NEW id \in UsedIds, NEW len \in Lens,
                 container_consecutive_alloc(id, len)
          PROVE  /\ CONTAINER'[i].used = 1
                 /\ CONTAINER'[i].quota = CONTAINER[i].quota
                 /\ CONTAINER'[i].parent = CONTAINER[i].parent
      BY <2>1, <2>5 DEF container_consecutive_alloc, Container, vars
    <2> QED BY <2>3, <2>4, <2>5 DEF KernelNext
  <1> QED BY <1>1, InitQuota, NextQuota, PTL DEF KernelSpec, SplitNeverReuses

-----------------------------------------------------------------------------
\* A process that is handed a run of pages which starts at the first free
\* page, all of them marked: the run is disjoint from what anybody owns, and
\* the pages still free lie above it.
LEMMA GrantRun ==
  ASSUME QuotaInv, OwnershipInv, NEW id \in Ids, NEW n \in Nat,
         NEW page \in Norm, FirstFree(page),
         allocated' = allocated \cup PageRun(page, n),
         held' = [held EXCEPT ![id] = @ \cup PageRun(page, n)]
  PROVE  OwnershipInv'
  <1>1. held \in [Ids -> SUBSET Nat] /\ page \in Nat
    BY PageAssumption DEF QuotaInv, TypeOK
  <1>2. \A p : p \in PageRun(page, n) => p \in Int /\ page <= p /\ p < page + n
    BY <1>1 DEF PageRun
  <1>3. \A p \in Nat : page <= p /\ p < page + n => p \in PageRun(page, n)
    BY <1>1 DEF PageRun
  <1>4. \A i \in Ids : held'[i] =
          IF i = id THEN held[i] \cup PageRun(page, n) ELSE held[i]
    BY Zenon, <1>1
  <1>5. \A i \in Ids : \A p \in held[i] : p < page
    BY DEF FirstFree, OwnershipInv, FreeAboveHeld
  <1>6. HeldIsAllocated'
    BY <1>4 DEF HeldIsAllocated, OwnershipInv
  <1>7. FreeAboveHeld'
    <2> SUFFICES ASSUME NEW i \in Ids, NEW p \in held'[i], NEW q \in FreePages'
                 PROVE  p < q
      BY DEF FreeAboveHeld
    <2>1. q \in FreePages /\ q \notin PageRun(page, n) /\ q \in Nat
      BY PageAssumption DEF FreePages
    <2>2. page <= q
      BY <2>1 DEF FirstFree
    <2>3. page + n <= q
      BY <1>1, <1>3, <2>1, <2>2
    <2>4. CASE p \in held[i]
      BY <2>1, <2>4 DEF OwnershipInv, FreeAboveHeld
    <2>5. CASE p \in PageRun(page, n)
      BY <1>1, <1>2, <2>1, <2>3, <2>5
    <2> QED BY <1>4, <2>4, <2>5
  <1>8. NoDoubleGrant'
    <2>1. \A i \in Ids : held[i] \cap PageRun(page, n) = {}
      BY <1>1, <1>2, <1>5
    <2> QED BY <1>4, <2>1 DEF NoDoubleGrant, OwnershipInv
  <1> QED BY <1>6, <1>7, <1>8 DEF OwnershipInv

\* A step that hands out nothing and frees nothing.
LEMMA NoGrant ==
  ASSUME OwnershipInv, UNCHANGED held, allocated \subseteq allocated'
  PROVE  OwnershipInv'
  BY DEF OwnershipInv, HeldIsAllocated, FreeAboveHeld, NoDoubleGrant, FreePages

\* When requests do not wrap and the user area has room, consecutive_palloc
\* marks exactly the pages the caller will use.
LEMMA MarksAll ==
  ASSUME QuotaInv, RoomAbove, RequestsDoNotWrap,
         NEW id \in Ids, NEW len \in Lens, NEW page \in Norm,
         (CONTAINER[id].usage + len) % WORD <= CONTAINER[id].quota
  PROVE  RunMarked(page, len) = len
  <1>1. /\ CONTAINER[id].usage \in Nat /\ CONTAINER[id].quota \in Nat
        /\ CONTAINER[id].usage <= CONTAINER[id].quota
        /\ CONTAINER[id].quota <= RealQuota
    BY DEF QuotaInv, TypeOK, Container, UsageWithinQuota, QuotaBounded
  <1>2. len \in Nat /\ page \in Nat
    BY ContainerAssumption, PageAssumption
  <1>3. CONTAINER[id].usage + len < WORD
    <2>1. RealQuota \in Nat /\ WORD \in Nat /\ len + RealQuota < WORD
      BY RealQuotaType, ContainerAssumption DEF RequestsDoNotWrap
    <2> QED BY <1>1, <1>2, <2>1
  <1>4. CONTAINER[id].usage + len <= CONTAINER[id].quota
    <2>1. CONTAINER[id].usage + len \in Nat /\ WORD \in Nat
      BY <1>1, <1>2, ContainerAssumption
    <2>2. (CONTAINER[id].usage + len) % WORD = CONTAINER[id].usage + len
      BY <1>3, <2>1, ModBelow
    <2> QED BY <2>2
  <1>5. len <= VM_USERHI_PI - page
    <2>1. /\ RealQuota \in Nat /\ VM_USERHI_PI \in Nat
          /\ page + RealQuota <= VM_USERHI_PI
      BY RealQuotaType, PageAssumption DEF RoomAbove
    <2> QED BY <1>1, <1>2, <1>4, <2>1
  <1> QED BY <1>5 DEF RunMarked

\* Every step of the running kernel keeps ownership exclusive.
LEMMA NextOwnership ==
  ASSUME RoomAbove, RequestsDoNotWrap, QuotaInv, OwnershipInv,
         [KernelNext]_vars
  PROVE  OwnershipInv'
  <1>1. ASSUME NEW id \in UsedIds, NEW quota \in 0 .. RealQuota,
               alloc_mem_quota(id, quota)
        PROVE  OwnershipInv'
    BY <1>1, NoGrant DEF alloc_mem_quota
  <1>2. ASSUME NEW id \in UsedIds, container_alloc(id)
        PROVE  OwnershipInv'
    <2>1. PICK page \in Norm \cup {0} :
            /\ palloc(page)
            /\ IF page # 0 /\ CONTAINER[id].usage < CONTAINER[id].quota
               THEN held' = [held EXCEPT ![id] = @ \cup {page}]
               ELSE UNCHANGED held
      BY <1>2 DEF container_alloc
    <2>2. CASE UNCHANGED held
      BY <2>1, <2>2, NoGrant DEF palloc
    <2>3. CASE ~UNCHANGED held
      <3>1. /\ page # 0
            /\ held' = [held EXCEPT ![id] = @ \cup {page}]
        BY <2>1, <2>3
      <3>2. /\ page \in Norm /\ FirstFree(page)
            /\ allocated' = allocated \cup {page}
        BY <2>1, <3>1 DEF palloc, FirstFree, FreePages
      <3>3. PageRun(page, 1) = {page}
        BY <3>2, PageAssumption DEF PageRun
      <3>4. id \in Ids
        BY DEF UsedIds
      <3> QED BY Zenon, <3>1, <3>2, <3>3, <3>4, GrantRun
    <2> QED BY <2>2, <2>3
  <1>3. ASSUME NEW id \in UsedIds, NEW len \in Lens,
               container_consecutive_alloc(id, len)
        PROVE  OwnershipInv'
    <2>1. len \in Nat /\ id \in Ids
      BY ContainerAssumption DEF UsedIds
    <2>2. CASE UNCHANGED vars
      BY <2>2, NoGrant DEF vars
    <2>3. CASE ~UNCHANGED vars
      <3>1. (CONTAINER[id].usage + len) % WORD <= CONTAINER[id].quota
        BY <1>3, <2>3 DEF container_consecutive_alloc
      <3>2. PICK page \in Norm \cup {0, VM_USERLO_PI} :
              /\ consecutive_palloc(len, page)
              /\ IF page # 0 /\ CONTAINER[id].usage < CONTAINER[id].quota
                 THEN held' = [held EXCEPT ![id] = @ \cup PageRun(page, len)]
                 ELSE UNCHANGED held
        BY <1>3, <2>3 DEF container_consecutive_alloc
      <3>3. allocated \subseteq allocated'
        BY <3>2 DEF consecutive_palloc
      <3>4. CASE UNCHANGED held
        BY <3>3, <3>4, NoGrant
      <3>5. CASE ~UNCHANGED held
        <4>1. /\ page # 0
              /\ held' = [held EXCEPT ![id] = @ \cup PageRun(page, len)]
          BY <3>2, <3>5
        <4>2. CASE len = 0
          <5>1. PageRun(page, len) = {}
            BY <4>2, PageAssumption DEF PageRun
          <5>2. held \in [Ids -> SUBSET Nat]
            BY DEF QuotaInv, TypeOK
          <5> QED BY <3>5, <4>1, <5>1, <5>2
        <4>3. CASE len # 0
          <5>1. /\ FirstFree(page) /\ page \in Norm
                /\ allocated' = allocated \cup
                                  PageRun(page, RunMarked(page, len))
            BY <2>1, <3>2, <4>1, <4>3
               DEF consecutive_palloc, FirstFree, FreePages
          <5>2. RunMarked(page, len) = len
            BY <2>1, <3>1, <5>1, MarksAll
          <5> QED BY Zenon, <2>1, <4>1, <5>1, <5>2, GrantRun
        <4> QED BY <4>2, <4>3
      <3> QED BY <3>4, <3>5
    <2> QED BY <2>2, <2>3
  <1>4. CASE UNCHANGED vars
    BY <1>4, NoGrant DEF vars
  <1> QED BY <1>1, <1>2, <1>3, <1>4 DEF KernelNext

\* In the running kernel no physical page is ever owned by two processes and
\* every page owned is marked in the allocation table: as nothing is freed,
\* consecutive_palloc's missing test of the pages after the first one never
\* matters.
THEOREM OwnershipExclusive ==
  ASSUME RoomAbove, RequestsDoNotWrap
  PROVE  KernelSpec => [](NoDoubleGrant /\ HeldIsAllocated)
  <1>1. container_init => OwnershipInv
    BY DEF container_init, OwnershipInv, HeldIsAllocated, FreeAboveHeld,
           NoDoubleGrant, Ids
  <1>2. QuotaInv /\ OwnershipInv /\ [KernelNext]_vars => OwnershipInv'
    BY NextOwnership
  <1>3. OwnershipInv => NoDoubleGrant /\ HeldIsAllocated
    BY DEF OwnershipInv
  <1> QED BY <1>1, <1>2, <1>3, InitQuota, NextQuota, PTL DEF KernelSpec

=============================================================================
