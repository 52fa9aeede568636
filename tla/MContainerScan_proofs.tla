------------------------ MODULE MContainerScan_proofs ------------------------
(***************************************************************************)
(* Usage is accounted page by page; the loops of palloc and                *)
(* consecutive_palloc do what the one-step operations of MContainer say,   *)
(* for every memory map; and what the layer guarantees to clients that     *)
(* free single pages.                                                      *)
(***************************************************************************)
EXTENDS MContainerScan, MContainer_proofs

-----------------------------------------------------------------------------
\* A multiple of r and a number below r: the remainder is that number.
LEMMA Remainder ==
  ASSUME NEW k \in Nat, NEW r \in Nat, NEW b \in Nat, b < r
  PROVE  (k * r + b) % r = b
  <1> DEFINE a == k * r + b
             d == a \div r
             m == a % r
  <1>1. a \in Nat
    OBVIOUS
  <1> HIDE DEF a
  <1>2. d \in Nat /\ m \in Nat /\ m < r /\ a = r * d + m
    BY <1>1
  <1> HIDE DEF d, m
  <1>3. k * r + b = r * d + m
    BY <1>2 DEF a
  <1>4. k = d
    <2>1. CASE k > d
      <3>1. PICK x \in Nat : k = d + 1 + x
        <4>1. k - d - 1 \in Nat /\ k = d + 1 + (k - d - 1)
          BY <1>2, <2>1
        <4> QED BY <4>1
      <3>2. (d + 1 + x) * r = d * r + r + x * r /\ x * r \in Nat
        BY <1>2, <3>1
      <3> QED BY <1>2, <1>3, <3>1, <3>2
    <2>2. CASE k < d
      <3>1. PICK x \in Nat : d = k + 1 + x
        <4>1. d - k - 1 \in Nat /\ d = k + 1 + (d - k - 1)
          BY <1>2, <2>2
        <4> QED BY <4>1
      <3>2. r * (k + 1 + x) = k * r + r + x * r /\ x * r \in Nat
        BY <1>2, <3>1
      <3> QED BY <1>2, <1>3, <3>1, <3>2
    <2> QED BY <1>2, <2>1, <2>2
  <1>5. m = b
    BY <1>2, <1>3, <1>4
  <1> QED BY <1>5 DEF m, a

\* Complete rounds and a last one of d pages mark d pages.
LEMMA LastRound ==
  ASSUME NEW first \in Nat, first < VM_USERHI_PI, NEW n \in Nat, NEW k \in Nat,
         NEW d \in 1 .. VM_USERHI_PI - first,
         n = k * (VM_USERHI_PI - first) + d
  PROVE  RunMarked(first, n) = d
  <1> DEFINE room == VM_USERHI_PI - first
  <1>1. room \in Nat /\ room > 0
    BY PageAssumption
  <1>2. d \in Nat /\ d - 1 \in Nat /\ d - 1 < room
    BY <1>1
  <1> HIDE DEF room
  <1>3. n - 1 = k * room + (d - 1)
    BY <1>1, <1>2 DEF room
  <1>4. (n - 1) % room = d - 1
    BY ZenonT(40), <1>1, <1>2, <1>3, Remainder
  <1>5. CASE n <= room
    <2>1. k = 0 \/ k * room >= room
      BY <1>1
    <2>2. n = k * room + d /\ k * room \in Nat
      BY <1>1, <1>2 DEF room
    <2>3. k * room = 0
      BY <1>1, <1>2, <1>5, <2>1, <2>2
    <2>4. n = d
      BY <1>2, <2>2, <2>3
    <2> QED BY <1>5, <2>4 DEF RunMarked, room
  <1>6. CASE ~(n <= room)
    BY <1>2, <1>4, <1>6 DEF RunMarked, room
  <1> QED BY <1>5, <1>6

-----------------------------------------------------------------------------
\* The state the loops work on, while a call runs.
LEMMA LoopFrame ==
  ASSUME UNCHANGED vars
  PROVE  /\ FreePages' = FreePages /\ UsedIds' = UsedIds
         /\ \A id, n : Sum(id, n)' = Sum(id, n)
         /\ \A id : CONTAINER'[id].quota = CONTAINER[id].quota
  BY DEF vars, FreePages, UsedIds, Sum

\* A call that returns leaves nothing to show.
LEMMA IdleLoop ==
  ASSUME pc' = "idle"
  PROVE  LoopInv'
  BY DEF LoopInv

\* Every iteration keeps the invariant of the loops.
LEMMA LoopNext ==
  ASSUME LoopInv, [Next]_scanVars
  PROVE  LoopInv'
  <1> USE PageAssumption
  <1>1. VM_USERLO_PI \in Nat /\ VM_USERHI_PI \in Nat /\ VM_USERLO_PI < VM_USERHI_PI
    OBVIOUS
  <1>2. Lens \subseteq Nat
    BY ContainerAssumption
  <1>3. \A p \in FreePages : p \in VM_USERLO_PI .. VM_USERHI_PI - 1
    BY DEF FreePages
  <1>4. CASE palloc_loop
    <2>1. CASE i \notin FreePages
      <3>1. /\ pc = "palloc" /\ i < VM_USERHI_PI /\ i' = i + 1
            /\ UNCHANGED <<vars, pc, caller, page_num>>
        BY <1>4, <2>1 DEF palloc_loop
      <3>2. /\ caller \in UsedIds /\ i \in VM_USERLO_PI .. VM_USERHI_PI
            /\ \A p \in FreePages : i <= p
            /\ page_num = 1
        BY <3>1 DEF LoopInv
      <3>3. /\ i' \in VM_USERLO_PI .. VM_USERHI_PI
            /\ \A p \in FreePages : i' <= p
        BY <1>1, <1>3, <2>1, <3>1, <3>2
      <3> QED BY <3>1, <3>2, <3>3, LoopFrame DEF LoopInv
    <2>2. CASE i \in FreePages
      BY <1>4, <2>2, IdleLoop DEF palloc_loop, Idle
    <2> QED BY <2>1, <2>2
  <1>5. CASE palloc_fails
    BY <1>5, IdleLoop DEF palloc_fails, Idle
  <1>6. CASE OuterLoop
    <2>1. CASE i < VM_USERHI_PI
      <3>1. /\ pc = "outer" /\ end' = i /\ pc' = "inner"
            /\ UNCHANGED <<vars, caller, page_num, cnt, i, runs>>
        BY <1>6, <2>1 DEF OuterLoop
      <3>2. /\ caller \in UsedIds /\ i \in VM_USERLO_PI .. VM_USERHI_PI
            /\ \A p \in FreePages : i <= p
            /\ page_num \in Lens /\ cnt \in 0 .. page_num
            /\ Sum(caller, page_num) <= CONTAINER[caller].quota
            /\ page_num = 0 => i = VM_USERLO_PI
            /\ cnt < page_num => i \in FreePages
            /\ page_num > 1 => runs
            /\ Rounds(0) /\ (cnt = 0 => page_num = 0)
        BY <3>1 DEF LoopInv
      <3>3. Counting'
        <4>1. PICK k \in Nat : page_num = cnt + k * (VM_USERHI_PI - i) + 0
          BY <3>2 DEF Rounds
        <4>2. i \in Nat /\ end' - i' = 0
          BY <1>1, <3>1, <3>2
        <4>3. page_num' = cnt' + k * (VM_USERHI_PI - i') + (end' - i')
          BY <3>1, <4>1, <4>2
        <4>4. Rounds(end - i)'
          BY <4>3 DEF Rounds
        <4>5. page_num \in Nat
          BY <1>2, <3>2
        <4> QED BY <2>1, <3>1, <3>2, <4>2, <4>4, <4>5 DEF Counting
      <3> QED BY <3>1, <3>2, <3>3, LoopFrame DEF LoopInv
    <2>2. CASE ~(i < VM_USERHI_PI)
      BY <1>6, <2>2, IdleLoop DEF OuterLoop, Idle
    <2> QED BY <2>1, <2>2
  <1>7. CASE InnerLoop
    <2>1. /\ pc = "inner" /\ end < VM_USERHI_PI /\ cnt > 0
          /\ UNCHANGED <<vars, caller, page_num, runs>>
      BY <1>7 DEF InnerLoop
    <2>2. /\ caller \in UsedIds /\ i \in VM_USERLO_PI .. VM_USERHI_PI
          /\ \A p \in FreePages : i <= p
          /\ page_num \in Lens /\ cnt \in 0 .. page_num
          /\ Sum(caller, page_num) <= CONTAINER[caller].quota
          /\ page_num = 0 => i = VM_USERLO_PI
          /\ cnt < page_num => i \in FreePages
          /\ page_num > 1 => runs
          /\ Counting
      BY <2>1 DEF LoopInv
    <2>3. /\ page_num \in Nat /\ i \in Nat /\ cnt \in Nat /\ end \in Nat
          /\ i < VM_USERHI_PI /\ i <= end
      BY <1>1, <1>2, <2>2 DEF Counting
    <2>4. PICK k \in Nat : page_num = cnt + k * (VM_USERHI_PI - i) + (end - i)
      BY <2>2 DEF Counting, Rounds
    <2>5. k * (VM_USERHI_PI - i) \in Nat
      BY <1>1, <2>3
    <2>6. CASE i \notin FreePages
      <3>1. cnt' = page_num /\ i' = end + 1 /\ pc' = "found?"
        BY <1>7, <2>6 DEF InnerLoop
      <3>2. cnt = page_num
        BY <2>2, <2>3, <2>6
      <3>3. end = i
        BY <2>3, <2>4, <2>5, <3>2
      <3>4. /\ i' \in VM_USERLO_PI .. VM_USERHI_PI
            /\ \A p \in FreePages : i' <= p
        BY <1>1, <1>3, <2>1, <2>2, <2>6, <3>1, <3>3
      <3>5. cnt' \in 0 .. page_num' /\ page_num' # 0 /\ cnt' > 0 /\ ~(cnt' < page_num')
        BY <2>1, <2>3, <3>1, <3>2
      <3> QED BY <2>1, <2>2, <3>1, <3>4, <3>5, LoopFrame DEF LoopInv
    <2>7. CASE i \in FreePages
      <3>1. cnt' = cnt - 1 /\ end' = end + 1 /\ i' = i /\ pc' = "inner"
        BY <1>7, <2>1, <2>7 DEF InnerLoop
      <3>2. Counting'
        <4>1. page_num' = cnt' + k * (VM_USERHI_PI - i') + (end' - i')
          BY <2>1, <2>3, <2>4, <2>5, <3>1
        <4>2. Rounds(end - i)'
          BY <4>1 DEF Rounds
        <4>3. end' \in i' .. VM_USERHI_PI /\ end' > i'
          BY <1>1, <2>1, <2>3, <3>1
        <4> QED BY <2>3, <3>1, <4>2, <4>3 DEF Counting
      <3>3. cnt' \in 0 .. page_num'
        BY <2>1, <2>2, <2>3, <3>1
      <3> QED BY Zenon, <2>1, <2>2, <2>7, <3>1, <3>2, <3>3, LoopFrame DEF LoopInv
    <2> QED BY <2>6, <2>7
  <1>8. CASE InnerLoopExit
    <2>1. /\ pc = "inner" /\ pc' = "found?" /\ ~(end < VM_USERHI_PI /\ cnt > 0)
          /\ UNCHANGED <<vars, caller, page_num, cnt, i, end, runs>>
      BY <1>8 DEF InnerLoopExit
    <2>2. Counting /\ Counting'
      BY <2>1 DEF LoopInv, Counting, Rounds
    <2>3. cnt > 0 => end = VM_USERHI_PI
      BY <1>1, <2>1, <2>2 DEF Counting, LoopInv
    <2> QED BY <2>1, <2>2, <2>3, LoopFrame DEF LoopInv
  <1>9. CASE Found
    <2>1. CASE cnt = 0
      BY <1>9, <2>1, IdleLoop DEF Found, Idle
    <2>2. CASE cnt # 0
      <3>1. /\ pc = "found?" /\ pc' = "outer"
            /\ UNCHANGED <<vars, caller, page_num, cnt, i, end, runs>>
        BY <1>9, <2>2 DEF Found
      <3>2. /\ page_num \in Nat /\ i \in Nat /\ cnt \in Nat
        <4>1. /\ page_num \in Lens /\ cnt \in 0 .. page_num
              /\ i \in VM_USERLO_PI .. VM_USERHI_PI
          BY <3>1 DEF LoopInv
        <4> QED BY <1>1, <1>2, <4>1
      <3>3. Rounds(0)
        <4>1. CASE cnt = page_num
          <5>1. page_num = cnt + 0 * (VM_USERHI_PI - i) + 0
            BY <1>1, <3>2, <4>1
          <5> QED BY <5>1 DEF Rounds
        <4>2. CASE cnt # page_num
          <5>1. Counting /\ end = VM_USERHI_PI
            BY <2>2, <3>1, <3>2, <4>2 DEF LoopInv
          <5>2. PICK k \in Nat : page_num = cnt + k * (VM_USERHI_PI - i) + (end - i)
            BY <5>1 DEF Counting, Rounds
          <5>3. page_num = cnt + (k + 1) * (VM_USERHI_PI - i) + 0
            BY <1>1, <3>2, <5>1, <5>2
          <5> QED BY <5>3 DEF Rounds
        <4> QED BY <4>1, <4>2
      <3>4. Rounds(0)'
        BY <3>1, <3>3 DEF Rounds
      <3> QED BY <2>2, <3>1, <3>4, LoopFrame DEF LoopInv
    <2> QED BY <2>1, <2>2
  <1>10. ASSUME NEW id \in UsedIds, palloc_call(id)
         PROVE  LoopInv'
    <2>1. UNCHANGED vars /\ pc' = "palloc" /\ caller' = id /\ page_num' = 1
          /\ i' = VM_USERLO_PI
      BY <1>10 DEF palloc_call
    <2>2. i' \in VM_USERLO_PI .. VM_USERHI_PI /\ \A p \in FreePages : i' <= p
      BY <1>1, <1>3, <2>1
    <2> QED BY <2>1, <2>2, LoopFrame DEF LoopInv
  <1>11. ASSUME NEW id \in UsedIds, NEW len \in Lens, consecutive_palloc_call(id, len)
         PROVE  LoopInv'
    <2>1. /\ UNCHANGED vars /\ pc' = "outer" /\ caller' = id /\ page_num' = len
          /\ cnt' = len /\ i' = VM_USERLO_PI
          /\ Sum(id, len) <= CONTAINER[id].quota
          /\ len > 1 => runs'
      BY Zenon, <1>11 DEF consecutive_palloc_call
    <2>2. i' \in VM_USERLO_PI .. VM_USERHI_PI /\ \A p \in FreePages : i' <= p
      BY <1>1, <1>3, <2>1
    <2>3. len \in Nat
      BY <1>2
    <2>4. Rounds(0)'
      <3>1. page_num' = cnt' + 0 * (VM_USERHI_PI - i') + 0
        BY <1>1, <2>1, <2>3
      <3> QED BY <3>1 DEF Rounds
    <2>5. cnt' \in 0 .. page_num' /\ ~(cnt' < page_num')
      BY <2>1, <2>3
    <2> QED BY <2>1, <2>2, <2>4, <2>5, LoopFrame DEF LoopInv
  <1>12. CASE Others
    BY <1>12, IdleLoop DEF Others, locals
  <1>13. CASE UNCHANGED scanVars
    <2>1. UNCHANGED vars /\ UNCHANGED <<pc, caller, page_num, cnt, i, end, runs>>
      BY <1>13 DEF scanVars, locals
    <2> QED BY <2>1, LoopFrame DEF LoopInv, Counting, Rounds
  <1> QED BY <1>4, <1>5, <1>6, <1>7, <1>8, <1>9, <1>10, <1>11, <1>12, <1>13
          DEF Next, Scan


-----------------------------------------------------------------------------
\* What palloc_loop does when it has found a page is container_alloc.
LEMMA PallocFinds ==
  ASSUME LoopInv, palloc_loop, i \in FreePages
  PROVE  caller \in UsedIds /\ container_alloc(caller)
  <1>1. /\ pc = "palloc"
        /\ allocated' = allocated \cup {i}
        /\ IF Room(caller)
           THEN /\ CONTAINER' = [CONTAINER EXCEPT ![caller].usage = @ + 1]
                /\ held' = [held EXCEPT ![caller] = @ \cup {i}]
           ELSE UNCHANGED <<CONTAINER, held>>
    BY DEF palloc_loop
  <1>2. caller \in UsedIds /\ \A p \in FreePages : i <= p
    BY <1>1 DEF LoopInv
  <1>3. i \in Norm /\ i # 0
    BY PageAssumption DEF FreePages
  <1>4. palloc(i)
    BY <1>1, <1>2 DEF palloc, FirstFree
  <1> QED BY <1>1, <1>2, <1>3, <1>4 DEF container_alloc, Room

\* What Found does when the count is zero is container_consecutive_alloc.
LEMMA FoundRun ==
  ASSUME LoopInv, Found, cnt = 0
  PROVE  /\ caller \in UsedIds /\ page_num \in Lens
         /\ container_consecutive_alloc(caller, page_num)
         /\ page_num > 1 => runs
  <1>1. /\ pc = "found?"
        /\ allocated' = allocated \cup i .. end - 1
        /\ IF Room(caller)
           THEN /\ CONTAINER' = [CONTAINER EXCEPT
                                   ![caller].usage = Sum(caller, page_num)]
                /\ held' = [held EXCEPT ![caller] = @ \cup PageRun(i, page_num)]
           ELSE UNCHANGED <<CONTAINER, held>>
    BY DEF Found
  <1>2. /\ caller \in UsedIds /\ page_num \in Lens
        /\ i \in VM_USERLO_PI .. VM_USERHI_PI
        /\ \A p \in FreePages : i <= p
        /\ Sum(caller, page_num) <= CONTAINER[caller].quota
        /\ page_num = 0 => i = VM_USERLO_PI
        /\ 0 < page_num => i \in FreePages
        /\ page_num > 1 => runs
        /\ Counting
    BY <1>1 DEF LoopInv
  <1>3. /\ page_num \in Nat /\ i \in Nat /\ end \in Nat /\ i # 0
        /\ i < VM_USERHI_PI /\ end \in i .. VM_USERHI_PI
        /\ VM_USERLO_PI \in Nat /\ VM_USERHI_PI \in Nat
    BY <1>2, PageAssumption, ContainerAssumption DEF Counting
  <1>4. PICK k \in Nat : page_num = 0 + k * (VM_USERHI_PI - i) + (end - i)
    BY <1>2 DEF Counting, Rounds
  <1>5. consecutive_palloc(page_num, i)
    <2>1. CASE page_num = 0
      <3>1. k * (VM_USERHI_PI - i) \in Nat
        BY <1>3
      <3>2. end = i
        BY <1>3, <1>4, <2>1, <3>1
      <3>3. i .. end - 1 = {}
        BY <1>3, <3>2
      <3> QED BY <1>1, <1>2, <2>1, <3>3 DEF consecutive_palloc
    <2>2. CASE page_num > 0
      <3>1. end - i \in 1 .. VM_USERHI_PI - i
        BY <1>2, <1>3, <2>2 DEF Counting
      <3>2. page_num = k * (VM_USERHI_PI - i) + (end - i)
        BY <1>3, <1>4
      <3>3. RunMarked(i, page_num) = end - i
        BY <1>3, <3>1, <3>2, LastRound
      <3>4. PageRun(i, end - i) = i .. end - 1
        BY <1>3 DEF PageRun
      <3> QED BY Zenon, <1>1, <1>2, <2>2, <3>3, <3>4 DEF consecutive_palloc, FirstFree
    <2> QED BY <1>3, <2>1, <2>2
  <1>6. i \in Norm \cup {0, VM_USERLO_PI}
    BY <1>2, <1>3 DEF FreePages
  <1> QED BY <1>1, <1>2, <1>3, <1>5, <1>6
          DEF container_consecutive_alloc, Room, Sum

\* A step of the loops is a step of the layer, or changes nothing there.
LEMMA LoopRefines ==
  ASSUME LoopInv, [Next]_scanVars
  PROVE  [LayerNext]_vars
  <1>1. CASE palloc_loop
    <2>1. CASE i \in FreePages
      BY <1>1, <2>1, PallocFinds DEF LayerNext, KernelNext
    <2>2. CASE i \notin FreePages
      BY <1>1, <2>2 DEF palloc_loop
    <2> QED BY <2>1, <2>2
  <1>2. CASE Found
    <2>1. CASE cnt = 0
      BY SMTT(30), <1>2, <2>1, FoundRun DEF LayerNext, KernelNext
    <2>2. CASE cnt # 0
      BY <1>2, <2>2 DEF Found
    <2> QED BY <2>1, <2>2
  <1>3. CASE Others
    BY <1>3 DEF Others, LayerNext, KernelNext
  <1>4. CASE palloc_fails \/ OuterLoop \/ InnerLoop \/ InnerLoopExit
    BY <1>4 DEF palloc_fails, OuterLoop, InnerLoop, InnerLoopExit
  <1>5. ASSUME NEW id \in UsedIds, palloc_call(id)
        PROVE  UNCHANGED vars
    BY <1>5 DEF palloc_call
  <1>6. ASSUME NEW id \in UsedIds, NEW len \in Lens, consecutive_palloc_call(id, len)
        PROVE  UNCHANGED vars
    BY <1>6 DEF consecutive_palloc_call
  <1>7. CASE UNCHANGED scanVars
    BY <1>7 DEF scanVars
  <1> QED BY <1>1, <1>2, <1>3, <1>4, <1>5, <1>6, <1>7 DEF Next, Scan

\* The loops of palloc and consecutive_palloc implement the one-step
\* operations of MContainer: whatever holes the allocation table has and
\* however long the request is, they find the same page, mark the same pages
\* (the rounds started again without resetting cnt included) and charge the
\* same container.
THEOREM ScanImplementsLayer == Spec => ImplementsLayer
  <1>1. Init => container_init /\ LoopInv
    BY DEF Init, LoopInv
  <1> QED BY <1>1, LoopNext, LoopRefines, PTL DEF Spec, ImplementsLayer, LayerSpec


-----------------------------------------------------------------------------
INSTANCE FiniteSetTheorems

\* A step that changes neither a quota nor who is whose child leaves the
\* quota dedicated to children alone.
LEMMA DedicatedFrame ==
  ASSUME \A d \in Ids : /\ CONTAINER'[d].quota = CONTAINER[d].quota
                        /\ CONTAINER'[d].used = CONTAINER[d].used
                        /\ CONTAINER'[d].parent = CONTAINER[d].parent
  PROVE  /\ UsedIds' = UsedIds
         /\ \A d, k : Dedicated(d, k)' = Dedicated(d, k)
  <1>1. UsedIds' = UsedIds
    BY DEF UsedIds
  <1>2. \A c \in UsedIds : c \in Ids
    BY DEF UsedIds
  <1> QED BY <1>1, <1>2 DEF Dedicated, ChildId

\* What a process has dedicated is a number.
LEMMA DedicatedType ==
  ASSUME TypeOK, NEW d, NEW k
  PROVE  Dedicated(d, k) \in Nat
  BY DEF TypeOK, Dedicated, UsedIds, Container

\* Pages change hands, and the usage changes by as many.
LEMMA AccountStep ==
  ASSUME AccountInv, CONTAINER \in [Ids -> Container], TypeOK,
         NEW id \in UsedIds, NEW h, IsFiniteSet(h),
         NEW u \in Int,
         u = CONTAINER[id].usage + Cardinality(h) - Cardinality(held[id]),
         CONTAINER' = [CONTAINER EXCEPT ![id].usage = u],
         held' = [held EXCEPT ![id] = h]
  PROVE  AccountInv'
  <1>1. id \in Ids /\ CONTAINER[id].used = 1
    BY DEF UsedIds
  <1>2. \A d \in Ids : /\ CONTAINER'[d].quota = CONTAINER[d].quota
                       /\ CONTAINER'[d].used = CONTAINER[d].used
                       /\ CONTAINER'[d].parent = CONTAINER[d].parent
                       /\ CONTAINER'[d].usage =
                            IF d = id THEN u ELSE CONTAINER[d].usage
    BY DEF Container
  <1>3. \A d \in Ids : held'[d] = IF d = id THEN h ELSE held[d]
    BY Zenon DEF TypeOK
  <1>4. \A d \in Ids : IsFiniteSet(held'[d])
    BY <1>3 DEF AccountInv
  <1>5. \A d \in Ids : CONTAINER'[d].used = 0 => held'[d] = {}
    BY <1>1, <1>2, <1>3 DEF AccountInv
  <1>6. UsageIsAccounted'
    <2> SUFFICES ASSUME NEW d \in UsedIds'
                 PROVE  CONTAINER'[d].usage = Cardinality(held'[d])
                          + Dedicated(d, 0)' + Dedicated(d, 1)' + Dedicated(d, 2)'
      BY DEF UsageIsAccounted
    <2>1. d \in UsedIds /\ d \in Ids
      BY <1>2, DedicatedFrame DEF UsedIds
    <2>2. /\ Dedicated(d, 0)' = Dedicated(d, 0)
          /\ Dedicated(d, 1)' = Dedicated(d, 1)
          /\ Dedicated(d, 2)' = Dedicated(d, 2)
      BY Zenon, <1>2, DedicatedFrame
    <2>3. CONTAINER[d].usage = Cardinality(held[d])
            + Dedicated(d, 0) + Dedicated(d, 1) + Dedicated(d, 2)
      BY <2>1 DEF AccountInv, UsageIsAccounted
    <2>4. /\ Dedicated(d, 0) \in Nat
          /\ Dedicated(d, 1) \in Nat
          /\ Dedicated(d, 2) \in Nat
      BY DedicatedType
    <2>5. Cardinality(h) \in Nat /\ Cardinality(held[d]) \in Nat
      BY <2>1, FS_CardinalityType DEF AccountInv
    <2> QED BY <1>2, <1>3, <2>1, <2>2, <2>3, <2>4, <2>5
  <1> QED BY <1>4, <1>5, <1>6 DEF AccountInv

\* A process is granted pages it does not own yet and is charged for them.
LEMMA AccountGrant ==
  ASSUME AccountInv, TypeOK, NEW id \in UsedIds,
         NEW pages, IsFiniteSet(pages), pages \cap held[id] = {},
         CONTAINER' = [CONTAINER EXCEPT
                         ![id].usage = CONTAINER[id].usage + Cardinality(pages)],
         held' = [held EXCEPT ![id] = held[id] \cup pages]
  PROVE  AccountInv'
  <1>1. id \in Ids /\ IsFiniteSet(held[id]) /\ CONTAINER \in [Ids -> Container]
    BY DEF UsedIds, AccountInv, TypeOK
  <1>2. /\ IsFiniteSet(held[id] \cup pages)
        /\ Cardinality(held[id] \cup pages)
             = Cardinality(held[id]) + Cardinality(pages) - Cardinality({})
    <2>1. held[id] \cap pages = {}
      OBVIOUS
    <2> QED BY <1>1, <2>1, FS_Union
  <1>3. Cardinality(held[id]) \in Nat /\ Cardinality(pages) \in Nat
    BY <1>1, FS_CardinalityType
  <1>4. CONTAINER[id].usage \in Nat
    BY <1>1 DEF Container
  <1> DEFINE u == CONTAINER[id].usage + Cardinality(pages)
             h == held[id] \cup pages
  <1>5. u \in Int /\ u = CONTAINER[id].usage + Cardinality(h) - Cardinality(held[id])
    BY <1>2, <1>3, <1>4, FS_EmptySet
  <1> HIDE DEF u, h
  <1>6. CONTAINER' = [CONTAINER EXCEPT ![id].usage = u]
    BY DEF u
  <1>7. held' = [held EXCEPT ![id] = h] /\ IsFiniteSet(h)
    BY <1>2 DEF h
  <1> QED BY Zenon, <1>1, <1>5, <1>6, <1>7, AccountStep

\* A split moves quota from what the parent has left to what it has dedicated.
LEMMA AccountSplit ==
  ASSUME AccountInv, QuotaInv, NEW id \in UsedIds, NEW quota \in Nat,
         alloc_mem_quota(id, quota)
  PROVE  AccountInv'
  <1> DEFINE nc == CONTAINER[id].nchildren
             c  == ChildId(id, nc)
  <1>1. CASE UNCHANGED CONTAINER
    BY <1>1 DEF alloc_mem_quota, AccountInv, UsageIsAccounted, UsedIds, Dedicated
  <1>2. CASE ~UNCHANGED CONTAINER
    <2>1. /\ nc < MAX_CHILDREN /\ c < NUM_IDS
          /\ UNCHANGED held
          /\ CONTAINER' = [CONTAINER EXCEPT
               ![id].nchildren = @ + 1,
               ![id].usage = @ + quota,
               ![c] = [quota |-> quota, usage |-> 0, parent |-> id,
                       nchildren |-> 0, used |-> 1]]
      BY <1>2 DEF alloc_mem_quota, container_split
    <2>2. c \in Ids /\ c # id /\ c # 0 /\ CONTAINER[c] = Unused
      BY <2>1, FreshChild
    <2>3. /\ id \in Ids /\ id \in Nat /\ CONTAINER[id].used = 1
          /\ CONTAINER \in [Ids -> Container]
      BY ContainerAssumption DEF UsedIds, Ids, QuotaInv, TypeOK
    <2>4. \A d \in Ids :
            /\ CONTAINER'[d].quota = IF d = c THEN quota ELSE CONTAINER[d].quota
            /\ CONTAINER'[d].used = IF d = c THEN 1 ELSE CONTAINER[d].used
            /\ CONTAINER'[d].parent = IF d = c THEN id ELSE CONTAINER[d].parent
            /\ CONTAINER'[d].usage = IF d = c THEN 0
                                     ELSE IF d = id THEN CONTAINER[id].usage + quota
                                     ELSE CONTAINER[d].usage
      BY <2>1, <2>2, <2>3 DEF Container
    <2>5. UsedIds' = UsedIds \cup {c}
      BY <2>2, <2>4 DEF UsedIds
    <2>6. nc \in 0 .. 2
      BY <2>1, <2>3 DEF Container, MAX_CHILDREN
    <2> HIDE DEF nc, c
    <2>7. ASSUME NEW d \in Ids, NEW k \in 0 .. 2
          PROVE  Dedicated(d, k)' = IF d = id /\ k = nc THEN quota
                                    ELSE Dedicated(d, k)
      <3>1. d \in Nat
        BY ContainerAssumption DEF Ids
      <3>2. ChildId(d, k) = c <=> d = id /\ k = nc
        BY <2>3, <2>6, <3>1 DEF c, ChildId, MAX_CHILDREN
      <3>3. c \notin UsedIds
        BY <2>2 DEF UsedIds, Unused
      <3>4. CASE ChildId(d, k) = c
        BY <2>2, <2>4, <2>5, <3>2, <3>4 DEF Dedicated, ChildId
      <3>5. CASE ChildId(d, k) # c
        <4>1. ChildId(d, k)' = ChildId(d, k)
          BY DEF ChildId
        <4>2. ChildId(d, k) \in UsedIds' <=> ChildId(d, k) \in UsedIds
          BY <2>5, <3>5
        <4>3. ChildId(d, k) \in UsedIds => ChildId(d, k) \in Ids
          BY DEF UsedIds
        <4> HIDE DEF ChildId
        <4> QED BY <2>4, <3>2, <3>5, <4>1, <4>2, <4>3 DEF Dedicated
      <3> QED BY <3>4, <3>5
    <2>8. held[c] = {}
      BY <2>2 DEF AccountInv, Unused
    <2>9. UsageIsAccounted'
      <3> SUFFICES ASSUME NEW d \in UsedIds'
                   PROVE  CONTAINER'[d].usage = Cardinality(held'[d])
                            + Dedicated(d, 0)' + Dedicated(d, 1)' + Dedicated(d, 2)'
        BY DEF UsageIsAccounted
      <3>1. d \in Ids
        BY DEF UsedIds
      <3>2. /\ Dedicated(d, 0)' = IF d = id /\ 0 = nc THEN quota ELSE Dedicated(d, 0)
            /\ Dedicated(d, 1)' = IF d = id /\ 1 = nc THEN quota ELSE Dedicated(d, 1)
            /\ Dedicated(d, 2)' = IF d = id /\ 2 = nc THEN quota ELSE Dedicated(d, 2)
        BY <2>7, <3>1
      <3>3. /\ Dedicated(d, 0) \in Nat
            /\ Dedicated(d, 1) \in Nat
            /\ Dedicated(d, 2) \in Nat
        BY DedicatedType DEF QuotaInv
      <3>4. Cardinality(held[d]) \in Nat
        BY <3>1, FS_CardinalityType DEF AccountInv
      <3>5. CASE d = c
        <4>1. Dedicated(c, 0) = 0 /\ Dedicated(c, 1) = 0 /\ Dedicated(c, 2) = 0
          <5> SUFFICES ASSUME NEW k \in 0 .. 2, ChildId(c, k) \in UsedIds
                       PROVE  FALSE
            BY DEF Dedicated
          <5>1. ChildId(c, k) \in Ids /\ CONTAINER[ChildId(c, k)].used = 1
            BY DEF UsedIds
          <5>2. k < CONTAINER[c].nchildren
            BY <2>2, <5>1 DEF QuotaInv, ContainerTree, MAX_CHILDREN
          <5> QED BY <2>2, <5>2 DEF Unused
        <4>2. Cardinality(held'[d]) = 0
          BY Zenon, <2>1, <2>8, <3>5, FS_EmptySet
        <4> QED BY <2>2, <2>4, <3>1, <3>2, <3>5, <4>1, <4>2
      <3>6. CASE d # c
        <4>1. d \in UsedIds
          BY <2>5, <3>6
        <4>2. CONTAINER[d].usage = Cardinality(held[d])
                + Dedicated(d, 0) + Dedicated(d, 1) + Dedicated(d, 2)
          BY <4>1 DEF AccountInv, UsageIsAccounted
        <4>3. d = id => /\ 0 = nc => Dedicated(d, 0) = 0
                        /\ 1 = nc => Dedicated(d, 1) = 0
                        /\ 2 = nc => Dedicated(d, 2) = 0
          <5>1. Dedicated(id, nc) = 0
            BY <2>2 DEF Dedicated, UsedIds, Unused, c
          <5> QED BY <5>1
        <4>4. CONTAINER'[d].usage =
                IF d = id THEN CONTAINER[d].usage + quota ELSE CONTAINER[d].usage
          BY <2>4, <3>1, <3>6
        <4>5. held'[d] = held[d]
          BY <2>1
        <4>6. CASE d # id
          BY <3>2, <4>2, <4>4, <4>5, <4>6
        <4>7. CASE d = id
          BY <2>6, <3>2, <3>3, <3>4, <4>2, <4>3, <4>4, <4>5, <4>7
        <4> QED BY <4>6, <4>7
      <3> QED BY <3>5, <3>6
    <2>10. \A d \in Ids : IsFiniteSet(held'[d])
      BY <2>1 DEF AccountInv
    <2>11. \A d \in Ids : CONTAINER'[d].used = 0 => held'[d] = {}
      BY <2>1, <2>4 DEF AccountInv
    <2> QED BY <2>9, <2>10, <2>11 DEF AccountInv
  <1> QED BY <1>1, <1>2

\* A run of n pages has n pages.
LEMMA RunCardinality ==
  ASSUME NEW page \in Nat, NEW n \in Nat
  PROVE  IsFiniteSet(PageRun(page, n)) /\ Cardinality(PageRun(page, n)) = n
  <1> DEFINE last == page + n - 1
  <1>1. last \in Int /\ (page > last <=> n = 0) /\ last - page + 1 = n
    OBVIOUS
  <1> HIDE DEF last
  <1>2. /\ IsFiniteSet(page .. last)
        /\ Cardinality(page .. last) = IF page > last THEN 0 ELSE last - page + 1
    BY <1>1, FS_Interval
  <1>3. PageRun(page, n) = page .. last
    BY DEF PageRun, last
  <1> QED BY <1>1, <1>2, <1>3

\* Every step of the running kernel keeps the books.
LEMMA NextAccount ==
  ASSUME RoomAbove, RequestsDoNotWrap, QuotaInv, OwnershipInv, AccountInv,
         [KernelNext]_vars
  PROVE  AccountInv'
  <1> USE DEF QuotaInv
  <1>1. ASSUME NEW id \in UsedIds, NEW quota \in 0 .. RealQuota,
               alloc_mem_quota(id, quota)
        PROVE  AccountInv'
    BY <1>1, AccountSplit, RealQuotaType
  <1>2. CASE UNCHANGED <<CONTAINER, held>>
    BY <1>2 DEF AccountInv, UsageIsAccounted, UsedIds, Dedicated
  <1>3. ASSUME NEW id \in UsedIds, container_alloc(id)
        PROVE  AccountInv'
    <2>1. PICK page \in Norm \cup {0} :
            /\ palloc(page)
            /\ IF page # 0 /\ CONTAINER[id].usage < CONTAINER[id].quota
               THEN /\ CONTAINER' = [CONTAINER EXCEPT ![id].usage = @ + 1]
                    /\ held' = [held EXCEPT ![id] = @ \cup {page}]
               ELSE UNCHANGED <<CONTAINER, held>>
      BY <1>3 DEF container_alloc
    <2>2. CASE page # 0 /\ CONTAINER[id].usage < CONTAINER[id].quota
      <3>1. /\ IsFiniteSet({page}) /\ Cardinality({page}) = 1
        BY Zenon, FS_Singleton
      <3>2. {page} \cap held[id] = {}
        BY <2>1, <2>2 DEF palloc, FirstFree, FreePages, OwnershipInv,
                          HeldIsAllocated, UsedIds
      <3>3. /\ CONTAINER' = [CONTAINER EXCEPT
                ![id].usage = CONTAINER[id].usage + Cardinality({page})]
            /\ held' = [held EXCEPT ![id] = held[id] \cup {page}]
        BY <2>1, <2>2, <3>1 DEF TypeOK, UsedIds
      <3> QED BY Zenon, <3>1, <3>2, <3>3, AccountGrant
    <2> QED BY <1>2, <2>1, <2>2
  <1>4. ASSUME NEW id \in UsedIds, NEW len \in Lens,
               container_consecutive_alloc(id, len)
        PROVE  AccountInv'
    <2> DEFINE sum == (CONTAINER[id].usage + len) % WORD
    <2>1. CASE ~UNCHANGED <<CONTAINER, held>>
      <3>1. sum <= CONTAINER[id].quota
        BY <1>4, <2>1 DEF container_consecutive_alloc, vars
      <3>2. PICK page \in Norm \cup {0, VM_USERLO_PI} :
              /\ consecutive_palloc(len, page)
              /\ CONTAINER' = [CONTAINER EXCEPT ![id].usage = sum]
              /\ held' = [held EXCEPT ![id] = @ \cup PageRun(page, len)]
              /\ page # 0
        BY <1>4, <2>1 DEF container_consecutive_alloc, vars
      <3>3. /\ len \in Nat /\ page \in Nat /\ id \in Ids
            /\ CONTAINER[id].usage \in Nat
        BY ContainerAssumption, PageAssumption DEF UsedIds, TypeOK, Container
      <3>4. sum = CONTAINER[id].usage + len
        <4>1. /\ CONTAINER[id].usage + len \in Nat /\ WORD \in Nat
              /\ CONTAINER[id].quota \in Nat /\ RealQuota \in Nat
          BY <3>3, ContainerAssumption, RealQuotaType DEF TypeOK, Container
        <4>2. CONTAINER[id].usage + len < WORD
          BY <3>3, <4>1 DEF RequestsDoNotWrap, UsageWithinQuota, QuotaBounded
        <4> QED BY <4>1, <4>2, ModBelow
      <3>5. IsFiniteSet(PageRun(page, len)) /\ Cardinality(PageRun(page, len)) = len
        BY <3>3, RunCardinality
      <3>6. PageRun(page, len) \cap held[id] = {}
        <4>1. CASE len = 0
          BY <3>3, <4>1 DEF PageRun
        <4>2. CASE len # 0
          <5>1. page \in FreePages
            BY <3>2, <3>3, <4>2 DEF consecutive_palloc, FirstFree
          <5>2. \A p \in held[id] : p \in Nat /\ p < page
            BY <3>3, <5>1 DEF OwnershipInv, FreeAboveHeld, TypeOK
          <5> QED BY <3>3, <5>2 DEF PageRun
        <4> QED BY <4>1, <4>2
      <3>7. /\ CONTAINER' = [CONTAINER EXCEPT
                ![id].usage = CONTAINER[id].usage + Cardinality(PageRun(page, len))]
            /\ held' = [held EXCEPT ![id] = held[id] \cup PageRun(page, len)]
        BY Zenon, <3>2, <3>3, <3>4, <3>5 DEF TypeOK
      <3> QED BY Zenon, <3>5, <3>6, <3>7, AccountGrant
    <2> QED BY <1>2, <2>1
  <1> QED BY <1>1, <1>2, <1>3, <1>4 DEF KernelNext, vars

\* container_init has handed out nothing.
LEMMA InitAccount == container_init => AccountInv
  <1> SUFFICES ASSUME container_init PROVE AccountInv
    OBVIOUS
  <1>1. UsedIds = {0} /\ 0 \in Ids
    BY ContainerAssumption DEF container_init, UsedIds, Ids, Unused
  <1>2. Cardinality({}) = 0 /\ IsFiniteSet({})
    BY FS_EmptySet
  <1>3. \A k \in 0 .. 2 : ChildId(0, k) # 0
    BY DEF ChildId, MAX_CHILDREN
  <1>4. Dedicated(0, 0) = 0 /\ Dedicated(0, 1) = 0 /\ Dedicated(0, 2) = 0
    BY <1>1, <1>3 DEF Dedicated
  <1>5. CONTAINER[0].usage = 0 /\ \A d \in Ids : held[d] = {}
    BY <1>1 DEF container_init
  <1>6. \A d \in Ids : IsFiniteSet(held[d]) /\ Cardinality(held[d]) = 0
    BY <1>2, <1>5
  <1> QED BY <1>1, <1>4, <1>5, <1>6 DEF AccountInv, UsageIsAccounted

\* In the running kernel the usage of a process is at all times the number of
\* pages it owns plus the quota it has dedicated to its children: no page is
\* charged twice or forgotten, whatever order of splits, single pages and runs.
THEOREM UsageAccounted ==
  ASSUME RoomAbove, RequestsDoNotWrap
  PROVE  KernelSpec => []UsageIsAccounted
  <1>1. container_init => QuotaInv /\ OwnershipInv /\ AccountInv
    BY InitQuota, InitAccount
       DEF container_init, OwnershipInv, HeldIsAllocated, FreeAboveHeld,
           NoDoubleGrant, Ids
  <1>2. QuotaInv /\ OwnershipInv /\ AccountInv /\ [KernelNext]_vars
          => QuotaInv' /\ OwnershipInv' /\ AccountInv'
    BY NextQuota, NextOwnership, NextAccount
  <1>3. AccountInv => UsageIsAccounted
    BY DEF AccountInv
  <1> QED BY <1>1, <1>2, <1>3, PTL DEF KernelSpec
-----------------------------------------------------------------------------
\* A process is granted one page that was free.
LEMMA SingleGrant ==
  ASSUME SinglesInv, QuotaInv', NEW id \in UsedIds, NEW page \in FreePages,
         allocated' = allocated \cup {page},
         CONTAINER' = [CONTAINER EXCEPT ![id].usage = CONTAINER[id].usage + 1],
         held' = [held EXCEPT ![id] = held[id] \cup {page}]
  PROVE  SinglesInv'
  <1>1. TypeOK /\ AccountInv /\ id \in Ids
    BY DEF SinglesInv, QuotaInv, UsedIds
  <1>2. page \in Norm /\ page \notin allocated
    BY DEF FreePages
  <1>3. \A j \in Ids : held'[j] = IF j = id THEN held[j] \cup {page} ELSE held[j]
    BY Zenon, <1>1 DEF TypeOK
  <1>4. \A j \in Ids : page \notin held[j] /\ held[j] \subseteq Norm \cap allocated
    BY <1>2 DEF SinglesInv
  <1>5. AccountInv'
    <2>1. IsFiniteSet({page}) /\ Cardinality({page}) = 1
      BY FS_Singleton
    <2>2. {page} \cap held[id] = {}
      BY <1>1, <1>4
    <2> QED BY Zenon, <1>1, <2>1, <2>2, AccountGrant
  <1>6. NoDoubleGrant'
    BY <1>3, <1>4 DEF SinglesInv, NoDoubleGrant
  <1>7. \A j \in Ids : held'[j] \subseteq Norm \cap allocated'
    BY <1>2, <1>3, <1>4
  <1> QED BY <1>5, <1>6, <1>7 DEF SinglesInv

\* Nobody owns more or less than before.
LEMMA SinglesFrame ==
  ASSUME SinglesInv, UNCHANGED <<CONTAINER, held>>,
         allocated \subseteq allocated', allocated' \subseteq Nat
  PROVE  SinglesInv'
  <1>1. QuotaInv'
    BY DEF SinglesInv, QuotaInv, TypeOK, UsageWithinQuota, QuotaBounded,
           UnusedIsBlank, ContainerTree
  <1>2. AccountInv'
    BY DEF SinglesInv, AccountInv, UsageIsAccounted, UsedIds, Dedicated
  <1> QED BY Zenon, <1>1, <1>2 DEF SinglesInv, NoDoubleGrant

\* A process gives back pages it owns, and they are taken off its usage.
LEMMA SinglesFree ==
  ASSUME SinglesInv, NEW id \in UsedIds, NEW pages, pages \subseteq held[id],
         allocated' = allocated \ pages,
         CONTAINER' = [CONTAINER EXCEPT
                         ![id].usage = CONTAINER[id].usage - Cardinality(pages)],
         held' = [held EXCEPT ![id] = held[id] \ pages]
  PROVE  SinglesInv'
  <1>1. /\ TypeOK /\ AccountInv /\ QuotaInv /\ id \in Ids
        /\ CONTAINER \in [Ids -> Container]
    BY DEF SinglesInv, QuotaInv, UsedIds, TypeOK
  <1>2. /\ IsFiniteSet(held[id]) /\ IsFiniteSet(pages)
        /\ Cardinality(held[id]) \in Nat /\ Cardinality(pages) \in Nat
        /\ Cardinality(pages) <= Cardinality(held[id])
    <2>1. IsFiniteSet(held[id]) /\ pages \in SUBSET held[id]
      BY <1>1 DEF AccountInv
    <2>2. IsFiniteSet(pages) /\ Cardinality(pages) <= Cardinality(held[id])
      BY <2>1, FS_Subset
    <2> QED BY <2>1, <2>2, FS_CardinalityType
  <1>3. /\ IsFiniteSet(held[id] \ pages)
        /\ Cardinality(held[id] \ pages) = Cardinality(held[id]) - Cardinality(pages)
    <2>1. held[id] \cap pages = pages
      OBVIOUS
    <2> QED BY Zenon, <1>2, <2>1, FS_Difference
  <1> DEFINE u == CONTAINER[id].usage - Cardinality(pages)
             h == held[id] \ pages
  <1>4. u \in Nat /\ u <= CONTAINER[id].quota
    <2>1. CONTAINER[id].usage = Cardinality(held[id])
            + Dedicated(id, 0) + Dedicated(id, 1) + Dedicated(id, 2)
      BY <1>1 DEF AccountInv, UsageIsAccounted
    <2>2. /\ Dedicated(id, 0) \in Nat /\ Dedicated(id, 1) \in Nat
          /\ Dedicated(id, 2) \in Nat
      BY <1>1, DedicatedType
    <2>3. /\ CONTAINER[id].usage \in Nat /\ CONTAINER[id].quota \in Nat
          /\ CONTAINER[id].usage <= CONTAINER[id].quota
      BY <1>1 DEF Container, QuotaInv, UsageWithinQuota
    <2> QED BY <1>2, <2>1, <2>2, <2>3
  <1>5. u = CONTAINER[id].usage + Cardinality(h) - Cardinality(held[id])
    <2>1. CONTAINER[id].usage \in Nat
      BY <1>1 DEF Container
    <2> QED BY <1>2, <1>3, <2>1
  <1> HIDE DEF u, h
  <1>6. /\ CONTAINER' = [CONTAINER EXCEPT ![id].usage = u]
        /\ held' = [held EXCEPT ![id] = h]
        /\ IsFiniteSet(h)
    BY <1>3 DEF u, h
  <1>7. AccountInv'
    <2>1. u \in Int
      BY <1>4
    <2> QED BY Zenon, <1>1, <1>5, <1>6, <2>1, AccountStep
  <1>8. \A j \in Ids : held'[j] = IF j = id THEN held[j] \ pages ELSE held[j]
    BY Zenon, <1>1, <1>6 DEF TypeOK, h
  <1>9. allocated' \subseteq Nat /\ held' \in [Ids -> SUBSET Nat]
    BY <1>1, <1>6 DEF TypeOK, h
  <1>10. QuotaInv'
    BY Zenon, <1>1, <1>4, <1>6, <1>9, UsageStep
  <1>11. NoDoubleGrant'
    BY <1>8 DEF SinglesInv, NoDoubleGrant
  <1>12. \A j \in Ids : held'[j] \subseteq Norm \cap allocated'
    <2>1. \A j \in Ids : j # id => held[j] \cap pages = {}
      BY <1>1 DEF SinglesInv, NoDoubleGrant
    <2>2. \A j \in Ids : held[j] \subseteq Norm \cap allocated
      BY DEF SinglesInv
    <2> QED BY <1>8, <2>1, <2>2
  <1> QED BY <1>7, <1>10, <1>11, <1>12 DEF SinglesInv


\* One page found by palloc.
LEMMA SinglesPalloc ==
  ASSUME LoopInv, SinglesInv, palloc_loop
  PROVE  SinglesInv'
  <1>1. CASE i \in FreePages
    <2>1. caller \in UsedIds /\ container_alloc(caller)
      BY <1>1, PallocFinds
    <2>2. QuotaInv'
      BY <2>1, AllocQuota DEF SinglesInv
    <2>3. /\ allocated' = allocated \cup {i}
          /\ IF Room(caller)
             THEN /\ CONTAINER' = [CONTAINER EXCEPT
                       ![caller].usage = CONTAINER[caller].usage + 1]
                  /\ held' = [held EXCEPT ![caller] = held[caller] \cup {i}]
             ELSE UNCHANGED <<CONTAINER, held>>
      BY <1>1 DEF palloc_loop
    <2>4. CASE Room(caller)
      BY <1>1, <2>1, <2>2, <2>3, <2>4, SingleGrant
    <2>5. CASE ~Room(caller)
      <3>1. allocated' \subseteq Nat
        BY <2>2 DEF QuotaInv, TypeOK
      <3> QED BY <2>3, <2>5, <3>1, SinglesFrame
    <2> QED BY <2>4, <2>5
  <1>2. CASE i \notin FreePages
    BY <1>2, SinglesFrame DEF palloc_loop, vars, SinglesInv, QuotaInv, TypeOK
  <1> QED BY <1>1, <1>2

\* A run of one page, or of none.
LEMMA SinglesFound ==
  ASSUME LoopInv, SinglesInv, Found, ~runs
  PROVE  SinglesInv'
  <1>1. CASE cnt = 0
    <2>1. /\ caller \in UsedIds /\ page_num \in Lens
          /\ container_consecutive_alloc(caller, page_num)
          /\ ~(page_num > 1)
      BY <1>1, FoundRun
    <2>2. QuotaInv'
      BY <2>1, ConsecutiveQuota DEF SinglesInv
    <2>3. /\ pc = "found?"
          /\ allocated' = allocated \cup i .. end - 1
          /\ IF Room(caller)
             THEN /\ CONTAINER' = [CONTAINER EXCEPT
                                     ![caller].usage = Sum(caller, page_num)]
                  /\ held' = [held EXCEPT
                                ![caller] = held[caller] \cup PageRun(i, page_num)]
             ELSE UNCHANGED <<CONTAINER, held>>
      BY <1>1 DEF Found
    <2>4. allocated' \subseteq Nat
      BY <2>2 DEF QuotaInv, TypeOK
    <2>5. CASE ~Room(caller)
      BY <2>3, <2>4, <2>5, SinglesFrame
    <2>6. CASE Room(caller)
      <3>1. /\ caller \in Ids /\ CONTAINER \in [Ids -> Container]
            /\ held \in [Ids -> SUBSET Nat]
        BY <2>1 DEF UsedIds, SinglesInv, QuotaInv, TypeOK
      <3>2. /\ CONTAINER[caller].usage \in Nat /\ CONTAINER[caller].quota \in Nat
            /\ CONTAINER[caller].usage < CONTAINER[caller].quota
            /\ CONTAINER[caller].quota < WORD
            /\ WORD \in Nat
        BY <2>6, <3>1, RealQuotaType, ContainerAssumption
           DEF Container, Room, SinglesInv, QuotaInv, QuotaBounded
      <3>3. page_num \in Nat /\ page_num <= 1
        BY <2>1, ContainerAssumption
      <3>4. Sum(caller, page_num) = CONTAINER[caller].usage + page_num
        <4>1. /\ CONTAINER[caller].usage + page_num \in Nat
              /\ CONTAINER[caller].usage + page_num < WORD
          BY <3>2, <3>3
        <4> QED BY <3>2, <4>1, ModBelow DEF Sum
      <3>5. /\ i \in Nat /\ Counting /\ end \in Nat
            /\ 0 < page_num => i \in FreePages
        <4>1. Counting /\ i \in VM_USERLO_PI .. VM_USERHI_PI
              /\ (0 < page_num => i \in FreePages)
          BY <1>1, <2>3 DEF LoopInv
        <4> QED BY <4>1, PageAssumption DEF Counting
      <3>6. CASE page_num = 0
        <4>1. PageRun(i, page_num) = {}
          BY <3>5, <3>6 DEF PageRun
        <4>2. held' = held
          BY Zenon, <2>3, <2>6, <3>1, <4>1
        <4>3. CONTAINER' = CONTAINER
          <5>1. CONTAINER' = [CONTAINER EXCEPT ![caller].usage = CONTAINER[caller].usage]
            BY <2>3, <2>6, <3>2, <3>4, <3>6
          <5> QED BY <3>1, <5>1 DEF Container
        <4> QED BY <2>3, <2>4, <4>2, <4>3, SinglesFrame
      <3>7. CASE page_num = 1
        <4>1. PageRun(i, page_num) = {i}
          BY <3>5, <3>7 DEF PageRun
        <4>2. allocated' = allocated \cup {i}
          <5>1. PICK k \in Nat : page_num = cnt + k * (VM_USERHI_PI - i) + (end - i)
            BY <3>5 DEF Counting, Rounds
          <5>2. /\ end - i \in Nat /\ end - i > 0 /\ VM_USERHI_PI - i \in Nat
            BY <1>1, <3>5, <3>7, PageAssumption DEF Counting
          <5>3. k * (VM_USERHI_PI - i) \in Nat
            BY <5>2
          <5>4. end = i + 1
            BY <1>1, <3>5, <3>7, <5>1, <5>2, <5>3
          <5>5. i .. end - 1 = {i}
            BY <3>5, <5>4
          <5> QED BY <2>3, <5>5
        <4>3. i \in FreePages
          BY <3>5, <3>7
        <4>4. /\ CONTAINER' = [CONTAINER EXCEPT
                   ![caller].usage = CONTAINER[caller].usage + 1]
              /\ held' = [held EXCEPT ![caller] = held[caller] \cup {i}]
          BY <2>3, <2>6, <3>4, <3>7, <4>1
        <4> QED BY Zenon, <2>1, <2>2, <4>2, <4>3, <4>4, SingleGrant
      <3> QED BY <3>3, <3>6, <3>7
    <2> QED BY <2>5, <2>6
  <1>2. CASE cnt # 0
    BY <1>2, SinglesFrame DEF Found, vars, SinglesInv, QuotaInv, TypeOK
  <1> QED BY <1>1, <1>2

\* Splits and frees.
LEMMA SinglesOthers ==
  ASSUME SinglesInv, Others
  PROVE  SinglesInv'
  <1>1. ASSUME NEW id \in UsedIds, NEW quota \in 0 .. RealQuota,
               alloc_mem_quota(id, quota)
        PROVE  SinglesInv'
    <2>1. quota \in Nat
      BY RealQuotaType
    <2>2. QuotaInv' /\ AccountInv'
      BY <1>1, <2>1, SplitQuota, AccountSplit DEF SinglesInv
    <2> QED BY <1>1, <2>2 DEF SinglesInv, NoDoubleGrant, alloc_mem_quota
  <1>2. ASSUME NEW id \in UsedIds, NEW page \in held[id], container_free(id, page)
        PROVE  SinglesInv'
    <2>1. CASE CONTAINER[id].usage > 0
      <3>1. Cardinality({page}) = 1
        BY Zenon, FS_Singleton
      <3>2. /\ allocated' = allocated \ {page}
            /\ CONTAINER' = [CONTAINER EXCEPT
                 ![id].usage = CONTAINER[id].usage - Cardinality({page})]
            /\ held' = [held EXCEPT ![id] = held[id] \ {page}]
        BY <1>2, <2>1, <3>1 DEF container_free, pfree
      <3>3. {page} \subseteq held[id]
        OBVIOUS
      <3> QED BY Zenon, <3>2, <3>3, SinglesFree
    <2>2. CASE ~(CONTAINER[id].usage > 0)
      BY <1>2, <2>2, SinglesFrame
         DEF container_free, vars, SinglesInv, QuotaInv, TypeOK
    <2> QED BY <2>1, <2>2
  <1>3. ASSUME NEW id \in UsedIds, NEW page \in held[id], NEW len \in 1 .. RealQuota,
               container_consecutive_free(id, page, len)
        PROVE  SinglesInv'
    <2>1. page \in Nat /\ len \in Nat
      BY RealQuotaType DEF SinglesInv, QuotaInv, TypeOK, UsedIds
    <2>2. Cardinality(PageRun(page, len)) = len
      BY <2>1, RunCardinality
    <2>3. /\ PageRun(page, len) \subseteq held[id]
          /\ allocated' = allocated \ PageRun(page, len)
          /\ CONTAINER' = [CONTAINER EXCEPT ![id].usage =
                             CONTAINER[id].usage - Cardinality(PageRun(page, len))]
          /\ held' = [held EXCEPT ![id] = held[id] \ PageRun(page, len)]
      BY <1>3, <2>2 DEF container_consecutive_free, consecutive_pfree
    <2> QED BY Zenon, <2>3, SinglesFree
  <1> QED BY <1>1, <1>2, <1>3 DEF Others

\* Every step keeps the books and the ownership, as long as nobody has asked
\* for several pages at once.
LEMMA SinglesNext ==
  ASSUME LoopInv, runs \/ SinglesInv, [Next]_scanVars
  PROVE  runs' \/ SinglesInv'
  <1> SUFFICES ASSUME ~runs' PROVE SinglesInv'
    OBVIOUS
  <1>1. ~runs /\ SinglesInv
    <2>1. runs => runs'
      BY Zenon DEF Next, Scan, palloc_loop, palloc_fails, OuterLoop, InnerLoop,
             InnerLoopExit, Found, palloc_call, consecutive_palloc_call, Others,
             scanVars
    <2> QED BY <2>1
  <1>2. CASE UNCHANGED vars
    BY <1>1, <1>2, SinglesFrame DEF vars, SinglesInv, QuotaInv, TypeOK
  <1>3. CASE palloc_loop
    BY <1>1, <1>3, SinglesPalloc
  <1>4. CASE Found
    BY <1>1, <1>4, SinglesFound
  <1>5. CASE Others
    BY <1>1, <1>5, SinglesOthers
  <1>6. CASE palloc_fails \/ OuterLoop \/ InnerLoop \/ InnerLoopExit
    BY <1>2, <1>6 DEF palloc_fails, OuterLoop, InnerLoop, InnerLoopExit
  <1>7. ASSUME NEW id \in UsedIds, palloc_call(id)
        PROVE  SinglesInv'
    BY <1>2, <1>7 DEF palloc_call
  <1>8. ASSUME NEW id \in UsedIds, NEW len \in Lens, consecutive_palloc_call(id, len)
        PROVE  SinglesInv'
    BY <1>2, <1>8 DEF consecutive_palloc_call
  <1>9. CASE UNCHANGED scanVars
    BY <1>2, <1>9 DEF scanVars
  <1> QED BY <1>3, <1>4, <1>5, <1>6, <1>7, <1>8, <1>9 DEF Next, Scan

\* Initially nobody owns anything.
LEMMA SinglesInit == Init => LoopInv /\ SinglesInv
  <1> SUFFICES ASSUME Init PROVE LoopInv /\ SinglesInv
    OBVIOUS
  <1>1. LoopInv
    BY DEF Init, LoopInv
  <1>2. QuotaInv /\ AccountInv
    BY InitQuota, InitAccount DEF Init
  <1>3. \A id \in Ids : held[id] = {}
    BY DEF Init, container_init
  <1> QED BY <1>1, <1>2, <1>3 DEF SinglesInv, NoDoubleGrant

\* With clients that free what they own, in any order with allocations and
\* splits, the usage of a process is what it owns plus what it has dedicated,
\* unless somebody has asked for several pages at once (container_free,
\* container_consecutive_free).
THEOREM AccountedWithFrees == Spec => []UsageAccountedWithFrees
  <1>1. runs \/ SinglesInv => UsageAccountedWithFrees
    BY DEF UsageAccountedWithFrees, SinglesInv, AccountInv
  <1> QED BY <1>1, SinglesInit, SinglesNext, LoopNext, PTL DEF Spec

\* With such clients a page that was given back and is taken again never
\* belongs to two processes, and what somebody owns is a normal page that is
\* marked, unless somebody has asked for several pages at once: it is then
\* that consecutive_palloc marks pages it has not looked at.
THEOREM ExclusiveWithFrees == Spec => []NoDoubleGrantWithFrees
  <1>1. runs \/ SinglesInv => NoDoubleGrantWithFrees
    BY DEF NoDoubleGrantWithFrees, SinglesInv
  <1> QED BY <1>1, SinglesInit, SinglesNext, LoopNext, PTL DEF Spec
=============================================================================
