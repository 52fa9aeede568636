--------------------------- MODULE MContainerScan ---------------------------
(***************************************************************************)
(* The container layer with the loops of palloc and consecutive_palloc,    *)
(* one iteration per step.  MContainer, which the other modules use, does  *)
(* an allocation in one step, with a closed form of what the loops do.     *)
(*                                                                         *)
(* Clients also give pages back, so that the allocation table a loop meets *)
(* has holes anywhere.  The kernel is not preempted: a call runs to its    *)
(* end before the next one starts.                                         *)
(***************************************************************************)
EXTENDS MContainer

VARIABLES
  pc,          \* "idle", or the loop head that is executed next
  caller,      \* the container that a page is allocated for
  page_num,    \* the number of pages the call asks for
  cnt, i, end, \* the locals of palloc and consecutive_palloc
  runs         \* history: whether anybody has asked for several pages at once

locals == <<pc, caller, page_num, cnt, i, end>>
scanVars == <<vars, locals, runs>>

Idle ==
  /\ pc' = "idle"
  /\ caller' = 0 /\ page_num' = 0 /\ cnt' = 0 /\ i' = 0 /\ end' = 0

Init ==
  /\ container_init
  /\ pc = "idle"
  /\ caller = 0 /\ page_num = 0 /\ cnt = 0 /\ i = 0 /\ end = 0
  /\ runs = FALSE

Room(id) == CONTAINER[id].usage < CONTAINER[id].quota
Sum(id, len) == (CONTAINER[id].usage + len) % WORD

-----------------------------------------------------------------------------
(***************************************************************************)
(* container_alloc: palloc scans for a free page, then the quota decides.  *)
(***************************************************************************)
palloc_call(id) ==
  /\ pc = "idle"
  /\ pc' = "palloc"
  /\ caller' = id /\ page_num' = 1 /\ i' = VM_USERLO_PI
  /\ UNCHANGED <<vars, cnt, end, runs>>

palloc_loop ==
  /\ pc = "palloc" /\ i < VM_USERHI_PI
  /\ IF i \notin FreePages
     THEN /\ i' = i + 1
          /\ UNCHANGED <<vars, pc, caller, page_num, cnt, end>>
     ELSE /\ allocated' = allocated \cup {i}
          /\ IF Room(caller)
             THEN /\ CONTAINER' = [CONTAINER EXCEPT ![caller].usage = @ + 1]
                  /\ held' = [held EXCEPT ![caller] = @ \cup {i}]
             ELSE UNCHANGED <<CONTAINER, held>>
          /\ Idle
  /\ UNCHANGED runs

palloc_fails ==
  /\ pc = "palloc" /\ i >= VM_USERHI_PI
  /\ Idle
  /\ UNCHANGED <<vars, runs>>

(***************************************************************************)
(* container_consecutive_alloc: the quota decides first, then the nested   *)
(* loops of consecutive_palloc look for the run.                           *)
(***************************************************************************)
consecutive_palloc_call(id, len) ==
  /\ pc = "idle"
  /\ Sum(id, len) <= CONTAINER[id].quota
  /\ pc' = "outer"
  /\ caller' = id /\ page_num' = len /\ cnt' = len /\ i' = VM_USERLO_PI
  /\ runs' = (runs \/ len > 1)
  /\ UNCHANGED <<vars, end>>

\* A slip: a round that ran out of pages starts the count afresh.
OuterLoop_resets_cnt ==
  /\ pc = "outer"
  /\ IF i < VM_USERHI_PI
     THEN /\ end' = i /\ cnt' = page_num
          /\ pc' = "inner"
          /\ UNCHANGED <<caller, page_num, i>>
     ELSE Idle
  /\ UNCHANGED <<vars, runs>>

OuterLoop ==
  /\ pc = "outer"
  /\ IF i < VM_USERHI_PI
     THEN /\ end' = i
          /\ pc' = "inner"
          /\ UNCHANGED <<caller, page_num, cnt, i>>
     ELSE Idle
  /\ UNCHANGED <<vars, runs>>

\* One iteration of the inner loop: it tests page i, not page "end".
InnerLoop ==
  /\ pc = "inner" /\ end < VM_USERHI_PI /\ cnt > 0
  /\ IF i \notin FreePages
     THEN /\ cnt' = page_num
          /\ i' = end + 1
          /\ pc' = "found?"
          /\ UNCHANGED end
     ELSE /\ cnt' = cnt - 1
          /\ end' = end + 1
          /\ UNCHANGED <<i, pc>>
  /\ UNCHANGED <<vars, caller, page_num, runs>>

InnerLoopExit ==
  /\ pc = "inner" /\ ~(end < VM_USERHI_PI /\ cnt > 0)
  /\ pc' = "found?"
  /\ UNCHANGED <<vars, caller, page_num, cnt, i, end, runs>>

\* A slip: the marking loop runs up to and including "end".
Found_marks_end ==
  /\ pc = "found?"
  /\ IF cnt = 0
     THEN /\ allocated' = allocated \cup i .. end
          /\ IF Room(caller)
             THEN /\ CONTAINER' = [CONTAINER EXCEPT
                       ![caller].usage = Sum(caller, page_num)]
                  /\ held' = [held EXCEPT
                       ![caller] = @ \cup PageRun(i, page_num)]
             ELSE UNCHANGED <<CONTAINER, held>>
          /\ Idle
     ELSE /\ pc' = "outer"
          /\ UNCHANGED <<vars, caller, page_num, cnt, i, end>>
  /\ UNCHANGED runs

\* The pages from i to "end" are marked, and the container charged.
Found ==
  /\ pc = "found?"
  /\ IF cnt = 0
     THEN /\ allocated' = allocated \cup i .. end - 1
          /\ IF Room(caller)
             THEN /\ CONTAINER' = [CONTAINER EXCEPT
                       ![caller].usage = Sum(caller, page_num)]
                  /\ held' = [held EXCEPT
                       ![caller] = @ \cup PageRun(i, page_num)]
             ELSE UNCHANGED <<CONTAINER, held>>
          /\ Idle
     ELSE /\ pc' = "outer"
          /\ UNCHANGED <<vars, caller, page_num, cnt, i, end>>
  /\ UNCHANGED runs

-----------------------------------------------------------------------------
\* The operations without a loop that searches.
Others ==
  /\ pc = "idle"
  /\ \/ \E id \in UsedIds, quota \in 0 .. RealQuota : alloc_mem_quota(id, quota)
     \/ \E id \in UsedIds : \E page \in held[id] : container_free(id, page)
     \/ \E id \in UsedIds : \E page \in held[id], len \in 1 .. RealQuota :
          container_consecutive_free(id, page, len)
  /\ UNCHANGED <<locals, runs>>

Scan ==
  \/ palloc_loop \/ palloc_fails
  \/ OuterLoop \/ InnerLoop \/ InnerLoopExit \/ Found

Next ==
  \/ Scan
  \/ \E id \in UsedIds : palloc_call(id)
  \/ \E id \in UsedIds, len \in Lens : consecutive_palloc_call(id, len)
  \/ Others

\* The kernel runs a call to its end: nothing preempts it.
Spec == Init /\ [][Next]_scanVars /\ WF_scanVars(Scan)

-----------------------------------------------------------------------------
\* The loops do what the one-step operations of MContainer say, whatever
\* holes the table has: they find the same page, mark the same pages and
\* charge the same container (palloc, consecutive_palloc).
ImplementsLayer == LayerSpec

\* Every call returns, requests larger than the room above the page that the
\* scan has reached included.
CallsReturn == pc # "idle" ~> pc = "idle"

\* As long as nobody asks for several pages at once, usage is what a process
\* owns plus what it gave to its children, in every order of allocations,
\* splits and frees.
UsageAccountedWithFrees == runs \/ UsageIsAccounted

\* As long as nobody asks for several pages at once, a page that was given
\* back and taken again never belongs to two processes, and what somebody
\* owns is a normal page that is marked.
NoDoubleGrantWithFrees ==
  runs \/ (NoDoubleGrant /\ \A id \in Ids : held[id] \subseteq Norm \cap allocated)

-----------------------------------------------------------------------------
(***************************************************************************)
(* The invariant of the loops.  No free page lies below i.  Page i is free *)
(* once the count has been touched, and what is missing from the count is  *)
(* a number of complete rounds, from i to VM_USERHI_PI, and the pages of   *)
(* the round that is running.                                              *)
(***************************************************************************)
Rounds(pages) == \E k \in Nat : page_num = cnt + k * (VM_USERHI_PI - i) + pages

Counting ==
  /\ i < VM_USERHI_PI /\ end \in i .. VM_USERHI_PI
  /\ Rounds(end - i)
  /\ cnt = 0 /\ page_num > 0 => end > i

LoopInv ==
  /\ pc \in {"idle", "palloc", "outer", "inner", "found?"}
  /\ pc # "idle" =>
       /\ caller \in UsedIds
       /\ i \in VM_USERLO_PI .. VM_USERHI_PI
       /\ \A p \in FreePages : i <= p
  /\ pc = "palloc" => page_num = 1
  /\ pc \in {"outer", "inner", "found?"} =>
       /\ page_num \in Lens /\ cnt \in 0 .. page_num
       /\ Sum(caller, page_num) <= CONTAINER[caller].quota
       /\ page_num = 0 => i = VM_USERLO_PI
       /\ cnt < page_num => i \in FreePages
       /\ page_num > 1 => runs
  /\ pc = "outer" => Rounds(0) /\ (cnt = 0 => page_num = 0)
  /\ pc = "inner" => Counting
  /\ pc = "found?" => \/ cnt = page_num /\ cnt > 0
                      \/ Counting /\ (cnt > 0 => end = VM_USERHI_PI)

\* What holds as long as nobody has asked for several pages at once.
SinglesInv ==
  /\ QuotaInv
  /\ AccountInv
  /\ NoDoubleGrant
  /\ \A id \in Ids : held[id] \subseteq Norm \cap allocated
=============================================================================
