-------------------------------- MODULE MATOp --------------------------------
(***************************************************************************)
(* The physical page allocator: the allocation table AT of MATIntro and    *)
(* the operations MATOp performs on it.                                    *)
(*                                                                         *)
(* A page's permission is written by pmem_init only, so it is a constant   *)
(* here: Norm is the set of pages for which at_is_norm returns 1.  The     *)
(* allocation flags are the variable "allocated".  An operation that       *)
(* returns a page index takes that index as its last parameter.            *)
(***************************************************************************)
EXTENDS Integers

CONSTANTS
  VM_USERLO_PI,  \* first page of the user area
  VM_USERHI_PI,  \* first page above the user area
  Norm           \* the pages with the normal permission

\* pmem_init gives the normal permission to pages of the user area only.
ASSUME PageAssumption ==
  /\ VM_USERLO_PI \in Nat \ {0}
  /\ VM_USERHI_PI \in Nat
  /\ VM_USERLO_PI < VM_USERHI_PI
  /\ Norm \subseteq VM_USERLO_PI .. VM_USERHI_PI - 1

VARIABLE
  allocated      \* the pages whose allocation flag is set

\* The n pages from page "first" on.
PageRun(first, n) == first .. first + n - 1

\* at_is_norm(p) = 1 and at_is_allocated(p) = 0.
FreePages == Norm \ allocated

\* The page at which a scan from VM_USERLO_PI upwards stops.
FirstFree(p) ==
  /\ p \in FreePages
  /\ \A q \in FreePages : p <= q

-----------------------------------------------------------------------------
\* A slip: the page is not marked.
palloc_unmarked(page) ==
  /\ FirstFree(page) \/ (FreePages = {} /\ page = 0)
  /\ UNCHANGED allocated

palloc(page) ==
  \/ /\ FirstFree(page)
     /\ allocated' = allocated \cup {page}
  \/ /\ FreePages = {}
     /\ page = 0
     /\ UNCHANGED allocated

(***************************************************************************)
(* How many pages consecutive_palloc marks once its scan has stopped at    *)
(* page i.  The inner loop tests page i only, and an inner loop that runs  *)
(* into VM_USERHI_PI is started again from i without resetting "cnt", so   *)
(* a request larger than the room above i marks what is left of the count  *)
(* in the last round.                                                      *)
(***************************************************************************)
RunMarked(i, page_num) ==
  LET room == VM_USERHI_PI - i
  IN  IF page_num <= room THEN page_num ELSE ((page_num - 1) % room) + 1

\* A request for no page succeeds at once, with the first page of the area.
consecutive_palloc(page_num, page) ==
  \/ /\ page_num = 0
     /\ page = VM_USERLO_PI
     /\ UNCHANGED allocated
  \/ /\ page_num > 0
     /\ FirstFree(page)
     /\ allocated' = allocated \cup PageRun(page, RunMarked(page, page_num))
  \/ /\ page_num > 0
     /\ FreePages = {}
     /\ page = 0
     /\ UNCHANGED allocated

\* A slip: the next page is freed.
pfree_next(pfree_index) ==
  allocated' = allocated \ {pfree_index + 1}

pfree(pfree_index) ==
  allocated' = allocated \ {pfree_index}

consecutive_pfree(pfree_index, len) ==
  allocated' = allocated \ PageRun(pfree_index, len)
=============================================================================
