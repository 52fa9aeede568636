----------------------------- MODULE PTQueueInit -----------------------------
(***************************************************************************)
(* The thread queues as they are implemented: a head and a tail index per  *)
(* queue, and one pair of link fields per thread, shared by all queues.    *)
(*                                                                         *)
(* "queue" is a history variable, the sequence that the operations have    *)
(* built; the code's branches depend on the links only.                    *)
(***************************************************************************)
EXTENDS Integers, Sequences

CONSTANT
  NUM_IDS  \* number of threads; also the null index

ASSUME ThreadAssumption == NUM_IDS \in Nat \ {0}

VARIABLES
  TQueuePool,  \* head and tail of each queue
  tcb_prev,    \* TCBPool[pid].prev
  tcb_next,    \* TCBPool[pid].next
  queue,       \* history: the content of each queue
  ret          \* the value the last tqueue_dequeue returned

vars == <<TQueuePool, tcb_prev, tcb_next, queue, ret>>

Abstract == INSTANCE ThreadQueues

Ids   == Abstract!Ids
Chans == Abstract!Chans
Nil   == NUM_IDS

\* tcb_init_at_id and tqueue_init_at_id for every thread and every queue.
tqueue_init ==
  /\ TQueuePool = [c \in Chans |-> [head |-> Nil, tail |-> Nil]]
  /\ tcb_prev = [p \in Ids |-> Nil]
  /\ tcb_next = [p \in Ids |-> Nil]
  /\ queue = [c \in Chans |-> <<>>]
  /\ ret = Nil

head(chid) == TQueuePool[chid].head
tail(chid) == TQueuePool[chid].tail

\* The implementation requires of its callers that a thread is in at most
\* one queue at any time.
tqueue_enqueue(chid, pid) ==
  /\ Abstract!Unqueued(pid)
  /\ IF tail(chid) = Nil
     THEN /\ TQueuePool' = [TQueuePool EXCEPT
                              ![chid] = [head |-> pid, tail |-> pid]]
          /\ tcb_prev' = [tcb_prev EXCEPT ![pid] = Nil]
          /\ tcb_next' = [tcb_next EXCEPT ![pid] = Nil]
     ELSE /\ TQueuePool' = [TQueuePool EXCEPT
                              ![chid] = [head |-> @.head, tail |-> pid]]
          /\ tcb_prev' = [tcb_prev EXCEPT ![pid] = tail(chid)]
          /\ tcb_next' = [tcb_next EXCEPT ![tail(chid)] = pid, ![pid] = Nil]
  /\ queue' = [queue EXCEPT ![chid] = Append(@, pid)]
  /\ UNCHANGED ret

\* A slip: the tail of an emptied queue is left behind.
tqueue_dequeue_keeps_tail(chid) ==
  \/ /\ head(chid) = Nil
     /\ ret' = Nil
     /\ UNCHANGED <<TQueuePool, tcb_prev, tcb_next, queue>>
  \/ /\ head(chid) # Nil
     /\ ret' = head(chid)
     /\ TQueuePool' = [TQueuePool EXCEPT ![chid].head = tcb_next[head(chid)]]
     /\ tcb_next' = [tcb_next EXCEPT ![head(chid)] = Nil]
     /\ tcb_prev' = [p \in Ids |->
          IF p \in {head(chid), tcb_next[head(chid)]} THEN Nil ELSE tcb_prev[p]]
     /\ queue' = [queue EXCEPT ![chid] = Tail(@)]

\* A slip: the thread that came last is taken.
tqueue_dequeue_from_tail(chid) ==
  \/ /\ head(chid) = Nil
     /\ ret' = Nil
     /\ UNCHANGED <<TQueuePool, tcb_prev, tcb_next, queue>>
  \/ /\ head(chid) # Nil
     /\ ret' = tail(chid)
     /\ TQueuePool' = [TQueuePool EXCEPT ![chid] =
          [head |-> IF head(chid) = tail(chid) THEN Nil ELSE @.head,
           tail |-> tcb_prev[tail(chid)]]]
     /\ tcb_prev' = [tcb_prev EXCEPT ![tail(chid)] = Nil]
     /\ tcb_next' = [p \in Ids |->
          IF p \in {tail(chid), tcb_prev[tail(chid)]} THEN Nil ELSE tcb_next[p]]
     /\ queue' = [queue EXCEPT ![chid] = SubSeq(@, 1, Len(@) - 1)]

tqueue_dequeue(chid) ==
  \/ /\ head(chid) = Nil
     /\ ret' = Nil
     /\ UNCHANGED <<TQueuePool, tcb_prev, tcb_next, queue>>
  \/ LET res  == head(chid)
         next == tcb_next[res]
     IN  /\ res # Nil
         /\ ret' = res
         /\ tcb_next' = [tcb_next EXCEPT ![res] = Nil]
         /\ IF res = tail(chid)
            THEN /\ TQueuePool' = [TQueuePool EXCEPT
                                     ![chid] = [head |-> Nil, tail |-> Nil]]
                 /\ tcb_prev' = [tcb_prev EXCEPT ![res] = Nil]
            ELSE /\ TQueuePool' = [TQueuePool EXCEPT
                                     ![chid] = [head |-> next, tail |-> @.tail]]
                 /\ tcb_prev' = [tcb_prev EXCEPT ![next] = Nil, ![res] = Nil]
         /\ queue' = [queue EXCEPT ![chid] = Tail(@)]

(***************************************************************************)
(* The search loop of tqueue_remove: following the "next" links from the   *)
(* head of the queue reaches pid.                                          *)
(***************************************************************************)
Reaches(chid, pid) ==
  \E n \in 0 .. NUM_IDS - 1 : \E path \in [0 .. n -> Ids] :
    /\ path[0] = head(chid)
    /\ path[n] = pid
    /\ \A k \in 0 .. n - 1 : path[k + 1] = tcb_next[path[k]]

tqueue_remove(chid, pid) ==
  /\ UNCHANGED ret
  /\ \/ /\ ~Reaches(chid, pid)
        /\ UNCHANGED <<TQueuePool, tcb_prev, tcb_next, queue>>
     \/ LET nx   == tcb_next[pid]
            prev == tcb_prev[pid]
        IN  /\ Reaches(chid, pid)
            /\ TQueuePool' = [TQueuePool EXCEPT
                 ![chid] = [head |-> IF head(chid) = pid THEN nx ELSE @.head,
                            tail |-> IF tail(chid) = pid THEN prev ELSE @.tail]]
            /\ tcb_prev' = [p \in Ids |->
                 IF p = pid /\ prev # Nil THEN Nil
                 ELSE IF p = nx THEN prev ELSE tcb_prev[p]]
            /\ tcb_next' = [p \in Ids |->
                 IF p = prev THEN nx
                 ELSE IF p = pid /\ nx # Nil THEN Nil ELSE tcb_next[p]]
            /\ \E k \in 1 .. Len(queue[chid]) :
                 /\ queue[chid][k] = pid
                 /\ queue' = [queue EXCEPT ![chid] = Abstract!Without(@, k)]

Next ==
  \/ \E chid \in Chans, pid \in Ids : tqueue_enqueue(chid, pid)
  \/ \E chid \in Chans : tqueue_dequeue(chid)
  \/ \E chid \in Chans, pid \in Ids : tqueue_remove(chid, pid)

Spec == tqueue_init /\ [][Next]_vars

-----------------------------------------------------------------------------
(***************************************************************************)
(* Properties                                                              *)
(***************************************************************************)

\* The links of a thread and the two ends of a queue are thread ids or
\* NUM_IDS, the null index (PTCBIntro.c, PTQueueIntro.c).
TypeOK ==
  /\ TQueuePool \in [Chans -> [head : Ids \cup {Nil}, tail : Ids \cup {Nil}]]
  /\ tcb_prev \in [Ids -> Ids \cup {Nil}]
  /\ tcb_next \in [Ids -> Ids \cup {Nil}]
  /\ queue \in [Chans -> Seq(Ids)]
  /\ ret \in Ids \cup {Nil}

\* The element at place k of a queue, and Nil before its first and after
\* its last element.
Elem(c, k) == IF k \in 1 .. Len(queue[c]) THEN queue[c][k] ELSE Nil

\* Head, tail and both links of every member spell out the same sequence,
\* the one the operations have built (tqueue_enqueue, tqueue_dequeue and
\* tqueue_remove keep the doubly linked list consistent).
LinksSpellQueue ==
  \A c \in Chans :
    /\ head(c) = Elem(c, 1)
    /\ tail(c) = Elem(c, Len(queue[c]))
    /\ \A k \in 1 .. Len(queue[c]) :
         /\ tcb_next[queue[c][k]] = Elem(c, k + 1)
         /\ tcb_prev[queue[c][k]] = Elem(c, k - 1)

\* A thread has one place in one queue: the two link fields it has are
\* enough (the validity condition of PTQueueIntro.c).
OnePlace ==
  \A c, d \in Chans : \A j \in 1 .. Len(queue[c]), k \in 1 .. Len(queue[d]) :
    queue[c][j] = queue[d][k] => c = d /\ j = k

\* A thread that has left its queue keeps no link into it: whichever way it
\* left, both its links are null again.
NoStaleLinks ==
  \A pid \in Ids :
    Abstract!Unqueued(pid) => tcb_next[pid] = Nil /\ tcb_prev[pid] = Nil

\* The linked lists implement the sequences of ThreadQueues: tqueue_dequeue
\* returns the thread that has waited longest, or NUM_IDS exactly when the
\* queue is empty, and tqueue_remove takes out pid and nothing else.
ImplementsQueues == Abstract!Spec
=============================================================================
