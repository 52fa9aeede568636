---------------------------- MODULE ThreadQueues -----------------------------
(***************************************************************************)
(* What the thread queues promise: each of them is a first-in first-out    *)
(* sequence of thread ids, and an operation changes only the queue it is   *)
(* applied to.                                                             *)
(***************************************************************************)
EXTENDS Integers, Sequences

CONSTANT
  NUM_IDS  \* number of threads; also the id that stands for "no thread"

VARIABLES
  queue,   \* the content of each queue, head first
  ret      \* what the last dequeue returned

Ids   == 0 .. NUM_IDS - 1
Chans == 0 .. NUM_IDS      \* NUM_IDS is the ready queue

Members(c) == {queue[c][k] : k \in 1 .. Len(queue[c])}

\* A thread that is in no queue.
Unqueued(pid) == \A c \in Chans : pid \notin Members(c)

Init ==
  /\ queue = [c \in Chans |-> <<>>]
  /\ ret = NUM_IDS

\* A thread is in at most one queue at any time.
Enqueue(c, pid) ==
  /\ Unqueued(pid)
  /\ queue' = [queue EXCEPT ![c] = Append(@, pid)]
  /\ UNCHANGED ret

Dequeue(c) ==
  IF queue[c] = <<>>
  THEN ret' = NUM_IDS /\ UNCHANGED queue
  ELSE /\ ret' = Head(queue[c])
       /\ queue' = [queue EXCEPT ![c] = Tail(@)]

\* The sequence s without its k-th element.
Without(s, k) ==
  [j \in 1 .. Len(s) - 1 |-> IF j < k THEN s[j] ELSE s[j + 1]]

Remove(c, pid) ==
  /\ UNCHANGED ret
  /\ \/ pid \notin Members(c) /\ UNCHANGED queue
     \/ \E k \in 1 .. Len(queue[c]) :
          /\ queue[c][k] = pid
          /\ queue' = [queue EXCEPT ![c] = Without(@, k)]

Next ==
  \E c \in Chans :
    \/ Dequeue(c)
    \/ \E pid \in Ids : Enqueue(c, pid) \/ Remove(c, pid)

Spec == Init /\ [][Next]_<<queue, ret>>
=============================================================================
