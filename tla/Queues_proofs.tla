---------------------------- MODULE Queues_proofs ----------------------------
(***************************************************************************)
(* Proofs about the two kinds of queue that the kernel keeps in arrays:    *)
(* the thread queues, for every number of threads, and the console's ring  *)
(* buffer with the keyboard state machine that fills it, for every buffer  *)
(* size and every set of keys.                                             *)
(***************************************************************************)
EXTENDS PTQueueInit, Console, WellFoundedInduction, TLAPS

-----------------------------------------------------------------------------
(* The thread queues.                                                      *)

\* The inductive invariant: the parts need each other, since an operation on
\* one list is harmless to another only because the lists share no thread.
QueueInv == TypeOK /\ LinksSpellQueue /\ OnePlace /\ NoStaleLinks

\* Thread and queue numbers, and the null index.
LEMMA Basics ==
  /\ NUM_IDS \in Nat /\ Nil = NUM_IDS
  /\ Ids = 0 .. NUM_IDS - 1 /\ Chans = 0 .. NUM_IDS
  /\ Nil \notin Ids
BY ThreadAssumption DEF Ids, Chans, Nil, Abstract!Ids, Abstract!Chans

\* What the invariant says of one queue.
LEMMA QueuePlaces ==
  ASSUME QueueInv, NEW c \in Chans
  PROVE  /\ Len(queue[c]) \in Nat
         /\ queue[c] \in Seq(Ids)
         /\ \A k \in 1 .. Len(queue[c]) : queue[c][k] \in Ids
         /\ (head(c) = Nil) <=> (Len(queue[c]) = 0)
         /\ (tail(c) = Nil) <=> (Len(queue[c]) = 0)
         /\ Len(queue[c]) > 0 => /\ head(c) = queue[c][1]
                                 /\ tail(c) = queue[c][Len(queue[c])]
<1>1. queue[c] \in Seq(Ids)
  BY DEF QueueInv, TypeOK
<1>2. /\ Len(queue[c]) \in Nat
      /\ \A k \in 1 .. Len(queue[c]) : queue[c][k] \in Ids
  BY <1>1
<1>3. head(c) = Elem(c, 1) /\ tail(c) = Elem(c, Len(queue[c]))
  BY DEF QueueInv, LinksSpellQueue
<1> HIDE DEF head, tail
<1>4. CASE Len(queue[c]) = 0
  BY <1>1, <1>2, <1>3, <1>4 DEF Elem
<1>5. CASE Len(queue[c]) > 0
  BY <1>1, <1>2, <1>3, <1>5, Basics DEF Elem
<1> QED BY <1>2, <1>4, <1>5

-----------------------------------------------------------------------------
\* Empty queues.
LEMMA InitInv == tqueue_init => QueueInv
<1> SUFFICES ASSUME tqueue_init PROVE QueueInv
  OBVIOUS
<1>1. \A c \in Chans : queue[c] = <<>> /\ Len(queue[c]) = 0
  BY DEF tqueue_init
<1>2. TypeOK
  BY <1>1 DEF TypeOK, tqueue_init
<1>3. LinksSpellQueue
  BY <1>1 DEF LinksSpellQueue, Elem, head, tail, tqueue_init
<1>4. OnePlace
  BY <1>1 DEF OnePlace
<1>5. NoStaleLinks
  BY DEF NoStaleLinks, tqueue_init
<1> QED BY <1>2, <1>3, <1>4, <1>5 DEF QueueInv

\* Enqueueing appends, whatever the state of the other queues.
LEMMA EnqueueStep ==
  ASSUME QueueInv, NEW chid \in Chans, NEW pid \in Ids, tqueue_enqueue(chid, pid)
  PROVE  QueueInv' /\ Abstract!Enqueue(chid, pid)
<1> DEFINE n == Len(queue[chid])
<1>1. /\ n \in Nat
      /\ \A c \in Chans : Len(queue[c]) \in Nat /\ queue[c] \in Seq(Ids)
      /\ \A c \in Chans : \A k \in 1 .. Len(queue[c]) : queue[c][k] \in Ids
  BY QueuePlaces
<1>2. \A c \in Chans : \A k \in 1 .. Len(queue[c]) : queue[c][k] # pid
  BY DEF tqueue_enqueue, Abstract!Unqueued, Abstract!Members, Chans
<1>3. /\ queue' = [queue EXCEPT ![chid] = Append(@, pid)]
      /\ ret' = ret
      /\ Abstract!Unqueued(pid)
  BY DEF tqueue_enqueue
<1>4. /\ queue' \in [Chans -> Seq(Ids)]
      /\ Len(queue'[chid]) = n + 1 /\ queue'[chid][n + 1] = pid
      /\ \A k \in 1 .. n : queue'[chid][k] = queue[chid][k]
      /\ \A c \in Chans \ {chid} : queue'[c] = queue[c]
  BY <1>1, <1>3 DEF QueueInv, TypeOK
<1>c. /\ n \in Nat /\ n + 1 \in 1 .. Len(queue'[chid])
      /\ Len(queue'[chid]) = n + 1 /\ queue'[chid][n + 1] = pid
      /\ \A c \in Chans \ {chid} : queue'[c] = queue[c]
  BY <1>1, <1>4
<1>d. ASSUME NEW c \in Chans, NEW k \in 1 .. Len(queue[c])
      PROVE  k \in 1 .. Len(queue'[c]) /\ queue'[c][k] = queue[c][k]
  <2>1. CASE c = chid
    BY <2>1, <1>c, <1>4
  <2>2. CASE c # chid
    BY <2>2, <1>c
  <2> QED BY <2>1, <2>2
<1>e. ASSUME NEW c \in Chans, NEW k \in 1 .. Len(queue'[c])
      PROVE  k \in 1 .. Len(queue[c]) \/ (c = chid /\ k = n + 1)
  <2>1. CASE c = chid
    BY <2>1, <1>c
  <2>2. CASE c # chid
    BY <2>2, <1>c
  <2> QED BY <2>1, <2>2
<1>a. /\ tail(chid) = Nil <=> n = 0
      /\ n > 0 => /\ tail(chid) = queue[chid][n]
                  /\ head(chid) = queue[chid][1]
                  /\ tail(chid) \in Ids
  BY QueuePlaces
<1>b. /\ head(chid) \in Ids \cup {Nil} /\ tail(chid) \in Ids \cup {Nil}
      /\ tail(chid) # Nil => tail(chid) \in Ids
  BY DEF QueueInv, TypeOK, head, tail
<1>5. TypeOK'
  <2>1. TQueuePool' \in [Chans -> [head : Ids \cup {Nil}, tail : Ids \cup {Nil}]]
    <3>1. \E r \in [head : Ids \cup {Nil}, tail : Ids \cup {Nil}] :
            TQueuePool' = [TQueuePool EXCEPT ![chid] = r]
      <4>1. [head |-> pid, tail |-> pid] \in [head : Ids \cup {Nil}, tail : Ids \cup {Nil}]
        OBVIOUS
      <4>2. [head |-> head(chid), tail |-> pid] \in [head : Ids \cup {Nil}, tail : Ids \cup {Nil}]
        BY <1>b
      <4>3. \/ TQueuePool' = [TQueuePool EXCEPT ![chid] = [head |-> pid, tail |-> pid]]
            \/ TQueuePool' = [TQueuePool EXCEPT ![chid] = [head |-> head(chid), tail |-> pid]]
        BY DEF tqueue_enqueue, head, QueueInv, TypeOK
      <4> QED BY Zenon, <4>1, <4>2, <4>3
    <3> QED BY <3>1 DEF QueueInv, TypeOK
  <2>2. tcb_prev' \in [Ids -> Ids \cup {Nil}] /\ tcb_next' \in [Ids -> Ids \cup {Nil}]
    BY Zenon, <1>b DEF QueueInv, TypeOK, tqueue_enqueue
  <2> QED BY <2>1, <2>2, <1>3, <1>4 DEF QueueInv, TypeOK
<1>6. OnePlace'
  <2> SUFFICES ASSUME NEW c \in Chans, NEW d \in Chans,
                      NEW j \in 1 .. Len(queue'[c]), NEW k \in 1 .. Len(queue'[d]),
                      queue'[c][j] = queue'[d][k]
               PROVE  c = d /\ j = k
    BY DEF OnePlace
  <2>1. OnePlace
    BY DEF QueueInv
  <2>2. j \in 1 .. Len(queue[c]) \/ (c = chid /\ j = n + 1)
    BY <1>e
  <2>3. k \in 1 .. Len(queue[d]) \/ (d = chid /\ k = n + 1)
    BY <1>e
  <2>4. CASE j \in 1 .. Len(queue[c]) /\ k \in 1 .. Len(queue[d])
    <3>1. queue[c][j] = queue[d][k]
      BY <2>4, <1>d
    <3> QED BY <2>1, <2>4, <3>1 DEF OnePlace
  <2>5. CASE j \in 1 .. Len(queue[c]) /\ d = chid /\ k = n + 1
    <3>1. queue'[c][j] = queue[c][j] /\ queue'[d][k] = pid
      BY <2>5, <1>c, <1>d
    <3> QED BY <2>5, <1>2, <3>1
  <2>6. CASE c = chid /\ j = n + 1 /\ k \in 1 .. Len(queue[d])
    <3>1. queue'[d][k] = queue[d][k] /\ queue'[c][j] = pid
      BY <2>6, <1>c, <1>d
    <3> QED BY <2>6, <1>2, <3>1
  <2> QED BY <2>2, <2>3, <2>4, <2>5, <2>6
<1>7. NoStaleLinks'
  <2> SUFFICES ASSUME NEW q \in Ids, Abstract!Unqueued(q)'
               PROVE  tcb_next'[q] = Nil /\ tcb_prev'[q] = Nil
    BY DEF NoStaleLinks
  <2>1. \A c \in Chans : \A k \in 1 .. Len(queue'[c]) : queue'[c][k] # q
    BY DEF Abstract!Unqueued, Abstract!Members, Chans
  <2>2. q # pid /\ \A c \in Chans : \A k \in 1 .. Len(queue[c]) : queue[c][k] # q
    <3>1. q # pid
      BY <2>1, <1>c
    <3>2. ASSUME NEW c \in Chans, NEW k \in 1 .. Len(queue[c])
          PROVE  queue[c][k] # q
      <4>1. k \in 1 .. Len(queue'[c]) /\ queue'[c][k] = queue[c][k]
        BY <1>d
      <4> QED BY <4>1, <2>1
    <3> QED BY <3>1, <3>2
  <2>3. Abstract!Unqueued(q)
    BY <2>2 DEF Abstract!Unqueued, Abstract!Members, Chans
  <2>4. tcb_next[q] = Nil /\ tcb_prev[q] = Nil
    BY <2>3 DEF QueueInv, NoStaleLinks
  <2>5. tail(chid) # q
    <3>1. n > 0 => queue[chid][n] # q
      BY <2>2, <1>c
    <3>2. n = 0 \/ n > 0
      BY <1>c
    <3>3. q # Nil
      BY Basics
    <3> QED BY <3>1, <3>2, <3>3, <1>a
  <2> QED BY <2>2, <2>4, <2>5 DEF QueueInv, TypeOK, tqueue_enqueue
<1>8. LinksSpellQueue'
  <2> SUFFICES ASSUME NEW c \in Chans
               PROVE  /\ head(c)' = Elem(c, 1)'
                      /\ tail(c)' = Elem(c, Len(queue[c]))'
                      /\ \A k \in 1 .. Len(queue'[c]) :
                           /\ tcb_next'[queue'[c][k]] = Elem(c, k + 1)'
                           /\ tcb_prev'[queue'[c][k]] = Elem(c, k - 1)'
    BY DEF LinksSpellQueue
  <2>1. /\ head(c) = Elem(c, 1)
        /\ tail(c) = Elem(c, Len(queue[c]))
        /\ \A k \in 1 .. Len(queue[c]) :
             /\ tcb_next[queue[c][k]] = Elem(c, k + 1)
             /\ tcb_prev[queue[c][k]] = Elem(c, k - 1)
    BY DEF QueueInv, LinksSpellQueue
  <2>2. CASE c # chid
    <3>1. head(c)' = head(c) /\ tail(c)' = tail(c)
      BY <2>2 DEF head, tail, tqueue_enqueue, QueueInv, TypeOK
    <3>2. ASSUME NEW k \in 1 .. Len(queue[c])
          PROVE  /\ tcb_next'[queue[c][k]] = tcb_next[queue[c][k]]
                 /\ tcb_prev'[queue[c][k]] = tcb_prev[queue[c][k]]
      <4>1. queue[c][k] # pid
        BY <1>2
      <4>2. queue[c][k] # tail(chid)
        <5>1. n > 0 => queue[c][k] # queue[chid][n]
          BY <1>1, <2>2 DEF QueueInv, OnePlace
        <5>2. queue[c][k] # Nil
          <6>1. queue[c][k] \in Ids
            BY Zenon, QueuePlaces
          <6> QED BY <6>1, Basics
        <5> QED BY <5>1, <5>2, <1>1, <1>a
      <4> QED BY <4>1, <4>2, <1>1 DEF tqueue_enqueue, QueueInv, TypeOK
    <3>3. queue'[c] = queue[c]
      BY <2>2, <1>c
    <3> QED BY <2>1, <3>1, <3>2, <3>3 DEF Elem
  <2>3. CASE c = chid
    <3>1. CASE n = 0
      <4>1. tail(chid) = Nil
        BY <3>1, QueuePlaces
      <4>2. head(c)' = pid /\ tail(c)' = pid /\ tcb_next'[pid] = Nil /\ tcb_prev'[pid] = Nil
        BY <4>1, <2>3 DEF tqueue_enqueue, head, tail, QueueInv, TypeOK
      <4> QED BY <4>2, <3>1, <2>3, <1>4 DEF Elem
    <3>2. CASE n > 0
      <4>1. tail(chid) # Nil /\ tail(chid) = queue[chid][n] /\ head(chid) = queue[chid][1]
            /\ tail(chid) \in Ids
        BY <3>2, QueuePlaces, <1>1
      <4>2. /\ head(c)' = head(c) /\ tail(c)' = pid
            /\ tcb_prev' = [tcb_prev EXCEPT ![pid] = tail(chid)]
            /\ tcb_next' = [tcb_next EXCEPT ![tail(chid)] = pid, ![pid] = Nil]
        BY <4>1, <2>3 DEF tqueue_enqueue, head, tail, QueueInv, TypeOK
      <4>3. /\ tcb_next'[pid] = Nil
            /\ tcb_prev'[pid] = queue[chid][n]
            /\ tcb_next'[queue[chid][n]] = pid
        <5>1. queue[chid][n] # pid
          BY <1>2, <3>2, <1>1
        <5> QED BY <4>1, <4>2, <5>1 DEF QueueInv, TypeOK
      <4>4. ASSUME NEW k \in 1 .. n
            PROVE  /\ k < n => tcb_next'[queue[chid][k]] = tcb_next[queue[chid][k]]
                   /\ tcb_prev'[queue[chid][k]] = tcb_prev[queue[chid][k]]
        <5>1. queue[chid][k] # pid /\ queue[chid][k] \in Ids
          BY <1>1, <1>2
        <5>2. k < n => queue[chid][k] # queue[chid][n]
          BY <1>1 DEF QueueInv, OnePlace
        <5> QED BY <4>1, <4>2, <5>1, <5>2 DEF QueueInv, TypeOK
      <4>5. head(c)' = Elem(c, 1)' /\ tail(c)' = Elem(c, Len(queue[c]))'
        BY <4>1, <4>2, <2>3, <3>2, <1>1, <1>4 DEF Elem
      <4>6. ASSUME NEW k \in 1 .. n + 1
            PROVE  /\ tcb_next'[queue'[c][k]] = Elem(c, k + 1)'
                   /\ tcb_prev'[queue'[c][k]] = Elem(c, k - 1)'
        <5>1. CASE k = n + 1
          BY <5>1, <4>3, <2>3, <3>2, <1>1, <1>4 DEF Elem
        <5>2. CASE k \in 1 .. n
          <6>1. /\ queue'[c][k] = queue[chid][k]
                /\ tcb_prev'[queue[chid][k]] = Elem(c, k - 1)
            BY <5>2, <4>4, <2>1, <2>3, <1>4
          <6>2. Elem(c, k - 1)' = Elem(c, k - 1)
            BY <5>2, <2>3, <1>1, <1>4 DEF Elem
          <6>3. CASE k = n
            BY <6>1, <6>2, <6>3, <4>3, <2>3, <1>1, <1>4 DEF Elem
          <6>4. CASE k < n
            <7>1. tcb_next'[queue[chid][k]] = Elem(c, k + 1)
              BY <5>2, <6>4, <4>4, <2>1, <2>3
            <7>2. Elem(c, k + 1)' = Elem(c, k + 1)
              BY <5>2, <6>4, <2>3, <1>1, <1>4 DEF Elem
            <7> QED BY <6>1, <6>2, <7>1, <7>2
          <6> QED BY <5>2, <6>3, <6>4, <1>1
        <5> QED BY <5>1, <5>2, <1>1
      <4> QED BY <4>5, <4>6, <2>3, <1>4
    <3> QED BY <3>1, <3>2, <1>1
  <2> QED BY <2>2, <2>3
<1> QED BY <1>3, <1>5, <1>6, <1>7, <1>8 DEF QueueInv, Abstract!Enqueue

-----------------------------------------------------------------------------
\* Taking the k-th element out of a sequence.
LEMMA WithoutIs ==
  ASSUME NEW S, NEW s \in Seq(S), NEW k \in 1 .. Len(s)
  PROVE  /\ Abstract!Without(s, k) \in Seq(S)
         /\ Len(Abstract!Without(s, k)) = Len(s) - 1
         /\ \A j \in 1 .. Len(s) - 1 :
              Abstract!Without(s, k)[j] = IF j < k THEN s[j] ELSE s[j + 1]
<1>1. Len(s) \in Nat /\ Len(s) - 1 \in Nat /\ \A j \in 1 .. Len(s) : s[j] \in S
  OBVIOUS
<1> DEFINE w == Abstract!Without(s, k)
<1>2. /\ w = [j \in 1 .. Len(s) - 1 |-> IF j < k THEN s[j] ELSE s[j + 1]]
      /\ w \in [1 .. Len(s) - 1 -> S]
  BY <1>1 DEF Abstract!Without
<1> HIDE DEF w
<1>3. w \in Seq(S) /\ Len(w) = Len(s) - 1
  BY <1>1, <1>2
<1> QED BY <1>2, <1>3 DEF w

(***************************************************************************)
(* What tqueue_dequeue and tqueue_remove have in common: the k-th member   *)
(* of a queue is unlinked from its neighbours.                             *)
(***************************************************************************)
Unlink(chid, k) ==
  LET pid == queue[chid][k]
      nx  == Elem(chid, k + 1)
      pv  == Elem(chid, k - 1)
  IN  /\ queue' = [queue EXCEPT ![chid] = Abstract!Without(@, k)]
      /\ TQueuePool' = [TQueuePool EXCEPT
           ![chid] = [head |-> IF k = 1 THEN nx ELSE head(chid),
                      tail |-> IF k = Len(queue[chid]) THEN pv ELSE tail(chid)]]
      /\ tcb_prev' = [p \in Ids |->
           IF p = pid THEN Nil ELSE IF p = nx THEN pv ELSE tcb_prev[p]]
      /\ tcb_next' = [p \in Ids |->
           IF p = pid THEN Nil ELSE IF p = pv THEN nx ELSE tcb_next[p]]

\* Taking a thread out of a queue keeps the lists consistent.
LEMMA UnlinkStep ==
  ASSUME QueueInv, NEW chid \in Chans, NEW k \in 1 .. Len(queue[chid]),
         Unlink(chid, k), ret' \in Ids \cup {Nil}
  PROVE  QueueInv'
<1> DEFINE n   == Len(queue[chid])
           s   == queue[chid]
           pid == queue[chid][k]
           nx  == Elem(chid, k + 1)
           pv  == Elem(chid, k - 1)
           Old(j) == IF j < k THEN j ELSE j + 1
<1>1. /\ n \in Nat
      /\ \A c \in Chans : Len(queue[c]) \in Nat /\ queue[c] \in Seq(Ids)
      /\ \A c \in Chans : \A j \in 1 .. Len(queue[c]) : queue[c][j] \in Ids
  BY QueuePlaces
<1>2. /\ queue' \in [Chans -> Seq(Ids)]
      /\ Len(queue'[chid]) = n - 1
      /\ \A j \in 1 .. n - 1 : queue'[chid][j] = s[Old(j)]
      /\ \A c \in Chans \ {chid} : queue'[c] = queue[c]
  <2>1. queue' = [queue EXCEPT ![chid] = Abstract!Without(@, k)]
    BY DEF Unlink
  <2>2. queue'[chid] = Abstract!Without(s, k)
    BY <2>1 DEF QueueInv, TypeOK
  <2>3. queue'[chid] \in Seq(Ids) /\ Len(queue'[chid]) = n - 1
        /\ \A j \in 1 .. n - 1 : queue'[chid][j] = IF j < k THEN s[j] ELSE s[j + 1]
    BY Zenon, <2>2, <1>1, WithoutIs
  <2>4. queue' \in [Chans -> Seq(Ids)]
    <3>1. Abstract!Without(s, k) \in Seq(Ids)
      BY <2>2, <2>3
    <3> QED BY <3>1, <2>1 DEF QueueInv, TypeOK
  <2>5. \A j \in 1 .. n - 1 : queue'[chid][j] = s[Old(j)]
    BY <2>3
  <2> QED BY <2>1, <2>3, <2>4, <2>5 DEF QueueInv, TypeOK
<1>a. /\ n \in Nat /\ k \in 1 .. n /\ Len(queue'[chid]) = n - 1
      /\ \A c \in Chans \ {chid} : queue'[c] = queue[c]
  BY <1>1, <1>2
<1>b. ASSUME NEW j \in 1 .. n - 1
      PROVE  Old(j) \in 1 .. n /\ Old(j) # k /\ queue'[chid][j] = s[Old(j)]
  <2>1. queue'[chid][j] = s[Old(j)]
    BY <1>2
  <2>2. Old(j) \in 1 .. n /\ Old(j) # k
    BY <1>a
  <2> QED BY <2>1, <2>2
<1>3. OnePlace
  BY DEF QueueInv
<1>4. /\ pid \in Ids /\ nx \in Ids \cup {Nil} /\ pv \in Ids \cup {Nil}
      /\ head(chid) \in Ids \cup {Nil} /\ tail(chid) \in Ids \cup {Nil}
  BY <1>1 DEF Elem, head, tail, QueueInv, TypeOK
<1>5. TypeOK'
  <2> DEFINE r == [head |-> IF k = 1 THEN nx ELSE head(chid),
                   tail |-> IF k = n THEN pv ELSE tail(chid)]
  <2>1. r \in [head : Ids \cup {Nil}, tail : Ids \cup {Nil}]
    BY <1>4
  <2>2. TQueuePool' = [TQueuePool EXCEPT ![chid] = r]
    BY DEF Unlink
  <2> HIDE DEF r
  <2>3. TQueuePool' \in [Chans -> [head : Ids \cup {Nil}, tail : Ids \cup {Nil}]]
    BY <2>1, <2>2 DEF QueueInv, TypeOK
  <2>4. tcb_prev' \in [Ids -> Ids \cup {Nil}] /\ tcb_next' \in [Ids -> Ids \cup {Nil}]
    BY <1>4 DEF Unlink, QueueInv, TypeOK
  <2> QED BY <2>3, <2>4, <1>2 DEF TypeOK
<1>6. OnePlace'
  <2> SUFFICES ASSUME NEW c \in Chans, NEW d \in Chans,
                      NEW i \in 1 .. Len(queue'[c]), NEW j \in 1 .. Len(queue'[d]),
                      queue'[c][i] = queue'[d][j]
               PROVE  c = d /\ i = j
    BY DEF OnePlace
  <2> DEFINE ii == IF c = chid THEN Old(i) ELSE i
             jj == IF d = chid THEN Old(j) ELSE j
  <2>1. ii \in 1 .. Len(queue[c]) /\ queue'[c][i] = queue[c][ii]
    <3>1. CASE c = chid
      BY SMTT(30), <3>1, <1>a, <1>b
    <3>2. CASE c # chid
      BY <3>2, <1>a
    <3> QED BY <3>1, <3>2
  <2>2. jj \in 1 .. Len(queue[d]) /\ queue'[d][j] = queue[d][jj]
    <3>1. CASE d = chid
      BY <3>1, <1>a, <1>b
    <3>2. CASE d # chid
      BY <3>2, <1>a
    <3> QED BY <3>1, <3>2
  <2> HIDE DEF ii, jj
  <2>3. c = d /\ ii = jj
    <3>1. queue[c][ii] = queue[d][jj]
      BY Zenon, <2>1, <2>2
    <3>2. \A i1 \in 1 .. Len(queue[c]), j1 \in 1 .. Len(queue[d]) :
            queue[c][i1] = queue[d][j1] => c = d /\ i1 = j1
      BY <1>3 DEF OnePlace
    <3> QED BY <2>1, <2>2, <3>1, <3>2
  <2> QED BY <2>3, <1>1, <1>2 DEF ii, jj
<1>7. NoStaleLinks'
  <2> SUFFICES ASSUME NEW q \in Ids, Abstract!Unqueued(q)'
               PROVE  tcb_next'[q] = Nil /\ tcb_prev'[q] = Nil
    BY DEF NoStaleLinks
  <2>1. \A c \in Chans : \A j \in 1 .. Len(queue'[c]) : queue'[c][j] # q
    BY DEF Abstract!Unqueued, Abstract!Members, Chans
  <2>2. CASE q = pid
    BY <2>2 DEF Unlink
  <2>3. CASE q # pid
    <3>1. ASSUME NEW c \in Chans, NEW j \in 1 .. Len(queue[c])
          PROVE  queue[c][j] # q
      <4>1. CASE c # chid
        BY <4>1, <2>1, <1>2
      <4>2. CASE c = chid /\ j < k
        <5>1. j \in 1 .. n - 1 /\ Old(j) = j
          BY <4>2, <1>1
        <5> QED BY <5>1, <4>2, <2>1, <1>2
      <4>3. CASE c = chid /\ j = k
        BY <4>3, <2>3
      <4>4. CASE c = chid /\ j > k
        <5>1. j - 1 \in 1 .. n - 1 /\ Old(j - 1) = j
          BY <4>4, <1>1
        <5>2. queue'[chid][j - 1] = s[j]
          BY <5>1, <1>2
        <5> QED BY <5>1, <5>2, <4>4, <2>1, <1>2
      <4> QED BY <4>1, <4>2, <4>3, <4>4, <1>1
    <3>2. Abstract!Unqueued(q)
      BY <3>1 DEF Abstract!Unqueued, Abstract!Members, Chans
    <3>3. tcb_next[q] = Nil /\ tcb_prev[q] = Nil
      BY <3>2 DEF QueueInv, NoStaleLinks
    <3>4. q # nx /\ q # pv
      BY <3>1, Basics DEF Elem
    <3> QED BY <3>3, <3>4, <2>3 DEF Unlink
  <2> QED BY <2>2, <2>3
<1>8. LinksSpellQueue'
  <2> DEFINE NewElem(c, j) == IF j \in 1 .. Len(queue'[c]) THEN queue'[c][j] ELSE Nil
  <2> SUFFICES ASSUME NEW c \in Chans
               PROVE  /\ head(c)' = NewElem(c, 1)
                      /\ tail(c)' = NewElem(c, Len(queue'[c]))
                      /\ \A j \in 1 .. Len(queue'[c]) :
                           /\ tcb_next'[queue'[c][j]] = NewElem(c, j + 1)
                           /\ tcb_prev'[queue'[c][j]] = NewElem(c, j - 1)
    BY DEF LinksSpellQueue, Elem
  <2>1. /\ head(c) = Elem(c, 1)
        /\ tail(c) = Elem(c, Len(queue[c]))
        /\ \A j \in 1 .. Len(queue[c]) :
             /\ tcb_next[queue[c][j]] = Elem(c, j + 1)
             /\ tcb_prev[queue[c][j]] = Elem(c, j - 1)
    BY DEF QueueInv, LinksSpellQueue
  <2>2. CASE c # chid
    <3>1. head(c)' = head(c) /\ tail(c)' = tail(c)
      BY <2>2 DEF head, tail, Unlink, QueueInv, TypeOK
    <3>2. ASSUME NEW j \in 1 .. Len(queue[c])
          PROVE  /\ tcb_next'[queue[c][j]] = tcb_next[queue[c][j]]
                 /\ tcb_prev'[queue[c][j]] = tcb_prev[queue[c][j]]
      <4>1. \A i \in 1 .. n : queue[c][j] # s[i]
        BY <1>3, <2>2 DEF OnePlace
      <4>2. queue[c][j] # pid /\ queue[c][j] # nx /\ queue[c][j] # pv
        BY Zenon, <4>1, <1>1, Basics DEF Elem
      <4> QED BY <4>2, <1>1 DEF Unlink
    <3>3. queue'[c] = queue[c] /\ \A j \in Int : NewElem(c, j) = Elem(c, j)
      BY <2>2, <1>2 DEF Elem
    <3> HIDE DEF NewElem
    <3>4. Len(queue[c]) \in Nat
      BY <1>1
    <3>5. /\ NewElem(c, 1) = Elem(c, 1)
          /\ NewElem(c, Len(queue'[c])) = Elem(c, Len(queue[c]))
          /\ \A j \in 1 .. Len(queue[c]) :
               NewElem(c, j + 1) = Elem(c, j + 1) /\ NewElem(c, j - 1) = Elem(c, j - 1)
      BY <3>3, <3>4
    <3> QED BY <2>1, <3>1, <3>2, <3>3, <3>5
  <2>3. CASE c = chid
    <3>1. \A j \in 0 .. n : NewElem(c, j) = Elem(c, Old(j))
      BY <2>3, <1>1, <1>2 DEF Elem
    <3> HIDE DEF NewElem
    <3>2. head(c)' = NewElem(c, 1)
      <4>1. head(c)' = IF k = 1 THEN nx ELSE head(chid)
        BY <2>3 DEF head, Unlink, QueueInv, TypeOK
      <4>2. NewElem(c, 1) = Elem(c, Old(1))
        BY <3>1, <1>1
      <4> QED BY <4>1, <4>2, <2>1, <2>3
    <3>3. tail(c)' = NewElem(c, Len(queue'[c]))
      <4>1. tail(c)' = IF k = n THEN pv ELSE tail(chid)
        BY <2>3 DEF tail, Unlink, QueueInv, TypeOK
      <4>2. Len(queue'[c]) = n - 1 /\ NewElem(c, n - 1) = Elem(c, Old(n - 1))
        BY <3>1, <1>a, <2>3
      <4>3. k = n => Old(n - 1) = k - 1
        BY <1>1
      <4>4. k # n => Old(n - 1) = n
        BY <1>1
      <4> QED BY <4>1, <4>2, <4>3, <4>4, <2>1, <2>3
    <3>4. ASSUME NEW j \in 1 .. n - 1
          PROVE  /\ tcb_next'[queue'[c][j]] = NewElem(c, j + 1)
                 /\ tcb_prev'[queue'[c][j]] = NewElem(c, j - 1)
      <4> DEFINE m == Old(j)
      <4>1. m \in 1 .. n /\ m # k /\ queue'[c][j] = s[m] /\ s[m] \in Ids
        <5>1. m \in 1 .. n /\ m # k /\ queue'[c][j] = s[m]
          BY <2>3, <1>b
        <5> QED BY <5>1, <1>1
      <4>2. \A i \in 1 .. n : s[m] = s[i] => m = i
        BY <4>1, <1>3 DEF OnePlace
      <4>3. s[m] # pid
        BY <4>1, <4>2
      <4>4. (s[m] = pv) <=> (m = k - 1)
        BY Zenon, <4>1, <4>2, <1>1, Basics DEF Elem
      <4>5. (s[m] = nx) <=> (m = k + 1)
        BY Zenon, <4>1, <4>2, <1>1, Basics DEF Elem
      <4>6. tcb_next'[s[m]] = IF m = k - 1 THEN Elem(c, k + 1) ELSE Elem(c, m + 1)
        BY SMTT(30), <4>1, <4>3, <4>4, <2>1, <2>3 DEF Unlink
      <4>7. tcb_prev'[s[m]] = IF m = k + 1 THEN Elem(c, k - 1) ELSE Elem(c, m - 1)
        BY SMTT(30), <4>1, <4>3, <4>5, <2>1, <2>3 DEF Unlink
      <4>8. NewElem(c, j + 1) = Elem(c, Old(j + 1)) /\ NewElem(c, j - 1) = Elem(c, Old(j - 1))
        <5>1. j + 1 \in 0 .. n /\ j - 1 \in 0 .. n
          BY <1>a
        <5> QED BY <3>1, <5>1
      <4>9. Old(j + 1) = IF m = k - 1 THEN k + 1 ELSE m + 1
        BY <1>1
      <4>10. Old(j - 1) = IF m = k + 1 THEN k - 1 ELSE m - 1
        BY <1>1
      <4> HIDE DEF m, Old
      <4> QED BY <4>1, <4>6, <4>7, <4>8, <4>9, <4>10
    <3> QED BY Zenon, <3>2, <3>3, <3>4, <2>3, <1>2
  <2> QED BY <2>2, <2>3
<1> QED BY <1>5, <1>6, <1>7, <1>8 DEF QueueInv

-----------------------------------------------------------------------------
\* A step that leaves the lists alone.
LEMMA StutterStep ==
  ASSUME QueueInv, UNCHANGED <<TQueuePool, tcb_prev, tcb_next, queue>>, ret' \in Ids \cup {Nil}
  PROVE  QueueInv'
<1>1. TypeOK'
  BY DEF QueueInv, TypeOK
<1>2. LinksSpellQueue'
  BY DEF QueueInv, LinksSpellQueue, Elem, head, tail
<1>3. OnePlace'
  BY DEF QueueInv, OnePlace
<1>4. NoStaleLinks'
  BY DEF QueueInv, NoStaleLinks, Abstract!Unqueued, Abstract!Members
<1> QED BY <1>1, <1>2, <1>3, <1>4 DEF QueueInv

\* Dequeueing takes the head, and reports an empty queue only if it is empty.
LEMMA DequeueStep ==
  ASSUME QueueInv, NEW chid \in Chans, tqueue_dequeue(chid)
  PROVE  QueueInv' /\ Abstract!Dequeue(chid)
<1> DEFINE s == queue[chid]
           n == Len(queue[chid])
<1>1. /\ n \in Nat /\ s \in Seq(Ids)
      /\ \A k \in 1 .. n : s[k] \in Ids
      /\ (head(chid) = Nil) <=> (n = 0)
      /\ n > 0 => head(chid) = s[1] /\ tail(chid) = s[n]
  BY QueuePlaces
<1>2. CASE head(chid) = Nil
  <2>1. s = <<>>
    BY <1>1, <1>2
  <2>2. ret' = Nil /\ UNCHANGED <<TQueuePool, tcb_prev, tcb_next, queue>>
    BY <1>2 DEF tqueue_dequeue
  <2>3. QueueInv'
    BY <2>2, StutterStep
  <2> QED BY <2>1, <2>2, <2>3 DEF Abstract!Dequeue, Nil
<1>3. CASE head(chid) # Nil
  <2>1. n > 0 /\ 1 \in 1 .. n /\ head(chid) = s[1] /\ tail(chid) = s[n] /\ s[1] \in Ids
    BY <1>1, <1>3
  <2>2. tcb_next[s[1]] = Elem(chid, 2) /\ tcb_prev[s[1]] = Elem(chid, 0)
    <3>1. tcb_next[s[1]] = Elem(chid, 1 + 1) /\ tcb_prev[s[1]] = Elem(chid, 1 - 1)
      BY <2>1 DEF QueueInv, LinksSpellQueue
    <3> QED BY <3>1
  <2>0. \A i, j \in 1 .. n : s[i] = s[j] => i = j
    BY DEF QueueInv, OnePlace
  <2>3. (s[1] = tail(chid)) <=> (n = 1)
    <3>1. n \in 1 .. n /\ 1 \in 1 .. n
      BY <1>1, <2>1
    <3>2. s[1] = s[n] <=> n = 1
      <4> HIDE DEF n, s
      <4> QED BY <2>0, <3>1
    <3> QED BY <2>1, <3>2
  <2>4. /\ Elem(chid, 1 - 1) = Nil /\ (n = 1 => Elem(chid, 2) = Nil)
        /\ (n # 1 => Elem(chid, 2) = s[2] /\ s[2] \in Ids /\ s[2] # s[1])
    <3>1. n \in Nat /\ n > 0
      BY <1>1, <2>1
    <3>2. n # 1 => 2 \in 1 .. n
      <4> HIDE DEF n
      <4> QED BY <3>1
    <3>3. n # 1 => s[2] \in Ids /\ s[2] # s[1]
      BY <1>1, <2>0, <2>1, <3>2
    <3>4. Elem(chid, 1 - 1) = Nil /\ (n = 1 => Elem(chid, 2) = Nil)
      BY <3>1 DEF Elem
    <3>5. n # 1 => Elem(chid, 2) = s[2]
      BY <3>2 DEF Elem
    <3> QED BY <3>3, <3>4, <3>5
  <2>5. Unlink(chid, 1)
    <3>1. Tail(s) = Abstract!Without(s, 1)
      BY <1>1, <2>1 DEF Abstract!Without
    <3>2. queue' = [queue EXCEPT ![chid] = Abstract!Without(@, 1)]
      BY Zenon, <3>1, <1>3 DEF tqueue_dequeue
    <3>3. TQueuePool' = [TQueuePool EXCEPT
           ![chid] = [head |-> Elem(chid, 2),
                      tail |-> IF 1 = n THEN Elem(chid, 1 - 1) ELSE tail(chid)]]
      BY <1>3, <2>1, <2>2, <2>3, <2>4 DEF tqueue_dequeue, tail
    <3>4. tcb_prev' = [p \in Ids |->
             IF p = s[1] THEN Nil ELSE IF p = Elem(chid, 2) THEN Elem(chid, 1 - 1) ELSE tcb_prev[p]]
      <4>1. tcb_prev' = IF n = 1 THEN [tcb_prev EXCEPT ![s[1]] = Nil]
                        ELSE [tcb_prev EXCEPT ![Elem(chid, 2)] = Nil, ![s[1]] = Nil]
        BY <1>3, <2>1, <2>2, <2>3 DEF tqueue_dequeue
      <4>2. n = 1 => \A p \in Ids : p # Elem(chid, 2)
        BY <2>4, Basics
      <4>3. tcb_prev \in [Ids -> Ids \cup {Nil}]
        BY DEF QueueInv, TypeOK
      <4> QED BY Zenon, <4>1, <4>2, <4>3, <2>4
    <3>5. tcb_next' = [p \in Ids |->
             IF p = s[1] THEN Nil ELSE IF p = Elem(chid, 1 - 1) THEN Elem(chid, 2) ELSE tcb_next[p]]
      <4>1. tcb_next' = [tcb_next EXCEPT ![s[1]] = Nil]
        BY <1>3, <2>1 DEF tqueue_dequeue
      <4>2. \A p \in Ids : p # Elem(chid, 1 - 1)
        BY <2>4, Basics
      <4>3. tcb_next \in [Ids -> Ids \cup {Nil}]
        BY DEF QueueInv, TypeOK
      <4> QED BY Zenon, <4>1, <4>2, <4>3
    <3>6. 1 + 1 = 2
      OBVIOUS
    <3> QED BY <3>2, <3>3, <3>4, <3>5, <3>6 DEF Unlink
  <2>6. ret' = s[1] /\ queue' = [queue EXCEPT ![chid] = Tail(@)]
    BY <1>3, <2>1 DEF tqueue_dequeue
  <2>7. QueueInv'
    BY <2>1, <2>5, <2>6, UnlinkStep
  <2>8. s # <<>> /\ Head(s) = s[1]
    BY <1>1, <2>1
  <2> QED BY <2>6, <2>7, <2>8 DEF Abstract!Dequeue
<1> QED BY <1>2, <1>3

-----------------------------------------------------------------------------

\* A non-empty set of natural numbers has a least element.
LEMMA LeastNat ==
  ASSUME NEW T \in SUBSET Nat, T # {}
  PROVE  \E x \in T : \A y \in T : x <= y
<1> DEFINE R == OpToRel(<, Nat)
<1>1. IsWellFoundedOn(R, Nat)
  BY Zenon, NatLessThanWellFounded
<1> HIDE DEF R
<1>2. PICK x \in T : \A y \in T : ~(<<y, x>> \in R)
  BY Zenon, <1>1, WFMin
<1>3. \A m, n \in Nat : m < n => <<m, n>> \in R
  BY DEF R, OpToRel
<1>4. \A y \in T : ~(y < x)
  BY <1>2, <1>3, Zenon
<1> QED BY <1>4

\* A number below the bound that is not the last one.
LEMMA BelowTop ==
  ASSUME NEW n \in Nat, NEW y \in 0 .. n - 1, y # n - 1
  PROVE  y \in 0 .. n - 2
OBVIOUS

\* More places than threads: some thread has two of them.
LEMMA Pigeonhole ==
  ASSUME NEW n \in Nat, NEW f \in [1 .. n + 1 -> 0 .. n - 1]
  PROVE  \E j, k \in 1 .. n + 1 : j # k /\ f[j] = f[k]
<1> DEFINE Fits(m) == \E g \in [1 .. m + 1 -> 0 .. m - 1] :
                        \A j, k \in 1 .. m + 1 : g[j] = g[k] => j = k
           T == {m \in Nat : Fits(m)}
<1>1. T = {}
  <2> SUFFICES ASSUME T # {} PROVE FALSE
    BY Zenon
  <2>1. PICK m \in T : \A y \in T : m <= y
    <3>1. T \in SUBSET Nat
      OBVIOUS
    <3> HIDE DEF T
    <3> QED BY <3>1, LeastNat
  <2>2. PICK g \in [1 .. m + 1 -> 0 .. m - 1] :
          \A j, k \in 1 .. m + 1 : g[j] = g[k] => j = k
    BY Zenon, <2>1
  <2>3. m \in Nat /\ m # 0
    <3>1. m \in Nat /\ 1 \in 1 .. m + 1 /\ g[1] \in 0 .. m - 1
      BY <2>1, <2>2
    <3> QED BY <3>1
  <2> DEFINE last == g[m + 1]
             h == [k \in 1 .. m |-> IF g[k] = m - 1 THEN last ELSE g[k]]
  <2>4. /\ last \in 0 .. m - 1
        /\ \A k \in 1 .. m : g[k] \in 0 .. m - 1 /\ g[k] # last
        /\ \A j, k \in 1 .. m : g[j] = g[k] => j = k
    BY <2>2, <2>3
  <2> HIDE DEF T, last
  <2>5. \A k \in 1 .. m : h[k] \in 0 .. m - 2
    <3> TAKE k \in 1 .. m
    <3>1. h[k] = IF g[k] = m - 1 THEN last ELSE g[k]
      OBVIOUS
    <3>2. h[k] \in 0 .. m - 1 /\ h[k] # m - 1
      BY Zenon, <2>4, <3>1
    <3> QED BY Zenon, <2>3, <3>2, BelowTop
  <2>6. \A j, k \in 1 .. m : h[j] = h[k] => j = k
    BY <2>4
  <2>7. h \in [1 .. (m - 1) + 1 -> 0 .. (m - 1) - 1]
    BY <2>3, <2>5
  <2>8. Fits(m - 1)
    BY Zenon, <2>3, <2>6, <2>7
  <2> HIDE DEF Fits
  <2>9. m - 1 \in T
    BY <2>3, <2>8 DEF T
  <2> QED BY <2>1, <2>3, <2>9
<1> HIDE DEF Fits
<1>2. ~Fits(n)
  BY <1>1
<1> QED BY <1>2 DEF Fits

\* A queue holds every thread at most once.
LEMMA QueueBound ==
  ASSUME QueueInv, NEW c \in Chans
  PROVE  Len(queue[c]) <= NUM_IDS
<1>1. Len(queue[c]) \in Nat /\ \A k \in 1 .. Len(queue[c]) : queue[c][k] \in Ids
  BY QueuePlaces
<1>2. \A j, k \in 1 .. Len(queue[c]) : queue[c][j] = queue[c][k] => j = k
  BY DEF QueueInv, OnePlace
<1> SUFFICES ASSUME Len(queue[c]) > NUM_IDS PROVE FALSE
  BY <1>1, Basics
<1> DEFINE f == [k \in 1 .. NUM_IDS + 1 |-> queue[c][k]]
<1>3. 1 .. NUM_IDS + 1 \subseteq 1 .. Len(queue[c])
  BY <1>1, Basics
<1>4. f \in [1 .. NUM_IDS + 1 -> 0 .. NUM_IDS - 1]
  BY <1>1, <1>3, Basics
<1>5. \A j, k \in 1 .. NUM_IDS + 1 : f[j] = f[k] => j = k
  BY <1>2, <1>3
<1> HIDE DEF f
<1>6. NUM_IDS \in Nat
  BY Basics
<1>7. \E j, k \in 1 .. NUM_IDS + 1 : j # k /\ f[j] = f[k]
  BY Zenon, <1>4, <1>6, Pigeonhole
<1> QED BY Zenon, <1>5, <1>7

\* The search loop of tqueue_remove finds exactly the members of the queue.
LEMMA SearchFindsMembers ==
  ASSUME QueueInv, NEW c \in Chans, NEW pid \in Ids
  PROVE  Reaches(c, pid) <=> \E k \in 1 .. Len(queue[c]) : queue[c][k] = pid
<1>1. Len(queue[c]) \in Nat /\ \A k \in 1 .. Len(queue[c]) : queue[c][k] \in Ids
  BY QueuePlaces
<1>2. /\ head(c) = Elem(c, 1)
      /\ \A k \in 1 .. Len(queue[c]) : tcb_next[queue[c][k]] = Elem(c, k + 1)
  BY DEF QueueInv, LinksSpellQueue
<1>3. ASSUME Reaches(c, pid)
      PROVE  \E k \in 1 .. Len(queue[c]) : queue[c][k] = pid
  <2>0. PICK n \in 0 .. NUM_IDS - 1 : \E path \in [0 .. n -> Ids] :
          /\ path[0] = head(c)
          /\ path[n] = pid
          /\ \A k \in 0 .. n - 1 : path[k + 1] = tcb_next[path[k]]
    BY <1>3 DEF Reaches
  <2>1. PICK path \in [0 .. n -> Ids] :
          /\ path[0] = head(c)
          /\ path[n] = pid
          /\ \A k \in 0 .. n - 1 : path[k + 1] = tcb_next[path[k]]
    BY <2>0
  <2>2. n \in Nat /\ \A k \in 0 .. n : path[k] \in Ids
    BY <2>1, Basics
  <2> DEFINE Off == {k \in 0 .. n : path[k] # Elem(c, k + 1)}
  <2>3. Off = {}
    <3> SUFFICES ASSUME Off # {} PROVE FALSE
      OBVIOUS
    <3>1. PICK x \in Off : \A y \in Off : x <= y
      <4>1. Off \in SUBSET Nat
        BY <2>2
      <4> HIDE DEF Off
      <4> QED BY <4>1, LeastNat
    <3>2. CASE x = 0
      BY <3>2, <3>1, <2>1, <1>2
    <3>3. CASE x > 0
      <4>1. x - 1 \in 0 .. n - 1 /\ x \in 0 .. n /\ x - 1 \notin Off /\ x - 1 \in 0 .. n
        BY <3>1, <3>3, <2>2
      <4>2. path[x - 1] = Elem(c, x)
        BY <4>1
      <4>3. path[x - 1] \in Ids
        BY <4>1, <2>2
      <4>4. x \in 1 .. Len(queue[c]) /\ path[x - 1] = queue[c][x]
        BY <4>2, <4>3, Basics DEF Elem
      <4>5. path[x] = tcb_next[path[x - 1]]
        <5>1. path[(x - 1) + 1] = tcb_next[path[x - 1]]
          BY <2>1, <4>1
        <5> QED BY <5>1, <4>1
      <4>6. path[x] = Elem(c, x + 1)
        BY <4>4, <4>5, <1>2
      <4> QED BY <4>6, <3>1
    <3> QED BY <3>1, <3>2, <3>3, <2>2
  <2>4. pid = Elem(c, n + 1)
    BY <2>1, <2>2, <2>3
  <2> QED BY <2>2, <2>4, Basics DEF Elem
<1>4. ASSUME NEW k \in 1 .. Len(queue[c]), queue[c][k] = pid
      PROVE  Reaches(c, pid)
  <2> DEFINE path == [j \in 0 .. k - 1 |-> queue[c][j + 1]]
  <2>1. k - 1 \in 0 .. NUM_IDS - 1
    BY QueueBound, <1>1, Basics
  <2>2. path \in [0 .. k - 1 -> Ids]
    BY <1>1
  <2>3. path[0] = head(c) /\ path[k - 1] = pid
    BY <1>1, <1>2, <1>4 DEF Elem
  <2>4. ASSUME NEW j \in 0 .. (k - 1) - 1
        PROVE  path[j + 1] = tcb_next[path[j]]
    <3>1. /\ j + 1 \in 1 .. Len(queue[c]) /\ j + 2 \in 1 .. Len(queue[c])
          /\ j \in 0 .. k - 1 /\ j + 1 \in 0 .. k - 1
          /\ (j + 1) + 1 = j + 2
      BY <1>1
    <3>2. tcb_next[queue[c][j + 1]] = Elem(c, j + 2)
      BY <1>2, <3>1
    <3> QED BY <3>1, <3>2 DEF Elem
  <2> HIDE DEF path
  <2> QED BY <2>1, <2>2, <2>3, <2>4 DEF Reaches
<1> QED BY <1>3, <1>4

\* tqueue_remove, of a member or of a thread that is not in the queue.
LEMMA RemoveStep ==
  ASSUME QueueInv, NEW chid \in Chans, NEW pid \in Ids, tqueue_remove(chid, pid)
  PROVE  QueueInv' /\ Abstract!Remove(chid, pid)
<1> DEFINE s == queue[chid]
           n == Len(queue[chid])
<1>1. /\ n \in Nat /\ s \in Seq(Ids)
      /\ \A k \in 1 .. n : s[k] \in Ids
      /\ (head(chid) = Nil) <=> (n = 0)
      /\ n > 0 => head(chid) = s[1] /\ tail(chid) = s[n]
  BY QueuePlaces
<1>2. Reaches(chid, pid) <=> \E k \in 1 .. n : s[k] = pid
  BY SearchFindsMembers
<1>3. ret' = ret /\ ret' \in Ids \cup {Nil}
  BY DEF tqueue_remove, QueueInv, TypeOK
<1>4. CASE ~Reaches(chid, pid)
  <2>1. UNCHANGED <<TQueuePool, tcb_prev, tcb_next, queue>>
    BY <1>4 DEF tqueue_remove
  <2>2. QueueInv'
    BY <1>3, <2>1, StutterStep
  <2>3. pid \notin Abstract!Members(chid)
    BY <1>2, <1>4 DEF Abstract!Members
  <2> QED BY <1>3, <2>1, <2>2, <2>3 DEF Abstract!Remove
<1>5. CASE Reaches(chid, pid)
  <2>1. PICK k \in 1 .. n : /\ s[k] = pid
                            /\ queue' = [queue EXCEPT ![chid] = Abstract!Without(@, k)]
    BY <1>5 DEF tqueue_remove
  <2> DEFINE nx == Elem(chid, k + 1)
             pv == Elem(chid, k - 1)
  <2>2. tcb_next[pid] = nx /\ tcb_prev[pid] = pv
    BY <2>1 DEF QueueInv, LinksSpellQueue
  <2>3. (head(chid) = pid <=> k = 1) /\ (tail(chid) = pid <=> k = n)
    BY <1>1, <2>1 DEF QueueInv, OnePlace
  <2>4. /\ nx \in Ids \cup {Nil} /\ pv \in Ids \cup {Nil}
        /\ nx # pid /\ pv # pid
    <3>1. \A i, j \in 1 .. n : s[i] = s[j] => i = j
      BY DEF QueueInv, OnePlace
    <3>2. k + 1 \in 1 .. n => s[k + 1] \in Ids /\ s[k + 1] # pid
      BY <1>1, <2>1, <3>1
    <3>3. k - 1 \in 1 .. n => s[k - 1] \in Ids /\ s[k - 1] # pid
      BY <1>1, <2>1, <3>1
    <3> QED BY <3>2, <3>3, Basics DEF Elem
  <2>5. TQueuePool' = [TQueuePool EXCEPT
           ![chid] = [head |-> IF k = 1 THEN nx ELSE head(chid),
                      tail |-> IF k = n THEN pv ELSE tail(chid)]]
    BY <1>5, <2>2, <2>3 DEF tqueue_remove, head, tail
  <2>6. tcb_prev' = [p \in Ids |->
           IF p = pid THEN Nil ELSE IF p = nx THEN pv ELSE tcb_prev[p]]
    BY <1>5, <2>2, <2>4 DEF tqueue_remove
  <2>7. tcb_next' = [p \in Ids |->
           IF p = pid THEN Nil ELSE IF p = pv THEN nx ELSE tcb_next[p]]
    BY <1>5, <2>2, <2>4 DEF tqueue_remove
  <2>8. Unlink(chid, k)
    BY <2>1, <2>5, <2>6, <2>7 DEF Unlink
  <2>9. QueueInv'
    BY <2>8, <1>3, UnlinkStep
  <2> QED BY Zenon, <1>3, <2>1, <2>9 DEF Abstract!Remove
<1> QED BY <1>4, <1>5

-----------------------------------------------------------------------------
\* Every step keeps the invariant, and is a step of ThreadQueues or a stutter.
LEMMA NextStep ==
  ASSUME QueueInv, [Next]_vars
  PROVE  QueueInv' /\ [Abstract!Next]_<<queue, ret>>
<1>1. ASSUME NEW chid \in Chans, NEW pid \in Ids, tqueue_enqueue(chid, pid)
      PROVE  QueueInv' /\ Abstract!Next
  BY <1>1, EnqueueStep DEF Abstract!Next, Chans, Ids
<1>2. ASSUME NEW chid \in Chans, tqueue_dequeue(chid)
      PROVE  QueueInv' /\ Abstract!Next
  BY <1>2, DequeueStep DEF Abstract!Next, Chans
<1>3. ASSUME NEW chid \in Chans, NEW pid \in Ids, tqueue_remove(chid, pid)
      PROVE  QueueInv' /\ Abstract!Next
  BY <1>3, RemoveStep DEF Abstract!Next, Chans, Ids
<1>4. CASE UNCHANGED vars
  <2>1. UNCHANGED <<TQueuePool, tcb_prev, tcb_next, queue>> /\ UNCHANGED <<queue, ret>>
    BY <1>4 DEF vars
  <2>2. ret' \in Ids \cup {Nil}
    BY <2>1 DEF QueueInv, TypeOK
  <2> QED BY <2>1, <2>2, StutterStep
<1> QED BY <1>1, <1>2, <1>3, <1>4 DEF Next

\* The doubly linked lists stay consistent: the links of the members spell
\* out the queues, a thread has one place in one queue, and a thread outside
\* every queue has null links (tqueue_enqueue, tqueue_dequeue, tqueue_remove),
\* for every number of threads.
THEOREM ListsConsistent ==
  Spec => [](TypeOK /\ LinksSpellQueue /\ OnePlace /\ NoStaleLinks)
<1>1. QueueInv /\ [Next]_vars => QueueInv'
  BY NextStep
<1> QED BY InitInv, <1>1, PTL DEF Spec, QueueInv

\* The linked lists implement first-in first-out queues: what tqueue_dequeue
\* returns and what tqueue_remove takes out is what ThreadQueues says, for
\* every number of threads.
THEOREM ListsImplementQueues == Spec => ImplementsQueues
<1>1. tqueue_init => Abstract!Init
  BY DEF tqueue_init, Abstract!Init, Chans, Nil
<1>2. QueueInv /\ [Next]_vars => QueueInv' /\ [Abstract!Next]_<<queue, ret>>
  BY NextStep
<1> QED BY InitInv, <1>1, <1>2, PTL DEF Spec, ImplementsQueues, Abstract!Spec

-----------------------------------------------------------------------------
(* The console.                                                            *)

\* Remainders close to zero.
LEMMA NearRemainder ==
  ASSUME NEW n \in Nat \ {0}, NEW a \in Int
  PROVE  /\ 0 <= a /\ a < n => a % n = a
         /\ n <= a /\ a < n + n => a % n = a - n
         /\ -n < a /\ a < 0 => a % n = a + n
  <1> DEFINE d == a \div n
             m == a % n
  <1>1. d \in Int /\ m \in 0 .. n - 1 /\ a = n * d + m
    OBVIOUS
  <1> HIDE DEF d, m
  <1>2. CASE d <= -2
    <2>1. n * d <= n * (-2) /\ n * (-2) = -(n + n)
      BY <1>1, <1>2
    <2>2. ~(0 <= a) /\ ~(-n < a)
      BY <1>1, <2>1
    <2> QED BY <2>2
  <1>3. CASE d = -1
    <2>1. n * d = -n
      BY <1>1, <1>3
    <2> QED BY <1>1, <2>1 DEF m
  <1>4. CASE d = 0
    <2>1. n * d = 0
      BY <1>1, <1>4
    <2> QED BY <1>1, <2>1 DEF m
  <1>5. CASE d = 1
    <2>1. n * d = n
      BY <1>1, <1>5
    <2> QED BY <1>1, <2>1 DEF m
  <1>6. CASE d >= 2
    <2>1. n * d >= n * 2 /\ n * 2 = n + n
      BY <1>1, <1>6
    <2>2. ~(a < 0) /\ ~(a < n) /\ ~(a < n + n)
      BY <1>1, <2>1
    <2> QED BY <2>2
  <1> QED BY <1>1, <1>2, <1>3, <1>4, <1>5, <1>6

-----------------------------------------------------------------------------
(* The ring buffer.                                                        *)

\* The characters between positions r and w of the buffer b.
Ring(b, r, w) ==
  [k \in 1 .. (w - r) % CONSOLE_BUFFER_SIZE |-> b[(r + k - 1) % CONSOLE_BUFFER_SIZE]]

\* The same without remainders: their number, and where the k-th one is.
Size(r, w) == IF r <= w THEN w - r ELSE w - r + CONSOLE_BUFFER_SIZE
Spot(r, k) ==
  IF r + k - 1 < CONSOLE_BUFFER_SIZE THEN r + k - 1 ELSE r + k - 1 - CONSOLE_BUFFER_SIZE
After(p) == IF p + 1 = CONSOLE_BUFFER_SIZE THEN 0 ELSE p + 1

\* The ring in these terms.
IsRing(q, b, r, w) ==
  /\ Size(r, w) \in Nat /\ Size(r, w) < CONSOLE_BUFFER_SIZE
  /\ \A k \in 1 .. Size(r, w) + 1 : Spot(r, k) \in Places
  /\ q = [k \in 1 .. Size(r, w) |-> b[Spot(r, k)]]

LEMMA RingForm ==
  ASSUME NEW b, NEW r \in Places, NEW w \in Places
  PROVE  IsRing(Ring(b, r, w), b, r, w)
  <1> DEFINE N == CONSOLE_BUFFER_SIZE
  <1>1. N \in Nat \ {0} /\ r \in Nat /\ w \in Nat /\ r < N /\ w < N
    BY ConsoleAssumption DEF Places
  <1> HIDE DEF N
  <1>2. Size(r, w) \in Nat /\ Size(r, w) < N
    BY <1>1 DEF Size, N
  <1>3. (w - r) % N = Size(r, w)
    <2>1. /\ w - r \in Int
          /\ r <= w => 0 <= w - r /\ w - r < N
          /\ ~(r <= w) => -N < w - r /\ w - r < 0
      BY <1>1
    <2> QED BY Zenon, <1>1, <2>1, NearRemainder DEF Size, N
  <1>4. ASSUME NEW k \in 1 .. Size(r, w) + 1
        PROVE  Spot(r, k) \in Places /\ (r + k - 1) % N = Spot(r, k)
    <2>1. /\ r + k - 1 \in Int /\ 0 <= r + k - 1 /\ r + k - 1 < N + N
      BY <1>1, <1>2
    <2>2. Spot(r, k) \in Places
      BY <1>1, <2>1 DEF Spot, N, Places
    <2>3. /\ r + k - 1 < N => (r + k - 1) % N = r + k - 1
          /\ ~(r + k - 1 < N) => (r + k - 1) % N = r + k - 1 - N
      <3> DEFINE a == r + k - 1
      <3>1. /\ a < N => a % N = a
            /\ N <= a => a % N = a - N
        <4> HIDE DEF a
        <4> QED BY Zenon, <1>1, <2>1, NearRemainder DEF a
      <3> QED BY <1>1, <2>1, <3>1
    <2>4. (r + k - 1) % N = Spot(r, k)
      BY <2>3 DEF Spot, N
    <2> QED BY <2>2, <2>4
  <1>5. Ring(b, r, w) = [k \in 1 .. Size(r, w) |-> b[Spot(r, k)]]
    BY <1>2, <1>3, <1>4 DEF Ring, N
  <1> QED BY <1>2, <1>4, <1>5 DEF IsRing, N

\* The buffer b with c written at w.
Stored(b, w, c) == [b EXCEPT ![w] = c]

\* The queue q with c put into it.
PutInto(q, c) == IF Len(q) + 1 = CONSOLE_BUFFER_SIZE THEN <<>> ELSE Append(q, c)

\* Writing a character at w and moving w on appends it; what fills the buffer
\* empties the ring.
LEMMA RingPut ==
  ASSUME NEW b, DOMAIN b = Places, NEW r \in Places, NEW w \in Places, NEW c
  PROVE  Ring(Stored(b, w, c), r, After(w)) = PutInto(Ring(b, r, w), c)
  <1> DEFINE N == CONSOLE_BUFFER_SIZE
             q == Ring(b, r, w)
             b2 == Stored(b, w, c)
             q2 == Ring(b2, r, After(w))
             n == Size(r, w)
             n2 == Size(r, After(w))
  <1>1. N \in Nat \ {0} /\ r \in Nat /\ w \in Nat /\ r < N /\ w < N
    BY ConsoleAssumption DEF Places
  <1>2. After(w) \in Places
    BY <1>1 DEF After, Places
  <1>3. /\ n \in Nat /\ n < N /\ \A k \in 1 .. n + 1 : Spot(r, k) \in Places
        /\ q = [k \in 1 .. n |-> b[Spot(r, k)]]
    <2>1. IsRing(q, b, r, w)
      BY Zenon, RingForm
    <2> QED BY <2>1 DEF IsRing
  <1>4. q2 = [k \in 1 .. n2 |-> b2[Spot(r, k)]]
    <2>1. IsRing(q2, b2, r, After(w))
      BY Zenon, <1>2, RingForm
    <2> QED BY Zenon, <2>1 DEF IsRing
  <1>5. n2 = IF n + 1 = N THEN 0 ELSE n + 1
    BY <1>1 DEF After, Size
  <1>6. Len(q) = n
    BY <1>3
  <1>7. CASE n + 1 = N
    BY <1>3, <1>4, <1>5, <1>6, <1>7 DEF PutInto
  <1>8. CASE n + 1 # N
    <2>1. Spot(r, n + 1) = w /\ \A k \in 1 .. n : Spot(r, k) # w
      BY <1>1 DEF Spot, Size
    <2>2. /\ b2[w] = c
          /\ \A k \in 1 .. n : b2[Spot(r, k)] = b[Spot(r, k)]
      BY <1>3, <2>1 DEF Stored
    <2>3. q2 = [k \in 1 .. n + 1 |-> b2[Spot(r, k)]]
      BY <1>4, <1>5, <1>8
    <2>4. Append(q, c) = [k \in 1 .. n + 1 |-> IF k = n + 1 THEN c ELSE q[k]]
      BY <1>3, <1>6
    <2> HIDE DEF n
    <2>5. ASSUME NEW k \in 1 .. n + 1
          PROVE  b2[Spot(r, k)] = IF k = n + 1 THEN c ELSE q[k]
      <3>1. CASE k = n + 1
        BY <2>1, <2>2, <3>1
      <3>2. CASE k # n + 1
        <4>1. k \in 1 .. n
          BY <1>3, <3>2
        <4>2. b2[Spot(r, k)] = b[Spot(r, k)]
          BY <2>2, <4>1
        <4> QED BY <1>3, <3>2, <4>1, <4>2
      <3> QED BY <3>1, <3>2
    <2>6. q2 = Append(q, c)
      BY <2>3, <2>4, <2>5
    <2>7. Len(q) + 1 # N
      BY <1>6, <1>8
    <2> HIDE DEF q, q2
    <2>8. PutInto(q, c) = Append(q, c)
      BY <2>7 DEF PutInto
    <2> QED BY <2>6, <2>8 DEF q, q2
  <1> QED BY <1>7, <1>8

\* Moving r on takes the oldest character away.
LEMMA RingGet ==
  ASSUME NEW b, DOMAIN b = Places, NEW r \in Places, NEW w \in Places,
         NEW q, q = Ring(b, r, w), NEW q2, q2 = Ring(b, After(r), w)
  PROVE  /\ r = w <=> q = <<>>
         /\ r # w => q2 = Tail(q) /\ b[r] = Head(q)
  <1> DEFINE N == CONSOLE_BUFFER_SIZE
             n == Size(r, w)
             n2 == Size(After(r), w)
  <1>1. N \in Nat \ {0} /\ r \in Nat /\ w \in Nat /\ r < N /\ w < N
    BY ConsoleAssumption DEF Places
  <1>2. After(r) \in Places
    BY <1>1 DEF After, Places
  <1>3. /\ n \in Nat /\ n < N
        /\ q = [k \in 1 .. n |-> b[Spot(r, k)]]
    <2>1. IsRing(q, b, r, w)
      BY Zenon, RingForm
    <2> QED BY <2>1 DEF IsRing
  <1>4. q2 = [k \in 1 .. n2 |-> b[Spot(After(r), k)]]
    <2>1. IsRing(q2, b, After(r), w)
      BY Zenon, <1>2, RingForm
    <2> QED BY Zenon, <2>1 DEF IsRing
  <1>5. r = w <=> n = 0
    BY <1>1 DEF Size
  <1>6. r = w <=> q = <<>>
    BY <1>3, <1>5
  <1>7. ASSUME r # w
        PROVE  q2 = Tail(q) /\ b[r] = Head(q)
    <2>1. n2 = n - 1 /\ n >= 1
      BY <1>1, <1>7 DEF After, Size
    <2>2. Spot(r, 1) = r
      BY <1>1 DEF Spot
    <2>3. \A k \in 1 .. n - 1 : Spot(After(r), k) = Spot(r, k + 1)
      BY <1>1, <1>3 DEF Spot, After
    <2> HIDE DEF n
    <2>4. b[r] = Head(q)
      BY <1>3, <2>1, <2>2
    <2>5. Tail(q) = [k \in 1 .. n - 1 |-> q[k + 1]]
      BY <1>3, <2>1
    <2>6. \A k \in 1 .. n - 1 : q[k + 1] = b[Spot(After(r), k)]
      BY <1>3, <2>1, <2>3
    <2> QED BY <1>4, <2>1, <2>4, <2>5, <2>6
  <1> QED BY <1>6, <1>7

\* The positions lie in the buffer, and characters in the serial receiver are
\* characters of the serial line.
RingInv ==
  /\ buf \in [Places -> Chars \cup {"NUL"}]
  /\ rpos \in Places /\ wpos \in Places
  /\ com \in Seq(SerialChars)

LEMMA RingInit == ConsoleInit => RingInv /\ Unread = <<>>
  <1> SUFFICES ASSUME ConsoleInit
               PROVE  RingInv /\ Unread = <<>>
    OBVIOUS
  <1>1. RingInv
    BY ConsoleAssumption DEF ConsoleInit, RingInv, Places
  <1>2. Ring(buf, rpos, wpos) = <<>>
    <2>1. DOMAIN buf = Places /\ rpos \in Places /\ wpos \in Places /\ rpos = wpos
      BY <1>1 DEF RingInv, ConsoleInit
    <2> QED BY <2>1, RingGet
  <1> QED BY <1>1, <1>2 DEF Unread, Ring

\* A character that a driver hands to cons_intr is put into the queue, and a NUL
\* is ignored.
LEMMA PutStep ==
  ASSUME RingInv, NEW c \in Chars \cup {"NUL"}, cons_intr(c), UNCHANGED got
  PROVE  /\ buf' \in [Places -> Chars \cup {"NUL"}]
         /\ rpos' \in Places /\ wpos' \in Places
         /\ [Q!Next]_<<Unread, got>>
  <1>1. CASE c = "NUL"
    BY <1>1 DEF cons_intr, RingInv, cons, Unread
  <1>2. CASE c # "NUL"
    <2>1. /\ buf' = [buf EXCEPT ![wpos] = c]
          /\ wpos' = After(wpos) /\ rpos' = rpos /\ c \in Chars
      BY <1>2 DEF cons_intr, After
    <2>2. /\ buf' \in [Places -> Chars \cup {"NUL"}]
          /\ rpos' \in Places /\ wpos' \in Places
      BY <2>1, ConsoleAssumption DEF RingInv, After, Places
    <2>3. Unread = Ring(buf, rpos, wpos) /\ Unread' = Ring(buf', rpos', wpos')
      BY DEF Unread, Ring
    <2>4. Unread' = PutInto(Unread, c)
      <3>1. /\ DOMAIN buf = Places /\ rpos \in Places /\ wpos \in Places
        BY DEF RingInv
      <3>2. Unread' = Ring(Stored(buf, wpos, c), rpos, After(wpos))
        BY <2>1, <2>3 DEF Stored
      <3> QED BY <2>3, <3>1, <3>2, RingPut
    <2>5. Q!Put(c)
      BY <2>4 DEF Q!Put, PutInto
    <2> QED BY <2>1, <2>2, <2>5 DEF Q!Next
  <1> QED BY <1>1, <1>2

\* Every step keeps the invariant and is a step of the queue, or none.
LEMMA RingNext == RingInv /\ [ConsoleNext]_consoleVars => RingInv' /\ [Q!Next]_<<Unread, got>>
  <1> SUFFICES ASSUME RingInv, [ConsoleNext]_consoleVars
               PROVE  RingInv' /\ [Q!Next]_<<Unread, got>>
    OBVIOUS
  <1>1. ASSUME UNCHANGED <<cons, got>>, com' \in Seq(SerialChars)
        PROVE  RingInv' /\ [Q!Next]_<<Unread, got>>
    BY <1>1 DEF RingInv, cons, Unread
  <1>2. ASSUME NEW key \in Keys, Press(key) \/ Release(key)
        PROVE  RingInv' /\ [Q!Next]_<<Unread, got>>
    BY <1>1, <1>2 DEF Press, Release, Sends, RingInv
  <1>3. ASSUME NEW c \in SerialChars, Receive(c)
        PROVE  RingInv' /\ [Q!Next]_<<Unread, got>>
    BY <1>1, <1>3 DEF Receive, RingInv
  <1>4. CASE serial_intr
    <2>1. CASE com # <<>> /\ com' = Tail(com) /\ cons_intr(Head(com))
      <3>1. Head(com) \in SerialChars /\ Tail(com) \in Seq(SerialChars)
        BY <2>1 DEF RingInv
      <3>2. Head(com) \in Chars \cup {"NUL"}
        BY <3>1 DEF Chars
      <3>3. UNCHANGED got
        BY <1>4 DEF serial_intr
      <3> QED BY <2>1, <3>1, <3>2, <3>3, PutStep DEF RingInv
    <2>2. CASE UNCHANGED <<com, cons>>
      BY <1>1, <1>4, <2>2 DEF serial_intr, RingInv
    <2> QED BY <1>4, <2>1, <2>2 DEF serial_intr
  <1>5. CASE keyboard_intr
    <2>1. UNCHANGED <<com, got>>
      BY <1>5 DEF keyboard_intr
    <2>2. CASE UNCHANGED cons
      BY <1>1, <2>1, <2>2 DEF RingInv
    <2>3. ASSUME NEW flags, NEW key, NEW c,
                 c = IF "CAPSLOCK" \in flags THEN SwapCase(charcode(flags, key))
                                             ELSE charcode(flags, key),
                 cons_intr(c)
          PROVE  RingInv' /\ [Q!Next]_<<Unread, got>>
      <3>1. c \in Chars \cup {"NUL"}
        BY <2>3 DEF SwapCase, charcode, Chars, CharOf
      <3> QED BY <2>1, <2>3, <3>1, PutStep DEF RingInv
    <2> QED BY <1>5, <2>2, <2>3 DEF keyboard_intr, kbd_proc_data
  <1>6. CASE cons_getc
    <2>1. Unread = Ring(buf, rpos, wpos) /\ Unread' = Ring(buf', rpos', wpos')
      BY DEF Unread, Ring
    <2>2. CASE rpos # wpos
      <3>1. /\ got' = buf[rpos] /\ rpos' = After(rpos)
            /\ UNCHANGED <<buf, wpos, com>>
        BY <1>6, <2>2 DEF cons_getc, After, Taken, devices
      <3>2. /\ DOMAIN buf = Places /\ rpos \in Places /\ wpos \in Places
            /\ Unread' = Ring(buf, After(rpos), wpos)
        BY <2>1, <3>1 DEF RingInv
      <3>3. Unread # <<>> /\ Unread' = Tail(Unread) /\ buf[rpos] = Head(Unread)
        <4>1. \A q, q2 : q = Ring(buf, rpos, wpos) /\ q2 = Ring(buf, After(rpos), wpos)
                => q # <<>> /\ q2 = Tail(q) /\ buf[rpos] = Head(q)
          BY <2>2, <3>2, RingGet
        <4> QED BY <2>1, <3>2, <4>1
      <3>4. RingInv'
        BY <3>1, ConsoleAssumption DEF RingInv, After, Places
      <3> QED BY <3>1, <3>3, <3>4 DEF Q!Next, Q!Get
    <2>3. CASE rpos = wpos
      <3>1. got' = "NUL" /\ UNCHANGED <<buf, rpos, wpos, com>>
        BY <1>6, <2>3 DEF cons_getc, devices
      <3>2. Unread = <<>>
        <4>1. DOMAIN buf = Places /\ rpos \in Places /\ wpos \in Places
          BY DEF RingInv
        <4>2. Ring(buf, rpos, wpos) = <<>>
          BY <2>3, <4>1, RingGet
        <4> QED BY <2>1, <4>2
      <3>3. Unread' = Unread
        BY <3>1 DEF Unread
      <3> QED BY <3>1, <3>2, <3>3 DEF RingInv, Q!Next, Q!Get
    <2> QED BY <2>2, <2>3
  <1>7. CASE UNCHANGED consoleVars
    BY <1>1, <1>7 DEF consoleVars, RingInv, devices
  <1> QED BY <1>2, <1>3, <1>4, <1>5, <1>6, <1>7 DEF ConsoleNext

\* The ring buffer implements the queue of ConsQueue: characters come out in
\* the order of arrival, each once, and are lost only all together, when the
\* buffer is filled (cons_intr, cons_getc).
THEOREM RingIsQueue == ConsoleSpec => RingImplementsQueue
  <1>1. RingInv /\ ConsoleInit => Q!Init
    BY RingInit DEF ConsoleInit, Q!Init
  <1> QED BY <1>1, RingInit, RingNext, PTL DEF ConsoleSpec, RingImplementsQueue, Q!Spec, Q!qvars

-----------------------------------------------------------------------------
(* The keyboard.                                                           *)

\* Of the bytes s that wait for the driver, with e saying whether it has just
\* read an E0: whether E0 precedes byte x, and the key that byte x is about.
Escaped(s, e, x) == IF x = 1 THEN e ELSE s[x - 1] = E0
Low(byte) == IF byte >= 128 THEN byte - 128 ELSE byte
KeyAt(s, e, x) == IF Escaped(s, e, x) THEN Low(s[x]) + 128 ELSE Low(s[x])

\* Every E0 is followed by the byte of a key, and the last byte of a key says
\* whether it is among the keys h that are down.
Reports(s, e, h) ==
  /\ s \in Seq(0 .. 255) /\ e \in BOOLEAN /\ h \subseteq Keys
  /\ e => Len(s) > 0
  /\ \A x \in 1 .. Len(s) :
       /\ s[x] = E0 => ~Escaped(s, e, x) /\ x < Len(s)
       /\ s[x] # E0 => KeyAt(s, e, x) \in Keys
       /\ s[x] # E0 /\ (\A j \in x + 1 .. Len(s) : s[j] # E0 => KeyAt(s, e, j) # KeyAt(s, e, x))
            => (s[x] < 128 <=> KeyAt(s, e, x) \in h)

\* No byte of s is about a key of the modifier m.
NoneAbout(m, s, e) ==
  \A x \in 1 .. Len(s) : s[x] # E0 => m \notin shiftcode(KeyAt(s, e, x))

\* The flags follow the keys as soon as no byte about them is on its way.
Follows(m, flags, h) ==
  /\ m \in flags => \E key \in h : m \in shiftcode(key)
  /\ /\ \E key \in Keys : m \in shiftcode(key)
     /\ \A key \in Keys : m \in shiftcode(key) => key \in h
     => m \in flags

Modifiers == {"SHIFT", "CTL", "ALT"}

KeyInv ==
  /\ Reports(kbd, "E0ESC" \in shift, held)
  /\ \A m \in Modifiers :
       NoneAbout(m, kbd, "E0ESC" \in shift) => Follows(m, shift, held)

\* The driver reads one byte.
LEMMA ReadByte ==
  ASSUME NEW s, NEW e, NEW h, Reports(s, e, h), s # <<>>
  PROVE  /\ Reports(Tail(s), s[1] = E0, h)
         /\ \A m : NoneAbout(m, Tail(s), s[1] = E0)
                  /\ (s[1] # E0 => m \notin shiftcode(KeyAt(s, e, 1)))
               => NoneAbout(m, s, e)
         /\ \A m : s[1] # E0 /\ NoneAbout(m, Tail(s), FALSE) /\ m \in shiftcode(KeyAt(s, e, 1))
               => (s[1] < 128 <=> KeyAt(s, e, 1) \in h)
  <1> DEFINE t == Tail(s)
             f == (s[1] = E0)
             n == Len(s)
  <1>1. /\ s \in Seq(0 .. 255) /\ n \in Nat \ {0}
        /\ t \in Seq(0 .. 255) /\ Len(t) = n - 1
        /\ \A x \in 1 .. n - 1 : t[x] = s[x + 1]
    BY DEF Reports
  <1>2. ASSUME NEW x \in 1 .. n - 1
        PROVE  /\ x + 1 \in 1 .. n /\ t[x] = s[x + 1]
               /\ Escaped(t, f, x) <=> Escaped(s, e, x + 1)
               /\ KeyAt(t, f, x) = KeyAt(s, e, x + 1)
    <2>1. x + 1 \in 1 .. n /\ t[x] = s[x + 1] /\ x + 1 # 1 /\ (x + 1) - 1 = x
      BY <1>1
    <2>2. Escaped(t, f, x) <=> Escaped(s, e, x + 1)
      <3>1. CASE x = 1
        BY <2>1, <3>1 DEF Escaped
      <3>2. CASE x # 1
        <4>1. x - 1 \in 1 .. n - 1 /\ (x - 1) + 1 = x
          BY <3>2
        <4>2. t[x - 1] = s[x]
          BY <1>1, <4>1
        <4> QED BY <2>1, <3>2, <4>2 DEF Escaped
      <3> QED BY <3>1, <3>2
    <2> QED BY <2>1, <2>2 DEF KeyAt
  <1> HIDE DEF t, f
  <1>3. Reports(t, f, h)
    <2>1. f \in BOOLEAN /\ h \subseteq Keys
      BY DEF f, Reports
    <2>2. f => Len(t) > 0
      BY <1>1 DEF f, Reports
    <2>3. ASSUME NEW x \in 1 .. Len(t)
          PROVE  /\ t[x] = E0 => ~Escaped(t, f, x) /\ x < Len(t)
                 /\ t[x] # E0 => KeyAt(t, f, x) \in Keys
      BY <1>1, <1>2 DEF Reports
    <2>4. ASSUME NEW x \in 1 .. Len(t), t[x] # E0,
                 \A j \in x + 1 .. Len(t) : t[j] # E0 => KeyAt(t, f, j) # KeyAt(t, f, x)
          PROVE  t[x] < 128 <=> KeyAt(t, f, x) \in h
      <3>1. x \in 1 .. n - 1 /\ x + 1 \in 1 .. n
        BY <1>1
      <3>2. ASSUME NEW j \in (x + 1) + 1 .. n, s[j] # E0
            PROVE  KeyAt(s, e, j) # KeyAt(s, e, x + 1)
        <4>1. j - 1 \in 1 .. n - 1 /\ (j - 1) + 1 = j /\ j - 1 \in x + 1 .. Len(t)
          BY <1>1
        <4>2. t[j - 1] = s[j] /\ KeyAt(t, f, j - 1) = KeyAt(s, e, j)
          BY <1>2, <4>1
        <4> QED BY <1>2, <2>4, <3>1, <3>2, <4>1, <4>2
      <3>3. s[x + 1] # E0
        BY <1>2, <2>4, <3>1
      <3>4. s[x + 1] < 128 <=> KeyAt(s, e, x + 1) \in h
        BY <3>1, <3>2, <3>3 DEF Reports
      <3> QED BY <1>2, <3>1, <3>4
    <2> QED BY <1>1, <2>1, <2>2, <2>3, <2>4 DEF Reports
  <1>4. ASSUME NEW x \in 1 .. n, x # 1
        PROVE  x - 1 \in 1 .. n - 1 /\ t[x - 1] = s[x] /\ KeyAt(t, f, x - 1) = KeyAt(s, e, x)
    <2>1. x - 1 \in 1 .. n - 1 /\ (x - 1) + 1 = x
      BY <1>1, <1>4
    <2> QED BY <1>2, <2>1
  <1>5. ASSUME NEW m, NoneAbout(m, t, f), s[1] # E0 => m \notin shiftcode(KeyAt(s, e, 1))
        PROVE  NoneAbout(m, s, e)
    <2> SUFFICES ASSUME NEW x \in 1 .. n, x # 1, s[x] # E0
                 PROVE  m \notin shiftcode(KeyAt(s, e, x))
      BY <1>5 DEF NoneAbout
    <2> QED BY <1>1, <1>4, <1>5 DEF NoneAbout
  <1>6. ASSUME NEW m, s[1] # E0, NoneAbout(m, t, f), m \in shiftcode(KeyAt(s, e, 1))
        PROVE  s[1] < 128 <=> KeyAt(s, e, 1) \in h
    <2>1. ASSUME NEW j \in 1 + 1 .. n, s[j] # E0
          PROVE  KeyAt(s, e, j) # KeyAt(s, e, 1)
      <3>1. j \in 1 .. n /\ j # 1
        BY <1>1
      <3> QED BY <1>1, <1>4, <1>6, <2>1, <3>1 DEF NoneAbout
    <2>2. 1 \in 1 .. n
      BY <1>1
    <2> QED BY <1>6, <2>1, <2>2 DEF Reports
  <1> QED BY Zenon, <1>3, <1>5, <1>6 DEF t, f

\* Appending, element by element.
Longer(v, u, y, S) ==
  /\ v \in Seq(S) /\ Len(v) = Len(u) + 1 /\ v[Len(u) + 1] = y
  /\ \A x \in 1 .. Len(u) : v[x] = u[x]

LEMMA Appended ==
  ASSUME NEW S, NEW u \in Seq(S), NEW y \in S
  PROVE  Longer(Append(u, y), u, y, S)
  BY DEF Longer

\* The last byte that a key sends says whether it is in h2; the other keys are
\* down as before.
Tells(byte, key, h, h2) ==
  /\ byte \in 0 .. 255
  /\ byte = key % 128 \/ byte = 128 + (key % 128)
  /\ h2 \subseteq Keys
  /\ key \in h2 <=> byte < 128
  /\ \A k \in Keys : k # key => (k \in h2 <=> k \in h)

Sent(s, key, byte) == s \o (Prefix(key) \o <<byte>>)

\* Positions in a longer sequence.
LEMMA InLonger ==
  ASSUME NEW n \in Nat, NEW l \in Nat, n < l
  PROVE  /\ l \in 1 .. l
         /\ \A x \in 1 .. n : x \in 1 .. l /\ x < l /\ (x # 1 => x - 1 \in 1 .. n)
  OBVIOUS

\* A key sends its bytes.
LEMMA SendBytes ==
  ASSUME NEW s, NEW e, NEW h, Reports(s, e, h), NEW key \in Keys, NEW byte,
         NEW h2, Tells(byte, key, h, h2)
  PROVE  /\ Reports(Sent(s, key, byte), e, h2)
         /\ \A m : NoneAbout(m, Sent(s, key, byte), e)
               => NoneAbout(m, s, e) /\ m \notin shiftcode(key)
  <1> DEFINE t == Sent(s, key, byte)
  <1>a. byte \in 0 .. 255 /\ (byte = key % 128 \/ byte = 128 + (key % 128))
    BY DEF Tells
  <1>b. /\ h2 \subseteq Keys /\ (key \in h2 <=> byte < 128)
        /\ \A k \in Keys : k # key => (k \in h2 <=> k \in h)
    BY DEF Tells
  <1>c. t = s \o (Prefix(key) \o <<byte>>)
    BY DEF Sent
  <1> HIDE DEF t
  <1> DEFINE n == Len(s)
             l == Len(t)
  <1>1. /\ key \in 0 .. 255 /\ key # 96 /\ key # 224
        /\ key >= 128 => key % 128 = key - 128
        /\ key < 128 => key % 128 = key
    <2>1. key \in 0 .. 255 /\ key # 96 /\ key # 224
      BY ConsoleAssumption
    <2>2. 128 \in Nat \ {0} /\ key \in Int /\ 0 <= key /\ key < 128 + 128
      BY <2>1
    <2> QED BY <2>1, <2>2, NearRemainder
  <1>2. byte # E0 /\ Low(byte) = key % 128
    BY <1>1, <1>a DEF Low, E0
  <1>3. s \in Seq(0 .. 255) /\ n \in Nat
    BY DEF Reports
  <1>4. /\ t \in Seq(0 .. 255) /\ l \in Nat
        /\ \A x \in 1 .. n : t[x] = s[x]
        /\ t[l] = byte
        /\ \/ key < 128 /\ l = n + 1
           \/ key >= 128 /\ l = n + 2 /\ t[n + 1] = E0
    <2>1. CASE key < 128
      <3>1. t = s \o (<<>> \o <<byte>>)
        BY <1>1, <1>c, <2>1 DEF Prefix
      <3>2. t = Append(s, byte)
        BY <1>3, <1>a, <3>1
      <3>3. /\ t \in Seq(0 .. 255) /\ l = n + 1
            /\ \A x \in 1 .. n : t[x] = s[x]
            /\ t[n + 1] = byte
        <4>1. Longer(t, s, byte, 0 .. 255)
          BY Zenon, <1>3, <1>a, <3>2, Appended
        <4> QED BY <4>1 DEF Longer
      <3> QED BY <1>3, <2>1, <3>3
    <2>2. CASE key >= 128
      <3>1. t = s \o (<<E0>> \o <<byte>>)
        BY <1>1, <1>c, <2>2 DEF Prefix
      <3>2. E0 \in 0 .. 255
        BY DEF E0
      <3>3. t = Append(Append(s, E0), byte)
        <4>1. ASSUME NEW a \in 0 .. 255, NEW b \in 0 .. 255
              PROVE  s \o (<<a>> \o <<b>>) = Append(Append(s, a), b)
          BY <1>3
        <4> QED BY <1>a, <3>1, <3>2, <4>1
      <3>4. /\ t \in Seq(0 .. 255) /\ l = n + 2
            /\ \A x \in 1 .. n : t[x] = s[x]
            /\ t[n + 1] = E0 /\ t[n + 2] = byte
        <4> DEFINE u == Append(s, E0)
        <4>1. Longer(u, s, E0, 0 .. 255)
          BY Zenon, <1>3, <3>2, Appended
        <4>2. u \in Seq(0 .. 255) /\ Len(u) = n + 1
          BY <4>1 DEF Longer
        <4>3. Longer(t, u, byte, 0 .. 255)
          BY Zenon, <1>a, <3>3, <4>2, Appended
        <4> HIDE DEF u
        <4> QED BY <1>3, <4>1, <4>2, <4>3 DEF Longer
      <3> QED BY <1>3, <2>2, <3>4
    <2> QED BY <1>1, <2>1, <2>2
  <1>d. /\ l \in 1 .. l
        /\ \A x \in 1 .. n : x \in 1 .. l /\ x < l /\ (x # 1 => x - 1 \in 1 .. n)
    <2>1. n < l
      BY <1>3, <1>4
    <2> QED BY Zenon, <1>3, <1>4, <2>1, InLonger
  <1>5. ASSUME NEW x \in 1 .. n
        PROVE  /\ x \in 1 .. l /\ x < l /\ t[x] = s[x]
               /\ Escaped(t, e, x) <=> Escaped(s, e, x)
               /\ KeyAt(t, e, x) = KeyAt(s, e, x)
    <2>1. x \in 1 .. l /\ x < l /\ t[x] = s[x] /\ (x # 1 => x - 1 \in 1 .. n)
      BY Zenon, <1>4, <1>d
    <2>2. Escaped(t, e, x) <=> Escaped(s, e, x)
      BY <1>4, <2>1 DEF Escaped
    <2> QED BY <2>1, <2>2 DEF KeyAt
  <1>6. ~Escaped(t, e, n + 1)
    <2>1. CASE n = 0
      BY <2>1 DEF Reports, Escaped
    <2>2. CASE n # 0
      <3>1. n \in 1 .. n /\ (n + 1) - 1 = n /\ n + 1 # 1
        BY <1>3, <2>2
      <3>2. s[n] # E0
        BY <3>1 DEF Reports
      <3> QED BY <1>4, <3>1, <3>2 DEF Escaped
    <2> QED BY <2>1, <2>2
  <1>7. KeyAt(t, e, l) = key
    <2>1. CASE key < 128 /\ l = n + 1
      BY <1>1, <1>2, <1>4, <1>6, <2>1 DEF KeyAt
    <2>2. CASE key >= 128 /\ l = n + 2 /\ t[n + 1] = E0
      <3>1. l # 1 /\ l - 1 = n + 1
        BY <1>3, <2>2
      <3>2. Escaped(t, e, l)
        BY <2>2, <3>1 DEF Escaped
      <3> QED BY <1>1, <1>2, <1>4, <2>2, <3>2 DEF KeyAt
    <2> QED BY <1>4, <2>1, <2>2
  <1>8. ASSUME NEW x \in 1 .. l
        PROVE  \/ x \in 1 .. n
               \/ x = l
               \/ x = n + 1 /\ x < l /\ t[x] = E0
    BY <1>3, <1>4
  <1>9. Reports(t, e, h2)
    <2>1. e \in BOOLEAN /\ (e => l > 0)
      BY <1>3, <1>4 DEF Reports
    <2>2. ASSUME NEW x \in 1 .. l
          PROVE  /\ t[x] = E0 => ~Escaped(t, e, x) /\ x < l
                 /\ t[x] # E0 => KeyAt(t, e, x) \in Keys
      <3>1. CASE x \in 1 .. n
        BY <1>5, <3>1 DEF Reports
      <3>2. CASE x = l
        BY <1>2, <1>4, <1>7, <3>2
      <3>3. CASE x = n + 1 /\ x < l /\ t[x] = E0
        BY <1>6, <3>3
      <3> QED BY <1>8, <3>1, <3>2, <3>3
    <2>3. ASSUME NEW x \in 1 .. l, t[x] # E0,
                 \A j \in x + 1 .. l : t[j] # E0 => KeyAt(t, e, j) # KeyAt(t, e, x)
          PROVE  t[x] < 128 <=> KeyAt(t, e, x) \in h2
      <3>1. CASE x \in 1 .. n
        <4>1. ASSUME NEW j \in x + 1 .. n, s[j] # E0
              PROVE  KeyAt(s, e, j) # KeyAt(s, e, x)
          <5>1. j \in 1 .. n /\ j \in x + 1 .. l
            BY <1>3, <1>4, <3>1
          <5> QED BY <1>5, <2>3, <3>1, <4>1, <5>1
        <4>2. /\ s[x] < 128 <=> KeyAt(s, e, x) \in h
              /\ KeyAt(s, e, x) \in Keys
          BY <1>5, <2>3, <3>1, <4>1 DEF Reports
        <4>3. KeyAt(s, e, x) # key
          <5>1. l \in x + 1 .. l
            BY <1>4, <1>5, <3>1
          <5> QED BY <1>2, <1>4, <1>5, <1>7, <2>3, <3>1, <5>1
        <4> QED BY <1>5, <1>b, <3>1, <4>2, <4>3
      <3>2. CASE x = l
        BY <1>4, <1>7, <1>b, <3>2
      <3> QED BY <1>8, <2>3, <3>1, <3>2
    <2> QED BY <1>4, <1>b, <2>1, <2>2, <2>3 DEF Reports
  <1>10. ASSUME NEW m, NoneAbout(m, t, e)
         PROVE  NoneAbout(m, s, e) /\ m \notin shiftcode(key)
    <2>1. m \notin shiftcode(key)
      BY <1>2, <1>4, <1>7, <1>10, <1>d DEF NoneAbout
    <2>2. NoneAbout(m, s, e)
      BY <1>5, <1>10 DEF NoneAbout
    <2> QED BY <2>1, <2>2
  <1> QED BY <1>9, <1>10 DEF t

LEMMA HeadIsFirst ==
  ASSUME NEW S, NEW s \in Seq(S), s # <<>>
  PROVE  Head(s) = s[1] /\ s[1] \in S
  OBVIOUS

\* What the driver does with the byte of a key: the flags of the key are set or
\* cleared, and no other modifier changes.
LEMMA FlagsAfterByte ==
  ASSUME NEW e \in BOOLEAN, e <=> "E0ESC" \in shift, kbd \in Seq(0 .. 255), kbd # <<>>,
         kbd_proc_data(Head(kbd))
  PROVE  /\ "E0ESC" \in shift' <=> kbd[1] = E0
         /\ kbd[1] = E0 => \A m \in Modifiers : m \in shift' <=> m \in shift
         /\ kbd[1] # E0 => \A m \in Modifiers :
              m \in shift' <=> IF m \in shiftcode(KeyAt(kbd, e, 1)) THEN kbd[1] < 128
                                                               ELSE m \in shift
  <1> DEFINE data == kbd[1]
  <1>1. data \in 0 .. 255 /\ Head(kbd) = data
    BY Zenon, HeadIsFirst
  <1> HIDE DEF data
  <1>2. Escaped(kbd, e, 1) <=> "E0ESC" \in shift
    BY DEF Escaped
  <1>3. \A key : "E0ESC" \notin shiftcode(key) /\ "CAPSLOCK" \notin shiftcode(key)
    BY DEF shiftcode
  <1>4. \A m \in Modifiers : m # "E0ESC" /\ m # "CAPSLOCK"
    BY DEF Modifiers
  <1>5. CASE data = E0
    <2>1. shift' = shift \cup {"E0ESC"}
      BY <1>1, <1>5 DEF kbd_proc_data, E0
    <2> QED BY <1>4, <1>5, <2>1 DEF data
  <1>6. CASE data # E0 /\ data >= 128
    <2>1. shift' = Released(data)
      BY <1>1, <1>6 DEF kbd_proc_data
    <2>2. KeyAt(kbd, e, 1) = IF "E0ESC" \in shift THEN data ELSE data - 128
      <3>1. Low(data) = data - 128 /\ (data - 128) + 128 = data
        BY <1>1, <1>6 DEF Low
      <3>2. KeyAt(kbd, e, 1) = IF "E0ESC" \in shift THEN Low(data) + 128 ELSE Low(data)
        BY Zenon, <1>2 DEF KeyAt, data
      <3> QED BY <3>1, <3>2
    <2>3. shift' = shift \ (shiftcode(KeyAt(kbd, e, 1)) \cup {"E0ESC"})
      BY <2>1, <2>2 DEF Released
    <2>4. ~(data < 128)
      BY <1>1, <1>6
    <2> QED BY <1>4, <1>6, <2>3, <2>4 DEF data
  <1>7. CASE data # E0 /\ data < 128
    <2>1. KeyAt(kbd, e, 1) = IF "E0ESC" \in shift THEN data + 128 ELSE data
      <3>1. Low(data) = data
        BY <1>1, <1>7 DEF Low
      <3>2. KeyAt(kbd, e, 1) = IF "E0ESC" \in shift THEN Low(data) + 128 ELSE Low(data)
        BY Zenon, <1>2 DEF KeyAt, data
      <3> QED BY <3>1, <3>2
    <2>2. shift' = Pressed(KeyAt(kbd, e, 1))
      BY <1>1, <1>7, <2>1 DEF kbd_proc_data, E0
    <2>3. \A key : togglecode(key) \subseteq {"CAPSLOCK"}
      BY DEF togglecode
    <2>4. \A key, m : m # "CAPSLOCK" =>
            (m \in Pressed(key) <=> (m \in shift /\ m # "E0ESC") \/ m \in shiftcode(key))
      BY <2>3 DEF Pressed
    <2>5. "E0ESC" \notin shift'
      BY <1>3, <2>2, <2>4
    <2>6. ASSUME NEW m \in Modifiers
          PROVE  m \in shift' <=> IF m \in shiftcode(KeyAt(kbd, e, 1)) THEN data < 128
                                                                   ELSE m \in shift
      BY <1>4, <1>7, <2>2, <2>4
    <2> QED BY <1>7, <2>5, <2>6 DEF data
  <1>8. data < 128 \/ data >= 128
    BY <1>1
  <1> QED BY Zenon, <1>5, <1>6, <1>7, <1>8

LEMMA KeyInit == ConsoleInit => KeyInv
  <1> SUFFICES ASSUME ConsoleInit
               PROVE  KeyInv
    OBVIOUS
  <1>1. kbd = <<>> /\ held = {} /\ shift = {}
    BY DEF ConsoleInit
  <1>2. Reports(kbd, "E0ESC" \in shift, held)
    BY <1>1 DEF Reports
  <1>3. \A m \in Modifiers : Follows(m, shift, held)
    BY <1>1 DEF Follows
  <1> QED BY <1>2, <1>3 DEF KeyInv

LEMMA KeyNext == KeyInv /\ [ConsoleNext]_consoleVars => KeyInv'
  <1> SUFFICES ASSUME KeyInv, [ConsoleNext]_consoleVars
               PROVE  KeyInv'
    OBVIOUS
  <1> DEFINE e == "E0ESC" \in shift
  <1>1. CASE UNCHANGED <<kbd, held, shift>>
    BY <1>1 DEF KeyInv
  <1>2. ASSUME NEW key \in Keys, Press(key) \/ Release(key)
        PROVE  KeyInv'
    <2>1. PICK byte \in {key % 128, 128 + (key % 128)} :
            /\ kbd' = kbd \o (Prefix(key) \o <<byte>>) /\ shift' = shift
            /\ byte = key % 128 => held' = held \cup {key}
            /\ byte # key % 128 => held' = held \ {key}
      <3>1. key % 128 # 128 + (key % 128)
        BY ConsoleAssumption
      <3> QED BY Zenon, <1>2, <3>1 DEF Press, Release, Sends
    <2>2. /\ byte \in 0 .. 255
          /\ byte < 128 <=> byte = key % 128
      BY ConsoleAssumption
    <2>3. Reports(kbd, e, held) /\ held \subseteq Keys
      BY DEF KeyInv, Reports
    <2>4. /\ held' \subseteq Keys /\ (key \in held' <=> byte < 128)
          /\ \A k \in Keys : k # key => (k \in held' <=> k \in held)
      BY <2>1, <2>2, <2>3
    <2>5. /\ Reports(kbd', e, held')
          /\ \A m : NoneAbout(m, kbd', e) => NoneAbout(m, kbd, e) /\ m \notin shiftcode(key)
      <3> HIDE DEF e
      <3>1. Tells(byte, key, held, held')
        BY <2>1, <2>2, <2>4 DEF Tells
      <3>2. kbd' = Sent(kbd, key, byte)
        BY <2>1 DEF Sent
      <3> QED BY <2>3, <3>1, <3>2, SendBytes
    <2>6. ASSUME NEW m \in Modifiers, NoneAbout(m, kbd', e)
          PROVE  Follows(m, shift', held')
      <3>1. Follows(m, shift, held) /\ m \notin shiftcode(key)
        BY <2>5, <2>6 DEF KeyInv
      <3> QED BY <2>1, <2>3, <2>4, <3>1 DEF Follows
    <2> QED BY <2>1, <2>5, <2>6 DEF KeyInv
  <1>3. CASE keyboard_intr /\ kbd # <<>>
    <2>1. kbd' = Tail(kbd) /\ kbd_proc_data(Head(kbd)) /\ held' = held
      BY <1>3 DEF keyboard_intr
    <2>2. /\ Reports(kbd, e, held) /\ e \in BOOLEAN /\ kbd \in Seq(0 .. 255)
      BY DEF KeyInv, Reports
    <2>3. /\ "E0ESC" \in shift' <=> kbd[1] = E0
          /\ kbd[1] = E0 => \A m \in Modifiers : m \in shift' <=> m \in shift
          /\ kbd[1] # E0 => \A m \in Modifiers :
               m \in shift' <=> IF m \in shiftcode(KeyAt(kbd, e, 1)) THEN kbd[1] < 128
                                                                ELSE m \in shift
      <3>1. e <=> "E0ESC" \in shift
        OBVIOUS
      <3> HIDE DEF e
      <3> QED BY <1>3, <2>1, <2>2, <3>1, FlagsAfterByte
    <2>4. /\ Reports(kbd', kbd[1] = E0, held)
          /\ \A m : NoneAbout(m, kbd', kbd[1] = E0)
                   /\ (kbd[1] # E0 => m \notin shiftcode(KeyAt(kbd, e, 1)))
                => NoneAbout(m, kbd, e)
          /\ \A m : kbd[1] # E0 /\ NoneAbout(m, kbd', FALSE) /\ m \in shiftcode(KeyAt(kbd, e, 1))
                => (kbd[1] < 128 <=> KeyAt(kbd, e, 1) \in held)
      <3> HIDE DEF e
      <3> QED BY Zenon, <1>3, <2>1, <2>2, ReadByte
    <2>5. kbd[1] # E0 => KeyAt(kbd, e, 1) \in Keys
      <3>1. 1 \in 1 .. Len(kbd)
        BY <1>3, <2>2
      <3> HIDE DEF e
      <3> QED BY <2>2, <3>1 DEF Reports
    <2>6. ("E0ESC" \in shift') = (kbd[1] = E0)
      BY <2>3
    <2>7. ASSUME NEW m \in Modifiers, NoneAbout(m, kbd', kbd[1] = E0)
          PROVE  Follows(m, shift', held)
      <3> HIDE DEF e
      <3>1. CASE kbd[1] # E0 /\ m \in shiftcode(KeyAt(kbd, e, 1))
        <4>1. NoneAbout(m, kbd', FALSE)
          <5>1. (kbd[1] = E0) = FALSE
            BY <3>1
          <5> QED BY Zenon, <2>7, <5>1
        <4>2. kbd[1] < 128 <=> KeyAt(kbd, e, 1) \in held
          BY Zenon, <2>4, <3>1, <4>1
        <4>3. m \in shift' <=> kbd[1] < 128
          BY <2>3, <3>1
        <4> QED BY <2>5, <3>1, <4>2, <4>3 DEF Follows
      <3>2. CASE ~(kbd[1] # E0 /\ m \in shiftcode(KeyAt(kbd, e, 1)))
        <4>1. NoneAbout(m, kbd, e)
          BY <2>4, <2>7, <3>2
        <4>2. Follows(m, shift, held)
          BY <4>1 DEF KeyInv, e
        <4>3. m \in shift' <=> m \in shift
          BY <2>3, <3>2
        <4> QED BY <4>2, <4>3 DEF Follows
      <3> QED BY <3>1, <3>2
    <2> QED BY <2>1, <2>4, <2>6, <2>7 DEF KeyInv
  <1>4. CASE keyboard_intr /\ kbd = <<>>
    BY <1>1, <1>4 DEF keyboard_intr
  <1>5. ASSUME NEW c \in SerialChars, Receive(c)
        PROVE  KeyInv'
    BY <1>1, <1>5 DEF Receive
  <1>6. CASE serial_intr \/ cons_getc \/ UNCHANGED consoleVars
    BY <1>1, <1>6 DEF serial_intr, cons_getc, consoleVars, devices
  <1> QED BY <1>2, <1>3, <1>4, <1>5, <1>6 DEF ConsoleNext

\* Once the driver has read everything, its modifiers are those of the keys that
\* are down, whatever keys were pressed and released, in any order and at any
\* speed, and no escape is left over (kbd_proc_data).
THEOREM ModifiersRight == ConsoleSpec => []ModifiersFollowKeys
  <1>1. KeyInv => ModifiersFollowKeys
    <2> SUFFICES ASSUME KeyInv, kbd = <<>>
                 PROVE  /\ "E0ESC" \notin shift
                        /\ \A m \in {"SHIFT", "CTL", "ALT"} :
                             LET of == {key \in Keys : m \in shiftcode(key)}
                             IN  /\ m \in shift => of \cap held # {}
                                 /\ of # {} /\ of \subseteq held => m \in shift
      BY DEF ModifiersFollowKeys
    <2>1. "E0ESC" \notin shift /\ held \subseteq Keys
      BY DEF KeyInv, Reports
    <2>2. \A m \in Modifiers : Follows(m, shift, held)
      BY DEF KeyInv, NoneAbout
    <2> QED BY <2>1, <2>2 DEF Follows, Modifiers
  <1> QED BY <1>1, KeyInit, KeyNext, PTL DEF ConsoleSpec

=============================================================================
