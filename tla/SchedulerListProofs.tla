------------------------ MODULE SchedulerListProofs ------------------------
(***************************************************************************)
(* Proofs about Scheduler that take induction over the length of the ready *)
(* queue or over the set of threads, from InductionFacts: what the loops   *)
(* of mcsos_sched_validate and mcsos_sched_ready_count find, and that the  *)
(* statistics balance.                                                     *)
(***************************************************************************)
EXTENDS SchedulerProofs, SchedulerCallers, InductionFacts

\* One step of the loops.
Follow(t) == IF t = NULL THEN NULL ELSE rq.next[t]

\* The loops start at ready_head and follow next until it is NULL.
LEMMA CursorFacts ==
  ASSUME rq \in Queue, NEW bound \in Nat
  PROVE  /\ DOMAIN Cursor(bound) = 0..bound /\ Cursor(bound)[0] = rq.ready_head
         /\ \A k \in 0..bound : Cursor(bound)[k] \in Thread \cup {NULL}
         /\ \A k \in 1..bound : Cursor(bound)[k] = Follow(Cursor(bound)[k - 1])
<1> DEFINE Solves(c) == c = [k \in 0..bound |-> IF k = 0 THEN rq.ready_head ELSE Follow(c[k - 1])]
           link == [t \in Thread \cup {NULL} |-> Follow(t)]
           Found == CHOOSE c : Solves(c)
<1>0. /\ rq.ready_head \in Thread \cup {NULL}
      /\ \A t \in Thread \cup {NULL} : Follow(t) \in Thread \cup {NULL}
  BY DEF Queue, Follow
<1>1. Cursor(bound) = Found
  BY DEF Cursor, Follow
<1>2. ASSUME NEW w, DOMAIN w = 0..bound, w[0] = rq.ready_head,
             \A k \in 1..bound : w[k - 1] \in Thread \cup {NULL} => w[k] = Follow(w[k - 1])
      PROVE  \A k \in 0..bound : w[k] \in Thread \cup {NULL}
  <2> DEFINE S == {k \in Nat : k <= bound => w[k] \in Thread \cup {NULL}}
  <2>1. 0 \in S
    BY <1>0, <1>2
  <2>2. ASSUME NEW k \in Nat, k \in S PROVE k + 1 \in S
    <3> SUFFICES ASSUME k + 1 <= bound PROVE w[k + 1] \in Thread \cup {NULL}
      OBVIOUS
    <3>1. k + 1 \in 1..bound /\ (k + 1) - 1 = k /\ w[k] \in Thread \cup {NULL}
      BY <2>2
    <3>2. w[k + 1] = Follow(w[k])
      BY <1>2, <3>1
    <3> QED BY <1>0, <3>1, <3>2
  <2>3. Nat \subseteq S
    <3> HIDE DEF S
    <3> QED BY <2>1, <2>2, NumberInduction
  <2> QED BY <2>3
<1>3. \E c : Solves(c)
  <2>1. PICK w : IsIteration(w, link, rq.ready_head, bound)
    <3> HIDE DEF link
    <3> QED BY IterateExists
  <2>2. w = [k \in 0..bound |-> IF k = 0 THEN rq.ready_head ELSE link[w[k - 1]]]
    BY <2>1, Zenon DEF IsIteration
  <2>3. /\ DOMAIN w = 0..bound /\ w[0] = rq.ready_head
        /\ \A k \in 1..bound : w[k] = link[w[k - 1]]
    <3> HIDE DEF link
    <3> QED BY <2>2
  <2>4. \A k \in 0..bound : w[k] \in Thread \cup {NULL}
    <3>1. \A k \in 1..bound : w[k - 1] \in Thread \cup {NULL} => w[k] = Follow(w[k - 1])
      BY <2>3, Zenon
    <3> QED BY <1>2, <2>3, <3>1
  <2>5. Solves(w)
    <3>1. \A k \in 0..bound : k # 0 => link[w[k - 1]] = Follow(w[k - 1])
      BY <2>4
    <3> HIDE DEF link
    <3> QED BY <2>2, <3>1, Zenon
  <2> QED BY <2>5
<1>4. Solves(Found)
  <2> HIDE DEF Solves
  <2> QED BY <1>3
<1> HIDE DEF Found
<1>5. /\ DOMAIN Found = 0..bound /\ Found[0] = rq.ready_head
      /\ \A k \in 1..bound : Found[k] = Follow(Found[k - 1])
  <2>1. Found = [k \in 0..bound |-> IF k = 0 THEN rq.ready_head ELSE Follow(Found[k - 1])]
    BY <1>4
  <2> QED BY <2>1
<1>6. \A k \in 0..bound : Found[k] \in Thread \cup {NULL}
  BY <1>2, <1>5, Zenon
<1> QED BY <1>1, <1>5, <1>6

\* On a list that spells out the sequence f the cursor passes its members
\* and then is NULL.
LEMMA CursorSpells ==
  ASSUME rq \in Queue, NEW n \in Nat, NEW f \in [1..n -> Thread], NEW bound \in Nat,
         n <= bound, rq.ready_head = IF n = 0 THEN NULL ELSE f[1],
         \A k \in 1..n : rq.next[f[k]] = IF k = n THEN NULL ELSE f[k + 1]
  PROVE  /\ \A k \in 1..n : Cursor(bound)[k - 1] = f[k]
         /\ \A k \in n..bound : Cursor(bound)[k] = NULL
<1> DEFINE c == Cursor(bound)
           S == {k \in Nat : k <= bound => c[k] = IF k < n THEN f[k + 1] ELSE NULL}
<1>0. c[0] = rq.ready_head /\ \A k \in 1..bound : c[k] = Follow(c[k - 1])
  BY CursorFacts
<1> HIDE DEF c
<1>1. 0 \in S
  BY <1>0
<1>2. ASSUME NEW k \in Nat, k \in S PROVE k + 1 \in S
  <2> SUFFICES ASSUME k + 1 <= bound
               PROVE  c[k + 1] = IF k + 1 < n THEN f[(k + 1) + 1] ELSE NULL
    OBVIOUS
  <2>1. c[k + 1] = Follow(c[k]) /\ c[k] = IF k < n THEN f[k + 1] ELSE NULL
    <3>1. k + 1 \in 1..bound /\ (k + 1) - 1 = k
      OBVIOUS
    <3> QED BY <1>0, <1>2, <3>1
  <2>2. CASE k < n
    <3>1. k + 1 \in 1..n /\ f[k + 1] \in Thread /\ f[k + 1] # NULL
      BY <2>2, Distinct
    <3> QED BY <2>1, <2>2, <3>1 DEF Follow
  <2>3. CASE ~(k < n)
    BY <2>1, <2>3 DEF Follow
  <2> QED BY <2>2, <2>3
<1>3. Nat \subseteq S
  <2> HIDE DEF S
  <2> QED BY <1>1, <1>2, NumberInduction
<1>4. \A k \in 1..n : c[k - 1] = f[k]
  <2> SUFFICES ASSUME NEW k \in 1..n PROVE c[k - 1] = f[k]
    OBVIOUS
  <2>1. k - 1 \in S /\ k - 1 < n /\ (k - 1) + 1 = k /\ k - 1 <= bound
    BY <1>3
  <2> QED BY <2>1
<1>5. \A k \in n..bound : c[k] = NULL
  BY <1>3
<1> QED BY <1>4, <1>5 DEF c

\* There are no more distinct threads than threads.
LEMMA DistinctThreads ==
  ASSUME NEW n \in Nat, NEW f \in [1..n -> Thread], IsInjective(f)
  PROVE  n <= Cardinality(Thread) /\ Cardinality(Thread) \in Nat
<1>1. IsFiniteSet(Thread)
  BY SchedulerConstants, FS_AddElement DEF Thread
<1>2. f \in Injection(1..n, Thread)
  BY DEF Injection
<1>3. Cardinality(1..n) = n
  BY FS_Interval
<1>4. Cardinality(1..n) <= Cardinality(Thread)
  BY <1>1, <1>2, FS_Injection
<1> QED BY <1>1, <1>3, <1>4, FS_CardinalityType

\* A walk that reaches NULL after n nodes has met each of them once: from a
\* node met twice it would have gone round for ever.
LEMMA WalkInjective ==
  ASSUME rq \in Queue, NEW bound \in Nat, NEW n \in 0..bound,
         Cursor(bound)[n] = NULL, \A k \in 0..(n - 1) : Cursor(bound)[k] # NULL,
         NEW i \in 0..(n - 1), NEW j \in 0..(n - 1), i < j
  PROVE  Cursor(bound)[i] # Cursor(bound)[j]
<1> DEFINE c == Cursor(bound)
           S == {m \in Nat : j + m <= n => c[i + m] = c[j + m]}
<1>0. \A k \in 1..bound : c[k] = Follow(c[k - 1])
  BY CursorFacts
<1>00. c[n] = NULL /\ \A k \in 0..(n - 1) : c[k] # NULL
  OBVIOUS
<1> HIDE DEF c
<1> SUFFICES ASSUME c[i] = c[j] PROVE FALSE
  BY DEF c
<1>1. 0 \in S
  OBVIOUS
<1>2. ASSUME NEW m \in Nat, m \in S PROVE m + 1 \in S
  <2> SUFFICES ASSUME j + (m + 1) <= n PROVE c[i + (m + 1)] = c[j + (m + 1)]
    OBVIOUS
  <2>1. c[i + m] = c[j + m]
    BY <1>2
  <2>2. /\ i + (m + 1) \in 1..bound /\ (i + (m + 1)) - 1 = i + m
        /\ j + (m + 1) \in 1..bound /\ (j + (m + 1)) - 1 = j + m
    OBVIOUS
  <2>3. c[i + (m + 1)] = Follow(c[i + m]) /\ c[j + (m + 1)] = Follow(c[j + m])
    BY <1>0, <2>2
  <2> QED BY <2>1, <2>3
<1>3. Nat \subseteq S
  <2> HIDE DEF S
  <2> QED BY <1>1, <1>2, NumberInduction
<1>4. n - j \in S /\ j + (n - j) = n /\ i + (n - j) \in 0..(n - 1)
  BY <1>3
<1>5. c[i + (n - j)] = c[j + (n - j)]
  BY <1>4
<1> QED BY <1>00, <1>4, <1>5

\* A well-formed queue is accepted.
LEMMA ValidateAccepts ==
  ASSUME PInv, initialized, WellFormed
  PROVE  mcsos_sched_validate = "OK"
<1> DEFINE n == rq.runnable_count
           c == Cursor(n + 1)
           Bad(k) == ~magic[c[k]] \/ state[c[k]] # "READY" \/ c[k] = current
           ends == {k \in DOMAIN c : c[k] = NULL /\ \A j \in 0..(k - 1) : c[j] # NULL}
           count == CHOOSE k \in ends : TRUE
           last == IF count = 0 THEN NULL ELSE c[count - 1]
<1>1. PICK q \in [1..n -> Thread] :
         /\ rq.ready_head = IF n = 0 THEN NULL ELSE q[1]
         /\ rq.ready_tail = IF n = 0 THEN NULL ELSE q[n]
         /\ \A i \in 1..n :
              /\ rq.next[q[i]] = IF i = n THEN NULL ELSE q[i + 1]
              /\ magic[q[i]] /\ state[q[i]] = "READY" /\ q[i] # current
  BY DEF WellFormed
<1>2. rq \in Queue /\ n \in Nat /\ n + 1 \in Nat /\ n <= n + 1
  BY DEF PInv, Sound, Queue
<1>3. /\ DOMAIN c = 0..(n + 1)
      /\ \A k \in 1..n : c[k - 1] = q[k]
      /\ \A k \in n..(n + 1) : c[k] = NULL
  <2> HIDE DEF n
  <2>1. /\ q \in [1..n -> Thread] /\ rq.ready_head = IF n = 0 THEN NULL ELSE q[1]
        /\ \A k \in 1..n : rq.next[q[k]] = IF k = n THEN NULL ELSE q[k + 1]
    BY <1>1
  <2>2. DOMAIN c = 0..(n + 1)
    BY <1>2, CursorFacts
  <2>3. /\ \A k \in 1..n : c[k - 1] = q[k]
        /\ \A k \in n..(n + 1) : c[k] = NULL
    BY <1>2, <2>1, CursorSpells, Zenon
  <2> QED BY <2>2, <2>3
<1> HIDE DEF c
<1>4. \A k \in 0..(n - 1) : c[k] = q[k + 1] /\ k + 1 \in 1..n /\ c[k] # NULL
  <2> SUFFICES ASSUME NEW k \in 0..(n - 1) PROVE c[k] = q[k + 1] /\ k + 1 \in 1..n /\ c[k] # NULL
    OBVIOUS
  <2>1. k + 1 \in 1..n /\ (k + 1) - 1 = k
    BY <1>2
  <2>2. c[k] = q[k + 1]
    BY <1>3, <2>1
  <2> QED BY <2>1, <2>2, Distinct
<1>5. ~\E k \in DOMAIN c : c[k] # NULL /\ Bad(k)
  <2> SUFFICES ASSUME NEW k \in 0..(n + 1), c[k] # NULL PROVE ~Bad(k)
    BY <1>3
  <2>1. k \in 0..(n - 1)
    BY <1>2, <1>3
  <2> QED BY <1>1, <1>4, <2>1
<1>6. ends = {n}
  <2>1. n \in ends
    BY <1>2, <1>3, <1>4
  <2>2. ASSUME NEW k \in ends PROVE k = n
    <3>1. k \in 0..(n + 1) /\ c[k] = NULL /\ \A j \in 0..(k - 1) : c[j] # NULL
      BY <1>3
    <3>2. ~(k < n)
      BY <1>2, <1>4, <3>1
    <3>3. ~(n < k)
      BY <1>2, <1>3, <3>1
    <3> QED BY <1>2, <3>1, <3>2, <3>3
  <2> QED BY <2>1, <2>2
<1> HIDE DEF ends
<1>7. count = n
  BY <1>6
<1>8. last = rq.ready_tail
  <2>1. n # 0 => c[n - 1] = q[n] /\ n \in 1..n
    BY <1>2, <1>3
  <2> QED BY <1>1, <1>7, <2>1, Zenon
<1>9. Live
  BY DEF Live, PInv
<1>10. mcsos_sched_validate =
         IF ~Live THEN "EINVAL"
         ELSE IF \E k \in DOMAIN c : c[k] # NULL /\ Bad(k) THEN "ECORRUPT"
         ELSE IF ends = {} THEN "ECORRUPT"
         ELSE IF last # rq.ready_tail \/ count # n THEN "ECORRUPT" ELSE "OK"
  BY DEF mcsos_sched_validate, c, ends
<1> HIDE DEF count, last, Bad, n
<1> QED BY <1>5, <1>6, <1>7, <1>8, <1>9, <1>10

\* A queue that is accepted is well formed.
LEMMA ValidateRejects ==
  ASSUME PInv, initialized, mcsos_sched_validate = "OK"
  PROVE  WellFormed
<1> DEFINE n == rq.runnable_count
           c == Cursor(n + 1)
           Bad(k) == ~magic[c[k]] \/ state[c[k]] # "READY" \/ c[k] = current
           ends == {k \in DOMAIN c : c[k] = NULL /\ \A j \in 0..(k - 1) : c[j] # NULL}
           count == CHOOSE k \in ends : TRUE
           last == IF count = 0 THEN NULL ELSE c[count - 1]
           q == [k \in 1..n |-> c[k - 1]]
<1>1. rq \in Queue /\ n \in Nat /\ n + 1 \in Nat
  BY DEF PInv, Sound, Queue
<1>2. /\ DOMAIN c = 0..(n + 1) /\ c[0] = rq.ready_head
      /\ \A k \in 0..(n + 1) : c[k] \in Thread \cup {NULL}
      /\ \A k \in 1..(n + 1) : c[k] = Follow(c[k - 1])
  <2> HIDE DEF n
  <2> QED BY <1>1, CursorFacts
<1>3. mcsos_sched_validate =
         IF ~Live THEN "EINVAL"
         ELSE IF \E k \in DOMAIN c : c[k] # NULL /\ Bad(k) THEN "ECORRUPT"
         ELSE IF ends = {} THEN "ECORRUPT"
         ELSE IF last # rq.ready_tail \/ count # n THEN "ECORRUPT" ELSE "OK"
  BY DEF mcsos_sched_validate
<1>4. /\ ~\E k \in DOMAIN c : c[k] # NULL /\ Bad(k)
      /\ ends # {} /\ last = rq.ready_tail /\ count = n
  <2> HIDE DEF c, Bad, ends, count, last
  <2> QED BY <1>3
<1>5. n \in ends
  <2> HIDE DEF ends
  <2> QED BY <1>4
<1>6. c[n] = NULL /\ \A j \in 0..(n - 1) : c[j] # NULL
  <2> HIDE DEF c, n
  <2> QED BY <1>5
<1>7. \A i, j \in 0..(n - 1) : i < j => c[i] # c[j]
  <2>1. n \in 0..(n + 1)
    BY <1>1
  <2> HIDE DEF n
  <2> QED BY <1>1, <1>6, <2>1, WalkInjective
<1> HIDE DEF c
<1>8. \A k \in 1..n : k - 1 \in 0..(n - 1) /\ k - 1 \in 0..(n + 1)
  BY <1>1
<1>9. q \in [1..n -> Thread] /\ \A k \in 1..n : q[k] = c[k - 1]
  BY <1>2, <1>6, <1>8
<1> HIDE DEF q
<1>10. IsInjective(q)
  <2> SUFFICES ASSUME NEW a \in 1..n, NEW b \in 1..n, q[a] = q[b] PROVE a = b
    BY <1>9 DEF IsInjective
  <2>1. c[a - 1] = c[b - 1] /\ a - 1 \in 0..(n - 1) /\ b - 1 \in 0..(n - 1)
    BY <1>8, <1>9
  <2>2. ~(a - 1 < b - 1) /\ ~(b - 1 < a - 1)
    BY <1>7, <2>1
  <2> QED BY <1>1, <2>2
<1>11. n \in 0..Cardinality(Thread)
  <2> HIDE DEF n
  <2> QED BY <1>1, <1>9, <1>10, DistinctThreads
<1>12. rq.ready_head = IF n = 0 THEN NULL ELSE q[1]
  <2>1. n # 0 => 1 \in 1..n /\ 1 - 1 = 0
    BY <1>1
  <2> QED BY <1>2, <1>6, <1>9, <2>1
<1>13. rq.ready_tail = IF n = 0 THEN NULL ELSE q[n]
  <2>1. n # 0 => n \in 1..n
    BY <1>1
  <2>2. rq.ready_tail = IF n = 0 THEN NULL ELSE c[n - 1]
    BY <1>4, Zenon
  <2> QED BY <1>9, <2>1, <2>2
<1>14. ASSUME NEW k \in 1..n
       PROVE  /\ rq.next[q[k]] = IF k = n THEN NULL ELSE q[k + 1]
              /\ magic[q[k]] /\ state[q[k]] = "READY" /\ q[k] # current
  <2>1. /\ k \in 1..(n + 1) /\ k - 1 \in 0..(n + 1) /\ k - 1 \in 0..(n - 1) /\ k \in Nat
        /\ k # n => k + 1 \in 1..n /\ (k + 1) - 1 = k
    BY <1>1
  <2>2. q[k] = c[k - 1] /\ c[k - 1] # NULL
    BY <1>6, <1>9, <2>1
  <2>3. c[k] = rq.next[q[k]]
    BY <1>2, <2>1, <2>2 DEF Follow
  <2>4. c[k] = IF k = n THEN NULL ELSE q[k + 1]
    BY <1>6, <1>9, <2>1
  <2>5. ~Bad(k - 1)
    BY <1>2, <1>4, <2>1, <2>2, Zenon
  <2> QED BY <2>2, <2>3, <2>4, <2>5
<1> HIDE DEF n
<1>15. rq.runnable_count = n
  BY DEF n
<1> QED BY <1>9, <1>10, <1>11, <1>12, <1>13, <1>14, <1>15, Zenon DEF WellFormed

\* Whatever the callers do, mcsos_sched_validate answers OK exactly on the
\* well-formed queues, cyclic ones included (mcsos_thread.c, its loop).
THEOREM ValidatesExactly == AnySpec => []ValidateExact
<1>1. PInv => ValidateExact
  BY ValidateAccepts, ValidateRejects DEF ValidateExact
<1> QED BY <1>1, PointersSound, PTL

-----------------------------------------------------------------------------
(* The pointers implement RoundRobin.                                       *)

\* With callers that obey the rules, a walk of the list reads the queue.
LEMMA QueueRead ==
  ASSUME IInv
  PROVE  QueueSeq = fifo
<1> DEFINE n == Len(fifo)
           top == Cardinality(Thread)
           c == Cursor(top)
<1>1. /\ rq \in Queue /\ fifo \in Seq(Thread) /\ Spells(rq, fifo) /\ n \in Nat
      /\ fifo \in [1..n -> Thread]
  BY Restated DEF IInv
<1>2. IsInjective(fifo)
  BY <1>1, Zenon DEF Spells, IsInjective
<1>3. n <= top /\ top \in Nat
  BY <1>1, <1>2, DistinctThreads
<1>4. /\ \A k \in 1..n : c[k - 1] = fifo[k]
      /\ \A k \in n..top : c[k] = NULL
  <2>1. /\ rq.ready_head = IF n = 0 THEN NULL ELSE fifo[1]
        /\ \A k \in 1..n : rq.next[fifo[k]] = IF k = n THEN NULL ELSE fifo[k + 1]
    <3>1. fifo = <<>> <=> n = 0
      BY <1>1, EmptySeq
    <3> QED BY <1>1, <3>1, Zenon DEF Spells
  <2> HIDE DEF n, top
  <2> QED BY <1>1, <1>3, <2>1, CursorSpells, Zenon
<1> HIDE DEF c
<1>5. WalkLengths = {n}
  <2>1. \A k \in 0..(n - 1) : c[k] # NULL
    <3> SUFFICES ASSUME NEW k \in 0..(n - 1) PROVE c[k] # NULL
      OBVIOUS
    <3>1. k + 1 \in 1..n /\ (k + 1) - 1 = k
      BY <1>1
    <3>2. c[k] = fifo[k + 1] /\ fifo[k + 1] \in Thread
      BY <1>1, <1>4, <3>1
    <3> QED BY <3>2, Distinct
  <2>2. WalkLengths = {k \in 0..top : c[k] = NULL /\ \A j \in 0..(k - 1) : c[j] # NULL}
    BY DEF WalkLengths, c
  <2> HIDE DEF n, top
  <2>3. ASSUME NEW k \in 0..top, c[k] = NULL, \A j \in 0..(k - 1) : c[j] # NULL PROVE k = n
    <3>1. ~(k < n)
      BY <1>1, <2>1, <2>3
    <3>2. ~(n < k)
      BY <1>1, <1>3, <1>4, <2>3
    <3> QED BY <1>1, <3>1, <3>2
  <2>4. n \in 0..top /\ c[n] = NULL
    BY <1>1, <1>3, <1>4
  <2> QED BY <2>1, <2>2, <2>3, <2>4
<1>6. mcsos_sched_ready_count = n
  <2>1. CASE initialized
    BY <1>5, <2>1 DEF mcsos_sched_ready_count
  <2>2. CASE ~initialized
    <3>1. fifo = <<>>
      BY <2>2 DEF IInv
    <3>2. n = 0
      BY <3>1
    <3> QED BY <2>2, <3>2 DEF mcsos_sched_ready_count
  <2> QED BY <2>1, <2>2
<1>7. QueueSeq = [k \in 1..n |-> c[k - 1]]
  BY <1>6 DEF QueueSeq, c
<1> QED BY <1>1, <1>4, <1>7

\* For any number of threads, every call moves the queue a walk of the list
\* reads, and the CPU, as the abstract round-robin queue does.
THEOREM ListImplementsRoundRobin == Spec => RoundRobinSpec
<1>0. IInv => QueueSeq = fifo
  BY QueueRead
<1>a. (IInv => QueueSeq = fifo)'
  BY <1>0, PTL
<1>1. Init /\ IInv /\ Abstract!Init => RR!Init
  BY QueueRead DEF RR!Init, Abstract!Init
<1>2. IInv /\ IInv' /\ [Abstract!Next]_<<current, fifo>> => [RR!Next]_<<current, QueueSeq>>
  <2> SUFFICES ASSUME IInv, IInv', [Abstract!Next]_<<current, fifo>>
               PROVE  [RR!Next]_<<current, QueueSeq>>
    OBVIOUS
  <2>1. QueueSeq = fifo
    BY QueueRead
  <2>2. QueueSeq' = fifo'
    BY <1>a
  <2> QED
    BY <2>1, <2>2 DEF Abstract!Next, Abstract!Start, Abstract!Rotate, Abstract!Sleep,
         Abstract!Arrive, Abstract!Upcoming, Abstract!Remaining, Abstract!Range,
         RR!Next, RR!Start, RR!Rotate, RR!Sleep, RR!Arrive, RR!Upcoming, RR!Remaining, RR!Range
<1> QED
  BY InitInv, NextInv, ImplementsRoundRobin, <1>1, <1>2, PTL
     DEF Spec, RoundRobinSpec, RR!Spec, Abstract!Spec

-----------------------------------------------------------------------------
(* The statistics.                                                          *)

\* Counters that are equal up to what the 64-bit additions drop.
Congruent(a, b) == \E k \in Int : a = b + CounterMod * k

\* A product with the modulus that is smaller than it is zero.
LEMMA SmallMultiple ==
  ASSUME NEW k \in Int, CounterMod * k < CounterMod, -CounterMod < CounterMod * k
  PROVE  k = 0
<1> DEFINE M == CounterMod
<1>1. M \in Int /\ M > 0
  BY SchedulerConstants
<1> HIDE DEF M
<1>2. CASE k >= 1
  <2>1. M * k = M + M * (k - 1) /\ M * (k - 1) >= 0
    BY <1>1, <1>2
  <2>2. M * k < M /\ M * (k - 1) \in Int
    BY <1>1 DEF M
  <2> QED BY <1>1, <2>1, <2>2
<1>3. CASE k <= -1
  <2>1. M * k = (M * (k + 1)) - M /\ M * (k + 1) <= 0
    BY <1>1, <1>3
  <2>2. -M < M * k /\ M * (k + 1) \in Int
    BY <1>1 DEF M
  <2> QED BY <1>1, <2>1, <2>2
<1> QED BY <1>2, <1>3

\* Congruent is equality of the remainders.
LEMMA SameRemainder ==
  ASSUME NEW a \in Int, NEW b \in Int
  PROVE  /\ Congruent(a, b) <=> a % CounterMod = b % CounterMod
         /\ Congruent(a % CounterMod, a)
<1> DEFINE M == CounterMod
           ra == a % M
           rb == b % M
           qa == a \div M
           qb == b \div M
<1>1. M \in Nat \ {0}
  BY SchedulerConstants
<1>2. /\ ra \in 0..(M - 1) /\ rb \in 0..(M - 1) /\ qa \in Int /\ qb \in Int
      /\ a = M * qa + ra /\ b = M * qb + rb
  <2> HIDE DEF M
  <2> QED BY <1>1
<1> HIDE DEF ra, rb, qa, qb, M
<1>3. ASSUME ra = rb PROVE Congruent(a, b)
  <2>1. a = b + M * (qa - qb) /\ qa - qb \in Int
    BY <1>1, <1>2, <1>3
  <2> QED BY <2>1 DEF Congruent, M
<1>4. ASSUME Congruent(a, b) PROVE ra = rb
  <2>1. PICK k \in Int : a = b + M * k
    BY <1>4 DEF Congruent, M
  <2> DEFINE d == (qb + k) - qa
  <2>2. d \in Int /\ M * d = ra - rb
    BY <1>1, <1>2, <2>1
  <2> HIDE DEF d
  <2>3. M * d < M /\ -M < M * d
    BY <1>1, <1>2, <2>2
  <2>4. d = 0
    BY <2>2, <2>3, SmallMultiple DEF M
  <2> QED BY <1>1, <1>2, <2>2, <2>4
<1>5. Congruent(ra, a)
  <2>1. ra = a + M * (-qa) /\ -qa \in Int
    BY <1>1, <1>2
  <2> QED BY <2>1 DEF Congruent, M
<1> QED BY <1>3, <1>4, <1>5 DEF ra, rb, M

\* Congruence is an equivalence.
LEMMA CongruentEq ==
  ASSUME NEW a \in Int, NEW b \in Int
  PROVE  Congruent(a, a) /\ (Congruent(a, b) => Congruent(b, a))
<1> DEFINE M == CounterMod
<1>0. M \in Nat \ {0}
  BY SchedulerConstants
<1> HIDE DEF M
<1>1. Congruent(a, a)
  <2>1. a = a + M * 0
    BY <1>0
  <2> QED BY <2>1 DEF Congruent, M
<1>2. ASSUME Congruent(a, b) PROVE Congruent(b, a)
  <2>1. PICK k \in Int : a = b + M * k
    BY <1>2 DEF Congruent, M
  <2>2. b = a + M * (-k) /\ -k \in Int
    BY <1>0, <2>1
  <2> QED BY <2>2 DEF Congruent, M
<1> QED BY <1>1, <1>2

\* Congruence modulo the width of a counter is transitive.
LEMMA CongruentTrans ==
  ASSUME NEW a \in Int, NEW b \in Int, NEW c \in Int, Congruent(a, b), Congruent(b, c)
  PROVE  Congruent(a, c)
<1> DEFINE M == CounterMod
<1>0. M \in Nat \ {0}
  BY SchedulerConstants
<1> HIDE DEF M
<1>1. PICK k \in Int : a = b + M * k
  BY DEF Congruent, M
<1>2. PICK j \in Int : b = c + M * j
  BY DEF Congruent, M
<1>3. a = c + M * (k + j) /\ k + j \in Int
  BY <1>0, <1>1, <1>2
<1> QED BY <1>3 DEF Congruent, M

\* Additions respect it.
LEMMA CongruentSum ==
  ASSUME NEW a \in Int, NEW b \in Int, NEW c \in Int, NEW d \in Int,
         Congruent(a, b), Congruent(c, d)
  PROVE  Congruent(a + c, b + d)
<1> DEFINE M == CounterMod
<1>0. M \in Nat \ {0}
  BY SchedulerConstants
<1> HIDE DEF M
<1>1. PICK k \in Int : a = b + M * k
  BY DEF Congruent, M
<1>2. PICK j \in Int : c = d + M * j
  BY DEF Congruent, M
<1>3. a + c = (b + d) + M * (k + j) /\ k + j \in Int
  BY <1>0, <1>1, <1>2
<1> QED BY <1>3 DEF Congruent, M

Counter == 0..(CounterMod - 1)

\* The sum of the threads' counters after one of them is written.
LEMMA SumWritten ==
  ASSUME NEW f \in [Thread -> Counter], NEW t \in Thread, NEW v \in Counter
  PROVE  /\ SumFunction(f) \in Nat
         /\ [f EXCEPT ![t] = v] \in [Thread -> Counter]
         /\ SumFunction([f EXCEPT ![t] = v]) = (SumFunction(f) - f[t]) + v
<1> DEFINE g == [f EXCEPT ![t] = v]
           rest == Thread \ {t}
<1>1. IsFiniteSet(Thread) /\ IsFiniteSet(rest)
  <2>1. IsFiniteSet(Thread)
    BY SchedulerConstants, FS_AddElement DEF Thread
  <2> QED BY <2>1, FS_RemoveElement
<1>2. /\ g \in [Thread -> Counter] /\ DOMAIN f = Thread /\ DOMAIN g = Thread
      /\ g[t] = v /\ \A u \in rest : g[u] = f[u]
  OBVIOUS
<1>3. /\ \A u \in Thread : f[u] \in Nat
      /\ \A u \in Thread : g[u] \in Nat
  BY <1>2 DEF Counter
<1> HIDE DEF g, rest
<1>4. \A u \in rest : f[u] \in Nat
  BY <1>3 DEF rest
<1>5. /\ SumFunctionOnSet(f, Thread) \in Nat /\ SumFunctionOnSet(f, rest) \in Nat
  BY <1>1, <1>3, <1>4, SumType
<1>6. /\ SumFunctionOnSet(f, Thread) = f[t] + SumFunctionOnSet(f, rest)
      /\ SumFunctionOnSet(g, Thread) = g[t] + SumFunctionOnSet(g, rest)
  BY <1>1, <1>3, SumRemove DEF rest
<1>7. SumFunctionOnSet(g, rest) = SumFunctionOnSet(f, rest)
  BY <1>1, <1>2, SumSame
<1>8. SumFunctionOnSet(g, Thread) = (SumFunctionOnSet(f, Thread) - f[t]) + v
  BY <1>2, <1>3, <1>5, <1>6, <1>7
<1>9. SumFunction(f) = SumFunctionOnSet(f, Thread) /\ SumFunction(g) = SumFunctionOnSet(g, Thread)
  BY <1>2 DEF SumFunction
<1> QED BY <1>2, <1>5, <1>8, <1>9 DEF g

\* Counters that are all zero add up to zero.
LEMMA SumZero == SumFunction([t \in Thread |-> 0]) = 0
<1> DEFINE f == [t \in Thread |-> 0]
           P == {T \in SUBSET Thread : SumFunctionOnSet(f, T) = 0}
<1>0. IsFiniteSet(Thread)
  BY SchedulerConstants, FS_AddElement DEF Thread
<1>1. ASSUME NEW T \in SUBSET Thread, \A U \in SUBSET T : U # T => U \in P
      PROVE  T \in P
  <2>1. IsFiniteSet(T)
    BY <1>0, FS_Subset
  <2>2. CASE T = {}
    BY <2>1, <2>2, SumEquation, Zenon
  <2>3. CASE T # {}
    <3>1. Chosen(T) \in T /\ T \ {Chosen(T)} \in P
      BY <2>3, <1>1, ChosenIn
    <3>2. SumFunctionOnSet(f, T) = f[Chosen(T)] + SumFunctionOnSet(f, T \ {Chosen(T)})
      BY <2>1, <2>3, SumEquation
    <3> QED BY <3>1, <3>2
  <2> QED BY <2>2, <2>3
<1>2. Thread \in P
  <2> HIDE DEF P
  <2> QED BY <1>0, <1>1, SubsetInduction
<1> QED BY <1>2 DEF SumFunction

\* A counter that is bumped gains one, up to the wrap.
LEMMA BumpAddsOne ==
  ASSUME NEW n \in Counter
  PROVE  Bump(n) \in Counter /\ Congruent(Bump(n), n + 1)
<1>1. n \in Nat /\ n + 1 \in Int
  BY DEF Counter
<1>2. Congruent((n + 1) % CounterMod, n + 1)
  BY <1>1, SameRemainder
<1> QED BY <1>1, <1>2, CounterType DEF Bump, Counter

Accounts == [context_switches : Counter, ticks : Counter,
             switches : [Thread -> Counter], thread_ticks : [Thread -> Counter]]

Wiped == [switches : Counter, ticks : Counter]

\* One line of the accounts: the threads' counters s with what was wiped, r,
\* against the scheduler's total.
Balanced(s, r, total) == Congruent(SumFunction(s) + r, total)

\* AccountingBalances says that both lines balance.
LEMMA BothLines ==
  ASSUME NEW a \in Accounts, NEW w \in Wiped
  PROVE  (/\ (SumFunction(a.switches) + w.switches) % CounterMod
               = (2 * a.context_switches) % CounterMod
          /\ (SumFunction(a.thread_ticks) + w.ticks) % CounterMod = a.ticks)
         <=> /\ Balanced(a.switches, w.switches, 2 * a.context_switches)
             /\ Balanced(a.thread_ticks, w.ticks, a.ticks)
<1>1. /\ a.switches \in [Thread -> Counter] /\ a.thread_ticks \in [Thread -> Counter]
      /\ a.context_switches \in Counter /\ a.ticks \in Counter
      /\ w.switches \in Counter /\ w.ticks \in Counter
  BY DEF Accounts, Wiped
<1>2. /\ SumFunction(a.switches) \in Nat /\ SumFunction(a.thread_ticks) \in Nat
      /\ 0 \in Counter
  BY <1>1, SumWritten, Distinct, CounterType, Zenon DEF Counter
<1>3. a.ticks % CounterMod = a.ticks
  BY <1>1, SchedulerConstants DEF Counter
<1>4. /\ SumFunction(a.switches) + w.switches \in Int
      /\ SumFunction(a.thread_ticks) + w.ticks \in Int
      /\ 2 * a.context_switches \in Int /\ a.ticks \in Int
  BY <1>1, <1>2 DEF Counter
<1>5. Balanced(a.switches, w.switches, 2 * a.context_switches)
        <=> (SumFunction(a.switches) + w.switches) % CounterMod
               = (2 * a.context_switches) % CounterMod
  BY <1>4, SameRemainder DEF Balanced
<1>6. Balanced(a.thread_ticks, w.ticks, a.ticks)
        <=> (SumFunction(a.thread_ticks) + w.ticks) % CounterMod = a.ticks % CounterMod
  BY <1>4, SameRemainder DEF Balanced
<1> QED BY <1>3, <1>5, <1>6

\* Charging one thread and the total keeps a line balanced, and so does
\* moving a thread's counter to what was wiped.
LEMMA LineKept ==
  ASSUME NEW f \in [Thread -> Counter], NEW r \in Counter, NEW total \in Int,
         Balanced(f, r, total), NEW t \in Thread
  PROVE  /\ \A next \in Int : Congruent(next, total + 1) =>
               Balanced([f EXCEPT ![t] = Bump(f[t])], r, next)
         /\ Balanced([f EXCEPT ![t] = 0], (r + f[t]) % CounterMod, total)
<1> DEFINE S == SumFunction(f)
           x == f[t]
<1>1. x \in Counter /\ 0 \in Counter /\ Bump(x) \in Counter /\ Congruent(Bump(x), x + 1)
  BY CounterType, BumpAddsOne DEF Counter
<1>2. /\ S \in Nat
      /\ SumFunction([f EXCEPT ![t] = Bump(x)]) = (S - x) + Bump(x)
      /\ SumFunction([f EXCEPT ![t] = 0]) = (S - x) + 0
  <2>1. S \in Nat /\ \A v \in Counter : SumFunction([f EXCEPT ![t] = v]) = (S - x) + v
    BY <1>1, SumWritten
  <2> HIDE DEF S, x
  <2> QED BY <1>1, <2>1, Zenon
<1>3. S \in Int /\ x \in Int /\ r \in Int /\ Bump(x) \in Int /\ Congruent(S + r, total)
  BY <1>1, <1>2 DEF Counter, Balanced
<1>4. ASSUME NEW next \in Int, Congruent(next, total + 1)
      PROVE  Balanced([f EXCEPT ![t] = Bump(x)], r, next)
  <2> DEFINE new == ((S - x) + Bump(x)) + r
             rest == (S + r) - x
  <2> HIDE DEF S, x
  <2>1. /\ rest \in Int /\ rest + Bump(x) = new /\ rest + (x + 1) = (S + r) + 1
        /\ new \in Int /\ (S + r) + 1 \in Int /\ total + 1 \in Int /\ S + r \in Int
        /\ x + 1 \in Int
    BY <1>3
  <2> HIDE DEF new, rest
  <2>2. Congruent(rest, rest) /\ Congruent(1, 1)
    BY <2>1, CongruentEq
  <2>3. Congruent(new, (S + r) + 1)
    <3>1. Congruent(rest + Bump(x), rest + (x + 1))
      BY <1>1, <1>3, <2>1, <2>2, CongruentSum
    <3> QED BY <2>1, <3>1
  <2>4. Congruent((S + r) + 1, total + 1)
    BY <1>3, <2>1, <2>2, CongruentSum
  <2>5. Congruent(new, total + 1)
    BY <2>1, <2>3, <2>4, CongruentTrans
  <2>6. Congruent(total + 1, next)
    BY <1>4, <2>1, CongruentEq
  <2>7. Congruent(new, next)
    BY <2>1, <2>5, <2>6, CongruentTrans
  <2> QED BY <1>2, <2>7 DEF Balanced, new
<1>5. Balanced([f EXCEPT ![t] = 0], (r + x) % CounterMod, total)
  <2> DEFINE wiped == (r + x) % CounterMod
             rest == S - x
  <2> HIDE DEF S, x
  <2>1. r + x \in Int /\ wiped \in Int
    BY <1>3, SchedulerConstants
  <2>2. Congruent(wiped, r + x)
    BY <2>1, SameRemainder
  <2>3. /\ rest \in Int /\ rest + 0 = rest /\ rest + (r + x) = S + r
        /\ rest + wiped \in Int /\ S + r \in Int
    BY <1>3, <2>1
  <2> HIDE DEF wiped, rest
  <2>4. Congruent(rest, rest)
    BY <2>3, CongruentEq
  <2>5. Congruent(rest + wiped, S + r)
    <3>1. Congruent(rest + wiped, rest + (r + x))
      BY <2>1, <2>2, <2>3, <2>4, CongruentSum
    <3> QED BY <2>3, <3>1
  <2>6. Congruent(rest + wiped, total)
    BY <1>3, <2>3, <2>5, CongruentTrans
  <2> QED BY <1>2, <2>3, <2>6 DEF Balanced, wiped, rest
<1> QED BY <1>4, <1>5, Zenon

\* Before mcsos_scheduler_init nothing has been counted.
BInv ==
    /\ Balanced(acct.switches, retired.switches, 2 * acct.context_switches)
    /\ Balanced(acct.thread_ticks, retired.ticks, acct.ticks)
    /\ ~initialized => /\ acct = [context_switches |-> 0, ticks |-> 0,
                                  switches |-> [t \in Thread |-> 0],
                                  thread_ticks |-> [t \in Thread |-> 0]]
                       /\ retired = [switches |-> 0, ticks |-> 0]

\* Accounts with nothing in them balance.
LEMMA NothingCounted == Balanced([t \in Thread |-> 0], 0, 0) /\ 2 * 0 = 0
<1>1. Congruent(0, 0) /\ 0 + 0 = 0
  BY CongruentEq
<1> QED BY <1>1, SumZero DEF Balanced

\* The counters have their types.
LEMMA AccountTypes ==
  ASSUME IInv
  PROVE  acct \in Accounts /\ retired \in Wiped
  BY Zenon DEF IInv, TypeOK, Accounts, Wiped, Counter

\* A counter that is zero already is not disturbed by being wiped.
LEMMA NothingToWipe ==
  ASSUME NEW t \in Thread
  PROVE  [[u \in Thread |-> 0] EXCEPT ![t] = 0] = [u \in Thread |-> 0]
  OBVIOUS

\* A switch charges both threads, which differ, and the total twice over.
LEMMA SwitchBalances ==
  ASSUME IInv, BInv, NEW old \in Thread, NEW new \in Thread, old # new, initialized' = TRUE,
         acct' = AcctSwitch(old, new), retired' = retired
  PROVE  BInv'
<1> DEFINE f == acct.switches
           g == [f EXCEPT ![old] = Bump(f[old])]
           h == [g EXCEPT ![new] = Bump(g[new])]
           c == acct.context_switches
<1>1. /\ f \in [Thread -> Counter] /\ c \in Counter /\ acct \in Accounts
      /\ retired.switches \in Counter
  BY AccountTypes DEF Accounts, Wiped
<1>2. /\ acct'.switches = h /\ acct'.context_switches = Bump(c)
      /\ acct'.thread_ticks = acct.thread_ticks /\ acct'.ticks = acct.ticks
  BY <1>1 DEF AcctSwitch, Accounts
<1>3. Bump(c) \in Counter /\ Congruent(Bump(c), c + 1)
  BY <1>1, BumpAddsOne
<1>4. g \in [Thread -> Counter]
  BY <1>1, BumpAddsOne
<1> HIDE DEF f, c
<1>5. /\ c \in Int /\ Bump(c) \in Int /\ 2 * c \in Int /\ 2 * c + 1 \in Int
      /\ (2 * c + 1) + 1 \in Int /\ 2 * Bump(c) \in Int
  BY <1>1, <1>3 DEF Counter
<1>6. Balanced(g, retired.switches, 2 * c + 1)
  <2>1. Congruent(2 * c + 1, 2 * c + 1) /\ Balanced(f, retired.switches, 2 * c)
    BY <1>5, CongruentEq DEF BInv, f, c
  <2> QED BY <1>1, <1>5, <2>1, LineKept, Zenon
<1> HIDE DEF g
<1>7. Congruent(2 * Bump(c), (2 * c + 1) + 1)
  <2>1. c + 1 \in Int /\ 2 * Bump(c) = Bump(c) + Bump(c) /\ (2 * c + 1) + 1 = (c + 1) + (c + 1)
    BY <1>5
  <2>2. Congruent(Bump(c) + Bump(c), (c + 1) + (c + 1))
    BY <1>3, <1>5, <2>1, CongruentSum
  <2> QED BY <2>1, <2>2
<1>8. Balanced(h, retired.switches, 2 * Bump(c))
  BY <1>1, <1>4, <1>5, <1>6, <1>7, LineKept, Zenon
<1> QED BY <1>2, <1>8 DEF BInv

\* The accounts stay balanced in every call.
LEMMA BalanceNext == IInv /\ BInv /\ [Next]_vars => BInv'
<1> SUFFICES ASSUME IInv, BInv, [Next]_vars PROVE BInv'
  OBVIOUS
<1>0. acct \in Accounts /\ retired \in Wiped
  BY AccountTypes
<1>a. ASSUME UNCHANGED <<acct, retired, initialized>> PROVE BInv'
  BY <1>a DEF BInv
<1>b. ASSUME NEW st, initialized, YieldFrom(st) PROVE BInv'
  <2>1. CASE UNCHANGED <<initialized, acct, retired>>
    BY <2>1, <1>a
  <2>2. CASE /\ Picked(rq) # current /\ acct' = AcctSwitch(current, Picked(rq))
             /\ UNCHANGED <<initialized, retired>>
    <3>1. current \in Thread /\ Picked(rq) \in Thread
      BY <1>b, Restated, Distinct DEF IInv, Picked, Queue
    <3> QED BY <1>b, <2>2, <3>1, SwitchBalances
  <2> QED BY <1>b, <2>1, <2>2, Zenon DEF YieldFrom
<1>1. CASE ~initialized /\ mcsos_scheduler_init
  <2>1. /\ acct.switches = [t \in Thread |-> 0] /\ acct.thread_ticks = [t \in Thread |-> 0]
        /\ retired = [switches |-> 0, ticks |-> 0]
    BY <1>1 DEF BInv
  <2>2. /\ acct'.switches = [t \in Thread |-> 0] /\ acct'.thread_ticks = [t \in Thread |-> 0]
        /\ acct'.context_switches = 0 /\ acct'.ticks = 0
        /\ retired'.switches = 0 /\ retired'.ticks = 0 /\ initialized' = TRUE
    BY <1>1, <2>1, Distinct, NothingToWipe, Zenon DEF mcsos_scheduler_init
  <2> QED BY <2>2, NothingCounted DEF BInv
<1>2. CASE \E t \in Thread, stack \in Stacks \cup {NULL} :
             MayPrepare(t) /\ mcsos_thread_prepare(t, stack)
  <2> PICK t \in Thread, stack \in Stacks \cup {NULL} :
             MayPrepare(t) /\ mcsos_thread_prepare(t, stack)
    BY <1>2
  <2>1. CASE UNCHANGED <<initialized, acct, retired>>
    BY <2>1, <1>a
  <2>2. CASE /\ acct' = [acct EXCEPT !.switches[t] = 0, !.thread_ticks[t] = 0]
             /\ retired' =
                  [switches |-> (retired.switches + acct.switches[t]) % CounterMod,
                   ticks |-> (retired.ticks + acct.thread_ticks[t]) % CounterMod]
             /\ initialized' = initialized
    <3>1. /\ acct'.switches = [acct.switches EXCEPT ![t] = 0]
          /\ acct'.thread_ticks = [acct.thread_ticks EXCEPT ![t] = 0]
          /\ acct'.context_switches = acct.context_switches /\ acct'.ticks = acct.ticks
          /\ acct' = [context_switches |-> acct.context_switches, ticks |-> acct.ticks,
                      switches |-> [acct.switches EXCEPT ![t] = 0],
                      thread_ticks |-> [acct.thread_ticks EXCEPT ![t] = 0]]
      BY <1>0, <2>2, Zenon DEF Accounts
    <3>2. /\ acct.switches \in [Thread -> Counter] /\ acct.thread_ticks \in [Thread -> Counter]
          /\ retired.switches \in Counter /\ retired.ticks \in Counter
          /\ 2 * acct.context_switches \in Int /\ acct.ticks \in Int
      BY <1>0 DEF Accounts, Wiped, Counter
    <3>3. /\ Balanced([acct.switches EXCEPT ![t] = 0],
                      (retired.switches + acct.switches[t]) % CounterMod,
                      2 * acct.context_switches)
          /\ Balanced([acct.thread_ticks EXCEPT ![t] = 0],
                      (retired.ticks + acct.thread_ticks[t]) % CounterMod, acct.ticks)
      BY <3>2, LineKept, Zenon DEF BInv
    <3>4. ASSUME ~initialized'
          PROVE  /\ acct' = [context_switches |-> 0, ticks |-> 0,
                             switches |-> [u \in Thread |-> 0],
                             thread_ticks |-> [u \in Thread |-> 0]]
                 /\ retired' = [switches |-> 0, ticks |-> 0]
      <4>1. /\ acct.switches = [u \in Thread |-> 0] /\ acct.thread_ticks = [u \in Thread |-> 0]
            /\ acct.context_switches = 0 /\ acct.ticks = 0
            /\ retired.switches = 0 /\ retired.ticks = 0
        BY <2>2, <3>4 DEF BInv
      <4>2. (0 + 0) % CounterMod = 0
        BY SchedulerConstants
      <4> QED BY <2>2, <3>1, <4>1, <4>2, NothingToWipe, Zenon
    <3> QED BY <2>2, <3>1, <3>3, <3>4 DEF BInv
  <2> QED BY <2>1, <2>2 DEF mcsos_thread_prepare, Fail
<1>3. CASE \E t \in Thread : MayEnqueue(t) /\ mcsos_sched_enqueue(t)
  BY <1>3, <1>a DEF mcsos_sched_enqueue, Fail
<1>4. CASE mcsos_sched_yield
  BY <1>4, <1>a, <1>b DEF mcsos_sched_yield, Fail, Live
<1>5. CASE mcsos_sched_tick
  <2>1. CASE UNCHANGED <<initialized, acct, retired>>
    BY <2>1, <1>a
  <2>2. CASE /\ Live /\ UNCHANGED <<initialized, retired>>
             /\ acct' = [acct EXCEPT !.ticks = Bump(@), !.thread_ticks[current] = Bump(@)]
    <3>1. current \in Thread
      BY <2>2 DEF IInv, Live
    <3>2. /\ acct'.switches = acct.switches /\ acct'.context_switches = acct.context_switches
          /\ acct'.thread_ticks = [acct.thread_ticks EXCEPT ![current] =
                                     Bump(acct.thread_ticks[current])]
          /\ acct'.ticks = Bump(acct.ticks)
      BY <1>0, <2>2 DEF Accounts
    <3>3. /\ acct.thread_ticks \in [Thread -> Counter] /\ retired.ticks \in Counter
          /\ acct.ticks \in Counter /\ acct.ticks \in Int
      BY <1>0 DEF Accounts, Wiped, Counter
    <3>4. Congruent(Bump(acct.ticks), acct.ticks + 1) /\ Bump(acct.ticks) \in Int
      BY <3>3, BumpAddsOne DEF Counter
    <3>5. Balanced([acct.thread_ticks EXCEPT ![current] = Bump(acct.thread_ticks[current])],
                   retired.ticks, Bump(acct.ticks))
      BY <3>1, <3>3, <3>4, LineKept, Zenon DEF BInv
    <3> QED BY <2>2, <3>2, <3>5 DEF BInv, Live
  <2> QED BY <1>5, <2>1, <2>2 DEF mcsos_sched_tick, Fail
<1>6. CASE mcsos_thread_block_current
  BY <1>6, <1>a, <1>b DEF mcsos_thread_block_current, Fail, Live
<1>7. CASE \E t \in Thread : mcsos_thread_mark_ready(t)
  BY <1>7, <1>a DEF mcsos_thread_mark_ready, mcsos_sched_enqueue, Fail
<1>8. CASE UNCHANGED vars
  BY <1>8, <1>a DEF vars
<1> QED
  BY <1>1, <1>2, <1>3, <1>4, <1>5, <1>6, <1>7, <1>8 DEF Next

\* For any number of threads and any counter width, every context switch is
\* charged to two threads and every tick to one, through wraps of the counters
\* and through the reuse of thread objects, by callers that keep to the table.
THEOREM AccountsBalance == CallersSpec => []ObeyedAccounting
<1> DEFINE J == obeys => IInv /\ BInv
<1>1. CallersInit => J
  <2> SUFFICES ASSUME CallersInit PROVE IInv /\ BInv
    OBVIOUS
  <2>1. Init
    BY DEF CallersInit
  <2> QED BY <2>1, InitInv, NothingCounted DEF Init, BInv
<1>2. J /\ [CallersNext]_<<vars, obeys>> => J'
  <2> SUFFICES ASSUME J, [CallersNext]_<<vars, obeys>>, obeys' PROVE IInv' /\ BInv'
    OBVIOUS
  <2>1. obeys /\ [Next]_vars
    BY DEF CallersNext
  <2> QED BY <2>1, NextInv, BalanceNext
<1>3. J => ObeyedAccounting
  BY AccountTypes, BothLines DEF BInv, AccountingBalances, ObeyedAccounting
<1> QED
  BY <1>1, <1>2, <1>3, PTL DEF CallersSpec
=============================================================================
