-------------------------- MODULE SchedulerProofs --------------------------
(***************************************************************************)
(* Proofs about Scheduler for every set of threads, every stack and every  *)
(* counter width, with callers that obey the transition table (Spec), and  *)
(* at the end with callers that make any call (AnySpec).                   *)
(***************************************************************************)
EXTENDS Scheduler, SequenceTheorems, TLAPS

-----------------------------------------------------------------------------
(* The list operations on a queue q that spells out the sequence f.         *)

Queue == [ready_head : Thread \cup {NULL}, ready_tail : Thread \cup {NULL},
          next : [Thread -> Thread \cup {NULL}], runnable_count : Nat]

InQueue(f, t) == \E k \in 1..Len(f) : f[k] = t

Spells(q, f) ==
    /\ q.runnable_count = Len(f)
    /\ q.ready_head = IF f = <<>> THEN NULL ELSE f[1]
    /\ q.ready_tail = IF f = <<>> THEN NULL ELSE f[Len(f)]
    /\ \A k \in 1..Len(f) : q.next[f[k]] = IF k = Len(f) THEN NULL ELSE f[k + 1]
    /\ \A j, k \in 1..Len(f) : f[j] = f[k] => j = k

\* Append, element by element.
LEMMA AppendFacts ==
  ASSUME NEW f \in Seq(Thread), NEW t \in Thread
  PROVE  /\ Append(f, t) \in Seq(Thread) /\ Len(Append(f, t)) = Len(f) + 1
         /\ Append(f, t)[Len(f) + 1] = t
         /\ \A k \in 1..Len(f) : Append(f, t)[k] = f[k]
         /\ \A u : InQueue(Append(f, t), u) <=> InQueue(f, u) \/ u = t
  BY DEF InQueue

\* Tail, element by element.
LEMMA TailFacts ==
  ASSUME NEW f \in Seq(Thread), f # <<>>
  PROVE  /\ Tail(f) \in Seq(Thread) /\ Len(Tail(f)) = Len(f) - 1
         /\ Len(f) \in Nat \ {0} /\ f[1] \in Thread
         /\ \A k \in 1..(Len(f) - 1) : Tail(f)[k] = f[k + 1]
         /\ Tail(f) = <<>> <=> Len(f) = 1
<1>1. Len(f) \in Nat \ {0}
  BY EmptySeq
<1>2. /\ Tail(f) \in Seq(Thread) /\ Len(Tail(f)) = Len(f) - 1
      /\ \A k \in 1..Len(Tail(f)) : Tail(f)[k] = f[k + 1]
  BY HeadTailProperties
<1>3. Tail(f) = <<>> <=> Len(Tail(f)) = 0
  BY <1>2, EmptySeq
<1>4. f[1] \in Thread
  BY <1>1
<1> QED
  BY <1>1, <1>2, <1>3, <1>4

\* mcsos_sched_enqueue puts a thread that is not queued behind the others.
LEMMA AppendedSpells ==
  ASSUME NEW q \in Queue, NEW f \in Seq(Thread), NEW t \in Thread,
         Spells(q, f), ~InQueue(f, t)
  PROVE  /\ Appended(q, t) \in Queue
         /\ Spells(Appended(q, t), Append(f, t))
         /\ \A u \in Thread : ~InQueue(f, u) /\ u # t => Appended(q, t).next[u] = q.next[u]
<1> DEFINE r == Appended(q, t)
           g == Append(f, t)
<1>1. /\ q.ready_head \in Thread \cup {NULL} /\ q.ready_tail \in Thread \cup {NULL}
      /\ q.next \in [Thread -> Thread \cup {NULL}] /\ q.runnable_count \in Nat
  BY DEF Queue
<1>2. /\ g \in Seq(Thread) /\ Len(g) = Len(f) + 1 /\ g[Len(f) + 1] = t
      /\ \A k \in 1..Len(f) : g[k] = f[k] /\ f[k] \in Thread /\ f[k] # t
      /\ Len(f) \in Nat
  BY AppendFacts DEF InQueue
<1>3. NULL \notin Thread
  BY SchedulerConstants DEF Thread
<1>4. q.ready_tail = NULL <=> f = <<>>
  BY <1>2, <1>3 DEF Spells
<1>5. CASE f = <<>>
  <2>1. r = [ready_head |-> t, ready_tail |-> t,
             next |-> [q.next EXCEPT ![t] = NULL],
             runnable_count |-> q.runnable_count + 1]
    BY <1>4, <1>5 DEF Appended
  <2>2. g # <<>> /\ Len(g) = 1 /\ g[1] = t
    BY <1>2, <1>5
  <2> HIDE DEF g
  <2>3. Spells(r, g)
    BY <1>1, <1>5, <2>1, <2>2 DEF Spells
  <2> QED
    BY <1>1, <2>1, <2>3 DEF Queue, g
<1>6. CASE f # <<>>
  <2>1. r = [ready_head |-> q.ready_head, ready_tail |-> t,
             next |-> [[q.next EXCEPT ![t] = NULL] EXCEPT ![q.ready_tail] = t],
             runnable_count |-> q.runnable_count + 1]
    BY <1>4, <1>6 DEF Appended
  <2>2. q.ready_tail = f[Len(f)] /\ Len(f) > 0 /\ q.ready_head = f[1]
    BY <1>2, <1>6 DEF Spells
  <2>3. \A u \in Thread : r.next[u] = IF u = f[Len(f)] THEN t
                                      ELSE IF u = t THEN NULL ELSE q.next[u]
    BY <1>1, <1>2, <2>1, <2>2
  <2>4. g # <<>>
    BY <1>2
  <2> HIDE DEF g, r
  <2>5. \A j, k \in 1..Len(g) : g[j] = g[k] => j = k
    BY <1>2 DEF Spells
  <2>6. \A k \in 1..Len(g) : r.next[g[k]] = IF k = Len(g) THEN NULL ELSE g[k + 1]
    <3> SUFFICES ASSUME NEW k \in 1..Len(g)
                 PROVE  r.next[g[k]] = IF k = Len(g) THEN NULL ELSE g[k + 1]
      OBVIOUS
    <3>1. CASE k = Len(f) + 1
      BY <1>2, <2>2, <2>3, <3>1
    <3>2. CASE k = Len(f)
      BY <1>2, <2>2, <2>3, <3>2
    <3>3. CASE k < Len(f)
      <4>1. k \in 1..Len(f) /\ k + 1 \in 1..Len(f) /\ f[k] # f[Len(f)]
        BY <1>2, <2>2, <3>3 DEF Spells
      <4>2. q.next[f[k]] = f[k + 1]
        BY <1>2, <3>3, <4>1 DEF Spells
      <4> QED
        BY <1>2, <2>3, <3>3, <4>1, <4>2
    <3> QED
      BY <1>2, <3>1, <3>2, <3>3
  <2>7. Spells(r, g)
    <3>1. g[1] = f[1] /\ g[Len(g)] = t
      BY <1>2, <2>2
    <3>2. r.runnable_count = Len(g) /\ r.ready_head = g[1] /\ r.ready_tail = g[Len(g)]
      BY <1>2, <2>1, <2>2, <3>1 DEF Spells
    <3> QED
      BY <2>4, <2>5, <2>6, <3>2 DEF Spells
  <2>8. r \in Queue
    <3>1. [q.next EXCEPT ![t] = NULL] \in [Thread -> Thread \cup {NULL}]
      BY <1>1
    <3>2. [[q.next EXCEPT ![t] = NULL] EXCEPT ![q.ready_tail] = t]
            \in [Thread -> Thread \cup {NULL}]
      BY <3>1, Zenon
    <3> QED
      BY <1>1, <2>1, <3>2 DEF Queue
  <2>9. InQueue(f, f[Len(f)])
    BY <1>2, <2>2 DEF InQueue
  <2> QED
    BY <2>3, <2>7, <2>8, <2>9 DEF r, g
<1> QED
  BY <1>5, <1>6

\* mcsos_sched_pick_next takes the head off.
LEMMA AfterPickSpells ==
  ASSUME NEW q \in Queue, NEW f \in Seq(Thread), Spells(q, f), f # <<>>
  PROVE  /\ AfterPick(q) \in Queue
         /\ Picked(q) = f[1] /\ f[1] \in Thread /\ InQueue(f, f[1])
         /\ Tail(f) \in Seq(Thread)
         /\ Spells(AfterPick(q), Tail(f))
         /\ \A u \in Thread : InQueue(Tail(f), u) <=> InQueue(f, u) /\ u # f[1]
         /\ AfterPick(q).next[f[1]] = NULL
         /\ \A u \in Thread : u # f[1] => AfterPick(q).next[u] = q.next[u]
<1> DEFINE r == AfterPick(q)
           g == Tail(f)
<1>1. /\ q.ready_head \in Thread \cup {NULL} /\ q.ready_tail \in Thread \cup {NULL}
      /\ q.next \in [Thread -> Thread \cup {NULL}] /\ q.runnable_count \in Nat
  BY DEF Queue
<1>2. /\ g \in Seq(Thread) /\ Len(g) = Len(f) - 1 /\ Len(f) \in Nat \ {0}
      /\ \A k \in 1..(Len(f) - 1) : g[k] = f[k + 1]
      /\ g = <<>> <=> Len(f) = 1
  BY TailFacts
<1>3. \A k \in 1..Len(f) : f[k] \in Thread /\ f[k] # NULL
  BY SchedulerConstants DEF Thread
<1> HIDE DEF g
<1>4. /\ q.ready_head = f[1] /\ f[1] \in Thread /\ f[1] # NULL
      /\ q.ready_tail = f[Len(f)] /\ q.runnable_count = Len(f)
      /\ q.next[f[1]] = IF 1 = Len(f) THEN NULL ELSE f[2]
  BY <1>2, <1>3 DEF Spells
<1>5. q.next[f[1]] = NULL <=> Len(f) = 1
  BY <1>2, <1>3, <1>4
<1>6. r = [ready_head |-> q.next[f[1]],
           ready_tail |-> IF q.next[f[1]] = NULL THEN NULL ELSE q.ready_tail,
           next |-> [q.next EXCEPT ![f[1]] = NULL],
           runnable_count |-> Len(f) - 1]
  BY <1>2, <1>4 DEF AfterPick
<1>7. r \in Queue
  <2>1. q.next[f[1]] \in Thread \cup {NULL} /\ Len(f) - 1 \in Nat
    BY <1>1, <1>2, <1>4
  <2> QED
    BY <1>1, <1>6, <2>1 DEF Queue
<1>8. \A u \in Thread : r.next[u] = IF u = f[1] THEN NULL ELSE q.next[u]
  BY <1>1, <1>6
<1>9. /\ r.runnable_count = Len(f) - 1 /\ r.ready_head = q.next[f[1]]
      /\ r.ready_tail = IF q.next[f[1]] = NULL THEN NULL ELSE q.ready_tail
  BY <1>6
<1> HIDE DEF r
<1>10. \A j, k \in 1..Len(f) : f[j] = f[k] => j = k
  BY DEF Spells
<1>11. \A j, k \in 1..Len(g) : g[j] = g[k] => j = k
  <2> SUFFICES ASSUME NEW j \in 1..Len(g), NEW k \in 1..Len(g), g[j] = g[k]
               PROVE  j = k
    OBVIOUS
  <2>1. f[j + 1] = f[k + 1] /\ j + 1 \in 1..Len(f) /\ k + 1 \in 1..Len(f)
    BY <1>2
  <2>2. j + 1 = k + 1
    BY <2>1, <1>10
  <2> QED
    BY <2>2, <1>2
<1>12. \A k \in 1..Len(g) : r.next[g[k]] = IF k = Len(g) THEN NULL ELSE g[k + 1]
  <2> SUFFICES ASSUME NEW k \in 1..Len(g)
               PROVE  r.next[g[k]] = IF k = Len(g) THEN NULL ELSE g[k + 1]
    OBVIOUS
  <2>1. g[k] = f[k + 1] /\ k + 1 \in 1..Len(f) /\ k \in Nat /\ 1 \in 1..Len(f)
    BY <1>2
  <2>2. f[k + 1] # f[1] /\ f[k + 1] \in Thread
    BY <2>1, <1>10, <1>3
  <2>3. r.next[g[k]] = q.next[f[k + 1]]
    BY <1>8, <2>1, <2>2
  <2>4. q.next[f[k + 1]] = IF k + 1 = Len(f) THEN NULL ELSE f[k + 1 + 1]
    BY <2>1 DEF Spells
  <2>5. CASE k = Len(g)
    BY <1>2, <2>1, <2>3, <2>4, <2>5
  <2>6. CASE k # Len(g)
    <3>1. k + 1 \in 1..(Len(f) - 1) /\ k + 1 # Len(f)
      BY <1>2, <2>1, <2>6
    <3>2. g[k + 1] = f[k + 1 + 1]
      BY <1>2, <3>1
    <3> QED
      BY <2>3, <2>4, <2>6, <3>1, <3>2
  <2> QED
    BY <2>5, <2>6
<1>13. Spells(r, g)
  <2>1. CASE Len(f) = 1
    BY <1>2, <1>5, <1>9, <1>11, <1>12, <2>1 DEF Spells
  <2>2. CASE Len(f) # 1
    <3>1. /\ 1 \in 1..(Len(f) - 1) /\ Len(g) \in 1..(Len(f) - 1)
          /\ g # <<>> /\ Len(g) + 1 = Len(f) /\ 1 + 1 = 2
      BY <1>2, <2>2
    <3>2. g[1] = f[2] /\ g[Len(g)] = f[Len(f)]
      BY <1>2, <3>1
    <3>3. r.ready_head = g[1] /\ r.ready_tail = g[Len(g)] /\ r.runnable_count = Len(g)
      BY <1>2, <1>4, <1>5, <1>9, <2>2, <3>2
    <3> QED
      BY <1>11, <1>12, <3>1, <3>3 DEF Spells
  <2> QED
    BY <2>1, <2>2
<1>14. \A u \in Thread : InQueue(g, u) <=> InQueue(f, u) /\ u # f[1]
  <2> SUFFICES ASSUME NEW u \in Thread
               PROVE  InQueue(g, u) <=> InQueue(f, u) /\ u # f[1]
    OBVIOUS
  <2>1. ASSUME InQueue(g, u) PROVE InQueue(f, u) /\ u # f[1]
    <3>1. PICK k \in 1..Len(g) : g[k] = u
      BY <2>1 DEF InQueue
    <3>2. k + 1 \in 1..Len(f) /\ f[k + 1] = u /\ 1 \in 1..Len(f) /\ k + 1 # 1
      BY <1>2, <3>1
    <3> QED
      BY <3>2, <1>10 DEF InQueue
  <2>2. ASSUME InQueue(f, u), u # f[1] PROVE InQueue(g, u)
    <3>1. PICK k \in 1..Len(f) : f[k] = u
      BY <2>2 DEF InQueue
    <3>2. k # 1 /\ k - 1 \in 1..Len(g) /\ (k - 1) + 1 = k
      BY <1>2, <2>2, <3>1
    <3>3. g[k - 1] = u
      BY <1>2, <3>1, <3>2
    <3> QED
      BY <3>2, <3>3 DEF InQueue
  <2> QED
    BY <2>1, <2>2
<1>15. InQueue(f, f[1]) /\ Picked(q) = f[1]
  BY <1>2, <1>4 DEF InQueue, Picked
<1> QED
  BY <1>2, <1>4, <1>7, <1>8, <1>13, <1>14, <1>15 DEF r, g

-----------------------------------------------------------------------------
(* The inductive invariant.                                                 *)

\* Beyond the two properties: once initialised the idle thread is the boot
\* thread, which stays RUNNING and so is never queued, and the current thread
\* is a valid object; before that nothing has left the state NEW.
IInv ==
    /\ TypeOK
    /\ QueueIntact
    /\ ReadyIffQueued
    /\ initialized => /\ current \in Thread /\ idle = Boot /\ state[Boot] = "RUNNING"
                      /\ magic[Boot] /\ magic[current]
    /\ ~initialized => /\ current = NULL /\ fifo = <<>>
                       /\ \A t \in Thread : state[t] = "NEW"

\* The statistics and the saved contexts, which the queue does not depend on.
Others ==
    /\ rip \in [Thread -> {NULL, "trampoline", "continuation"}]
    /\ frame \in [Thread -> [base : Word, size : Word, rsp : Word]]
    /\ cpu \in {"code", "trampoline", NULL}
    /\ acct \in [context_switches : 0..(CounterMod - 1), ticks : 0..(CounterMod - 1),
                  switches : [Thread -> 0..(CounterMod - 1)],
                  thread_ticks : [Thread -> 0..(CounterMod - 1)]]
    /\ retired \in [switches : 0..(CounterMod - 1), ticks : 0..(CounterMod - 1)]

\* The queue against the thread states.
Ready ==
    /\ \A t \in Thread :
         /\ state[t] = "READY" <=> InQueue(fifo, t)
         /\ state[t] = "READY" => magic[t]
         /\ state[t] = "RUNNING" => t \in {current, idle}
         /\ state[t] # "READY" => rq.next[t] = NULL
    /\ initialized => state[current] = "RUNNING"

\* The invariants of Scheduler in the terms of this module.
LEMMA Restated ==
  /\ QueueIntact <=> Spells(rq, fifo)
  /\ ReadyIffQueued <=> Ready
  /\ TypeOK <=> /\ initialized \in BOOLEAN
                /\ current \in Thread \cup {NULL} /\ idle \in Thread \cup {NULL}
                /\ rq \in Queue /\ magic \in [Thread -> BOOLEAN]
                /\ state \in [Thread -> ThreadState] /\ fifo \in Seq(Thread)
                /\ Others
<1>1. QueueIntact <=> Spells(rq, fifo)
  BY DEF QueueIntact, Spells
<1>2. ReadyIffQueued <=> Ready
  BY DEF ReadyIffQueued, Ready, InQueue
<1>3. TypeOK <=> /\ initialized \in BOOLEAN
                 /\ current \in Thread \cup {NULL} /\ idle \in Thread \cup {NULL}
                 /\ rq \in Queue /\ magic \in [Thread -> BOOLEAN]
                 /\ state \in [Thread -> ThreadState] /\ fifo \in Seq(Thread)
                 /\ Others
  BY DEF TypeOK, Queue, Others
<1> QED
  BY <1>1, <1>2, <1>3

\* The boot thread is a thread, and the null pointer is none.
LEMMA Distinct == Boot \in Thread /\ NULL \notin Thread
  BY SchedulerConstants DEF Thread

\* A counter after a bump, and a sum of counters.
LEMMA CounterType ==
  /\ 0 \in 0..(CounterMod - 1)
  /\ \A n \in Nat : Bump(n) \in 0..(CounterMod - 1)
  /\ \A m, n \in Nat : (m + n) % CounterMod \in 0..(CounterMod - 1)
  BY SchedulerConstants DEF Bump

\* The stack arithmetic of mcsos_thread_prepare: nothing wraps in what it
\* accepts, whatever buffer the caller names.
LEMMA FirstFrame ==
  ASSUME NEW base \in Word, NEW size \in Word, StackAccepted(base, size)
  PROVE  LET rsp == InitialRsp(base, size)
         IN  /\ rsp \in Word /\ base <= rsp /\ rsp + SlotSize <= base + size
             /\ base + size < WordMod
             /\ (rsp + SlotSize) % StackAlign = 0
<1> DEFINE high == (base + size) % WordMod
           top == high - (high % StackAlign)
<1>1. /\ base \in Nat /\ size \in Nat /\ base < WordMod /\ size < WordMod
      /\ WordMod \in Nat \ {0} /\ size >= MinStack /\ MinStack \in Nat
      /\ StackAlign \in Nat \ {0} /\ StackMargin \in Nat /\ SlotSize \in Nat
      /\ SlotSize <= StackMargin /\ StackMargin <= MinStack
  BY StackConstants DEF Word, StackAccepted
<1>2. high > base /\ top > (base + StackMargin) % WordMod
  BY DEF StackAccepted, align_down_uintptr
<1>3. high = base + size /\ base + size < WordMod
  <2>1. CASE base + size < WordMod
    BY <1>1, <2>1
  <2>2. CASE base + size >= WordMod
    <3>1. (base + size) % WordMod = base + size - WordMod
      BY <1>1, <2>2
    <3> QED
      BY <1>1, <1>2, <3>1
  <2> QED
    BY <1>1, <2>1, <2>2
<1>4. (base + StackMargin) % WordMod = base + StackMargin
  BY <1>1, <1>3
<1>5. high \in Nat
  BY <1>1, <1>3
<1> HIDE DEF high
<1>6. /\ high % StackAlign \in Nat /\ high % StackAlign <= high
      /\ top % StackAlign = 0
  <2> DEFINE q == high \div StackAlign
  <2>1. q \in Nat /\ high = StackAlign * q + (high % StackAlign)
    BY <1>1, <1>5
  <2>2. high % StackAlign \in 0..(StackAlign - 1)
    BY <1>1, <1>5
  <2> HIDE DEF q
  <2> DEFINE product == StackAlign * q
             rest == high % StackAlign
  <2>3. product \in Nat
    BY <1>1, <2>1
  <2>4. high = product + rest /\ rest \in Nat
    BY <1>1, <2>1, <2>2
  <2>5. top = high - rest
    OBVIOUS
  <2>6. product \in Nat /\ top = product
    <3> HIDE DEF product, rest, top
    <3> QED
      BY <1>5, <2>3, <2>4, <2>5
  <2>7. (StackAlign * q) % StackAlign = 0
    BY <1>1, <2>1
  <2> QED
    BY <1>5, <2>1, <2>2, <2>6, <2>7
<1>7. top \in Nat /\ top <= high
  BY <1>5, <1>6
<1>8. InitialRsp(base, size) = top - SlotSize
  BY DEF InitialRsp, align_down_uintptr, high
<1> HIDE DEF top
<1> QED
  BY <1>1, <1>2, <1>3, <1>4, <1>5, <1>6, <1>7, <1>8 DEF Word

\* A kernel that has not called mcsos_scheduler_init satisfies the invariant.
LEMMA InitInv == Init => IInv
<1> SUFFICES ASSUME Init PROVE IInv
  OBVIOUS
<1>0. 0 \in Word
  BY StackConstants DEF Word
<1>1. Others
  BY <1>0, CounterType DEF Init, Others
<1>2. rq \in Queue
  BY DEF Init, Queue
<1>3. fifo \in Seq(Thread) /\ Len(fifo) = 0
  BY DEF Init
<1>4. magic \in [Thread -> BOOLEAN]
  BY DEF Init
<1>5. state \in [Thread -> ThreadState] /\ \A t \in Thread : state[t] = "NEW"
  BY DEF Init, ThreadState
<1>6. TypeOK
  BY <1>1, <1>2, <1>3, <1>4, <1>5, Restated, Zenon DEF Init
<1>7. QueueIntact
  BY <1>3 DEF QueueIntact, Init
<1>8. ReadyIffQueued
  BY <1>3, <1>5 DEF ReadyIffQueued, Init
<1> QED
  BY <1>3, <1>5, <1>6, <1>7, <1>8 DEF IInv, Init

\* A step that leaves everything the invariant reads alone.
LEMMA SameInv ==
  ASSUME IInv, UNCHANGED <<initialized, current, idle, rq, magic, state, fifo>>, Others'
  PROVE  IInv'
<1>1. TypeOK'
  BY Zenon DEF IInv, TypeOK, Others
<1>2. QueueIntact'
  BY DEF IInv, QueueIntact
<1>3. ReadyIffQueued'
  BY DEF IInv, ReadyIffQueued
<1> QED
  BY <1>1, <1>2, <1>3 DEF IInv

\* A call that only returns an error keeps the invariant.
LEMMA FailInv ==
  ASSUME IInv, NEW code, Fail(code)
  PROVE  IInv'
<1>1. Others'
  BY DEF Fail, IInv, TypeOK, Others
<1> QED
  BY <1>1, SameInv DEF Fail

\* The pieces of the invariant after a step of an initialised scheduler.
LEMMA Assembled ==
  ASSUME initialized', current' \in Thread, idle' = Boot, rq' \in Queue,
         initialized' \in BOOLEAN,
         magic' \in [Thread -> BOOLEAN], state' \in [Thread -> ThreadState],
         fifo' \in Seq(Thread), Others', Spells(rq', fifo'), Ready',
         state'[Boot] = "RUNNING", magic'[Boot], magic'[current']
  PROVE  IInv'
<1>1. TypeOK'
  BY Distinct DEF TypeOK, Queue, Others
<1>2. QueueIntact'
  BY DEF QueueIntact, Spells
<1>3. ReadyIffQueued'
  BY DEF ReadyIffQueued, Ready, InQueue
<1> QED
  BY <1>1, <1>2, <1>3 DEF IInv

\* mcsos_scheduler_init keeps the invariant.
LEMMA SchedulerInitInv ==
  ASSUME IInv, ~initialized, mcsos_scheduler_init
  PROVE  IInv'
<1>1. /\ rq \in Queue /\ magic \in [Thread -> BOOLEAN] /\ state \in [Thread -> ThreadState]
      /\ Others /\ Ready /\ fifo = <<>> /\ \A t \in Thread : state[t] = "NEW"
  BY Restated DEF IInv
<1>2. initialized' /\ current' = Boot /\ idle' = Boot /\ fifo' = <<>>
      /\ initialized' \in BOOLEAN
  BY DEF mcsos_scheduler_init
<1>3. rq' = [ready_head |-> NULL, ready_tail |-> NULL,
             next |-> [rq.next EXCEPT ![Boot] = NULL], runnable_count |-> 0]
  BY DEF mcsos_scheduler_init
<1>4. \A t \in Thread : rq.next[t] = NULL
  BY <1>1 DEF Ready
<1>5. rq' \in Queue /\ \A t \in Thread : rq'.next[t] = NULL
  BY <1>1, <1>3, <1>4, Distinct DEF Queue
<1>6. magic' \in [Thread -> BOOLEAN] /\ magic'[Boot]
  BY <1>1, Distinct DEF mcsos_scheduler_init
<1>7. /\ state' = [state EXCEPT ![Boot] = "RUNNING"]
      /\ state' \in [Thread -> ThreadState] /\ state'[Boot] = "RUNNING"
      /\ \A t \in Thread : t # Boot => state'[t] = "NEW"
  BY <1>1, Distinct DEF mcsos_scheduler_init, ThreadState
<1>8. Others'
  <2>1. 0 \in Word
    BY StackConstants DEF Word
  <2> QED
    BY <1>1, <2>1, CounterType, Distinct, Zenon DEF mcsos_scheduler_init, Others
<1>9. fifo' \in Seq(Thread) /\ Len(fifo') = 0
  BY <1>2
<1>10. Spells(rq', fifo')
  BY <1>2, <1>3, <1>9 DEF Spells
<1>11. Ready'
  BY <1>2, <1>5, <1>7, <1>9, Distinct DEF Ready, InQueue
<1> QED
  BY <1>2, <1>5, <1>6, <1>7, <1>8, <1>9, <1>10, <1>11, Distinct, Assembled

\* mcsos_thread_prepare on a thread that is neither queued nor running.
LEMMA PrepareInv ==
  ASSUME IInv, NEW t \in Thread, NEW stack \in Stacks \cup {NULL}, MayPrepare(t),
         mcsos_thread_prepare(t, stack)
  PROVE  IInv'
<1>1. CASE \E code : Fail(code)
  BY <1>1, FailInv
<1>2. CASE /\ magic' = [magic EXCEPT ![t] = TRUE]
           /\ state' = [state EXCEPT ![t] = "NEW"]
           /\ rip' = [rip EXCEPT ![t] = "trampoline"]
           /\ stack # NULL /\ StackAccepted(stack.base, stack.size)
           /\ frame' = [frame EXCEPT ![t] =
                [base |-> stack.base, size |-> stack.size,
                 rsp |-> InitialRsp(stack.base, stack.size)]]
           /\ rq' = [rq EXCEPT !.next[t] = NULL]
           /\ acct' = [acct EXCEPT !.switches[t] = 0, !.thread_ticks[t] = 0]
           /\ retired' =
                [switches |-> (retired.switches + acct.switches[t]) % CounterMod,
                 ticks |-> (retired.ticks + acct.thread_ticks[t]) % CounterMod]
           /\ UNCHANGED <<initialized, current, idle, cpu, fifo>>
  <2>1. /\ rq \in Queue /\ magic \in [Thread -> BOOLEAN] /\ Others /\ Ready
        /\ state \in [Thread -> ThreadState] /\ fifo \in Seq(Thread) /\ Spells(rq, fifo)
        /\ initialized \in BOOLEAN
    BY Restated DEF IInv
  <2>2. t # Boot /\ state[t] \in {"NEW", "BLOCKED"} /\ rq.next[t] = NULL
    BY <2>1 DEF MayPrepare, Ready
  <2>3. rq' = rq
    BY <1>2, <2>1, <2>2 DEF Queue
  <2>4. /\ magic' \in [Thread -> BOOLEAN]
        /\ \A u \in Thread : magic[u] => magic'[u]
    BY <1>2, <2>1
  <2>5. /\ state' \in [Thread -> ThreadState] /\ state'[t] = "NEW"
        /\ \A u \in Thread : u # t => state'[u] = state[u]
    BY <1>2, <2>1 DEF ThreadState
  <2>6. Others'
    <3>1. /\ retired.switches \in Nat /\ retired.ticks \in Nat
          /\ acct.switches[t] \in Nat /\ acct.thread_ticks[t] \in Nat
      BY <2>1 DEF Others
    <3>2. retired' \in [switches : 0..(CounterMod - 1), ticks : 0..(CounterMod - 1)]
      BY <1>2, <3>1, CounterType
    <3>3. frame' \in [Thread -> [base : Word, size : Word, rsp : Word]]
      <4>1. stack.base \in Word /\ stack.size \in Word
        BY <1>2, SchedulerConstants
      <4>2. InitialRsp(stack.base, stack.size) \in Word
        BY <1>2, <4>1, FirstFrame
      <4> QED
        BY <1>2, <2>1, <4>1, <4>2 DEF Others
    <3>4. acct' \in [context_switches : 0..(CounterMod - 1), ticks : 0..(CounterMod - 1),
                     switches : [Thread -> 0..(CounterMod - 1)],
                     thread_ticks : [Thread -> 0..(CounterMod - 1)]]
      BY <1>2, <2>1, CounterType, Zenon DEF Others
    <3> QED
      BY <1>2, <2>1, <3>2, <3>3, <3>4 DEF Others
  <2>7. Ready'
    <3>1. \A u \in Thread :
            /\ state'[u] = "READY" <=> state[u] = "READY"
            /\ state'[u] = "RUNNING" <=> state[u] = "RUNNING"
      BY <2>2, <2>5
    <3>2. initialized => current \in Thread /\ state'[current] = "RUNNING"
      BY <2>1, <3>1 DEF IInv, Ready
    <3> QED
      BY <1>2, <2>1, <2>3, <2>4, <3>1, <3>2 DEF Ready
  <2>8. CASE initialized
    <3>1. /\ current \in Thread /\ idle = Boot /\ state[Boot] = "RUNNING"
          /\ magic[Boot] /\ magic[current]
      BY <2>8 DEF IInv
    <3> QED
      BY <1>2, <2>1, <2>2, <2>3, <2>4, <2>5, <2>6, <2>7, <2>8, <3>1, Distinct, Assembled
  <2>9. CASE ~initialized
    <3>1. TypeOK'
      BY <1>2, <2>1, <2>3, <2>4, <2>5, <2>6, Zenon DEF TypeOK, Queue, Others, IInv
    <3>2. QueueIntact'
      BY <1>2, <2>1, <2>3, Zenon DEF QueueIntact, Spells
    <3>3. ReadyIffQueued'
      BY <2>7 DEF ReadyIffQueued, Ready, InQueue
    <3>4. current' = NULL /\ fifo' = <<>> /\ \A u \in Thread : state'[u] = "NEW"
      BY <1>2, <2>5, <2>9 DEF IInv
    <3> QED
      BY <1>2, <2>9, <3>1, <3>2, <3>3, <3>4 DEF IInv
  <2> QED
    BY <2>8, <2>9
<1> QED
  BY <1>1, <1>2 DEF mcsos_thread_prepare

\* mcsos_sched_enqueue on a thread that is not queued, and mcsos_thread_mark_ready.
LEMMA EnqueueInv ==
  ASSUME IInv, NEW t \in Thread, MayEnqueue(t), mcsos_sched_enqueue(t)
  PROVE  IInv'
<1>1. CASE \E code : Fail(code)
  BY <1>1, FailInv
<1>2. CASE /\ initialized /\ magic[t] /\ state[t] \in {"NEW", "READY", "BLOCKED"}
           /\ state' = [state EXCEPT ![t] = "READY"]
           /\ rq' = Appended(rq, t) /\ fifo' = Append(fifo, t)
           /\ UNCHANGED <<initialized, current, idle, magic, rip, frame, cpu, acct,
                          retired>>
  <2>1. /\ rq \in Queue /\ magic \in [Thread -> BOOLEAN] /\ Others /\ Ready
        /\ state \in [Thread -> ThreadState] /\ fifo \in Seq(Thread) /\ Spells(rq, fifo)
        /\ initialized \in BOOLEAN
    BY Restated DEF IInv
  <2>2. /\ current \in Thread /\ idle = Boot /\ state[Boot] = "RUNNING"
        /\ magic[Boot] /\ magic[current] /\ state[current] = "RUNNING"
    BY <1>2, <2>1 DEF IInv, Ready
  <2>3. state[t] \in {"NEW", "BLOCKED"} /\ ~InQueue(fifo, t) /\ t # Boot /\ t # current
    BY <1>2, <2>1, <2>2 DEF MayEnqueue, Ready
  <2>4. /\ rq' \in Queue /\ Spells(rq', fifo') /\ fifo' \in Seq(Thread)
        /\ \A u \in Thread : ~InQueue(fifo, u) /\ u # t => rq'.next[u] = rq.next[u]
        /\ \A u \in Thread : InQueue(fifo', u) <=> InQueue(fifo, u) \/ u = t
    BY <1>2, <2>1, <2>3, AppendedSpells, AppendFacts
  <2>5. /\ state' \in [Thread -> ThreadState] /\ state'[t] = "READY"
        /\ \A u \in Thread : u # t => state'[u] = state[u]
    BY <1>2, <2>1 DEF ThreadState
  <2>6. Others'
    BY <1>2, <2>1 DEF Others
  <2>7. Ready'
    BY <1>2, <2>1, <2>2, <2>3, <2>4, <2>5 DEF Ready
  <2> QED
    BY <1>2, <2>1, <2>2, <2>3, <2>4, <2>5, <2>6, <2>7, Assembled, Distinct
<1> QED
  BY <1>1, <1>2 DEF mcsos_sched_enqueue

\* mcsos_thread_mark_ready keeps the invariant.
LEMMA MarkReadyInv ==
  ASSUME IInv, NEW t \in Thread, mcsos_thread_mark_ready(t)
  PROVE  IInv'
<1>1. CASE \E code : Fail(code)
  BY <1>1, FailInv
<1>2. CASE state[t] = "BLOCKED" /\ mcsos_sched_enqueue(t)
  BY <1>2, EnqueueInv DEF MayEnqueue
<1> QED
  BY <1>1, <1>2 DEF mcsos_thread_mark_ready

\* The thread pick_next hands to yield and the queue it leaves, whether or
\* not anybody was waiting.
LEMMA PickFacts ==
  ASSUME IInv, initialized
  PROVE  /\ AfterPick(rq) \in Queue /\ FifoAfterPick \in Seq(Thread)
         /\ Spells(AfterPick(rq), FifoAfterPick)
         /\ Picked(rq) \in Thread /\ magic[Picked(rq)]
         /\ Picked(rq) = current => fifo = <<>> /\ current = Boot
         /\ \A u \in Thread :
              InQueue(FifoAfterPick, u) <=> state[u] = "READY" /\ u # Picked(rq)
         /\ \A u \in Thread :
              ~InQueue(FifoAfterPick, u) => AfterPick(rq).next[u] = NULL
<1>1. /\ rq \in Queue /\ Ready /\ fifo \in Seq(Thread) /\ Spells(rq, fifo)
      /\ current \in Thread /\ idle = Boot /\ state[Boot] = "RUNNING" /\ magic[Boot]
  BY Restated DEF IInv
<1>2. CASE fifo = <<>>
  <2>1. Len(fifo) = 0 /\ rq.ready_head = NULL
    BY <1>1, <1>2 DEF Spells
  <2>2. Picked(rq) = Boot /\ AfterPick(rq) = rq /\ FifoAfterPick = fifo
    BY <1>1, <1>2, <2>1 DEF Picked, AfterPick, FifoAfterPick
  <2>3. \A u \in Thread : ~InQueue(fifo, u) /\ state[u] # "READY" /\ rq.next[u] = NULL
    BY <1>1, <2>1 DEF Ready, InQueue
  <2> QED
    BY <1>1, <1>2, <2>2, <2>3, Distinct
<1>3. CASE fifo # <<>>
  <2>1. /\ AfterPick(rq) \in Queue /\ FifoAfterPick = Tail(fifo)
        /\ Picked(rq) = fifo[1] /\ fifo[1] \in Thread /\ InQueue(fifo, fifo[1])
        /\ Tail(fifo) \in Seq(Thread) /\ Spells(AfterPick(rq), Tail(fifo))
        /\ \A u \in Thread : InQueue(Tail(fifo), u) <=> InQueue(fifo, u) /\ u # fifo[1]
        /\ AfterPick(rq).next[fifo[1]] = NULL
        /\ \A u \in Thread : u # fifo[1] => AfterPick(rq).next[u] = rq.next[u]
    BY <1>1, <1>3, AfterPickSpells DEF FifoAfterPick
  <2>2. state[fifo[1]] = "READY" /\ magic[fifo[1]] /\ fifo[1] # current
    BY <1>1, <2>1 DEF Ready
  <2>3. \A u \in Thread : InQueue(fifo, u) <=> state[u] = "READY"
    BY <1>1 DEF Ready
  <2>4. \A u \in Thread : state[u] # "READY" => rq.next[u] = NULL
    BY <1>1 DEF Ready
  <2> QED
    BY <2>1, <2>2, <2>3, <2>4
<1> QED
  BY <1>2, <1>3

\* The statistics and contexts after a switch.
LEMMA SwitchOthers ==
  ASSUME Others, NEW old \in Thread, NEW new \in Thread,
         acct' = AcctSwitch(old, new), retired' = retired, frame' = frame,
         IF HostTest THEN UNCHANGED <<rip, cpu>>
         ELSE /\ rip' = [rip EXCEPT ![old] = "continuation"]
              /\ cpu' = IF rip[new] = "continuation" THEN "code" ELSE rip[new]
  PROVE  Others'
<1>1. /\ rip' \in [Thread -> {NULL, "trampoline", "continuation"}]
      /\ cpu' \in {"code", "trampoline", NULL}
  <2>1. CASE HostTest
    BY <2>1 DEF Others
  <2>2. CASE ~HostTest
    BY <2>2 DEF Others
  <2> QED
    BY <2>1, <2>2
<1> DEFINE C == 0..(CounterMod - 1)
<1>2. /\ acct.context_switches \in C /\ acct.ticks \in C
      /\ acct.switches \in [Thread -> C] /\ acct.thread_ticks \in [Thread -> C]
  BY DEF Others
<1>3. \A n \in C : Bump(n) \in C
  BY CounterType
<1>4. acct \in [context_switches : C, ticks : C, switches : [Thread -> C],
                thread_ticks : [Thread -> C]]
  BY DEF Others
<1>5. acct' \in [context_switches : C, ticks : C, switches : [Thread -> C],
                 thread_ticks : [Thread -> C]]
  <2> HIDE DEF C
  <2> QED
    BY <1>2, <1>3, <1>4, Zenon DEF AcctSwitch
<1> QED
  BY <1>1, <1>5 DEF Others

\* mcsos_sched_yield from the states it may be entered with.
LEMMA YieldFromInv ==
  ASSUME IInv, initialized, NEW st,
         \/ st = state
         \/ st = [state EXCEPT ![current] = "BLOCKED"] /\ current # idle,
         YieldFrom(st)
  PROVE  IInv'
<1> DEFINE new == Picked(rq)
           q == AfterPick(rq)
           f == FifoAfterPick
           requeue == st[current] = "RUNNING" /\ current # idle
<1>1. /\ rq \in Queue /\ magic \in [Thread -> BOOLEAN] /\ Others /\ Ready
      /\ state \in [Thread -> ThreadState] /\ fifo \in Seq(Thread)
      /\ initialized \in BOOLEAN
      /\ current \in Thread /\ idle = Boot /\ state[Boot] = "RUNNING"
      /\ magic[Boot] /\ magic[current] /\ state[current] = "RUNNING"
  BY Restated DEF IInv, Ready
<1>2. /\ q \in Queue /\ f \in Seq(Thread) /\ Spells(q, f)
      /\ new \in Thread /\ magic[new]
      /\ new = current => fifo = <<>> /\ current = Boot
      /\ \A u \in Thread : InQueue(f, u) <=> state[u] = "READY" /\ u # new
      /\ \A u \in Thread : ~InQueue(f, u) => q.next[u] = NULL
  BY PickFacts
<1>3. CASE new = current
  <2>1. fifo = <<>> /\ current = Boot /\ st = state
    BY <1>1, <1>2, <1>3
  <2>2. rq.ready_head = NULL
    BY <2>1 DEF IInv, QueueIntact
  <2>3. q = rq /\ f = fifo
    BY <2>1, <2>2 DEF AfterPick, FifoAfterPick
  <2>4. state' = [st EXCEPT ![current] = "RUNNING"] /\ rq' = q /\ fifo' = f
        /\ UNCHANGED <<initialized, current, idle, magic, rip, frame, cpu, acct,
                       retired>>
    BY <1>2, <1>3 DEF YieldFrom
  <2>5. state' = state
    BY <1>1, <2>1, <2>4
  <2>6. Others'
    BY <1>1, <2>4 DEF Others
  <2> QED
    BY <2>3, <2>4, <2>5, <2>6, SameInv
<1>4. CASE new # current
  <2>1. /\ rq' = IF requeue THEN Appended(q, current) ELSE q
        /\ fifo' = IF requeue THEN Append(f, current) ELSE f
        /\ state' = [st EXCEPT ![current] = IF requeue THEN "READY" ELSE @,
                               ![new] = "RUNNING"]
        /\ current' = new /\ acct' = AcctSwitch(current, new)
        /\ IF HostTest THEN UNCHANGED <<rip, cpu>>
           ELSE /\ rip' = [rip EXCEPT ![current] = "continuation"]
                /\ cpu' = IF rip[new] = "continuation" THEN "code" ELSE rip[new]
        /\ UNCHANGED <<initialized, idle, magic, frame, retired>>
    BY <1>2, <1>4, Zenon DEF YieldFrom
  <2>2. Others'
    BY <1>1, <1>2, <2>1, SwitchOthers, Zenon
  <2>3. /\ st \in [Thread -> ThreadState] /\ st[current] \in {"RUNNING", "BLOCKED"}
        /\ \A u \in Thread : u # current => st[u] = state[u]
    BY <1>1 DEF ThreadState
  <2> HIDE DEF new, q, f
  <2>4. /\ state' \in [Thread -> ThreadState] /\ state'[new] = "RUNNING"
        /\ state'[current] = IF requeue THEN "READY" ELSE st[current]
        /\ \A u \in Thread : u # current /\ u # new => state'[u] = state[u]
    BY <1>1, <1>2, <1>4, <2>1, <2>3, Zenon DEF ThreadState
  <2>5. /\ state[current] # "READY" /\ ~InQueue(f, current) /\ ~InQueue(f, new)
        /\ q.next[current] = NULL /\ q.next[new] = NULL
    <3>1. state[current] # "READY"
      BY <1>1
    <3> QED
      BY <1>1, <1>2, <3>1
  <2>6. /\ rq' \in Queue /\ fifo' \in Seq(Thread) /\ Spells(rq', fifo')
        /\ \A u \in Thread :
             /\ InQueue(fifo', u) <=> InQueue(f, u) \/ (requeue /\ u = current)
             /\ ~InQueue(fifo', u) => rq'.next[u] = NULL
    <3>1. CASE requeue
      <4>0. rq' = Appended(q, current) /\ fifo' = Append(f, current)
        BY <2>1, <3>1
      <4>1. /\ rq' \in Queue /\ Spells(rq', fifo') /\ fifo' \in Seq(Thread)
            /\ \A u \in Thread : ~InQueue(f, u) /\ u # current => rq'.next[u] = q.next[u]
            /\ \A u \in Thread : InQueue(fifo', u) <=> InQueue(f, u) \/ u = current
        BY <1>1, <1>2, <2>5, <4>0, AppendedSpells, AppendFacts
      <4>2. \A u \in Thread : ~InQueue(f, u) => q.next[u] = NULL
        BY <1>2
      <4> QED
        BY <3>1, <4>1, <4>2
    <3>2. CASE ~requeue
      <4>1. rq' = q /\ fifo' = f
        BY <2>1, <3>2
      <4> QED
        BY <1>2, <3>2, <4>1
    <3> QED
      BY <3>1, <3>2
  <2>7. Ready'
    <3> SUFFICES ASSUME NEW u \in Thread
                 PROVE  /\ state'[u] = "READY" <=> InQueue(fifo', u)
                        /\ state'[u] = "READY" => magic'[u]
                        /\ state'[u] = "RUNNING" => u \in {current', idle'}
                        /\ state'[u] # "READY" => rq'.next[u] = NULL
      BY <2>1, <2>4 DEF Ready
    <3>1. state[u] = "READY" => magic[u]
      BY <1>1 DEF Ready
    <3>2. state[u] = "RUNNING" => u \in {current, idle}
      BY <1>1 DEF Ready
    <3>3. CASE u = current
      <4>1. InQueue(fifo', u) <=> requeue
        BY <2>5, <2>6, <3>3
      <4>2. state'[u] = "READY" <=> requeue
        BY <2>3, <2>4, <3>3
      <4>3. state'[u] = "RUNNING" => u = idle'
        BY <2>1, <2>3, <2>4, <3>3
      <4> QED
        BY <1>1, <2>1, <2>6, <3>3, <4>1, <4>2, <4>3
    <3>4. CASE u = new
      <4>1. ~InQueue(fifo', u)
        BY <1>4, <2>5, <2>6, <3>4
      <4>2. state'[u] = "RUNNING" /\ u = current'
        BY <2>1, <2>4, <3>4
      <4> QED
        BY <2>6, <4>1, <4>2
    <3>5. CASE u # current /\ u # new
      BY <1>1, <1>2, <2>1, <2>4, <2>6, <3>1, <3>2, <3>5
    <3> QED
      BY <3>3, <3>4, <3>5
  <2>8. state'[Boot] = "RUNNING"
    <3>1. CASE Boot = new
      BY <2>4, <3>1
    <3>2. CASE Boot # new /\ Boot = current
      BY <1>1, <2>3, <2>4, <3>2
    <3>3. CASE Boot # new /\ Boot # current
      BY <1>1, <2>4, <3>3, Distinct
    <3> QED
      BY <3>1, <3>2, <3>3
  <2> QED
    BY <1>1, <1>2, <2>1, <2>2, <2>4, <2>6, <2>7, <2>8, Assembled, Zenon
<1> QED
  BY <1>3, <1>4

\* mcsos_sched_yield keeps the invariant.
LEMMA YieldInv == ASSUME IInv, mcsos_sched_yield PROVE IInv'
<1>1. CASE \E code : Fail(code)
  BY <1>1, FailInv
<1>2. CASE Live /\ YieldFrom(state)
  BY <1>2, YieldFromInv DEF Live
<1> QED
  BY <1>1, <1>2 DEF mcsos_sched_yield

\* mcsos_thread_block_current keeps the invariant.
LEMMA BlockInv == ASSUME IInv, mcsos_thread_block_current PROVE IInv'
<1>1. CASE \E code : Fail(code)
  BY <1>1, FailInv
<1>2. CASE Live /\ current # idle /\ YieldFrom([state EXCEPT ![current] = "BLOCKED"])
  BY <1>2, YieldFromInv DEF Live
<1> QED
  BY <1>1, <1>2 DEF mcsos_thread_block_current

\* mcsos_sched_tick keeps the invariant.
LEMMA TickInv == ASSUME IInv, mcsos_sched_tick PROVE IInv'
<1>1. CASE \E code : Fail(code)
  BY <1>1, FailInv
<1>2. CASE /\ Live
           /\ acct' = [acct EXCEPT !.ticks = Bump(@), !.thread_ticks[current] = Bump(@)]
           /\ UNCHANGED <<initialized, current, idle, rq, magic, state, rip, frame,
                          cpu, retired, fifo>>
  <2> DEFINE C == 0..(CounterMod - 1)
  <2>1. /\ Others /\ current \in Thread
        /\ acct \in [context_switches : C, ticks : C, switches : [Thread -> C],
                      thread_ticks : [Thread -> C]]
    BY <1>2, Restated DEF IInv, Live, Others
  <2>2. \A n \in C : Bump(n) \in C
    BY CounterType
  <2>3. acct' \in [context_switches : C, ticks : C, switches : [Thread -> C],
                   thread_ticks : [Thread -> C]]
    <3> HIDE DEF C
    <3> QED
      BY <1>2, <2>1, <2>2, Zenon
  <2>4. Others'
    BY <1>2, <2>1, <2>3 DEF Others
  <2> QED
    BY <1>2, <2>4, SameInv
<1> QED
  BY <1>1, <1>2 DEF mcsos_sched_tick

\* Every call preserves the invariant.
LEMMA NextInv == IInv /\ [Next]_vars => IInv'
<1> SUFFICES ASSUME IInv, [Next]_vars PROVE IInv'
  OBVIOUS
<1>1. CASE ~initialized /\ mcsos_scheduler_init
  BY <1>1, SchedulerInitInv
<1>2. CASE \E t \in Thread, stack \in Stacks \cup {NULL} :
             MayPrepare(t) /\ mcsos_thread_prepare(t, stack)
  BY <1>2, PrepareInv
<1>3. CASE \E t \in Thread : MayEnqueue(t) /\ mcsos_sched_enqueue(t)
  BY <1>3, EnqueueInv
<1>4. CASE mcsos_sched_yield
  BY <1>4, YieldInv
<1>5. CASE mcsos_sched_tick
  BY <1>5, TickInv
<1>6. CASE mcsos_thread_block_current
  BY <1>6, BlockInv
<1>7. CASE \E t \in Thread : mcsos_thread_mark_ready(t)
  BY <1>7, MarkReadyInv
<1>8. CASE UNCHANGED vars
  <2>1. Others'
    BY <1>8 DEF vars, IInv, TypeOK, Others
  <2> QED
    BY <1>8, <2>1, SameInv DEF vars
<1> QED
  BY <1>1, <1>2, <1>3, <1>4, <1>5, <1>6, <1>7, <1>8 DEF Next

-----------------------------------------------------------------------------
(* The theorems.                                                            *)

\* Under callers that obey the transition table every field of the scheduler
\* and of the threads keeps its type.
THEOREM TypeCorrect == Spec => []TypeOK
<1>1. IInv => TypeOK
  BY DEF IInv
<1> QED
  BY InitInv, NextInv, <1>1, PTL DEF Spec

\* The ready queue of mcsos_thread.c is a well-formed list in order of
\* arrival after every call, for any number of threads.
THEOREM QueueStaysIntact == Spec => []QueueIntact
<1>1. IInv => QueueIntact
  BY DEF IInv
<1> QED
  BY InitInv, NextInv, <1>1, PTL DEF Spec

\* No READY thread is ever outside the queue, no queued thread is anything
\* but READY, and the thread on the CPU is RUNNING.
THEOREM ReadyExactlyQueued == Spec => []ReadyIffQueued
<1>1. IInv => ReadyIffQueued
  BY DEF IInv
<1> QED
  BY InitInv, NextInv, <1>1, PTL DEF Spec

\* Whatever stack the callers pass, a thread that has not run yet starts
\* inside it.
THEOREM FirstFrameStaysInside == Spec => []FirstFrameInside
<1>1. Init => FirstFrameInside
  BY SchedulerConstants DEF Init, FirstFrameInside
<1>2. IInv /\ FirstFrameInside /\ [Next]_vars => FirstFrameInside'
  <2> SUFFICES ASSUME IInv, FirstFrameInside, [Next]_vars PROVE FirstFrameInside'
    OBVIOUS
  <2>0. rip \in [Thread -> {NULL, "trampoline", "continuation"}]
        /\ frame \in [Thread -> [base : Word, size : Word, rsp : Word]]
    BY Zenon DEF IInv, TypeOK
  <2>1. CASE UNCHANGED <<rip, frame>>
    BY <2>1 DEF FirstFrameInside
  <2>2. CASE ~initialized /\ mcsos_scheduler_init
    <3>1. rip' = [rip EXCEPT ![Boot] = NULL]
          /\ frame' = [frame EXCEPT ![Boot] = [base |-> 0, size |-> 0, rsp |-> 0]]
      BY <2>2 DEF mcsos_scheduler_init
    <3>2. \A t \in Thread : rip'[t] = "trampoline" => rip[t] = "trampoline" /\ t # Boot
      BY <2>0, <3>1, SchedulerConstants
    <3>3. \A t \in Thread : t # Boot => frame'[t] = frame[t]
      BY <2>0, <3>1
    <3> QED
      BY <3>2, <3>3 DEF FirstFrameInside
  <2>3. CASE \E t \in Thread, stack \in Stacks \cup {NULL} :
               MayPrepare(t) /\ mcsos_thread_prepare(t, stack)
    <3>1. PICK t \in Thread, stack \in Stacks \cup {NULL} : mcsos_thread_prepare(t, stack)
      BY <2>3
    <3>2. CASE /\ stack # NULL /\ StackAccepted(stack.base, stack.size)
               /\ rip' = [rip EXCEPT ![t] = "trampoline"]
               /\ frame' = [frame EXCEPT ![t] =
                    [base |-> stack.base, size |-> stack.size,
                     rsp |-> InitialRsp(stack.base, stack.size)]]
      <4>1. stack.base \in Word /\ stack.size \in Word
        BY <3>2, SchedulerConstants, Zenon
      <4> DEFINE rsp == InitialRsp(stack.base, stack.size)
      <4>2. /\ stack.base <= rsp /\ rsp + SlotSize <= stack.base + stack.size
            /\ stack.base + stack.size < WordMod
            /\ (rsp + SlotSize) % StackAlign = 0
        BY <3>2, <4>1, FirstFrame
      <4> HIDE DEF rsp
      <4>3. frame'[t] = [base |-> stack.base, size |-> stack.size, rsp |-> rsp]
        BY <2>0, <3>2 DEF rsp
      <4>4. \A u \in Thread : u # t => frame'[u] = frame[u] /\ rip'[u] = rip[u]
        BY <2>0, <3>2
      <4> QED
        BY <4>2, <4>3, <4>4 DEF FirstFrameInside
    <3> QED
      BY <2>1, <3>1, <3>2 DEF mcsos_thread_prepare, Fail
  <2>4. CASE \E st : YieldFrom(st)
    <3>1. frame' = frame /\ \A t \in Thread : rip'[t] = "trampoline" => rip[t] = "trampoline"
      BY <2>0, <2>4 DEF YieldFrom
    <3> QED
      BY <3>1 DEF FirstFrameInside
  <2>5. CASE \E t \in Thread : MayEnqueue(t) /\ mcsos_sched_enqueue(t)
    BY <2>1, <2>5 DEF mcsos_sched_enqueue, Fail
  <2>6. CASE mcsos_sched_yield \/ mcsos_thread_block_current
    BY <2>1, <2>4, <2>6 DEF mcsos_sched_yield, mcsos_thread_block_current, Fail
  <2>7. CASE mcsos_sched_tick
    BY <2>1, <2>7 DEF mcsos_sched_tick, Fail
  <2>8. CASE \E t \in Thread : mcsos_thread_mark_ready(t)
    BY <2>1, <2>8 DEF mcsos_thread_mark_ready, mcsos_sched_enqueue, Fail
  <2>9. CASE UNCHANGED vars
    BY <2>1, <2>9 DEF vars
  <2> QED
    BY <2>2, <2>3, <2>5, <2>6, <2>7, <2>8, <2>9 DEF Next
<1> QED
  BY InitInv, NextInv, <1>1, <1>2, PTL DEF Spec

-----------------------------------------------------------------------------
(* The scheduler implements RoundRobin, the queue being the sequence that   *)
(* QueueIntact says the pointers spell out.                                 *)

Abstract == INSTANCE RoundRobin WITH running <- current, waiting <- fifo

\* A call that fails or only touches statistics is a stutter.
LEMMA FailStutters ==
  ASSUME NEW code, Fail(code)
  PROVE  UNCHANGED <<current, fifo>>
  BY DEF Fail

\* Enqueueing a thread is its arrival.
LEMMA EnqueueArrives ==
  ASSUME IInv, NEW t \in Thread, MayEnqueue(t), mcsos_sched_enqueue(t)
  PROVE  Abstract!Next \/ UNCHANGED <<current, fifo>>
<1>1. CASE \E code : Fail(code)
  BY <1>1, FailStutters
<1>2. CASE /\ initialized /\ state[t] \in {"NEW", "READY", "BLOCKED"}
           /\ fifo' = Append(fifo, t) /\ current' = current
  <2>1. /\ Ready /\ current \in Thread /\ state[Boot] = "RUNNING"
        /\ state[current] = "RUNNING" /\ fifo \in Seq(Thread)
    BY <1>2, Restated DEF IInv, Ready
  <2>2. state[t] \in {"NEW", "BLOCKED"} /\ ~InQueue(fifo, t)
    BY <1>2, <2>1 DEF MayEnqueue, Ready
  <2>3. t \in Threads /\ current # NULL /\ current # t
    BY <2>1, <2>2, Distinct DEF Thread
  <2>4. t \notin Range(fifo)
    BY <2>1, <2>2 DEF InQueue, Range
  <2>5. Abstract!Arrive(t)
    BY <1>2, <2>3, <2>4 DEF Abstract!Arrive, Abstract!Range, Range
  <2> QED
    BY <2>3, <2>5 DEF Abstract!Next
<1> QED
  BY <1>1, <1>2 DEF mcsos_sched_enqueue

\* What YieldFrom does to the CPU and the queue.
LEMMA YieldMoves ==
  ASSUME IInv, initialized, NEW st, YieldFrom(st)
  PROVE  /\ current \in Thread /\ idle = Boot
         /\ \/ current = Boot /\ UNCHANGED <<current, fifo>>
            \/ /\ current' = Abstract!Upcoming
               /\ fifo' = IF st[current] = "RUNNING" /\ current # Boot
                          THEN Append(Abstract!Remaining, current)
                          ELSE Abstract!Remaining
<1>1. /\ rq \in Queue /\ fifo \in Seq(Thread) /\ Spells(rq, fifo)
      /\ current \in Thread /\ idle = Boot
  BY Restated DEF IInv
<1>2. /\ Picked(rq) \in Thread /\ magic[Picked(rq)]
      /\ Picked(rq) = current => fifo = <<>> /\ current = Boot
  BY PickFacts
<1>3. FifoAfterPick = Abstract!Remaining
  BY DEF FifoAfterPick, Abstract!Remaining
<1>4. Picked(rq) = Abstract!Upcoming
  <2>1. CASE fifo = <<>>
    BY <1>1, <2>1 DEF Picked, Abstract!Upcoming, Spells
  <2>2. CASE fifo # <<>>
    <3>1. Picked(rq) = fifo[1]
      BY <1>1, <2>2, AfterPickSpells
    <3> QED
      BY <1>1, <2>2, <3>1 DEF Abstract!Upcoming
  <2> QED
    BY <2>1, <2>2
<1>5. CASE Picked(rq) = current
  <2>1. fifo = <<>> /\ current = Boot
    BY <1>2, <1>5
  <2>2. current' = current /\ fifo' = FifoAfterPick
    BY <1>2, <1>5 DEF YieldFrom
  <2> QED
    BY <1>1, <2>1, <2>2 DEF FifoAfterPick
<1>6. CASE Picked(rq) # current
  <2>1. /\ current' = Picked(rq)
        /\ fifo' = IF st[current] = "RUNNING" /\ current # idle
                   THEN Append(FifoAfterPick, current) ELSE FifoAfterPick
    BY <1>2, <1>6 DEF YieldFrom
  <2> QED
    BY <1>1, <1>3, <1>4, <2>1
<1> QED
  BY <1>5, <1>6

\* A yield is a rotation, and blocking is falling asleep.
LEMMA YieldRotates ==
  ASSUME IInv, mcsos_sched_yield
  PROVE  Abstract!Next \/ UNCHANGED <<current, fifo>>
<1>1. CASE \E code : Fail(code)
  BY <1>1, FailStutters
<1>2. CASE Live /\ YieldFrom(state)
  <2>1. initialized /\ state[current] = "RUNNING"
    BY <1>2 DEF Live, IInv, ReadyIffQueued
  <2>2. /\ current \in Thread
        /\ \/ UNCHANGED <<current, fifo>>
           \/ /\ current' = Abstract!Upcoming
              /\ fifo' = IF current = Boot THEN Abstract!Remaining
                         ELSE Append(Abstract!Remaining, current)
    BY <1>2, <2>1, YieldMoves
  <2> QED
    BY <2>2, Distinct DEF Abstract!Next, Abstract!Rotate
<1> QED
  BY <1>1, <1>2 DEF mcsos_sched_yield

\* Blocking the running thread is a step of the abstract scheduler.
LEMMA BlockSleeps ==
  ASSUME IInv, mcsos_thread_block_current
  PROVE  Abstract!Next \/ UNCHANGED <<current, fifo>>
<1>1. CASE \E code : Fail(code)
  BY <1>1, FailStutters
<1>2. CASE Live /\ current # idle /\ YieldFrom([state EXCEPT ![current] = "BLOCKED"])
  <2> DEFINE st == [state EXCEPT ![current] = "BLOCKED"]
  <2>1. initialized /\ current \in Thread /\ state \in [Thread -> ThreadState]
    BY <1>2 DEF Live, IInv, TypeOK
  <2>2. st[current] # "RUNNING"
    BY <2>1
  <2> HIDE DEF st
  <2>3. YieldFrom(st)
    BY <1>2 DEF st
  <2>4. /\ current \in Threads
        /\ current' = Abstract!Upcoming /\ fifo' = Abstract!Remaining
    BY <1>2, <2>1, <2>2, <2>3, YieldMoves DEF Thread
  <2> QED
    BY <2>4 DEF Abstract!Next, Abstract!Sleep
<1> QED
  BY <1>1, <1>2 DEF mcsos_thread_block_current

\* For any number of threads, every behaviour of mcsos_thread.c under callers
\* that obey the transition table is one of the abstract round-robin queue:
\* threads get the CPU in the order they became ready, none is skipped,
\* dropped or served twice.
THEOREM ImplementsRoundRobin == Spec => Abstract!Spec
<1>1. Init => Abstract!Init
  BY DEF Init, Abstract!Init
<1>2. IInv /\ [Next]_vars => [Abstract!Next]_<<current, fifo>>
  <2> SUFFICES ASSUME IInv, [Next]_vars
               PROVE  Abstract!Next \/ UNCHANGED <<current, fifo>>
    OBVIOUS
  <2>1. CASE ~initialized /\ mcsos_scheduler_init
    <3>1. current = NULL /\ current' = Boot /\ fifo' = fifo
      BY <2>1, Zenon DEF IInv, mcsos_scheduler_init
    <3> QED
      BY <3>1 DEF Abstract!Next, Abstract!Start
  <2>2. CASE \E t \in Thread, stack \in Stacks \cup {NULL} :
               MayPrepare(t) /\ mcsos_thread_prepare(t, stack)
    BY <2>2 DEF mcsos_thread_prepare, Fail
  <2>3. CASE \E t \in Thread : MayEnqueue(t) /\ mcsos_sched_enqueue(t)
    BY <2>3, EnqueueArrives
  <2>4. CASE mcsos_sched_yield
    BY <2>4, YieldRotates
  <2>5. CASE mcsos_sched_tick
    BY <2>5 DEF mcsos_sched_tick, Fail
  <2>6. CASE mcsos_thread_block_current
    BY <2>6, BlockSleeps
  <2>7. CASE \E t \in Thread : mcsos_thread_mark_ready(t)
    <3>1. PICK t \in Thread : mcsos_thread_mark_ready(t)
      BY <2>7
    <3>2. CASE \E code : Fail(code)
      BY <3>2, FailStutters
    <3>3. CASE state[t] = "BLOCKED" /\ mcsos_sched_enqueue(t)
      BY <3>3, EnqueueArrives DEF MayEnqueue
    <3> QED
      BY <3>1, <3>2, <3>3 DEF mcsos_thread_mark_ready
  <2>8. CASE UNCHANGED vars
    BY <2>8 DEF vars
  <2> QED
    BY <2>1, <2>2, <2>3, <2>4, <2>5, <2>6, <2>7, <2>8 DEF Next
<1> QED
  BY InitInv, NextInv, <1>1, <1>2, PTL DEF Spec, Abstract!Spec

-----------------------------------------------------------------------------
(* Callers that obey no rule (AnySpec).                                     *)

\* The pointers of the queue q lead to thread objects with their magic.
Sound(q, valid) ==
    /\ q \in Queue
    /\ \A t \in Thread :
         t = q.ready_head \/ t = q.ready_tail \/ (\E u \in Thread : q.next[u] = t)
           => valid[t]

\* Whatever is called, no pointer leaves the thread objects that
\* mcsos_scheduler_init or mcsos_thread_prepare has marked.
PInv ==
    /\ initialized \in BOOLEAN
    /\ magic \in [Thread -> BOOLEAN] /\ state \in [Thread -> ThreadState]
    /\ Sound(rq, magic)
    /\ initialized => current \in Thread /\ idle \in Thread /\ magic[current] /\ magic[idle]

\* Enqueueing a marked thread keeps the queue sound.
LEMMA AppendedSound ==
  ASSUME NEW valid, NEW q, Sound(q, valid), NEW t \in Thread, valid[t]
  PROVE  Sound(Appended(q, t), valid)
<1> DEFINE cut == [q.next EXCEPT ![t] = NULL]
           long == IF q.ready_tail = NULL THEN cut ELSE [cut EXCEPT ![q.ready_tail] = t]
<1>1. /\ q.ready_head \in Thread \cup {NULL} /\ q.ready_tail \in Thread \cup {NULL}
      /\ q.next \in [Thread -> Thread \cup {NULL}] /\ q.runnable_count \in Nat
  BY DEF Sound, Queue
<1>2. cut \in [Thread -> Thread \cup {NULL}] /\ \A u \in Thread : cut[u] \in {NULL, q.next[u]}
  BY <1>1
<1>3. long \in [Thread -> Thread \cup {NULL}] /\ \A u \in Thread : long[u] \in {NULL, t, q.next[u]}
  <2> HIDE DEF cut
  <2> QED BY <1>1, <1>2
<1> HIDE DEF long
<1>4. Appended(q, t) = [ready_head |-> IF q.ready_tail = NULL THEN t ELSE q.ready_head,
                        ready_tail |-> t, next |-> long,
                        runnable_count |-> q.runnable_count + 1]
  BY DEF Appended, long
<1>5. Appended(q, t) \in Queue
  BY <1>1, <1>3, <1>4 DEF Queue
<1>6. ASSUME NEW u \in Thread,
             u = Appended(q, t).ready_head \/ u = Appended(q, t).ready_tail
               \/ (\E v \in Thread : Appended(q, t).next[v] = u)
      PROVE  valid[u]
  <2>1. u = t \/ u = q.ready_head \/ (\E v \in Thread : q.next[v] = u)
    BY <1>3, <1>4, <1>6, Distinct
  <2> QED BY <2>1 DEF Sound
<1> QED BY <1>5, <1>6 DEF Sound

\* Taking the first thread out keeps the queue sound.
LEMMA AfterPickSound ==
  ASSUME NEW valid, NEW q, Sound(q, valid)
  PROVE  Sound(AfterPick(q), valid)
<1>1. /\ q.ready_head \in Thread \cup {NULL} /\ q.ready_tail \in Thread \cup {NULL}
      /\ q.next \in [Thread -> Thread \cup {NULL}] /\ q.runnable_count \in Nat
  BY DEF Sound, Queue
<1>2. CASE q.ready_head = NULL
  BY <1>2 DEF AfterPick
<1>3. CASE q.ready_head # NULL
  <2> DEFINE head == q.next[q.ready_head]
             short == [q.next EXCEPT ![q.ready_head] = NULL]
             left == IF q.runnable_count > 0 THEN q.runnable_count - 1 ELSE 0
  <2>1. q.ready_head \in Thread /\ head \in Thread \cup {NULL} /\ left \in Nat
    BY <1>1, <1>3
  <2>2. /\ short \in [Thread -> Thread \cup {NULL}]
        /\ \A u \in Thread : short[u] \in {NULL, q.next[u]}
    BY <1>1, <2>1
  <2>3. AfterPick(q) = [ready_head |-> head,
                        ready_tail |-> IF head = NULL THEN NULL ELSE q.ready_tail,
                        next |-> short, runnable_count |-> left]
    BY <1>3 DEF AfterPick
  <2> HIDE DEF short, left
  <2>4. AfterPick(q) \in Queue
    BY <1>1, <2>1, <2>2, <2>3 DEF Queue
  <2>5. ASSUME NEW u \in Thread,
               u = AfterPick(q).ready_head \/ u = AfterPick(q).ready_tail
                 \/ (\E v \in Thread : AfterPick(q).next[v] = u)
        PROVE  valid[u]
    <3>1. u = q.ready_tail \/ (\E v \in Thread : q.next[v] = u)
      BY <2>1, <2>2, <2>3, <2>5, Distinct
    <3> QED BY <3>1 DEF Sound
  <2> QED BY <2>4, <2>5 DEF Sound
<1> QED BY <1>2, <1>3

\* Marking more threads keeps it sound, as does cutting a link.
LEMMA MarkedSound ==
  ASSUME magic \in [Thread -> BOOLEAN], Sound(rq, magic), NEW t \in Thread, NEW q,
         q \in Queue, q.ready_head \in {NULL, rq.ready_head},
         q.ready_tail \in {NULL, rq.ready_tail}, q.next = [rq.next EXCEPT ![t] = NULL]
  PROVE  /\ Sound(q, [magic EXCEPT ![t] = TRUE])
         /\ [magic EXCEPT ![t] = TRUE] \in [Thread -> BOOLEAN]
         /\ \A u \in Thread : magic[u] => [magic EXCEPT ![t] = TRUE][u]
<1> DEFINE m == [magic EXCEPT ![t] = TRUE]
<1>1. m \in [Thread -> BOOLEAN]
  BY Zenon
<1>2. \A u \in Thread : m[u] = IF u = t THEN TRUE ELSE magic[u]
  OBVIOUS
<1>3. \A u \in Thread : q.next[u] \in {NULL, rq.next[u]}
  BY DEF Sound, Queue
<1> HIDE DEF m
<1>4. ASSUME NEW u \in Thread,
             u = q.ready_head \/ u = q.ready_tail \/ (\E v \in Thread : q.next[v] = u)
      PROVE  m[u]
  <2>1. u = rq.ready_head \/ u = rq.ready_tail \/ (\E v \in Thread : rq.next[v] = u)
    BY <1>3, <1>4, Distinct
  <2>2. magic[u]
    BY <2>1 DEF Sound
  <2> QED BY <1>2, <2>2, Zenon
<1> QED BY <1>1, <1>2, <1>4 DEF Sound, m

\* The thread the scheduler picks is a marked one.
LEMMA PickedSound ==
  ASSUME PInv, initialized
  PROVE  Picked(rq) \in Thread /\ magic[Picked(rq)]
<1>1. rq.ready_head \in Thread \cup {NULL}
  BY DEF PInv, Sound, Queue
<1> QED BY <1>1, Distinct DEF PInv, Sound, Picked

\* A yield from any thread states keeps PInv and does not fail.
LEMMA YieldSound ==
  ASSUME PInv, initialized, NEW st \in [Thread -> ThreadState], YieldFrom(st)
  PROVE  PInv' /\ ret' = "OK"
<1> DEFINE new == Picked(rq)
           q == AfterPick(rq)
<1>1. new \in Thread /\ magic[new] /\ current \in Thread /\ magic[current]
  BY PickedSound DEF PInv
<1>2. Sound(q, magic) /\ Sound(Appended(q, current), magic)
  BY <1>1, AfterPickSound, AppendedSound, Zenon DEF PInv
<1>3. CASE new = current
  <2>1. /\ ret' = "OK" /\ state' = [st EXCEPT ![current] = "RUNNING"] /\ rq' = q
        /\ UNCHANGED <<initialized, current, idle, magic>>
    BY <1>1, <1>3 DEF YieldFrom
  <2>2. state' \in [Thread -> ThreadState]
    BY <1>1, <2>1 DEF ThreadState
  <2> HIDE DEF q
  <2> QED BY <1>2, <2>1, <2>2 DEF PInv
<1>4. CASE new # current
  <2>1. /\ ret' = "OK" /\ rq' \in {q, Appended(q, current)} /\ current' = new
        /\ state' = [st EXCEPT ![current] = IF st[current] = "RUNNING" /\ current # idle
                                            THEN "READY" ELSE @,
                               ![new] = "RUNNING"]
        /\ UNCHANGED <<initialized, idle, magic>>
    BY <1>1, <1>4 DEF YieldFrom
  <2>2. state' \in [Thread -> ThreadState]
    BY <1>1, <2>1 DEF ThreadState
  <2> HIDE DEF q, new
  <2> QED BY <1>1, <1>2, <2>1, <2>2 DEF PInv
<1> QED BY <1>3, <1>4

\* PInv holds at first.
LEMMA SoundInit == Init => PInv
<1> SUFFICES ASSUME Init PROVE PInv
  OBVIOUS
<1>1. rq \in Queue
  BY DEF Init, Queue
<1>2. \A u \in Thread : rq.next[u] = NULL
  BY DEF Init
<1>3. rq.ready_head = NULL /\ rq.ready_tail = NULL
  BY DEF Init
<1>4. Sound(rq, magic)
  BY <1>1, <1>2, <1>3, Distinct DEF Sound
<1>5. magic \in [Thread -> BOOLEAN] /\ initialized \in BOOLEAN
  BY Zenon DEF Init
<1>6. state \in [Thread -> ThreadState]
  BY DEF Init, ThreadState
<1> QED BY <1>4, <1>5, <1>6 DEF PInv, Init

\* Every call keeps PInv, and one that returns an error changes nothing.
LEMMA SoundNext ==
  ASSUME PInv, AnyNext
  PROVE  /\ PInv'
         /\ ret' \in Errors =>
              UNCHANGED <<initialized, current, idle, rq, magic, state, rip, frame, acct>>
<1> DEFINE Same == UNCHANGED <<initialized, current, idle, rq, magic, state, rip, frame, acct>>
<1>0. ASSUME Same PROVE PInv'
  BY <1>0 DEF PInv, Sound, Queue
<1>1. ASSUME NEW code, Fail(code) PROVE Same
  BY <1>1 DEF Fail
<1> HIDE DEF Same
<1>2. CASE mcsos_scheduler_init
  <2>1. /\ magic' = [magic EXCEPT ![Boot] = TRUE] /\ ret' = "OK" /\ initialized' = TRUE
        /\ current' = Boot /\ idle' = Boot /\ state' = [state EXCEPT ![Boot] = "RUNNING"]
        /\ rq' = [ready_head |-> NULL, ready_tail |-> NULL,
                  next |-> [rq.next EXCEPT ![Boot] = NULL], runnable_count |-> 0]
    BY <1>2 DEF mcsos_scheduler_init
  <2>2. rq' \in Queue
    BY <2>1, Distinct DEF PInv, Sound, Queue
  <2>3. Sound(rq', magic') /\ magic' \in [Thread -> BOOLEAN]
    BY <2>1, <2>2, MarkedSound, Distinct, Zenon DEF PInv
  <2>4. state' \in [Thread -> ThreadState] /\ magic'[Boot] /\ Boot \in Thread
    BY <2>1, Distinct DEF PInv, ThreadState
  <2> QED BY <2>1, <2>3, <2>4 DEF PInv, Errors
<1>3. ASSUME NEW t \in Thread, NEW stack \in Stacks \cup {NULL}, mcsos_thread_prepare(t, stack)
      PROVE  PInv' /\ (ret' \in Errors => Same)
  <2>1. CASE \E code : Fail(code)
    BY <2>1, <1>0, <1>1
  <2>2. CASE /\ magic' = [magic EXCEPT ![t] = TRUE] /\ state' = [state EXCEPT ![t] = "NEW"]
             /\ rq' = [rq EXCEPT !.next[t] = NULL] /\ ret' = "OK"
             /\ UNCHANGED <<initialized, current, idle>>
    <3>1. /\ rq' \in Queue /\ rq'.ready_head = rq.ready_head /\ rq'.ready_tail = rq.ready_tail
          /\ rq'.next = [rq.next EXCEPT ![t] = NULL]
      BY <2>2 DEF PInv, Sound, Queue
    <3>2. /\ Sound(rq', magic') /\ magic' \in [Thread -> BOOLEAN]
          /\ \A u \in Thread : magic[u] => magic'[u]
      BY <2>2, <3>1, MarkedSound, Zenon DEF PInv
    <3>3. state' \in [Thread -> ThreadState]
      BY <2>2 DEF PInv, ThreadState
    <3> QED BY <2>2, <3>2, <3>3 DEF PInv, Errors
  <2> QED BY <1>3, <2>1, <2>2 DEF mcsos_thread_prepare
<1>4. ASSUME NEW t \in Thread, mcsos_sched_enqueue(t)
      PROVE  PInv' /\ (ret' \in Errors => Same)
  <2>1. CASE \E code : Fail(code)
    BY <2>1, <1>0, <1>1
  <2>2. CASE /\ magic[t] /\ state' = [state EXCEPT ![t] = "READY"] /\ rq' = Appended(rq, t)
             /\ ret' = "OK" /\ UNCHANGED <<initialized, current, idle, magic>>
    <3>1. Sound(rq', magic)
      BY <2>2, AppendedSound DEF PInv
    <3>2. state' \in [Thread -> ThreadState]
      BY <2>2 DEF PInv, ThreadState
    <3> QED BY <2>2, <3>1, <3>2 DEF PInv, Errors
  <2> QED BY <1>4, <2>1, <2>2 DEF mcsos_sched_enqueue
<1>5. CASE mcsos_sched_pick_next
  <2>1. CASE Fail(NULL)
    BY <2>1, <1>0, <1>1 DEF Same
  <2>2. CASE /\ initialized /\ ret' = Picked(rq) /\ rq' = AfterPick(rq)
             /\ UNCHANGED <<initialized, current, idle, magic, state>>
    <3>1. Sound(rq', magic)
      BY <2>2, AfterPickSound DEF PInv
    <3>2. ret' \notin Errors
      BY <2>2, PickedSound, CodesAreNoPointers
    <3> QED BY <2>2, <3>1, <3>2 DEF PInv
  <2> QED BY <1>5, <2>1, <2>2 DEF mcsos_sched_pick_next
<1>6. CASE mcsos_sched_yield
  <2>1. CASE \E code : Fail(code)
    BY <2>1, <1>0, <1>1 DEF Same
  <2>2. CASE Live /\ YieldFrom(state)
    BY <2>2, YieldSound, Zenon DEF Live, PInv, Errors
  <2> QED BY <1>6, <2>1, <2>2 DEF mcsos_sched_yield
<1>7. CASE mcsos_sched_tick
  <2>1. CASE \E code : Fail(code)
    BY <2>1, <1>0, <1>1 DEF Same
  <2>2. CASE ret' = "OK" /\ UNCHANGED <<initialized, current, idle, rq, magic, state>>
    BY <2>2 DEF PInv, Sound, Queue, Errors
  <2> QED BY <1>7, <2>1, <2>2 DEF mcsos_sched_tick
<1>8. CASE mcsos_thread_block_current
  <2>1. CASE \E code : Fail(code)
    BY <2>1, <1>0, <1>1 DEF Same
  <2>2. CASE Live /\ YieldFrom([state EXCEPT ![current] = "BLOCKED"])
    <3> DEFINE st == [state EXCEPT ![current] = "BLOCKED"]
    <3>1. st \in [Thread -> ThreadState]
      BY Zenon DEF PInv, ThreadState
    <3> HIDE DEF st
    <3>2. YieldFrom(st)
      BY <2>2 DEF st
    <3> QED BY <2>2, <3>1, <3>2, YieldSound, Zenon DEF Live, Errors
  <2> QED BY <1>8, <2>1, <2>2 DEF mcsos_thread_block_current
<1>9. CASE \E t \in Thread : mcsos_thread_mark_ready(t)
  <2>1. PICK t \in Thread : mcsos_thread_mark_ready(t)
    BY <1>9
  <2>2. CASE \E code : Fail(code)
    BY <2>2, <1>0, <1>1 DEF Same
  <2>3. CASE mcsos_sched_enqueue(t)
    BY <2>3, <1>4 DEF Same
  <2> QED BY <2>1, <2>2, <2>3 DEF mcsos_thread_mark_ready
<1> QED
  BY <1>2, <1>3, <1>4, <1>5, <1>6, <1>7, <1>8, <1>9 DEF AnyNext, Same

\* PInv holds throughout, whatever is called.
THEOREM PointersSound == AnySpec => []PInv
<1>1. PInv /\ UNCHANGED vars => PInv'
  BY DEF vars, PInv, Sound, Queue
<1>2. PInv /\ [AnyNext]_vars => PInv'
  BY <1>1, SoundNext
<1> QED BY SoundInit, <1>2, PTL DEF AnySpec

\* Whatever the callers do, a function of mcsos_thread.c that returns an error
\* has changed no thread state, no queue link and no counter: a yield never
\* finds a picked thread corrupt, the one error that would come too late.
THEOREM ErrorsLeaveNoTrace == AnySpec => ErrorsChangeNothing
<1>1. PInv /\ [AnyNext]_vars =>
        [ret' \in Errors =>
           UNCHANGED <<initialized, current, idle, rq, magic, state, rip, frame, acct>>]_vars
  BY SoundNext
<1> QED BY PointersSound, <1>1, PTL DEF AnySpec, ErrorsChangeNothing

============================================================================
