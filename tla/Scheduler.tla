----------------------------- MODULE Scheduler -----------------------------
(***************************************************************************)
(* The cooperative round-robin scheduler of kernel/sched/mcsos_thread.c.   *)
(* The ready queue is the code's own singly linked list: two pointers in   *)
(* the scheduler object and a `next' pointer in every thread.  Every       *)
(* public function of the file that changes state is one action; the two   *)
(* that only read (mcsos_sched_ready_count, mcsos_sched_validate) are      *)
(* operators.                                                              *)
(*                                                                         *)
(* The file is built twice.  With MCSOS_HOST_TEST the calls come from the  *)
(* test's own stack and mcsos_context_switch is left out; in the kernel a  *)
(* call comes from the code the CPU is executing, and a yield ends by      *)
(* jumping to the rip saved in the next thread's context.                  *)
(***************************************************************************)
EXTENDS ThreadStack, Sequences, FiniteSets, Functions

CONSTANTS
    Threads,        \* thread objects other than the boot thread
    Boot,           \* the boot thread, which mcsos_scheduler_init makes idle
    NULL,           \* the null pointer
    Stacks,         \* the [base, size] pairs callers pass to prepare
    CounterMod,     \* 2^64: where the statistics counters wrap
    MaxRunnable,    \* bound: AnyNext calls enqueue only below this count
    HostTest        \* is MCSOS_HOST_TEST defined?

ASSUME SchedulerConstants ==
    /\ IsFiniteSet(Threads) /\ Boot \notin Threads
    /\ NULL \notin Threads \cup {Boot} /\ NULL # "trampoline"
    /\ Stacks \subseteq [base : Word, size : Word]
    /\ CounterMod \in Nat \ {0}
    /\ MaxRunnable \in Nat
    /\ HostTest \in BOOLEAN

Thread == Threads \cup {Boot}

ThreadState == {"NEW", "READY", "RUNNING", "BLOCKED", "ZOMBIE"}

Errors == {"EINVAL", "ESTATE", "ESTACK", "ECORRUPT"}

\* What mcsos_sched_pick_next returns is no error code.
ASSUME CodesAreNoPointers == Thread \cap Errors = {}

VARIABLES
    initialized,    \* sched->initialized
    current,        \* sched->current
    idle,           \* sched->idle
    rq,             \* sched->ready_head, ready_tail, runnable_count and
                    \* the next field of every thread
    magic,          \* thread->magic = MCSOS_THREAD_MAGIC
    state,          \* thread->state
    rip,            \* thread->context.rip: where the thread will resume
    frame,          \* thread->stack_base, stack_size and the first context.rsp
    cpu,            \* what the CPU executes: a thread's code, or the trampoline
    acct,           \* the statistics counters
    retired,        \* ghost: counters wiped when a thread object is reused
    fifo,           \* ghost: the order of the threads awaiting the CPU
    ret             \* what the last call returned

vars == <<initialized, current, idle, rq, magic, state, rip, frame, cpu, acct,
          retired, fifo, ret>>

-----------------------------------------------------------------------------
(* The list operations.                                                     *)

\* Mutant: the tail pointer is not advanced.
AppendedTailStays(q, t) ==
    [ready_head |-> IF q.ready_tail = NULL THEN t ELSE q.ready_head,
     ready_tail |-> IF q.ready_tail = NULL THEN t ELSE q.ready_tail,
     next |-> IF q.ready_tail = NULL THEN q.next
              ELSE [q.next EXCEPT ![q.ready_tail] = t],
     runnable_count |-> q.runnable_count + 1]

\* Mutant: the thread is pushed at the head.
AppendedAtHead(q, t) ==
    [ready_head |-> t,
     ready_tail |-> IF q.ready_tail = NULL THEN t ELSE q.ready_tail,
     next |-> [q.next EXCEPT ![t] = q.ready_head],
     runnable_count |-> q.runnable_count + 1]

\* mcsos_sched_enqueue after its guards, on the queue q.
Appended(q, t) ==
    LET cut == [q.next EXCEPT ![t] = NULL]
    IN  [ready_head |-> IF q.ready_tail = NULL THEN t ELSE q.ready_head,
         ready_tail |-> t,
         next |-> IF q.ready_tail = NULL THEN cut
                  ELSE [cut EXCEPT ![q.ready_tail] = t],
         runnable_count |-> q.runnable_count + 1]

\* What mcsos_sched_pick_next returns, and the queue it leaves.
Picked(q) == IF q.ready_head = NULL THEN idle ELSE q.ready_head

AfterPick(q) ==
    IF q.ready_head = NULL THEN q
    ELSE LET head == q.next[q.ready_head]
         IN  [ready_head |-> head,
              ready_tail |-> IF head = NULL THEN NULL ELSE q.ready_tail,
              next |-> [q.next EXCEPT ![q.ready_head] = NULL],
              runnable_count |-> IF q.runnable_count > 0
                                 THEN q.runnable_count - 1 ELSE 0]

FifoAfterPick == IF fifo = <<>> THEN <<>> ELSE Tail(fifo)

\* Mutant: a counter that does not wrap.
BumpUnbounded(n) == n + 1

\* Statistics: yield counts the switch for both threads and for the scheduler.
Bump(n) == (n + 1) % CounterMod

\* Mutant: only the thread that leaves is charged.
AcctSwitchOld(old, new) ==
    [acct EXCEPT !.context_switches = Bump(@), !.switches[old] = Bump(@)]

AcctSwitch(old, new) ==
    [acct EXCEPT !.context_switches = Bump(@), !.switches[old] = Bump(@),
                 !.switches[new] = Bump(@)]

-----------------------------------------------------------------------------
(* Static storage is zero: NEW is 0, no object has its magic yet.           *)

Init ==
    /\ initialized = FALSE
    /\ current = NULL
    /\ idle = NULL
    /\ rq = [ready_head |-> NULL, ready_tail |-> NULL,
             next |-> [t \in Thread |-> NULL], runnable_count |-> 0]
    /\ magic = [t \in Thread |-> FALSE]
    /\ state = [t \in Thread |-> "NEW"]
    /\ rip = [t \in Thread |-> NULL]
    /\ frame = [t \in Thread |-> [base |-> 0, size |-> 0, rsp |-> 0]]
    /\ cpu = "code"
    /\ acct = [context_switches |-> 0, ticks |-> 0,
               switches |-> [t \in Thread |-> 0],
               thread_ticks |-> [t \in Thread |-> 0]]
    /\ retired = [switches |-> 0, ticks |-> 0]
    /\ fifo = <<>>
    /\ ret = "OK"

\* The guard most entry points share.
Live == initialized /\ magic[current]

\* In the kernel build the caller is the code on the CPU, and the trampoline
\* calls nothing.
CallerRuns == HostTest \/ cpu = "code"

Fail(code) ==
    /\ ret' = code
    /\ UNCHANGED <<initialized, current, idle, rq, magic, state, rip, frame, cpu,
                   acct, retired, fifo>>

mcsos_scheduler_init ==
    /\ CallerRuns
    /\ initialized' = TRUE
    /\ current' = Boot
    /\ idle' = Boot
    /\ rq' = [ready_head |-> NULL, ready_tail |-> NULL,
              next |-> [rq.next EXCEPT ![Boot] = NULL], runnable_count |-> 0]
    /\ magic' = [magic EXCEPT ![Boot] = TRUE]
    /\ state' = [state EXCEPT ![Boot] = "RUNNING"]
    /\ rip' = [rip EXCEPT ![Boot] = NULL]
    /\ frame' = [frame EXCEPT ![Boot] = [base |-> 0, size |-> 0, rsp |-> 0]]
    /\ acct' = [context_switches |-> 0, ticks |-> 0,
                switches |-> [acct.switches EXCEPT ![Boot] = 0],
                thread_ticks |-> [acct.thread_ticks EXCEPT ![Boot] = 0]]
    /\ fifo' = <<>>
    /\ ret' = "OK"
    /\ UNCHANGED <<cpu, retired>>

\* stack = NULL stands for a call with a missing argument.
mcsos_thread_prepare(t, stack) ==
    /\ CallerRuns
    /\ IF stack = NULL THEN Fail("EINVAL")
       ELSE IF ~StackAccepted(stack.base, stack.size) THEN Fail("ESTACK")
       ELSE /\ magic' = [magic EXCEPT ![t] = TRUE]
            /\ state' = [state EXCEPT ![t] = "NEW"]
            /\ rip' = [rip EXCEPT ![t] = "trampoline"]
            /\ frame' = [frame EXCEPT ![t] =
                 [base |-> stack.base, size |-> stack.size,
                  rsp |-> InitialRsp(stack.base, stack.size)]]
            /\ rq' = [rq EXCEPT !.next[t] = NULL]
            /\ acct' = [acct EXCEPT !.switches[t] = 0, !.thread_ticks[t] = 0]
            /\ retired' =
                 [switches |-> (retired.switches + acct.switches[t]) % CounterMod,
                  ticks |-> (retired.ticks + acct.thread_ticks[t]) % CounterMod]
            /\ ret' = "OK"
            /\ UNCHANGED <<initialized, current, idle, cpu, fifo>>

\* Mutant: the state is written before it is examined.
EnqueueStateFirst(t) ==
    /\ CallerRuns
    /\ IF ~initialized \/ ~magic[t] THEN Fail("EINVAL")
       ELSE IF state[t] \notin {"NEW", "READY", "BLOCKED"}
       THEN /\ ret' = "ESTATE"
            /\ state' = [state EXCEPT ![t] = "READY"]
            /\ UNCHANGED <<initialized, current, idle, rq, magic, rip, frame, cpu,
                           acct, retired, fifo>>
       ELSE /\ state' = [state EXCEPT ![t] = "READY"]
            /\ rq' = Appended(rq, t)
            /\ fifo' = Append(fifo, t)
            /\ ret' = "OK"
            /\ UNCHANGED <<initialized, current, idle, magic, rip, frame, cpu, acct,
                           retired>>

mcsos_sched_enqueue(t) ==
    /\ CallerRuns
    /\ IF ~initialized \/ ~magic[t] THEN Fail("EINVAL")
       ELSE IF state[t] \notin {"NEW", "READY", "BLOCKED"} THEN Fail("ESTATE")
       ELSE /\ state' = [state EXCEPT ![t] = "READY"]
            /\ rq' = Appended(rq, t)
            /\ fifo' = Append(fifo, t)
            /\ ret' = "OK"
            /\ UNCHANGED <<initialized, current, idle, magic, rip, frame, cpu, acct,
                           retired>>

\* The public function on its own; mcsos_sched_yield has its own call of it.
mcsos_sched_pick_next ==
    /\ CallerRuns
    /\ IF ~initialized THEN Fail(NULL)
       ELSE /\ ret' = Picked(rq)
            /\ rq' = AfterPick(rq)
            /\ fifo' = FifoAfterPick
            /\ UNCHANGED <<initialized, current, idle, magic, state, rip, frame, cpu,
                           acct, retired>>


\* mcsos_sched_yield once its guards have passed, st being the thread states
\* on entry: mcsos_thread_block_current has already written one of them.
YieldFrom(st) ==
    LET new == Picked(rq)
        q == AfterPick(rq)
        requeue == st[current] = "RUNNING" /\ current # idle
    IN  IF ~magic[new]
        THEN /\ ret' = "ECORRUPT"
             /\ state' = st
             /\ rq' = q
             /\ fifo' = FifoAfterPick
             /\ UNCHANGED <<initialized, current, idle, magic, rip, frame, cpu, acct,
                            retired>>
        ELSE IF new = current
        THEN /\ ret' = "OK"
             /\ state' = [st EXCEPT ![current] = "RUNNING"]
             /\ rq' = q
             /\ fifo' = FifoAfterPick
             /\ UNCHANGED <<initialized, current, idle, magic, rip, frame, cpu, acct,
                            retired>>
        ELSE /\ rq' = IF requeue THEN Appended(q, current) ELSE q
             /\ fifo' = IF requeue THEN Append(FifoAfterPick, current)
                        ELSE FifoAfterPick
             /\ state' = [st EXCEPT ![current] = IF requeue THEN "READY" ELSE @,
                                    ![new] = "RUNNING"]
             /\ current' = new
             /\ acct' = AcctSwitch(current, new)
             /\ ret' = "OK"
             /\ IF HostTest THEN UNCHANGED <<rip, cpu>>
                ELSE /\ rip' = [rip EXCEPT ![current] = "continuation"]
                     /\ cpu' = IF rip[new] = "continuation" THEN "code"
                               ELSE rip[new]
             /\ UNCHANGED <<initialized, idle, magic, frame, retired>>

mcsos_sched_yield ==
    /\ CallerRuns
    /\ IF ~Live THEN Fail("EINVAL") ELSE YieldFrom(state)

mcsos_sched_tick ==
    /\ CallerRuns
    /\ IF ~Live THEN Fail("EINVAL")
       ELSE /\ acct' = [acct EXCEPT !.ticks = Bump(@),
                                    !.thread_ticks[current] = Bump(@)]
            /\ ret' = "OK"
            /\ UNCHANGED <<initialized, current, idle, rq, magic, state, rip,
                           frame, cpu, retired, fifo>>

mcsos_thread_block_current ==
    /\ CallerRuns
    /\ IF ~Live THEN Fail("EINVAL")
       ELSE IF current = idle THEN Fail("ESTATE")
       ELSE YieldFrom([state EXCEPT ![current] = "BLOCKED"])

\* Mutant: the wake-up does not look at the thread's state.
MarkReadyUnchecked(t) ==
    /\ CallerRuns
    /\ IF ~magic[t] THEN Fail("EINVAL") ELSE mcsos_sched_enqueue(t)

\* Only a blocked thread goes on to mcsos_sched_enqueue, whose first guard
\* is all that is left to fail.
mcsos_thread_mark_ready(t) ==
    /\ CallerRuns
    /\ IF ~magic[t] THEN Fail("EINVAL")
       ELSE IF state[t] # "BLOCKED" THEN Fail("ESTATE")
       ELSE mcsos_sched_enqueue(t)

-----------------------------------------------------------------------------
(* The walks of mcsos_sched_ready_count and mcsos_sched_validate.           *)

\* The cursor of both loops after k iterations.
Cursor(bound) ==
    LET Follow(t) == IF t = NULL THEN NULL ELSE rq.next[t]
        c[k \in 0..bound] == IF k = 0 THEN rq.ready_head ELSE Follow(c[k - 1])
    IN  c

\* A walk that has not met NULL after visiting as many nodes as there are
\* threads is in a cycle and never ends.
WalkLengths ==
    LET c == Cursor(Cardinality(Thread))
    IN  {k \in 0..Cardinality(Thread) :
            c[k] = NULL /\ \A j \in 0..(k - 1) : c[j] # NULL}

WalkEnds == WalkLengths # {}

mcsos_sched_ready_count ==
    IF ~initialized THEN 0 ELSE CHOOSE k \in WalkLengths : TRUE

\* Mutant: the number of nodes is not compared with runnable_count.
ValidateNoCount ==
    LET c == Cursor(rq.runnable_count + 1)
        Bad(k) == ~magic[c[k]] \/ state[c[k]] # "READY" \/ c[k] = current
        ends == {k \in DOMAIN c : c[k] = NULL /\ \A j \in 0..(k - 1) : c[j] # NULL}
    IN  IF ~Live THEN "EINVAL"
        ELSE IF \E k \in DOMAIN c : c[k] # NULL /\ Bad(k) THEN "ECORRUPT"
        ELSE IF ends = {} THEN "ECORRUPT"
        ELSE LET count == CHOOSE k \in ends : TRUE
                 last == IF count = 0 THEN NULL ELSE c[count - 1]
             IN  IF last # rq.ready_tail THEN "ECORRUPT" ELSE "OK"

\* The loop stops at the first NULL, at a bad node, or when it has counted
\* more than runnable_count + 1 nodes.
mcsos_sched_validate ==
    LET c == Cursor(rq.runnable_count + 1)
        Bad(k) == ~magic[c[k]] \/ state[c[k]] # "READY" \/ c[k] = current
        ends == {k \in DOMAIN c : c[k] = NULL /\ \A j \in 0..(k - 1) : c[j] # NULL}
    IN  IF ~Live THEN "EINVAL"
        ELSE IF \E k \in DOMAIN c : c[k] # NULL /\ Bad(k) THEN "ECORRUPT"
        ELSE IF ends = {} THEN "ECORRUPT"
        ELSE LET count == CHOOSE k \in ends : TRUE
                 last == IF count = 0 THEN NULL ELSE c[count - 1]
             IN  IF last # rq.ready_tail \/ count # rq.runnable_count
                 THEN "ECORRUPT" ELSE "OK"

-----------------------------------------------------------------------------
(* Callers.  The transition table of the design gives each function the    *)
(* states it is for: init comes once, enqueue starts a thread that is not   *)
(* yet queued, pick_next is called by yield only, and an object is prepared *)
(* when it is neither queued nor on the CPU.  Next obeys the table; AnyNext *)
(* does not, and makes every call with every argument.                      *)

MayPrepare(t) == t # Boot /\ state[t] \in {"NEW", "BLOCKED"}

MayEnqueue(t) == state[t] # "READY"

Next ==
    \/ ~initialized /\ mcsos_scheduler_init
    \/ \E t \in Thread, stack \in Stacks \cup {NULL} :
          MayPrepare(t) /\ mcsos_thread_prepare(t, stack)
    \/ \E t \in Thread : MayEnqueue(t) /\ mcsos_sched_enqueue(t)
    \/ mcsos_sched_yield
    \/ mcsos_sched_tick
    \/ mcsos_thread_block_current
    \/ \E t \in Thread : mcsos_thread_mark_ready(t)

Spec == Init /\ [][Next]_vars

\* A cooperative system makes progress only if the code on the CPU keeps
\* calling yield.
FairSpec == Spec /\ WF_vars(mcsos_sched_yield)

AnyNext ==
    \/ mcsos_scheduler_init
    \/ \E t \in Thread, stack \in Stacks \cup {NULL} :
          mcsos_thread_prepare(t, stack)
    \/ \E t \in Thread :
          rq.runnable_count < MaxRunnable /\ mcsos_sched_enqueue(t)
    \/ mcsos_sched_pick_next
    \/ mcsos_sched_yield
    \/ mcsos_sched_tick
    \/ mcsos_thread_block_current
    \/ \E t \in Thread : mcsos_thread_mark_ready(t)

AnySpec == Init /\ [][AnyNext]_vars

-----------------------------------------------------------------------------
(* Properties.                                                              *)

\* Type invariant: every field keeps its C type, and a pointer is NULL or
\* a thread object.
TypeOK ==
    /\ initialized \in BOOLEAN
    /\ current \in Thread \cup {NULL} /\ idle \in Thread \cup {NULL}
    /\ rq \in [ready_head : Thread \cup {NULL}, ready_tail : Thread \cup {NULL},
                next : [Thread -> Thread \cup {NULL}], runnable_count : Nat]
    /\ magic \in [Thread -> BOOLEAN]
    /\ state \in [Thread -> ThreadState]
    /\ rip \in [Thread -> {NULL, "trampoline", "continuation"}]
    /\ frame \in [Thread -> [base : Word, size : Word, rsp : Word]]
    /\ cpu \in {"code", "trampoline", NULL}
    /\ acct \in [context_switches : 0..(CounterMod - 1), ticks : 0..(CounterMod - 1),
                  switches : [Thread -> 0..(CounterMod - 1)],
                  thread_ticks : [Thread -> 0..(CounterMod - 1)]]
    /\ retired \in [switches : 0..(CounterMod - 1), ticks : 0..(CounterMod - 1)]
    /\ fifo \in Seq(Thread)

\* The linked list is a well-formed FIFO: head, next and tail spell out the
\* threads in the order they became ready, each once, ending in NULL, and
\* runnable_count is their number.  Pointer updates of enqueue and pick_next
\* must agree with one another through every legal sequence of calls.
QueueIntact ==
    /\ rq.runnable_count = Len(fifo)
    /\ rq.ready_head = IF fifo = <<>> THEN NULL ELSE fifo[1]
    /\ rq.ready_tail = IF fifo = <<>> THEN NULL ELSE fifo[Len(fifo)]
    /\ \A i \in 1..Len(fifo) :
         rq.next[fifo[i]] = IF i = Len(fifo) THEN NULL ELSE fifo[i + 1]
    /\ \A i, j \in 1..Len(fifo) : fifo[i] = fifo[j] => i = j

\* No thread is lost or runs twice: the READY threads are exactly those in
\* the queue, the thread on the CPU is RUNNING and not queued, no other
\* thread but idle claims to be RUNNING, and a thread outside the queue has
\* no link left.
ReadyIffQueued ==
    /\ \A t \in Thread :
         /\ state[t] = "READY" <=> \E i \in 1..Len(fifo) : fifo[i] = t
         /\ state[t] = "READY" => magic[t]
         /\ state[t] = "RUNNING" => t \in {current, idle}
         /\ state[t] # "READY" => rq.next[t] = NULL
    /\ initialized => state[current] = "RUNNING"

\* A thread that has not run yet starts inside its own stack: the pointer
\* mcsos_thread_prepare left in its context, and the zero slot below the top,
\* lie in the caller's buffer, which does not wrap around the address space,
\* and the slot ends on an aligned address.
FirstFrameInside ==
    \A t \in Thread : rip[t] = "trampoline" =>
      LET f == frame[t]
      IN  /\ f.base <= f.rsp /\ f.rsp + SlotSize <= f.base + f.size
          /\ f.base + f.size < WordMod
          /\ (f.rsp + SlotSize) % StackAlign = 0

\* Every context switch is charged to the two threads it is about and every
\* tick to the thread that was running: the scheduler's totals are the sums
\* of the threads' counters, including those wiped when an object is reused.
AccountingBalances ==
    /\ (SumFunction(acct.switches) + retired.switches) % CounterMod
         = (2 * acct.context_switches) % CounterMod
    /\ (SumFunction(acct.thread_ticks) + retired.ticks) % CounterMod = acct.ticks

\* Round robin: while the code on the CPU keeps yielding, every READY thread
\* gets the CPU, however many threads arrive, block or wake meanwhile.
ReadyRuns == \A t \in Threads : state[t] = "READY" ~> current = t


\* The queue as a walk from ready_head reads it.
QueueSeq ==
    [i \in 1..mcsos_sched_ready_count |-> Cursor(Cardinality(Thread))[i - 1]]

RR == INSTANCE RoundRobin WITH running <- current, waiting <- QueueSeq

\* The pointers implement a round-robin queue: every call moves the queue a
\* walk of the list would read, and the CPU, as the abstract scheduler does.
RoundRobinSpec == RR!Spec

\* What mcsos_sched_validate is for, said without its loop: some sequence of
\* distinct, READY threads other than the current one is spelled out by the
\* pointers from head to tail and has runnable_count members.
WellFormed ==
    \E n \in 0..Cardinality(Thread) : \E q \in [1..n -> Thread] :
      /\ rq.runnable_count = n
      /\ IsInjective(q)
      /\ rq.ready_head = IF n = 0 THEN NULL ELSE q[1]
      /\ rq.ready_tail = IF n = 0 THEN NULL ELSE q[n]
      /\ \A i \in 1..n :
           /\ rq.next[q[i]] = IF i = n THEN NULL ELSE q[i + 1]
           /\ magic[q[i]] /\ state[q[i]] = "READY" /\ q[i] # current

\* Whatever the callers do, mcsos_sched_validate answers OK exactly on the
\* well-formed queues: it terminates on a cyclic list and misses no damage.
ValidateExact ==
    initialized /\ magic[current] => (mcsos_sched_validate = "OK" <=> WellFormed)

\* Whatever the callers do, a call that returns an error code has changed no
\* thread state, no queue link and no counter.
ErrorsChangeNothing ==
    [][ret' \in Errors =>
         UNCHANGED <<initialized, current, idle, rq, magic, state, rip, frame,
                     acct>>]_vars

\* From the design document: a double enqueue is refused, so the list never
\* closes into a cycle, whatever the callers do.
QueueAcyclic == WalkEnds

============================================================================
