-------------------------------- MODULE Kmem --------------------------------
(***************************************************************************)
(* The kernel heap of kernel/mm/kmem.c: a first-fit allocator whose blocks *)
(* carry a header inside the arena and form a doubly linked list.          *)
(*                                                                         *)
(* A header at address a is the value of the header fields at a: magic     *)
(* (does it hold KMEM_MAGIC?), size, free, prev and next.  Payload bytes   *)
(* are not modelled; it is assumed that no payload holds KMEM_MAGIC where  *)
(* a header could be.  The scan of kmem_alloc and the merging loops of     *)
(* kmem_free_checked are run one iteration per step, phase saying which    *)
(* loop the CPU is in; no other call starts before it is done.             *)
(***************************************************************************)
EXTENDS Integers, FiniteSets, FiniteSetsExt, Functions

CONSTANTS
    Align,          \* KMEM_ALIGN
    HeaderSize,     \* sizeof(kmem_block_t), a multiple of Align
    MinSplit,       \* KMEM_MIN_SPLIT
    WordMod,        \* SIZE_MAX + 1
    MaxAddr,        \* bound: the last address of any arena
    Arenas,         \* the [base, bytes] buffers passed to kmem_init
    Requests,       \* the sizes passed to kmem_alloc
    Arrays,         \* the <<count, bytes>> passed to kmem_calloc
    ValidateGuard   \* the 1048576 nodes kmem_validate walks at most

NULL == 0

Addr == 1..MaxAddr

ASSUME KmemConstants ==
    /\ Align \in Nat \ {0} /\ HeaderSize \in Nat \ {0} /\ MinSplit \in Nat
    /\ HeaderSize % Align = 0
    /\ WordMod \in Nat /\ MaxAddr \in Nat /\ MaxAddr + Align < WordMod
    /\ Arenas \subseteq [base : Nat, bytes : Nat]
    /\ \A a \in Arenas : a.base + a.bytes <= MaxAddr
    /\ Requests \subseteq 0..(WordMod - 1)
    /\ Arrays \subseteq (0..(WordMod - 1)) \X (0..(WordMod - 1))
    /\ ValidateGuard \in Nat

\* No arena has room for more blocks than kmem_validate walks: the 64 KiB of
\* kmain.c:13 hold 1365 headers, far from 1048576.
ASSUME ArenasBelowGuard ==
    \A a \in Arenas : a.bytes <= ValidateGuard * HeaderSize

VARIABLES
    heap_base, heap_end, initialized,
    magic, size, free, prev, next,  \* the headers, by address
    phase,      \* "idle", "scan", "forward", "backward"
    cur,        \* the block the running loop is at
    wanted,     \* the rounded size kmem_alloc looks for
    asked,      \* ghost: the bytes its caller asked for
    live,       \* ghost: <<pointer, bytes>> handed out and not freed
    ret         \* what the last call returned; 0 while one runs

headers == <<magic, size, free, prev, next>>
arena == <<heap_base, heap_end, initialized>>
vars == <<arena, headers, phase, cur, wanted, asked, live, ret>>

\* g_head is written once, with g_heap_base.
g_head == heap_base

-----------------------------------------------------------------------------
\* Mutant: sizes are rounded down.
AlignDown(value) == value - (value % Align)

\* kmem_align_up_size and kmem_align_up_ptr: 0 on overflow.
kmem_align_up(value) ==
    IF value > WordMod - Align THEN 0
    ELSE LET v == value + Align - 1 IN v - (v % Align)

kmem_payload(b) == b + HeaderSize

kmem_ptr_in_heap(p) == initialized /\ p >= heap_base /\ p < heap_end

\* Where block b ends and the next header is expected.
End(b) == kmem_payload(b) + size[b]

-----------------------------------------------------------------------------
(* kmem_validate and kmem_get_stats walk the list.                          *)

\* The cursor of their loops after k iterations, NULL once past the end.
Walk(bound) ==
    LET link == [b \in 0..MaxAddr |-> IF b = NULL THEN NULL ELSE next[b]]
        w[k \in 0..bound] == IF k = 0 THEN g_head ELSE link[w[k - 1]]
    IN  w

\* What the loop body says of block b, met after block `before' where a
\* header is expected at cursor.
ValidateCode(b, before, cursor) ==
    IF b # cursor THEN -4
    ELSE IF b < heap_base \/ kmem_payload(b) > heap_end THEN -5
    ELSE IF ~magic[b] THEN -6
    ELSE IF prev[b] # before THEN -7
    ELSE IF size[b] > heap_end - kmem_payload(b) THEN -8
    ELSE IF kmem_align_up(End(b)) \notin 1..heap_end THEN -9
    ELSE 0

kmem_validate ==
    LET w == Walk(ValidateGuard)
        Code(k) == IF k = 0 THEN ValidateCode(w[0], NULL, heap_base)
                   ELSE ValidateCode(w[k], w[k - 1], kmem_align_up(End(w[k - 1])))
        bad == {k \in 0..(ValidateGuard - 1) : w[k] # NULL /\ Code(k) # 0}
    IN  IF ~initialized \/ heap_base = NULL \/ heap_end <= heap_base THEN -1
        ELSE IF g_head # heap_base THEN -2
        ELSE IF bad # {} THEN Code(Min(bad))
        ELSE IF w[ValidateGuard] # NULL THEN -3
        ELSE 0

-----------------------------------------------------------------------------
Init ==
    /\ heap_base = NULL /\ heap_end = NULL /\ initialized = FALSE
    /\ magic = [a \in Addr |-> FALSE] /\ free = [a \in Addr |-> FALSE]
    /\ size = [a \in Addr |-> 0]
    /\ prev = [a \in Addr |-> NULL] /\ next = [a \in Addr |-> NULL]
    /\ phase = "idle" /\ cur = NULL /\ wanted = 0 /\ asked = 0
    /\ live = {} /\ ret = 0

\* The argument checks of kmem_init; 0 when they pass.
InitCode(base, bytes) ==
    LET start == kmem_align_up(base)
        lost == start - base
        usable == (bytes - lost) - ((bytes - lost) % Align)
    IN  IF base = NULL \/ bytes < HeaderSize + MinSplit THEN -1
        ELSE IF start = 0 \/ start < base THEN -2
        ELSE IF bytes <= lost + HeaderSize + MinSplit THEN -3
        ELSE IF usable <= HeaderSize + MinSplit THEN -4
        ELSE 0

kmem_init(base, bytes) ==
    LET start == kmem_align_up(base)
        usable == (bytes - (start - base)) - ((bytes - (start - base)) % Align)
    IN  /\ phase = "idle"
        /\ IF InitCode(base, bytes) # 0
           THEN ret' = InitCode(base, bytes) /\ UNCHANGED <<arena, headers>>
           ELSE /\ heap_base' = start
                /\ heap_end' = start + usable
                /\ initialized' = TRUE
                /\ magic' = [magic EXCEPT ![start] = TRUE]
                /\ size' = [size EXCEPT ![start] = usable - HeaderSize]
                /\ free' = [free EXCEPT ![start] = TRUE]
                /\ prev' = [prev EXCEPT ![start] = NULL]
                /\ next' = [next EXCEPT ![start] = NULL]
                /\ ret' = kmem_validate'
        /\ UNCHANGED <<phase, cur, wanted, asked, live>>

\* Entry of kmem_alloc, up to the start of its loop.
kmem_alloc(bytes) ==
    /\ phase = "idle"
    /\ IF ~initialized \/ bytes = 0 \/ kmem_align_up(bytes) = 0
       THEN ret' = NULL /\ UNCHANGED <<phase, cur, wanted, asked>>
       ELSE /\ phase' = "scan"
            /\ cur' = g_head
            /\ wanted' = kmem_align_up(bytes)
            /\ asked' = bytes
            /\ ret' = 0
    /\ UNCHANGED <<arena, headers, live>>

\* kmem_calloc allocates the product; its memset writes payload bytes only.
kmem_calloc(count, bytes) ==
    IF count # 0 /\ bytes > (WordMod - 1) \div count
    THEN /\ phase = "idle"
         /\ ret' = NULL
         /\ UNCHANGED <<arena, headers, phase, cur, wanted, asked, live>>
    ELSE kmem_alloc(count * bytes)

\* kmem_split_if_useful carves a block off the end of cur.
SplitUseful ==
    LET new_addr == kmem_align_up(kmem_payload(cur) + wanted)
        consumed == new_addr - kmem_payload(cur)
    IN  /\ size[cur] >= wanted + HeaderSize + MinSplit
        /\ new_addr # 0
        /\ new_addr + HeaderSize < heap_end
        /\ size[cur] > consumed + HeaderSize + MinSplit

\* Mutant: the new header is not subtracted from what is left.
SplitForgetsHeader ==
    LET new_block == kmem_align_up(kmem_payload(cur) + wanted)
        consumed == new_block - kmem_payload(cur)
    IN  /\ magic' = [magic EXCEPT ![new_block] = TRUE]
        /\ size' = [size EXCEPT ![new_block] = size[cur] - consumed, ![cur] = wanted]
        /\ free' = [free EXCEPT ![new_block] = TRUE, ![cur] = FALSE]
        /\ prev' = [a \in Addr |-> IF a = new_block THEN cur
                                   ELSE IF a = next[cur] THEN new_block
                                   ELSE prev[a]]
        /\ next' = [next EXCEPT ![new_block] = next[cur], ![cur] = new_block]

Split ==
    LET new_block == kmem_align_up(kmem_payload(cur) + wanted)
        consumed == new_block - kmem_payload(cur)
    IN  /\ magic' = [magic EXCEPT ![new_block] = TRUE]
        /\ size' = [size EXCEPT ![new_block] = size[cur] - consumed - HeaderSize,
                                ![cur] = wanted]
        /\ free' = [free EXCEPT ![new_block] = TRUE, ![cur] = FALSE]
        /\ prev' = [a \in Addr |-> IF a = new_block THEN cur
                                   ELSE IF a = next[cur] THEN new_block
                                   ELSE prev[a]]
        /\ next' = [next EXCEPT ![new_block] = next[cur], ![cur] = new_block]

\* Mutant: an exact fit is passed over.
FitsStrictly == free[cur] /\ size[cur] > wanted

Fits == free[cur] /\ size[cur] >= wanted

\* Mutant: the cursor is not advanced.
ScanStuck ==
    /\ phase = "scan" /\ cur # NULL
    /\ magic[cur] /\ ~Fits
    /\ UNCHANGED vars

\* One iteration of kmem_alloc's loop that goes on to the next block.
ScanOn ==
    /\ phase = "scan" /\ cur # NULL
    /\ magic[cur] /\ ~Fits
    /\ cur' = next[cur]
    /\ UNCHANGED <<arena, headers, phase, wanted, asked, live, ret>>

\* The loop finds a block, splits it, and returns its payload.
ScanHit ==
    /\ phase = "scan" /\ cur # NULL
    /\ magic[cur] /\ Fits
    /\ IF SplitUseful THEN Split
       ELSE /\ free' = [free EXCEPT ![cur] = FALSE]
            /\ UNCHANGED <<magic, size, prev, next>>
    /\ live' = live \cup {<<kmem_payload(cur), asked>>}
    /\ ret' = kmem_payload(cur)
    /\ phase' = "idle" /\ cur' = NULL /\ wanted' = 0 /\ asked' = 0
    /\ UNCHANGED arena

\* The loop runs off the list, or meets a header without its magic.
ScanMiss ==
    /\ phase = "scan"
    /\ cur # NULL => ~magic[cur]
    /\ ret' = NULL
    /\ phase' = "idle" /\ cur' = NULL /\ wanted' = 0 /\ asked' = 0
    /\ UNCHANGED <<arena, headers, live>>

\* Mutant: a block that is already free is freed again.
FreeCodeNoDouble(ptr) ==
    LET block == ptr - HeaderSize
    IN  IF ~kmem_ptr_in_heap(ptr) THEN -1
        ELSE IF ptr % Align # 0 THEN -2
        ELSE IF ~kmem_ptr_in_heap(block) \/ ~magic[block] THEN -3
        ELSE 0

\* The checks of kmem_free_checked on a non-null pointer; 0 when they pass.
FreeCode(ptr) ==
    LET block == ptr - HeaderSize
    IN  IF ~kmem_ptr_in_heap(ptr) THEN -1
        ELSE IF ptr % Align # 0 THEN -2
        ELSE IF ~kmem_ptr_in_heap(block) \/ ~magic[block] THEN -3
        ELSE IF free[block] THEN -4
        ELSE 0

kmem_free_checked(ptr) ==
    LET block == ptr - HeaderSize
    IN  /\ phase = "idle"
        /\ IF ptr = NULL \/ FreeCode(ptr) # 0
           THEN /\ ret' = IF ptr = NULL THEN 0 ELSE FreeCode(ptr)
                /\ UNCHANGED <<free, phase, cur, live>>
           ELSE /\ free' = [free EXCEPT ![block] = TRUE]
                /\ live' = {p \in live : p[1] # ptr}
                /\ phase' = "forward"
                /\ cur' = block
                /\ ret' = 0
        /\ UNCHANGED <<arena, magic, size, prev, next, wanted, asked>>

\* The loop condition of kmem_coalesce_forward, its early return included.
Mergeable ==
    /\ next[cur] # NULL
    /\ free[next[cur]]
    /\ kmem_align_up(End(cur)) = next[cur]

\* Mutant: the absorbed header keeps its magic.
CoalesceKeepsMagic ==
    LET absorbed == next[cur]
    IN  /\ phase \in {"forward", "backward"}
        /\ Mergeable
        /\ size' = [size EXCEPT ![cur] = @ + HeaderSize + size[absorbed]]
        /\ next' = [next EXCEPT ![cur] = next[absorbed], ![absorbed] = NULL]
        /\ prev' = [a \in Addr |-> IF a = absorbed THEN NULL
                                   ELSE IF a = next[absorbed] THEN cur
                                   ELSE prev[a]]
        /\ UNCHANGED <<arena, magic, free, phase, cur, wanted, asked, live, ret>>

\* One iteration of kmem_coalesce_forward(cur).
Coalesce ==
    LET absorbed == next[cur]
    IN  /\ phase \in {"forward", "backward"}
        /\ Mergeable
        /\ size' = [size EXCEPT ![cur] = @ + HeaderSize + size[absorbed],
                                ![absorbed] = 0]
        /\ next' = [next EXCEPT ![cur] = next[absorbed], ![absorbed] = NULL]
        /\ prev' = [a \in Addr |-> IF a = absorbed THEN NULL
                                   ELSE IF a = next[absorbed] THEN cur
                                   ELSE prev[a]]
        /\ magic' = [magic EXCEPT ![absorbed] = FALSE]
        /\ UNCHANGED <<arena, free, phase, cur, wanted, asked, live, ret>>

\* Mutant: the block before is never merged.
CoalesceForwardOnly ==
    /\ phase \in {"forward", "backward"}
    /\ ~Mergeable
    /\ phase' = "idle" /\ cur' = NULL /\ ret' = kmem_validate
    /\ UNCHANGED <<arena, headers, wanted, asked, live>>

\* The forward merge is over: go on with the block before, or return.
CoalesceDone ==
    LET back == phase = "forward" /\ prev[cur] # NULL /\ free[prev[cur]]
    IN  /\ phase \in {"forward", "backward"}
        /\ ~Mergeable
        /\ phase' = IF back THEN "backward" ELSE "idle"
        /\ cur' = IF back THEN prev[cur] ELSE NULL
        /\ ret' = IF back THEN ret ELSE kmem_validate
        /\ UNCHANGED <<arena, headers, wanted, asked, live>>

Loop == ScanOn \/ ScanHit \/ ScanMiss \/ Coalesce \/ CoalesceDone

\* m8_heap_bootstrap sets up the heap once.  Callers pass any size, and any
\* address of the arena and around it to free.
Next ==
    \/ \E a \in Arenas : ~initialized /\ kmem_init(a.base, a.bytes)
    \/ \E r \in Requests : kmem_alloc(r)
    \/ \E a \in Arrays : kmem_calloc(a[1], a[2])
    \/ \E p \in 0..(MaxAddr + 1) : kmem_free_checked(p)
    \/ Loop

Spec == Init /\ [][Next]_vars

\* A loop that has begun is run to its end by the CPU.
FairSpec == Spec /\ WF_vars(Loop)

-----------------------------------------------------------------------------
\* The blocks the loop of kmem_get_stats visits.
Listed ==
    LET w == Walk(MaxAddr \div HeaderSize) IN {w[k] : k \in DOMAIN w} \ {NULL}

kmem_get_stats ==
    LET used == {b \in Listed : ~free[b]}
        idle == {b \in Listed : free[b]}
    IN  [total_bytes |-> heap_end - heap_base,
         used_bytes |-> SumFunctionOnSet(size, used),
         free_bytes |-> SumFunctionOnSet(size, idle),
         block_count |-> Cardinality(Listed),
         free_count |-> Cardinality(idle),
         largest_free |-> Max({0} \cup {size[b] : b \in idle})]

-----------------------------------------------------------------------------
(* Properties.                                                              *)

\* The headers that hold KMEM_MAGIC.
Blocks == {a \in Addr : magic[a]}

\* The blocks tile the arena, also in the middle of a merge: each block ends
\* where the next one starts or at the end of the arena, prev undoes next,
\* no header lies inside another block, and every header that holds the
\* magic is on the list, so no stale header survives a merge.
HeapTiled ==
    initialized =>
      /\ heap_base \in Blocks /\ prev[heap_base] = NULL
      /\ \A b \in Blocks :
           /\ heap_base <= b /\ End(b) <= heap_end
           /\ IF End(b) = heap_end THEN next[b] = NULL
              ELSE next[b] = End(b) /\ End(b) \in Blocks /\ prev[End(b)] = b
           /\ b # heap_base => prev[b] \in Blocks /\ next[prev[b]] = b
           /\ \A c \in Blocks : c < b => End(c) <= b

\* Between calls no two neighbouring blocks are both free: kmem_free_checked
\* merges all there is to merge, so in particular a heap whose allocations
\* have all been freed is one block again.
FullyMerged ==
    phase = "idle" /\ initialized =>
      /\ \A b \in Blocks : free[b] /\ next[b] # NULL => ~free[next[b]]
      /\ live = {} => Blocks = {heap_base} /\ End(heap_base) = heap_end

\* What callers rely on: live allocations are aligned, hold the bytes asked
\* for, lie in the arena, and neither overlap each other nor any header.
LiveDisjoint ==
    \A p \in live :
      /\ p[1] % Align = 0 /\ p[2] > 0
      /\ heap_base + HeaderSize <= p[1] /\ p[1] + p[2] <= heap_end
      /\ \A q \in live : q # p => p[1] + p[2] <= q[1] \/ q[1] + q[2] <= p[1]
      /\ \A b \in Blocks : b + HeaderSize <= p[1] \/ p[1] + p[2] <= b

\* kmem_free_checked accepts a pointer if and only if kmem_alloc returned it
\* and it has not been freed since: double frees, interior pointers and
\* pointers into merged blocks are refused.
FreeAcceptsLive ==
    [][\A p \in 1..(MaxAddr + 1) :
         kmem_free_checked(p) =>
           (phase' = "forward" <=> \E q \in live : q[1] = p)]_vars

\* kmem_alloc takes the first block that is large enough and gives up only
\* when kmem_get_stats would report no free block as large: the scan skips
\* nothing, and no header stops it early.
FirstFit ==
    [][phase = "scan" /\ phase' = "idle" =>
         LET fit == {b \in Blocks : free[b] /\ size[b] >= wanted}
         IN  IF ret' = NULL THEN kmem_get_stats.largest_free < wanted
             ELSE /\ ret' - HeaderSize \in fit
                  /\ \A b \in fit : ret' - HeaderSize <= b]_vars

\* What the allocator says of itself is so: its own checker accepts the heap
\* after every call, which is what kmem_init and kmem_free_checked return, and
\* the statistics add up to the arena, no byte lost or counted twice
\* (kmem.c:213-280).
HeapReported ==
    LET s == kmem_get_stats
    IN  initialized =>
          /\ phase = "idle" => kmem_validate = 0
          /\ s.used_bytes + s.free_bytes + s.block_count * HeaderSize = s.total_bytes

\* Every call returns: neither the scan nor the two merging loops run forever.
CallsReturn == phase # "idle" ~> phase = "idle"

============================================================================
