----------------------------- MODULE KmemProofs -----------------------------
(***************************************************************************)
(* Proofs about the kernel heap (Kmem), for every alignment, header size   *)
(* and arena that satisfy KmemConstants: the blocks tile the arena, free   *)
(* neighbours are merged, live allocations are disjoint, and a free is     *)
(* accepted exactly for live pointers.  All of them follow from KInv, the  *)
(* inductive invariant below, which also says what the running scan and    *)
(* the running merge have established.                                     *)
(*                                                                         *)
(* The loops that walk the whole list (the scan of kmem_alloc,             *)
(* kmem_validate and kmem_get_stats) are recursive functions, and need     *)
(* induction over their length and over the blocks, from InductionFacts,   *)
(* on top of KInv.                                                         *)
(***************************************************************************)
EXTENDS Kmem, TLAPS, InductionFacts

\* KMEM_ALIGN divides x.
Aligned(x) == x % Align = 0

\* Quotient and remainder.
LEMMA DivMod ==
  ASSUME NEW m \in Nat \ {0}, NEW x \in Int
  PROVE  /\ x % m \in 0..(m - 1) /\ x \div m \in Int
         /\ x = m * (x \div m) + (x % m)
OBVIOUS

\* A multiple of m has no remainder.
LEMMA Multiple ==
  ASSUME NEW m \in Nat \ {0}, NEW k \in Int
  PROVE  (m * k) % m = 0
<1> DEFINE x == m * k
           q == x \div m
           r == x % m
<1>0. x \in Int
  OBVIOUS
<1>1. q \in Int /\ r \in 0..(m - 1) /\ x = m * q + r
  <2> HIDE DEF x
  <2> QED BY <1>0, DivMod
<1>2. r = m * (k - q)
  BY <1>1
<1>3. CASE k - q >= 1
  <2>1. m * (k - q) >= m * 1
    BY <1>3, <1>1
  <2> QED BY <2>1, <1>1, <1>2
<1>4. CASE k - q <= -1
  <2>1. m * (k - q) <= - m
    BY <1>4, <1>1
  <2> QED BY <2>1, <1>1, <1>2
<1>5. CASE k - q = 0
  BY <1>5, <1>2
<1> QED BY <1>1, <1>3, <1>4, <1>5

\* Sums and differences of aligned numbers are aligned.
LEMMA AlignedSum ==
  ASSUME NEW x \in Int, NEW y \in Int, Aligned(x), Aligned(y)
  PROVE  Aligned(x + y) /\ Aligned(x - y)
<1> DEFINE i == x \div Align
           j == y \div Align
<1>1. i \in Int /\ j \in Int /\ x = Align * i /\ y = Align * j
  BY DivMod, KmemConstants DEF Aligned
<1>2. x + y = Align * (i + j) /\ x - y = Align * (i - j)
  BY <1>1, KmemConstants
<1>3. (Align * (i + j)) % Align = 0 /\ (Align * (i - j)) % Align = 0
  <2>1. i + j \in Int /\ i - j \in Int
    BY <1>1
  <2> QED BY <2>1, Multiple, KmemConstants
<1> QED
  BY <1>2, <1>3 DEF Aligned

\* Taking the remainder off, as kmem_init does with the usable bytes, aligns.
LEMMA RoundDown ==
  ASSUME NEW x \in Nat
  PROVE  LET y == x - (x % Align)
         IN  y \in Nat /\ y <= x /\ x < y + Align /\ Aligned(y)
<1> DEFINE i == x \div Align
           y == x - (x % Align)
<1>0. /\ i \in Int /\ x % Align \in 0..(Align - 1)
      /\ x = Align * i + (x % Align)
  BY DivMod, KmemConstants
<1>1. i \in Int /\ y = Align * i /\ x % Align \in 0..(Align - 1)
  BY <1>0, KmemConstants
<1>2. x % Align <= x
  <2>1. CASE i < 0
    <3>1. Align * i <= Align * (-1)
      BY <1>1, <2>1, KmemConstants
    <3> QED BY <3>1, <1>1, KmemConstants
  <2>2. CASE i >= 0
    <3>1. Align * i >= 0
      BY <2>2, <1>1, KmemConstants
    <3> QED BY <3>1, <1>1, KmemConstants
  <2> QED BY <2>1, <2>2, <1>1
<1>3. Aligned(y)
  BY <1>1, Multiple, KmemConstants, Zenon DEF Aligned
<1> QED BY <1>1, <1>2, <1>3, KmemConstants

\* kmem_align_up returns 0 or an aligned value that is not smaller.
LEMMA AlignUp ==
  ASSUME NEW x \in Nat
  PROVE  LET y == kmem_align_up(x)
         IN  y \in Nat /\ (y # 0 => x <= y /\ y < x + Align /\ Aligned(y))
<1> DEFINE v == x + Align - 1
           y == v - (v % Align)
<1>1. v \in Nat
  BY KmemConstants
<1>2. y \in Nat /\ y <= v /\ v < y + Align /\ Aligned(y)
  <2> HIDE DEF v
  <2> QED BY <1>1, RoundDown
<1>3. kmem_align_up(x) = IF x > WordMod - Align THEN 0 ELSE y
  BY DEF kmem_align_up
<1> HIDE DEF y
<1> QED BY <1>2, <1>3, KmemConstants

\* The only aligned number below Align is 0.
LEMMA AlignedSmall ==
  ASSUME NEW d \in Nat, d < Align, Aligned(d)
  PROVE  d = 0
<1> DEFINE q == d \div Align
<1>1. q \in Int /\ d = Align * q
  BY DivMod, KmemConstants DEF Aligned
<1>2. CASE q >= 1
  <2>1. Align * q >= Align
    BY <1>1, <1>2, KmemConstants
  <2> QED BY <2>1, <1>1, KmemConstants
<1>3. CASE q <= -1
  <2>1. Align * q <= - Align
    BY <1>1, <1>3, KmemConstants
  <2> QED BY <2>1, <1>1, KmemConstants
<1>4. CASE q = 0
  BY <1>1, <1>4, KmemConstants
<1> QED BY <1>1, <1>2, <1>3, <1>4

\* kmem_align_up leaves an aligned value alone: ends of blocks stay put.
LEMMA AlignUpSame ==
  ASSUME NEW x \in 0..MaxAddr, Aligned(x)
  PROVE  kmem_align_up(x) = x
<1> DEFINE v == x + Align - 1
           y == v - (v % Align)
<1>1. v \in Nat
  BY KmemConstants
<1>2. y \in Nat /\ y <= v /\ v < y + Align /\ Aligned(y)
  <2> HIDE DEF v
  <2> QED BY <1>1, RoundDown
<1>3. kmem_align_up(x) = y
  BY KmemConstants DEF kmem_align_up
<1> HIDE DEF y
<1>4. y - x \in Nat /\ y - x < Align
  BY <1>2, KmemConstants
<1>5. Aligned(y - x)
  BY <1>2, AlignedSum
<1>6. y - x = 0
  <2> DEFINE d == y - x
  <2> HIDE DEF d
  <2> QED BY <1>4, <1>5, AlignedSmall DEF d
<1> QED BY <1>2, <1>3, <1>6

-----------------------------------------------------------------------------
\* The types of the headers and of what callers hold.
HeaderTypes ==
    /\ heap_base \in Nat /\ heap_end \in Nat /\ initialized \in BOOLEAN
    /\ magic \in [Addr -> BOOLEAN] /\ free \in [Addr -> BOOLEAN]
    /\ size \in [Addr -> Nat]
    /\ prev \in [Addr -> 0..MaxAddr] /\ next \in [Addr -> 0..MaxAddr]
    /\ live \subseteq Nat \X Nat

\* The types of the variables of the running loop.
LoopTypes ==
    /\ phase \in {"idle", "scan", "forward", "backward"}
    /\ cur \in 0..MaxAddr /\ wanted \in Nat /\ asked \in Nat

\* Once set up, the arena ends below MaxAddr and every block starts and ends
\* aligned; before that there is no block, no allocation and no running call.
ArenaState ==
    IF initialized
    THEN /\ heap_end <= MaxAddr
         /\ \A b \in Blocks : Aligned(b) /\ Aligned(size[b])
    ELSE Blocks = {} /\ live = {} /\ phase = "idle"

\* The used blocks are the live allocations, one each, and each is as large
\* as its caller asked for.
UsedIsLive ==
    /\ \A p \in live :
         LET b == p[1] - HeaderSize
         IN  b \in Blocks /\ ~free[b] /\ 0 < p[2] /\ p[2] <= size[b]
    /\ \A p, q \in live : p[1] = q[1] => p = q
    /\ \A b \in Blocks : ~free[b] => \E p \in live : p[1] = kmem_payload(b)

\* The scan of kmem_alloc is at a block or past the last one, and no block
\* it has passed is free and large enough.
ScanState ==
    phase = "scan" =>
      /\ Aligned(wanted) /\ 0 < asked /\ asked <= wanted
      /\ cur # NULL => cur \in Blocks
      /\ \A b \in Blocks : cur = NULL \/ b < cur => ~(free[b] /\ size[b] >= wanted)

\* The merge of kmem_free_checked is at a free block, and two free
\* neighbours there are only at that block: on either side of it in the
\* forward pass, after it in the backward one.
MergeState ==
    /\ phase \in {"forward", "backward"} => cur \in Blocks /\ free[cur]
    /\ \A b \in Blocks :
         free[b] /\ next[b] # NULL /\ free[next[b]] =>
           \/ phase = "forward" /\ cur \in {b, next[b]}
           \/ phase = "backward" /\ cur = b

\* The inductive invariant.
KInv ==
    /\ HeaderTypes /\ LoopTypes /\ ArenaState /\ HeapTiled /\ UsedIsLive
    /\ ScanState /\ MergeState

-----------------------------------------------------------------------------
\* KInv holds before kmem_init.
LEMMA InitInv == Init => KInv
<1> SUFFICES ASSUME Init PROVE KInv
  OBVIOUS
<1>1. Blocks = {} /\ live = {} /\ phase = "idle" /\ ~initialized
  BY DEF Init, Blocks
<1>2. HeaderTypes
  <2>1. magic \in [Addr -> BOOLEAN] /\ free \in [Addr -> BOOLEAN]
    BY Zenon DEF Init
  <2>2. 0 \in 0..MaxAddr
    BY KmemConstants
  <2>3. /\ size \in [Addr -> Nat] /\ prev \in [Addr -> 0..MaxAddr]
        /\ next \in [Addr -> 0..MaxAddr] /\ heap_base \in Nat /\ heap_end \in Nat
    BY <2>2 DEF Init, NULL
  <2> QED BY <2>1, <2>3, Zenon DEF Init, HeaderTypes
<1>3. LoopTypes
  BY KmemConstants DEF Init, LoopTypes, NULL
<1> QED
  BY <1>1, <1>2, <1>3 DEF KInv, ArenaState, HeapTiled, UsedIsLive, ScanState, MergeState

\* KInv depends on the heap, the loop and the live allocations only: a call
\* that is refused keeps it.
LEMMA SameInv ==
  ASSUME KInv, UNCHANGED <<arena, headers, phase, cur, wanted, asked, live>>
  PROVE  KInv'
BY DEF KInv, HeaderTypes, LoopTypes, ArenaState, HeapTiled, UsedIsLive, ScanState,
     MergeState, Blocks, Addr, NULL, End, kmem_payload, arena, headers

\* The list, block by block.
LEMMA BlockFacts ==
  ASSUME KInv, initialized, NEW b \in Blocks
  PROVE  /\ b \in Addr /\ size[b] \in Nat /\ free[b] \in BOOLEAN
         /\ heap_base <= b /\ End(b) = b + HeaderSize + size[b] /\ End(b) \in 1..MaxAddr
         /\ b < End(b) /\ End(b) <= heap_end
         /\ next[b] = NULL <=> End(b) = heap_end
         /\ next[b] # NULL => next[b] = End(b) /\ next[b] \in Blocks /\ prev[next[b]] = b
         /\ prev[b] = NULL <=> b = heap_base
         /\ prev[b] # NULL => prev[b] \in Blocks /\ next[prev[b]] = b
         /\ Aligned(b) /\ Aligned(size[b]) /\ Aligned(End(b))
         /\ kmem_align_up(End(b)) = End(b)
<1>1. /\ b \in Addr /\ size[b] \in Nat /\ free[b] \in BOOLEAN /\ magic[b]
      /\ heap_base <= b /\ End(b) = b + HeaderSize + size[b]
      /\ End(b) <= heap_end /\ heap_end <= MaxAddr /\ heap_end \in Nat
      /\ Aligned(b) /\ Aligned(size[b])
  BY DEF KInv, HeaderTypes, ArenaState, HeapTiled, Blocks, End, kmem_payload
<1>2. End(b) \in 1..MaxAddr /\ b < End(b) /\ b \in Nat
  BY <1>1, KmemConstants DEF Addr
<1>3. Aligned(End(b))
  <2>1. Aligned(HeaderSize)
    BY KmemConstants DEF Aligned
  <2>2. Aligned(b + HeaderSize)
    BY <2>1, <1>1, <1>2, AlignedSum, KmemConstants
  <2>3. Aligned((b + HeaderSize) + size[b])
    <3>1. b + HeaderSize \in Int /\ size[b] \in Int
      BY <1>1, <1>2, KmemConstants
    <3> QED BY <3>1, <2>2, <1>1, AlignedSum, Zenon
  <2> QED BY <2>3, <1>1
<1>4. kmem_align_up(End(b)) = End(b)
  BY <1>2, <1>3, AlignUpSame
<1>5. IF End(b) = heap_end THEN next[b] = NULL
      ELSE next[b] = End(b) /\ End(b) \in Blocks /\ prev[End(b)] = b
  BY DEF KInv, HeapTiled
<1>6. b # heap_base => prev[b] \in Blocks /\ next[prev[b]] = b
  BY DEF KInv, HeapTiled
<1>7. prev[heap_base] = NULL /\ NULL \notin Blocks
  BY DEF KInv, HeapTiled, NULL, Blocks, Addr
<1> QED BY <1>1, <1>2, <1>3, <1>4, <1>5, <1>6, <1>7 DEF NULL

\* Blocks do not overlap.
LEMMA Apart ==
  ASSUME KInv, initialized, NEW b \in Blocks, NEW c \in Blocks, c < b
  PROVE  End(c) <= b
BY DEF KInv, HeapTiled

-----------------------------------------------------------------------------
\* The arena kmem_init accepts.
LEMMA AcceptedArena ==
  ASSUME NEW base \in Nat, NEW bytes \in Nat, base + bytes <= MaxAddr,
         InitCode(base, bytes) = 0
  PROVE  LET start == kmem_align_up(base)
             usable == (bytes - (start - base)) - ((bytes - (start - base)) % Align)
         IN  /\ start \in Addr /\ usable \in Nat /\ start + usable <= MaxAddr
             /\ HeaderSize < usable /\ Aligned(start) /\ Aligned(usable)
<1> DEFINE start == kmem_align_up(base)
           rest == bytes - (start - base)
           usable == rest - (rest % Align)
<1>1. start \in Nat /\ (start # 0 => base <= start /\ Aligned(start))
  BY AlignUp
<1>2. /\ base # 0 /\ start # 0 /\ start >= base
      /\ bytes > (start - base) + HeaderSize + MinSplit
      /\ usable > HeaderSize + MinSplit
  <2> HIDE DEF start
  <2> QED BY <1>1, KmemConstants DEF InitCode, NULL, start
<1> HIDE DEF start
<1>3. rest \in Nat /\ start + rest <= MaxAddr
  BY <1>1, <1>2, KmemConstants
<1>4. usable \in Nat /\ usable <= rest /\ Aligned(usable)
  <2> HIDE DEF rest
  <2> QED BY <1>3, RoundDown
<1> HIDE DEF usable, rest
<1>5. start \in Addr /\ start + usable <= MaxAddr /\ HeaderSize < usable
  BY <1>1, <1>2, <1>3, <1>4, KmemConstants DEF Addr
<1> QED BY <1>1, <1>2, <1>4, <1>5 DEF start, usable, rest

\* kmem_init keeps KInv: its first block is the whole arena.
LEMMA KmemInitInv ==
  ASSUME KInv, ~initialized, NEW a \in Arenas, kmem_init(a.base, a.bytes)
  PROVE  KInv'
<1> DEFINE base == a.base
           bytes == a.bytes
<1>1. base \in Nat /\ bytes \in Nat /\ base + bytes <= MaxAddr
  BY KmemConstants
<1>2. CASE InitCode(base, bytes) # 0
  BY <1>2, SameInv DEF kmem_init
<1>3. CASE InitCode(base, bytes) = 0
  <2>0. PICK start, usable :
           /\ start = kmem_align_up(base)
           /\ usable = (bytes - (start - base)) - ((bytes - (start - base)) % Align)
    OBVIOUS
  <2>1. /\ start \in Addr /\ usable \in Nat /\ start + usable <= MaxAddr
        /\ HeaderSize < usable /\ Aligned(start) /\ Aligned(usable)
    <3> HIDE DEF base, bytes
    <3> QED BY <2>0, <1>1, <1>3, AcceptedArena
  <2>2. /\ heap_base' = start /\ heap_end' = start + usable /\ initialized' = TRUE
        /\ magic' = [magic EXCEPT ![start] = TRUE]
        /\ size' = [size EXCEPT ![start] = usable - HeaderSize]
        /\ free' = [free EXCEPT ![start] = TRUE]
        /\ prev' = [prev EXCEPT ![start] = NULL]
        /\ next' = [next EXCEPT ![start] = NULL]
        /\ phase = "idle"
        /\ UNCHANGED <<phase, cur, wanted, asked, live>>
    BY <2>0, <1>3, Zenon DEF kmem_init
  <2>3. Blocks = {} /\ live = {} /\ HeaderTypes /\ LoopTypes
    BY DEF KInv, ArenaState
  <2>4. start \in Nat /\ start # 0 /\ usable - HeaderSize \in Nat
    BY <2>1, KmemConstants DEF Addr
  <2>5. HeaderTypes' /\ LoopTypes'
    BY <2>1, <2>2, <2>3, <2>4, KmemConstants DEF HeaderTypes, LoopTypes, NULL
  <2>6. Blocks' = {start}
    BY <2>1, <2>2, <2>3 DEF Blocks, HeaderTypes
  <2>7. /\ size'[start] = usable - HeaderSize /\ free'[start]
        /\ prev'[start] = NULL /\ next'[start] = NULL
    BY <2>1, <2>2, <2>3 DEF HeaderTypes
  <2>8. End(start)' = heap_end'
    BY <2>1, <2>2, <2>4, <2>7, KmemConstants DEF End, kmem_payload
  <2>9. HeapTiled'
    BY <2>1, <2>2, <2>4, <2>6, <2>7, <2>8 DEF HeapTiled
  <2>10. ArenaState'
    <3>1. Aligned(usable - HeaderSize)
      <4>1. Aligned(HeaderSize)
        BY KmemConstants DEF Aligned
      <4> QED BY <4>1, <2>1, AlignedSum, KmemConstants
    <3> QED BY <3>1, <2>1, <2>2, <2>6, <2>7 DEF ArenaState
  <2>11. UsedIsLive' /\ ScanState' /\ MergeState'
    BY <2>2, <2>3, <2>6, <2>7 DEF UsedIsLive, ScanState, MergeState
  <2> QED BY <2>5, <2>9, <2>10, <2>11 DEF KInv
<1> QED BY <1>2, <1>3

\* The entry of kmem_alloc keeps KInv: the scan starts at the first block.
LEMMA AllocInv ==
  ASSUME KInv, NEW bytes \in Nat, kmem_alloc(bytes)
  PROVE  KInv'
<1>1. CASE ~initialized \/ bytes = 0 \/ kmem_align_up(bytes) = 0
  BY <1>1, SameInv DEF kmem_alloc
<1>2. CASE ~(~initialized \/ bytes = 0 \/ kmem_align_up(bytes) = 0)
  <2>1. /\ initialized /\ phase' = "scan" /\ cur' = heap_base /\ asked' = bytes
        /\ wanted' = kmem_align_up(bytes) /\ UNCHANGED <<arena, headers, live>>
        /\ phase = "idle"
    BY <1>2 DEF kmem_alloc, g_head
  <2>2. wanted' \in Nat /\ bytes <= wanted' /\ Aligned(wanted') /\ bytes > 0
    BY <2>1, <1>2, AlignUp
  <2>3. heap_base \in Blocks /\ \A b \in Blocks : heap_base <= b /\ b \in 1..MaxAddr
    BY <2>1 DEF KInv, HeapTiled, Blocks, Addr
  <2>4. HeaderTypes' /\ HeapTiled' /\ UsedIsLive' /\ Blocks' = Blocks
    BY <2>1 DEF KInv, HeaderTypes, HeapTiled, UsedIsLive, Blocks, arena, headers, End,
         kmem_payload
  <2>5. LoopTypes'
    BY <2>1, <2>2, <2>3 DEF LoopTypes
  <2>6. ArenaState'
    BY <2>1, <2>4 DEF KInv, ArenaState, arena, headers
  <2>7. ScanState'
    BY <2>1, <2>2, <2>3, <2>4 DEF ScanState, headers, NULL
  <2>8. MergeState'
    BY <2>1, <2>4 DEF KInv, MergeState, headers
  <2> QED BY <2>4, <2>5, <2>6, <2>7, <2>8 DEF KInv
<1> QED BY <1>1, <1>2

\* kmem_calloc keeps KInv: its product is within a word when it allocates.
LEMMA CallocInv ==
  ASSUME KInv, NEW count \in Nat, NEW bytes \in Nat, kmem_calloc(count, bytes)
  PROVE  KInv'
<1>1. CASE count # 0 /\ bytes > (WordMod - 1) \div count
  BY <1>1, SameInv DEF kmem_calloc
<1>2. CASE ~(count # 0 /\ bytes > (WordMod - 1) \div count)
  <2>1. kmem_alloc(count * bytes) /\ count * bytes \in Nat
    BY <1>2 DEF kmem_calloc
  <2> QED BY <2>1, AllocInv
<1> QED BY <1>1, <1>2

\* A step that leaves headers, arena and allocations alone.
LEMMA SameHeap ==
  ASSUME KInv, UNCHANGED <<arena, headers, live>>
  PROVE  HeaderTypes' /\ HeapTiled' /\ UsedIsLive' /\ Blocks' = Blocks
BY DEF KInv, HeaderTypes, HeapTiled, UsedIsLive, Blocks, arena, headers, End, kmem_payload

\* Passing over a block keeps KInv.
LEMMA ScanOnInv ==
  ASSUME KInv, ScanOn
  PROVE  KInv'
<1>1. /\ phase = "scan" /\ cur # NULL /\ cur' = next[cur] /\ ~(free[cur] /\ size[cur] >= wanted)
      /\ UNCHANGED <<arena, headers, phase, wanted, asked, live>>
  BY DEF ScanOn, Fits
<1>2. initialized /\ cur \in Blocks
  BY <1>1 DEF KInv, ScanState, ArenaState
<1>3. HeaderTypes' /\ HeapTiled' /\ UsedIsLive' /\ Blocks' = Blocks
  BY <1>1, SameHeap
<1>4. next[cur] \in 0..MaxAddr /\ (next[cur] # NULL => next[cur] \in Blocks)
  BY <1>2, BlockFacts DEF KInv, HeaderTypes
<1>5. \A b \in Blocks : next[cur] = NULL \/ b < next[cur] => b <= cur
  <2> SUFFICES ASSUME NEW b \in Blocks, next[cur] = NULL \/ b < next[cur], cur < b
               PROVE  FALSE
    BY <1>2, BlockFacts DEF Addr
  <2>1. End(cur) <= b
    BY <1>2, Apart
  <2>2. b < End(b) /\ End(b) <= heap_end /\ b \in Nat /\ End(b) \in Nat /\ heap_end \in Nat
    BY <1>2, BlockFacts DEF Addr, KInv, HeaderTypes
  <2>3. End(cur) = heap_end \/ End(cur) = next[cur]
    BY <1>2, BlockFacts
  <2>4. End(cur) \in Nat /\ (next[cur] = NULL => End(cur) = heap_end)
    BY <1>2, BlockFacts
  <2> QED BY <2>1, <2>2, <2>3, <2>4
<1>6. ScanState'
  <2>1. \A b \in Blocks : b \in Nat /\ cur \in Nat
    BY <1>2, BlockFacts DEF Addr
  <2> QED BY <1>1, <1>3, <1>4, <1>5, <2>1 DEF KInv, ScanState, headers
<1>7. LoopTypes'
  BY <1>1, <1>4 DEF KInv, LoopTypes
<1>8. ArenaState'
  BY <1>1, <1>2, <1>3 DEF KInv, ArenaState, arena, headers
<1>9. MergeState'
  BY <1>1, <1>3 DEF KInv, MergeState, headers
<1> QED BY <1>3, <1>6, <1>7, <1>8, <1>9 DEF KInv

\* The scan or the merge is over and changes no header.
LEMMA ReturnInv ==
  ASSUME KInv, phase' = "idle", cur' = NULL, wanted' \in Nat, asked' \in Nat,
         UNCHANGED <<arena, headers, live>>,
         \A b \in Blocks : free[b] /\ next[b] # NULL => ~free[next[b]]
  PROVE  KInv'
<1>1. HeaderTypes' /\ HeapTiled' /\ UsedIsLive' /\ Blocks' = Blocks
  BY SameHeap
<1>2. LoopTypes' /\ ScanState' /\ MergeState'
  BY <1>1, KmemConstants DEF LoopTypes, ScanState, MergeState, headers, NULL
<1>3. ArenaState'
  BY <1>1 DEF KInv, ArenaState, arena, headers
<1> QED BY <1>1, <1>2, <1>3 DEF KInv

\* A scan that finds nothing keeps KInv.
LEMMA ScanMissInv ==
  ASSUME KInv, ScanMiss
  PROVE  KInv'
<1>1. \A b \in Blocks : free[b] /\ next[b] # NULL => ~free[next[b]]
  BY DEF KInv, MergeState, ScanMiss
<1> QED BY <1>1, ReturnInv DEF ScanMiss

\* The block a scan has found.
LEMMA HitFacts ==
  ASSUME KInv, ScanHit
  PROVE  /\ phase = "scan" /\ initialized /\ cur \in Blocks /\ free[cur]
         /\ size[cur] >= wanted /\ 0 < asked /\ asked <= wanted
         /\ asked \in Nat /\ wanted \in Nat /\ Aligned(wanted)
         /\ live' = live \cup {<<kmem_payload(cur), asked>>}
         /\ phase' = "idle" /\ cur' = NULL /\ wanted' = 0 /\ asked' = 0
         /\ UNCHANGED arena
BY DEF KInv, ScanHit, Fits, ScanState, ArenaState, LoopTypes

\* Whatever else the scan does with the rest of the block, the one it takes is
\* live from now on and every other allocation keeps its block.
LEMMA TakenLive ==
  ASSUME KInv, ScanHit,
         cur \in Blocks', ~free'[cur], size'[cur] >= wanted, size'[cur] \in Nat,
         \A b \in Blocks \ {cur} : b \in Blocks' /\ free'[b] = free[b] /\ size'[b] = size[b],
         \A b \in Blocks' \ Blocks : free'[b]
  PROVE  UsedIsLive'
<1>1. /\ cur \in Blocks /\ free[cur] /\ 0 < asked /\ asked <= wanted
      /\ asked \in Nat /\ wanted \in Nat /\ cur \in Nat
      /\ live' = live \cup {<<kmem_payload(cur), asked>>}
  BY HitFacts DEF Blocks, Addr
<1>2. kmem_payload(cur) - HeaderSize = cur
  BY <1>1, KmemConstants DEF kmem_payload
<1>3. ASSUME NEW p \in live
      PROVE  /\ p[1] - HeaderSize \in Blocks \ {cur} /\ ~free[p[1] - HeaderSize]
             /\ 0 < p[2] /\ p[2] <= size[p[1] - HeaderSize]
  BY <1>1 DEF KInv, UsedIsLive
<1>4. ASSUME NEW p \in live'
      PROVE  LET b == p[1] - HeaderSize
             IN  b \in Blocks' /\ ~free'[b] /\ 0 < p[2] /\ p[2] <= size'[b]
  <2>1. CASE p \in live
    BY <2>1, <1>3
  <2>2. CASE p = <<kmem_payload(cur), asked>>
    BY <2>2, <1>1, <1>2
  <2> QED BY <2>1, <2>2, <1>1
<1>5. \A p, q \in live' : p[1] = q[1] => p = q
  BY <1>1, <1>2, <1>3 DEF KInv, UsedIsLive
<1>6. ASSUME NEW b \in Blocks', ~free'[b]
      PROVE  \E p \in live' : p[1] = kmem_payload(b)
  <2>1. CASE b = cur
    <3>1. <<kmem_payload(cur), asked>> \in live'
      BY <1>1
    <3> QED BY <3>1, <2>1
  <2>2. CASE b # cur
    <3>1. b \in Blocks /\ ~free[b]
      BY <2>2, <1>6
    <3> QED BY <3>1, <1>1 DEF KInv, UsedIsLive
  <2> QED BY <2>1, <2>2
<1> QED BY <1>4, <1>5, <1>6 DEF UsedIsLive, kmem_payload

\* Handing out a whole block keeps KInv.
LEMMA TakeWholeInv ==
  ASSUME KInv, ScanHit, ~SplitUseful
  PROVE  KInv'
<1>1. /\ phase = "scan" /\ initialized /\ cur \in Blocks /\ free[cur]
      /\ size[cur] >= wanted /\ 0 < asked /\ asked <= wanted
      /\ asked \in Nat /\ wanted \in Nat
      /\ live' = live \cup {<<kmem_payload(cur), asked>>}
      /\ phase' = "idle" /\ cur' = NULL /\ wanted' = 0 /\ asked' = 0
      /\ UNCHANGED arena
  BY HitFacts
<1>2. free' = [free EXCEPT ![cur] = FALSE] /\ UNCHANGED <<magic, size, prev, next>>
  BY DEF ScanHit
<1>3. cur \in Addr /\ size[cur] \in Nat
  BY <1>1, BlockFacts
<1>4. Blocks' = Blocks
  BY <1>2 DEF Blocks
<1>5. HeaderTypes'
  <2>1. live' \subseteq Nat \X Nat
    BY <1>1, <1>3, KmemConstants DEF KInv, HeaderTypes, kmem_payload, Addr
  <2> QED BY <2>1, <1>1, <1>2, Zenon DEF KInv, HeaderTypes, arena
<1>6. LoopTypes' /\ ScanState'
  BY <1>1, KmemConstants DEF LoopTypes, ScanState, NULL
<1>7. ArenaState' /\ HeapTiled'
  BY <1>1, <1>2, <1>4 DEF KInv, ArenaState, HeapTiled, arena, End, kmem_payload
<1>8. \A a \in Addr : free'[a] = IF a = cur THEN FALSE ELSE free[a]
  BY <1>2, <1>3 DEF KInv, HeaderTypes
<1>9. UsedIsLive'
  BY <1>1, <1>2, <1>3, <1>4, <1>8, TakenLive, Zenon DEF Blocks
<1>10. MergeState'
  BY <1>1, <1>2, <1>4, <1>8, BlockFacts DEF KInv, MergeState, Blocks
<1> QED BY <1>5, <1>6, <1>7, <1>9, <1>10 DEF KInv

\* Where the split puts the new header.
LEMMA SplitPlace ==
  ASSUME KInv, ScanHit, SplitUseful
  PROVE  LET nb == kmem_payload(cur) + wanted
         IN  /\ kmem_align_up(nb) = nb /\ nb \in Addr /\ nb \notin Blocks
             /\ cur < nb /\ nb + HeaderSize + MinSplit < End(cur)
             /\ Aligned(nb) /\ Aligned(size[cur] - wanted - HeaderSize)
             /\ size[cur] - wanted - HeaderSize \in Nat
<1> DEFINE nb == kmem_payload(cur) + wanted
<1>1. /\ initialized /\ cur \in Blocks /\ wanted \in Nat /\ Aligned(wanted)
  BY HitFacts
<1>2. /\ cur \in Addr /\ size[cur] \in Nat /\ End(cur) = cur + HeaderSize + size[cur]
      /\ End(cur) \in 1..MaxAddr /\ Aligned(cur) /\ Aligned(size[cur])
  BY <1>1, BlockFacts
<1>3. size[cur] >= wanted + HeaderSize + MinSplit
  BY DEF SplitUseful
<1>4. /\ nb \in Addr /\ nb = cur + HeaderSize + wanted /\ nb - kmem_payload(cur) = wanted
      /\ cur < nb
  BY <1>1, <1>2, <1>3, KmemConstants DEF Addr, kmem_payload
<1>5. Aligned(HeaderSize)
  BY KmemConstants DEF Aligned
<1>6. Aligned(nb)
  <2>1. Aligned(cur + HeaderSize) /\ cur + HeaderSize \in Int
    BY <1>2, <1>5, AlignedSum, KmemConstants DEF Addr
  <2> QED BY <2>1, <1>1, AlignedSum DEF kmem_payload
<1>7. kmem_align_up(nb) = nb
  <2> HIDE DEF nb
  <2> QED BY <1>4, <1>6, AlignUpSame DEF Addr
<1>8. size[cur] > wanted + HeaderSize + MinSplit
  <2> HIDE DEF nb
  <2>1. size[cur] > (nb - kmem_payload(cur)) + HeaderSize + MinSplit
    BY <1>7 DEF SplitUseful, nb
  <2> QED BY <2>1, <1>4
<1>9. Aligned(size[cur] - wanted - HeaderSize)
  <2>1. size[cur] \in Int /\ wanted \in Int /\ HeaderSize \in Int /\ size[cur] - wanted \in Int
    BY <1>1, <1>2, KmemConstants
  <2>2. Aligned(size[cur] - wanted)
    BY <2>1, <1>1, <1>2, AlignedSum, Zenon
  <2> QED BY <2>1, <2>2, <1>5, AlignedSum, Zenon
<1>10. nb + HeaderSize + MinSplit < End(cur) /\ size[cur] - wanted - HeaderSize \in Nat
  BY <1>1, <1>2, <1>4, <1>8, KmemConstants DEF Addr
<1>11. nb \notin Blocks
  <2> SUFFICES ASSUME nb \in Blocks PROVE FALSE
    OBVIOUS
  <2>1. End(cur) <= nb
    <3> HIDE DEF nb
    <3> QED BY <1>1, <1>4, Apart
  <2> QED BY <2>1, <1>2, <1>4, <1>10, KmemConstants DEF Addr
<1> QED BY <1>4, <1>6, <1>7, <1>9, <1>10, <1>11

\* Splitting a block and handing out the first part keeps KInv: the new
\* header lies inside the old block and takes over its end.
LEMMA SplitInv ==
  ASSUME KInv, ScanHit, SplitUseful
  PROVE  KInv'
<1>1. /\ phase = "scan" /\ initialized /\ cur \in Blocks /\ free[cur]
      /\ 0 < asked /\ asked <= wanted /\ asked \in Nat /\ wanted \in Nat /\ Aligned(wanted)
      /\ live' = live \cup {<<kmem_payload(cur), asked>>}
      /\ phase' = "idle" /\ cur' = NULL /\ wanted' = 0 /\ asked' = 0
      /\ UNCHANGED arena
  BY HitFacts
<1>2. PICK nb : nb = kmem_payload(cur) + wanted
  OBVIOUS
<1>3. PICK left : left = size[cur] - wanted - HeaderSize
  OBVIOUS
<1>4. /\ kmem_align_up(kmem_payload(cur) + wanted) = nb /\ nb \in Addr /\ nb \notin Blocks
      /\ cur < nb /\ nb + HeaderSize + MinSplit < End(cur)
      /\ Aligned(nb) /\ Aligned(left) /\ left \in Nat
  BY <1>2, <1>3, SplitPlace
<1>5. /\ cur \in Addr /\ size[cur] \in Nat /\ End(cur) = cur + HeaderSize + size[cur]
      /\ next[cur] \in 0..MaxAddr
  BY <1>1, BlockFacts DEF KInv, HeaderTypes
<1>6. nb - kmem_payload(cur) = wanted /\ nb = cur + HeaderSize + wanted
  BY <1>1, <1>2, <1>5, KmemConstants DEF kmem_payload, Addr
<1>7. /\ magic' = [magic EXCEPT ![nb] = TRUE]
      /\ size' = [size EXCEPT ![nb] = left, ![cur] = wanted]
      /\ free' = [free EXCEPT ![nb] = TRUE, ![cur] = FALSE]
      /\ prev' = [a \in Addr |-> IF a = nb THEN cur ELSE IF a = next[cur] THEN nb ELSE prev[a]]
      /\ next' = [next EXCEPT ![nb] = next[cur], ![cur] = nb]
  BY <1>3, <1>4, <1>6 DEF ScanHit, Split
<1>8. HeaderTypes'
  <2>1. live' \subseteq Nat \X Nat
    BY <1>1, <1>5, KmemConstants DEF KInv, HeaderTypes, kmem_payload, Addr
  <2>2. magic' \in [Addr -> BOOLEAN] /\ free' \in [Addr -> BOOLEAN]
    BY <1>7, Zenon DEF KInv, HeaderTypes
  <2>3. size' \in [Addr -> Nat]
    BY <1>1, <1>4, <1>5, <1>7 DEF KInv, HeaderTypes, Addr
  <2>5. next' \in [Addr -> 0..MaxAddr]
    BY <1>1, <1>4, <1>5, <1>7 DEF KInv, HeaderTypes, Addr
  <2>4. prev' \in [Addr -> 0..MaxAddr]
    BY <1>4, <1>5, <1>7 DEF KInv, HeaderTypes, Addr
  <2> QED BY <2>1, <2>2, <2>3, <2>4, <2>5, <1>1 DEF KInv, HeaderTypes, arena
<1>9. /\ Blocks' = Blocks \cup {nb} /\ cur # nb /\ nb # 0 /\ cur # 0
      /\ size'[cur] = wanted /\ size'[nb] = left
      /\ ~free'[cur] /\ free'[nb]
      /\ next'[cur] = nb /\ next'[nb] = next[cur]
      /\ prev'[nb] = cur
  BY <1>1, <1>4, <1>5, <1>7 DEF KInv, HeaderTypes, Blocks, Addr
<1>10. \A a \in Addr \ {cur, nb} :
          /\ size'[a] = size[a] /\ free'[a] = free[a] /\ next'[a] = next[a]
          /\ prev'[a] = IF a = next[cur] THEN nb ELSE prev[a]
  BY <1>7, Zenon DEF KInv, HeaderTypes
<1>11. UsedIsLive'
  <2>1. cur \in Blocks' /\ size'[cur] >= wanted /\ size'[cur] \in Nat
    BY <1>1, <1>9
  <2>2. \A b \in Blocks \ {cur} : b \in Blocks' /\ free'[b] = free[b] /\ size'[b] = size[b]
    BY <1>4, <1>9, <1>10 DEF Blocks
  <2> QED BY <2>1, <2>2, <1>9, TakenLive
<1>12. LoopTypes' /\ ScanState'
  BY <1>1, KmemConstants DEF LoopTypes, ScanState, NULL
<1>13. ArenaState'
  <2>1. \A b \in Blocks' : Aligned(b) /\ Aligned(size'[b])
    BY <1>1, <1>4, <1>9, <1>10 DEF KInv, ArenaState, Blocks
  <2> QED BY <2>1, <1>1 DEF KInv, ArenaState, arena
<1>14. HeapTiled'
  <2> DEFINE E(b) == b + HeaderSize + size'[b]
  <2>1. E(cur) = nb /\ E(nb) = End(cur)
    BY <1>1, <1>3, <1>4, <1>5, <1>6, <1>9, KmemConstants DEF Addr
  <2>2. \A b \in Blocks \ {cur} : E(b) = End(b)
    BY <1>4, <1>10 DEF Blocks, End, kmem_payload
  <2>3. /\ End(cur) <= heap_end /\ heap_end \in Nat /\ End(cur) \in Nat /\ heap_base <= cur
        /\ nb \in Nat /\ cur \in Nat /\ heap_base \in Nat /\ nb < End(cur)
    <3>1. /\ End(cur) <= heap_end /\ End(cur) \in Nat /\ heap_base <= cur
          /\ heap_end \in Nat /\ heap_base \in Nat
      BY <1>1, BlockFacts DEF KInv, HeaderTypes
    <3>2. nb \in Nat /\ cur \in Nat
      BY <1>4, <1>5 DEF Addr
    <3> QED BY <3>1, <3>2, <1>4, KmemConstants
  <2> HIDE DEF E
  <2>0. /\ next[cur] # NULL => /\ next[cur] = End(cur) /\ next[cur] \in Blocks
                               /\ prev[next[cur]] = cur /\ next[cur] \notin {cur, nb}
        /\ next[cur] = NULL <=> End(cur) = heap_end
        /\ prev'[cur] = prev[cur]
    <3>1. /\ next[cur] # NULL => /\ next[cur] = End(cur) /\ next[cur] \in Blocks
                                 /\ prev[next[cur]] = cur
          /\ next[cur] = NULL <=> End(cur) = heap_end
      BY <1>1, BlockFacts
    <3>2. next[cur] # NULL => next[cur] \notin {cur, nb}
      BY <3>1, <2>3, <1>4
    <3>3. cur # next[cur] /\ cur # nb
      BY <3>2, <1>9 DEF NULL
    <3> QED BY <3>1, <3>2, <3>3, <1>5, <1>7
  <2>4. ASSUME NEW b \in Blocks'
        PROVE  /\ heap_base <= b /\ E(b) <= heap_end
               /\ IF E(b) = heap_end THEN next'[b] = NULL
                  ELSE next'[b] = E(b) /\ E(b) \in Blocks' /\ prev'[E(b)] = b
               /\ b # heap_base => prev'[b] \in Blocks' /\ next'[prev'[b]] = b
    <3>1. CASE b = cur
      <4>1. cur # heap_base => prev[cur] \in Blocks \ {cur} /\ next[prev[cur]] = cur
        <5>1. cur # heap_base => prev[cur] \in Blocks /\ next[prev[cur]] = cur
          BY <1>1, BlockFacts
        <5> QED BY <5>1, <2>0, <1>9 DEF NULL
      <4>2. cur # heap_base => prev'[cur] \in Blocks' /\ next'[prev'[cur]] = cur
        <5>1. cur # heap_base => prev[cur] \in Addr \ {cur, nb}
          BY <4>1, <1>4 DEF Blocks
        <5> QED BY <5>1, <4>1, <2>0, <1>9, <1>10
      <4>3. E(cur) # heap_end
        BY <2>1, <2>3
      <4> QED BY <3>1, <4>2, <4>3, <2>1, <2>3, <1>9
    <3>2. CASE b = nb
      <4>1. cur \in Blocks' /\ prev'[nb] = cur /\ next'[cur] = nb
        BY <1>1, <1>9
      <4>2. End(cur) # heap_end => /\ next'[nb] = End(cur) /\ End(cur) \in Blocks'
                                   /\ prev'[End(cur)] = nb
        <5>1. End(cur) # heap_end => End(cur) \in Addr \ {cur, nb}
          BY <2>0 DEF Blocks
        <5> QED BY <5>1, <2>0, <1>9, <1>10
      <4> QED BY <3>2, <4>1, <4>2, <2>0, <2>1, <2>3, <1>4, <1>9
    <3>3. CASE b \in Blocks \ {cur}
      <4>1. /\ heap_base <= b /\ End(b) <= heap_end /\ b \in Addr
            /\ next[b] = NULL <=> End(b) = heap_end
            /\ next[b] # NULL => next[b] = End(b) /\ next[b] \in Blocks /\ prev[next[b]] = b
            /\ prev[b] = NULL <=> b = heap_base
            /\ prev[b] # NULL => prev[b] \in Blocks /\ next[prev[b]] = b
        BY <3>3, <1>1, BlockFacts
      <4>2. next'[b] = next[b] /\ E(b) = End(b) /\ b # nb
        BY <3>3, <4>1, <1>4, <1>10, <2>2
      <4>3. End(b) # heap_end => End(b) # nb /\ End(b) \in Addr /\ End(b) # next[cur]
        BY <4>1, <3>3, <1>4, <2>0 DEF Blocks
      <4>4. End(b) # heap_end => prev'[End(b)] = b
        <5>1. CASE End(b) = cur
          BY <5>1, <4>1, <2>0
        <5>2. CASE End(b) # cur
          BY <5>2, <4>1, <4>3, <1>10
        <5> QED BY <5>1, <5>2
      <4>5. b # heap_base => prev'[b] \in Blocks' /\ next'[prev'[b]] = b
        <5>1. CASE b = next[cur]
          BY <5>1, <4>1, <4>2, <3>3, <1>9, <1>10
        <5>2. CASE b # next[cur]
          <6>1. prev'[b] = prev[b]
            BY <5>2, <4>1, <4>2, <3>3, <1>10
          <6>2. b # heap_base => prev[b] \in Blocks \ {cur, nb}
            BY <5>2, <4>1, <1>4
          <6> QED BY <6>1, <6>2, <4>1, <1>9, <1>10 DEF Blocks
        <5> QED BY <5>1, <5>2
      <4> QED BY <4>1, <4>2, <4>4, <4>5, <1>9
    <3> QED BY <3>1, <3>2, <3>3, <1>9
  <2>5. ASSUME NEW b \in Blocks', NEW c \in Blocks', c < b
        PROVE  E(c) <= b
    <3>1. \A d \in Blocks : d \in Nat /\ End(d) \in Nat /\ d < End(d)
      BY <1>1, BlockFacts DEF Addr
    <3>2. \A d \in Blocks : cur < d => End(cur) <= d
      BY <1>1, Apart
    <3>3. \A d \in Blocks : d < cur => End(d) <= cur
      BY <1>1, Apart
    <3>4. CASE b = nb
      <4>1. c \in Blocks /\ c <= cur
        BY <3>4, <2>5, <3>1, <3>2, <2>3, <1>9
      <4>2. CASE c = cur
        BY <4>2, <3>4, <2>1, <2>3
      <4>3. CASE c # cur
        <5>1. c < cur /\ c \in Nat /\ End(c) \in Nat
          BY <4>1, <4>3, <3>1, <2>3
        <5>2. End(c) <= cur /\ E(c) = End(c)
          BY <4>1, <4>3, <5>1, <3>3, <2>2
        <5> QED BY <5>1, <5>2, <3>4, <2>3, <1>4
      <4> QED BY <4>2, <4>3
    <3>5. CASE c = nb
      <4>1. b \in Blocks /\ cur < b
        <5>1. b # nb
          BY <3>5, <2>5, <2>3
        <5>2. b \in Blocks /\ b \in Nat
          BY <5>1, <3>1, <1>9
        <5> QED BY <5>2, <3>5, <2>5, <2>3, <1>4
      <4> QED BY <4>1, <3>5, <3>2, <2>1
    <3>6. CASE b \in Blocks /\ c \in Blocks
      <4>1. End(c) <= b
        BY <3>6, <2>5, <1>1, Apart
      <4> QED BY <4>1, <3>6, <3>1, <2>1, <2>2, <2>3
    <3> QED BY <3>4, <3>5, <3>6, <1>9
  <2>6. heap_base \in Blocks' /\ prev'[heap_base] = NULL
    <3>1. heap_base \in Blocks /\ prev[heap_base] = NULL
      BY <1>1 DEF KInv, HeapTiled
    <3>2. heap_base # nb /\ heap_base # next[cur]
      BY <3>1, <1>1, <1>4, <1>5, BlockFacts DEF Addr, NULL
    <3> QED BY <3>1, <3>2, <1>7, <1>9 DEF Blocks
  <2> QED BY <2>4, <2>5, <2>6, <1>1 DEF HeapTiled, End, kmem_payload, arena, E
<1>15. MergeState'
  <2>1. ASSUME NEW b \in Blocks', free'[b], next'[b] # NULL PROVE ~free'[next'[b]]
    <3>1. CASE b = nb
      <4>1. next[cur] \in Blocks /\ ~free[next[cur]] /\ next[cur] # cur
        BY <3>1, <2>1, <1>1, <1>9, BlockFacts DEF KInv, MergeState, Addr
      <4> QED BY <4>1, <3>1, <1>4, <1>9, <1>10 DEF Blocks
    <3>2. CASE b \in Blocks \ {cur}
      <4>1. b \in Addr /\ free[b] /\ next[b] # NULL /\ next'[b] = next[b]
        BY <3>2, <2>1, <1>4, <1>10, Zenon DEF Blocks
      <4>2. next[b] \in Blocks /\ ~free[next[b]]
        BY <4>1, <3>2, <1>1, BlockFacts DEF KInv, MergeState
      <4> QED BY <4>1, <4>2, <1>4, <1>9, <1>10, Zenon DEF Blocks
    <3> QED BY <3>1, <3>2, <2>1, <1>9
  <2> QED BY <2>1, <1>1 DEF MergeState
<1> QED BY <1>8, <1>11, <1>12, <1>13, <1>14, <1>15 DEF KInv

\* A scan that finds a block keeps KInv.
LEMMA ScanHitInv == ASSUME KInv, ScanHit PROVE KInv'
BY TakeWholeInv, SplitInv

\* The pointer kmem_free_checked accepts is the payload of a block in use.
LEMMA FreedBlock ==
  ASSUME KInv, NEW ptr \in 1..(MaxAddr + 1), FreeCode(ptr) = 0
  PROVE  initialized /\ ptr - HeaderSize \in Blocks /\ ~free[ptr - HeaderSize]
<1> DEFINE block == ptr - HeaderSize
<1>1. /\ initialized /\ block >= heap_base /\ block < heap_end /\ magic[block] /\ ~free[block]
  BY DEF FreeCode, kmem_ptr_in_heap
<1>2. heap_base \in Nat /\ heap_base >= 1 /\ heap_end \in Nat /\ heap_end <= MaxAddr
  BY <1>1 DEF KInv, HeaderTypes, ArenaState, HeapTiled, Blocks, Addr
<1>3. block \in Addr
  BY <1>1, <1>2, KmemConstants DEF Addr
<1> QED BY <1>1, <1>3 DEF Blocks

\* The entry of kmem_free_checked keeps KInv: only the freed block can have
\* free neighbours now.
LEMMA FreeInv ==
  ASSUME KInv, NEW ptr \in 0..(MaxAddr + 1), kmem_free_checked(ptr)
  PROVE  KInv'
<1>1. CASE ptr = NULL \/ FreeCode(ptr) # 0
  BY <1>1, SameInv DEF kmem_free_checked, headers
<1>2. CASE ptr # NULL /\ FreeCode(ptr) = 0
  <2>1. PICK block : block = ptr - HeaderSize
    OBVIOUS
  <2>2. initialized /\ block \in Blocks /\ ~free[block]
    BY <1>2, <2>1, FreedBlock DEF NULL
  <2>3. /\ phase = "idle"
        /\ free' = [free EXCEPT ![block] = TRUE] /\ live' = {p \in live : p[1] # ptr}
        /\ phase' = "forward" /\ cur' = block
        /\ UNCHANGED <<arena, magic, size, prev, next, wanted, asked>>
    BY <1>2, <2>1 DEF kmem_free_checked
  <2>4. block \in Addr /\ block \in 1..MaxAddr /\ ptr = kmem_payload(block)
    BY <2>1, <2>2, KmemConstants DEF Blocks, Addr, kmem_payload
  <2>5. Blocks' = Blocks /\ \A b \in Addr : free'[b] = IF b = block THEN TRUE ELSE free[b]
    BY <2>3, <2>4 DEF Blocks, KInv, HeaderTypes
  <2>6. HeaderTypes'
    BY <2>3, Zenon DEF KInv, HeaderTypes, arena
  <2>7. LoopTypes'
    BY <2>3, <2>4 DEF KInv, LoopTypes
  <2>8. ArenaState' /\ HeapTiled'
    BY <2>2, <2>3, <2>5 DEF KInv, ArenaState, HeapTiled, arena, End, kmem_payload
  <2>9. UsedIsLive'
    <3>1. ASSUME NEW p \in live'
          PROVE  LET b == p[1] - HeaderSize
                 IN  b \in Blocks' /\ ~free'[b] /\ 0 < p[2] /\ p[2] <= size'[b]
      <4>1. p \in live /\ p[1] # ptr /\ p[1] \in Nat
        BY <2>3 DEF KInv, HeaderTypes
      <4>2. p[1] - HeaderSize # block
        BY <4>1, <2>1, KmemConstants
      <4> QED BY <4>1, <4>2, <2>3, <2>5 DEF KInv, UsedIsLive, Blocks
    <3>2. \A p, q \in live' : p[1] = q[1] => p = q
      BY <2>3 DEF KInv, UsedIsLive
    <3>3. ASSUME NEW b \in Blocks', ~free'[b]
          PROVE  \E p \in live' : p[1] = kmem_payload(b)
      <4>1. b \in Blocks /\ b # block /\ ~free[b] /\ b \in Nat
        <5>1. free'[block]
          BY <2>4, <2>5, Zenon
        <5>2. b # block /\ b \in Addr
          BY <5>1, <3>3, <2>5 DEF Blocks
        <5>3. ~free[b]
          BY <5>2, <3>3, <2>5, Zenon
        <5> QED BY <5>2, <5>3, <3>3, <2>5 DEF Addr
      <4>2. PICK p \in live : p[1] = kmem_payload(b)
        BY <4>1 DEF KInv, UsedIsLive
      <4>3. p[1] # ptr
        BY <4>1, <4>2, <2>4, KmemConstants DEF kmem_payload
      <4> QED BY <4>2, <4>3, <2>3
    <3> QED BY <3>1, <3>2, <3>3 DEF UsedIsLive, kmem_payload
  <2>10. ScanState'
    BY <2>3 DEF ScanState
  <2>11. MergeState'
    <3>1. \A b \in Blocks : next[b] # NULL => next[b] \in Addr
      BY <2>2, BlockFacts DEF Blocks
    <3>2. \A b \in Blocks : ~(free[b] /\ next[b] # NULL /\ free[next[b]])
      BY <2>3 DEF KInv, MergeState
    <3> QED BY <3>1, <3>2, <2>2, <2>3, <2>4, <2>5, Zenon DEF MergeState, Blocks
  <2> QED BY <2>6, <2>7, <2>8, <2>9, <2>10, <2>11 DEF KInv
<1> QED BY <1>1, <1>2

\* What the merging loop sees: the next block, right behind and free.
LEMMA MergeFacts ==
  ASSUME KInv, phase \in {"forward", "backward"}
  PROVE  /\ initialized /\ cur \in Blocks /\ free[cur]
         /\ Mergeable <=> next[cur] # NULL /\ free[next[cur]]
<1>1. initialized /\ cur \in Blocks /\ free[cur]
  BY DEF KInv, MergeState, ArenaState
<1>2. next[cur] # NULL => next[cur] = End(cur) /\ kmem_align_up(End(cur)) = End(cur)
  BY <1>1, BlockFacts
<1> QED BY <1>1, <1>2 DEF Mergeable

\* The end of a merging pass keeps KInv.
LEMMA CoalesceDoneInv ==
  ASSUME KInv, CoalesceDone
  PROVE  KInv'
<1> DEFINE back == phase = "forward" /\ prev[cur] # NULL /\ free[prev[cur]]
<1>1. /\ phase \in {"forward", "backward"} /\ ~Mergeable
      /\ phase' = IF back THEN "backward" ELSE "idle"
      /\ cur' = IF back THEN prev[cur] ELSE NULL
      /\ UNCHANGED <<arena, headers, wanted, asked, live>>
  BY DEF CoalesceDone
<1>2. initialized /\ cur \in Blocks /\ free[cur] /\ ~(next[cur] # NULL /\ free[next[cur]])
  BY <1>1, MergeFacts
<1>3. \A b \in Blocks : free[b] /\ next[b] # NULL /\ free[next[b]] =>
                          phase = "forward" /\ b = prev[cur] /\ b # NULL
  <2> SUFFICES ASSUME NEW b \in Blocks, free[b], next[b] # NULL, free[next[b]]
               PROVE  phase = "forward" /\ b = prev[cur] /\ b # NULL
    OBVIOUS
  <2>1. phase = "forward" /\ cur = next[b]
    BY <1>2 DEF KInv, MergeState
  <2>2. prev[next[b]] = b
    BY <1>2, BlockFacts
  <2> QED BY <2>1, <2>2 DEF Blocks, Addr, NULL
<1>4. CASE ~back
  <2>1. \A b \in Blocks : free[b] /\ next[b] # NULL => ~free[next[b]]
    BY <1>3, <1>4
  <2> QED BY <2>1, <1>1, <1>4, ReturnInv DEF KInv, LoopTypes
<1>5. CASE back
  <2>1. prev[cur] \in Blocks /\ prev[cur] \in 0..MaxAddr
    BY <1>2, <1>5, BlockFacts DEF KInv, HeaderTypes, Blocks, Addr
  <2>2. HeaderTypes' /\ HeapTiled' /\ UsedIsLive' /\ Blocks' = Blocks
    BY <1>1, SameHeap
  <2>3. LoopTypes' /\ ScanState'
    BY <1>1, <1>5, <2>1 DEF KInv, LoopTypes, ScanState
  <2>4. ArenaState'
    BY <1>1, <1>2, <2>2 DEF KInv, ArenaState, arena, headers
  <2>5. MergeState'
    BY <1>1, <1>3, <1>5, <2>1, <2>2 DEF MergeState, headers
  <2> QED BY <2>2, <2>3, <2>4, <2>5 DEF KInv
<1> QED BY <1>4, <1>5

\* Absorbing the next block keeps KInv: its header goes, its end stays.
LEMMA CoalesceInv ==
  ASSUME KInv, Coalesce
  PROVE  KInv'
<1>1. PICK ab : ab = next[cur]
  OBVIOUS
<1>2. /\ phase \in {"forward", "backward"} /\ Mergeable
      /\ size' = [size EXCEPT ![cur] = @ + HeaderSize + size[ab], ![ab] = 0]
      /\ next' = [next EXCEPT ![cur] = next[ab], ![ab] = NULL]
      /\ prev' = [a \in Addr |-> IF a = ab THEN NULL ELSE IF a = next[ab] THEN cur ELSE prev[a]]
      /\ magic' = [magic EXCEPT ![ab] = FALSE]
      /\ UNCHANGED <<arena, free, phase, cur, wanted, asked, live>>
  BY <1>1 DEF Coalesce
<1>3. initialized /\ cur \in Blocks /\ free[cur] /\ ab # NULL /\ free[ab]
  BY <1>1, <1>2, MergeFacts
<1>4. /\ cur \in Addr /\ size[cur] \in Nat /\ End(cur) = cur + HeaderSize + size[cur]
      /\ End(cur) \in Nat /\ heap_base <= cur /\ cur < End(cur) /\ Aligned(size[cur])
      /\ ab = End(cur) /\ ab \in Blocks /\ prev[ab] = cur
  BY <1>1, <1>3, BlockFacts
<1>5. /\ ab \in Addr /\ size[ab] \in Nat /\ End(ab) = ab + HeaderSize + size[ab]
      /\ End(ab) \in Nat /\ ab < End(ab) /\ End(ab) <= heap_end /\ Aligned(size[ab])
      /\ next[ab] = NULL <=> End(ab) = heap_end
      /\ next[ab] # NULL => next[ab] = End(ab) /\ next[ab] \in Blocks /\ prev[next[ab]] = ab
  BY <1>3, <1>4, BlockFacts
<1>6. cur \in Nat /\ ab \in Nat /\ cur # ab /\ next[ab] \notin {cur, ab}
  BY <1>3, <1>4, <1>5 DEF Addr, NULL
<1>7. HeaderTypes'
  <2>1. magic' \in [Addr -> BOOLEAN] /\ free' \in [Addr -> BOOLEAN]
    BY <1>2, Zenon DEF KInv, HeaderTypes
  <2>2. size' \in [Addr -> Nat]
    BY <1>2, <1>4, <1>5, KmemConstants DEF KInv, HeaderTypes
  <2>3. next' \in [Addr -> 0..MaxAddr]
    BY <1>2, <1>5, KmemConstants DEF KInv, HeaderTypes, NULL
  <2>4. prev' \in [Addr -> 0..MaxAddr]
    BY <1>2, <1>4, KmemConstants DEF KInv, HeaderTypes, NULL, Addr
  <2> QED BY <2>1, <2>2, <2>3, <2>4, <1>2 DEF KInv, HeaderTypes, arena
<1>8. /\ Blocks' = Blocks \ {ab} /\ next'[cur] = next[ab]
      /\ size'[cur] = size[cur] + HeaderSize + size[ab]
      /\ prev'[cur] = prev[cur]
      /\ next[ab] # NULL => prev'[next[ab]] = cur
  BY <1>2, <1>4, <1>5, <1>6 DEF KInv, HeaderTypes, Blocks
<1>9. \A a \in Addr \ {cur, ab} :
         /\ size'[a] = size[a] /\ next'[a] = next[a]
         /\ a # next[ab] => prev'[a] = prev[a]
  BY <1>2 DEF KInv, HeaderTypes
<1>10. LoopTypes' /\ ScanState'
  BY <1>2 DEF KInv, LoopTypes, ScanState
<1>11. ArenaState'
  <2>1. Aligned(size'[cur])
    <3>1. Aligned(HeaderSize) /\ HeaderSize \in Int /\ size[cur] \in Int /\ size[ab] \in Int
      BY <1>4, <1>5, KmemConstants DEF Aligned
    <3>2. Aligned(size[cur] + HeaderSize)
      BY <3>1, <1>4, AlignedSum, Zenon
    <3>3. Aligned((size[cur] + HeaderSize) + size[ab])
      <4>1. size[cur] + HeaderSize \in Int
        BY <3>1
      <4> QED BY <4>1, <3>1, <3>2, <1>5, AlignedSum, Zenon
    <3> QED BY <3>3, <1>8
  <2>2. \A b \in Blocks' : Aligned(b) /\ Aligned(size'[b])
    BY <2>1, <1>3, <1>8, <1>9 DEF KInv, ArenaState, Blocks
  <2> QED BY <2>2, <1>2, <1>3, Zenon DEF KInv, ArenaState, arena
<1>12. UsedIsLive'
  <2>1. ASSUME NEW b \in Blocks, ~free[b]
        PROVE  b \in Blocks' /\ size'[b] = size[b]
    BY <2>1, <1>3, <1>8, <1>9 DEF Blocks
  <2>2. \A p \in live : LET b == p[1] - HeaderSize
                        IN  b \in Blocks' /\ ~free'[b] /\ 0 < p[2] /\ p[2] <= size'[b]
    BY <2>1, <1>2, Zenon DEF KInv, UsedIsLive
  <2>3. \A b \in Blocks' : b \in Blocks
    BY <1>8
  <2> QED BY <2>2, <2>3, <1>2, Zenon DEF KInv, UsedIsLive, kmem_payload
<1>13. HeapTiled'
  <2> DEFINE E(b) == b + HeaderSize + size'[b]
  <2>1. E(cur) = End(ab)
    BY <1>4, <1>5, <1>6, <1>8, KmemConstants
  <2>2. \A b \in Blocks \ {cur, ab} : E(b) = End(b)
    BY <1>9 DEF Blocks, End, kmem_payload
  <2> HIDE DEF E
  <2>3. heap_end \in Nat /\ heap_base \in Nat
    BY DEF KInv, HeaderTypes
  <2>4. ASSUME NEW b \in Blocks'
        PROVE  /\ heap_base <= b /\ E(b) <= heap_end
               /\ IF E(b) = heap_end THEN next'[b] = NULL
                  ELSE next'[b] = E(b) /\ E(b) \in Blocks' /\ prev'[E(b)] = b
               /\ b # heap_base => prev'[b] \in Blocks' /\ next'[prev'[b]] = b
    <3>1. CASE b = cur
      <4>1. cur # heap_base => prev[cur] \in Blocks /\ next[prev[cur]] = cur
        BY <1>3, BlockFacts
      <4>2. cur # heap_base => prev[cur] \in Addr \ {cur, ab} /\ prev[cur] \in Blocks'
        BY <4>1, <1>1, <1>6, <1>8 DEF Blocks
      <4>3. cur # heap_base => prev'[cur] \in Blocks' /\ next'[prev'[cur]] = cur
        BY <4>1, <4>2, <1>8, <1>9
      <4>4. End(ab) # heap_end => End(ab) \in Blocks' /\ prev'[End(ab)] = cur
        BY <1>5, <1>6, <1>8
      <4> QED BY <3>1, <4>3, <4>4, <2>1, <1>4, <1>5, <1>8
    <3>2. CASE b \in Blocks \ {cur, ab}
      <4>1. /\ heap_base <= b /\ End(b) <= heap_end /\ b \in Addr
            /\ next[b] = NULL <=> End(b) = heap_end
            /\ next[b] # NULL => next[b] = End(b) /\ next[b] \in Blocks /\ prev[next[b]] = b
            /\ prev[b] = NULL <=> b = heap_base
            /\ prev[b] # NULL => prev[b] \in Blocks /\ next[prev[b]] = b
        BY <3>2, <1>3, BlockFacts
      <4>2. next'[b] = next[b] /\ E(b) = End(b)
        BY <3>2, <4>1, <1>9, <2>2, Zenon
      <4>3. End(b) # heap_end => End(b) \in Blocks' /\ End(b) # next[ab]
        BY <4>1, <3>2, <1>4, <1>5, <1>8
      <4>4. End(b) # heap_end => prev'[End(b)] = b
        <5>1. CASE End(b) = cur
          BY <5>1, <4>1, <1>8
        <5>2. CASE End(b) # cur
          BY <5>2, <4>1, <4>3, <1>8, <1>9 DEF Blocks
        <5> QED BY <5>1, <5>2
      <4>5. b # heap_base => prev'[b] \in Blocks' /\ next'[prev'[b]] = b
        <5>1. CASE b = next[ab]
          BY <5>1, <4>1, <1>3, <1>6, <1>8 DEF Blocks, Addr, NULL
        <5>2. CASE b # next[ab]
          <6>1. prev'[b] = prev[b]
            BY <5>2, <4>1, <3>2, <1>9
          <6>2. b # heap_base => prev[b] \in Blocks \ {cur, ab}
            BY <5>2, <4>1, <3>2, <1>1
          <6> QED BY <6>1, <6>2, <4>1, <1>8, <1>9 DEF Blocks
        <5> QED BY <5>1, <5>2
      <4> QED BY <4>1, <4>2, <4>3, <4>4, <4>5
    <3> QED BY <3>1, <3>2, <1>8
  <2>5. ASSUME NEW b \in Blocks', NEW c \in Blocks', c < b
        PROVE  E(c) <= b
    <3>1. b \in Blocks \ {ab} /\ c \in Blocks \ {ab} /\ b \in Nat /\ End(c) <= b
      BY <2>5, <1>3, <1>8, Apart DEF Blocks, Addr
    <3>2. CASE c = cur
      <4>1. ab < b
        BY <3>1, <3>2, <1>4, <1>6
      <4>2. End(ab) <= b
        BY <4>1, <3>1, <1>3, <1>4, Apart
      <4> QED BY <4>2, <3>2, <2>1
    <3>3. CASE c # cur
      BY <3>1, <3>3, <2>2
    <3> QED BY <3>2, <3>3
  <2>6. heap_base \in Blocks' /\ prev'[heap_base] = NULL
    <3>1. heap_base \in Blocks /\ prev[heap_base] = NULL
      BY <1>3 DEF KInv, HeapTiled
    <3>2. heap_base # ab /\ heap_base # next[ab]
      BY <3>1, <1>4, <1>5, <1>6, <2>3 DEF Blocks, Addr, NULL
    <3> QED BY <3>1, <3>2, <1>2, <1>8 DEF Blocks
  <2>7. heap_base' = heap_base /\ heap_end' = heap_end
    BY <1>2 DEF arena
  <2>8. \A b \in Blocks' : End(b)' = E(b)
    BY DEF End, kmem_payload, E
  <2> QED BY <2>4, <2>5, <2>6, <2>7, <2>8 DEF HeapTiled
<1>14. MergeState'
  <2>1. \A b \in Blocks' \ {cur} : b \in Blocks /\ next'[b] = next[b]
    BY <1>8, <1>9 DEF Blocks
  <2>2. cur \in Blocks' /\ free'[cur]
    BY <1>2, <1>3, <1>6, <1>8
  <2> QED BY <2>1, <2>2, <1>2, Zenon DEF KInv, MergeState
<1> QED BY <1>7, <1>10, <1>11, <1>12, <1>13, <1>14 DEF KInv

\* Every step keeps KInv.
LEMMA NextInv == KInv /\ [Next]_vars => KInv'
<1> SUFFICES ASSUME KInv, [Next]_vars PROVE KInv'
  OBVIOUS
<1>1. ASSUME NEW a \in Arenas, ~initialized, kmem_init(a.base, a.bytes) PROVE KInv'
  BY <1>1, KmemInitInv
<1>2. ASSUME NEW r \in Requests, kmem_alloc(r) PROVE KInv'
  <2>1. r \in Nat
    BY KmemConstants
  <2> QED BY <2>1, <1>2, AllocInv
<1>3. ASSUME NEW a \in Arrays, kmem_calloc(a[1], a[2]) PROVE KInv'
  <2>1. a[1] \in Nat /\ a[2] \in Nat
    BY KmemConstants
  <2> QED BY <2>1, <1>3, CallocInv
<1>4. ASSUME NEW p \in 0..(MaxAddr + 1), kmem_free_checked(p) PROVE KInv'
  BY <1>4, FreeInv
<1>5. CASE Loop
  BY <1>5, ScanOnInv, ScanHitInv, ScanMissInv, CoalesceInv, CoalesceDoneInv DEF Loop
<1>6. CASE UNCHANGED vars
  BY <1>6, SameInv DEF vars
<1> QED BY <1>1, <1>2, <1>3, <1>4, <1>5, <1>6 DEF Next

\* KInv holds throughout.
THEOREM HeapInvariant == Spec => []KInv
BY InitInv, NextInv, PTL DEF Spec

-----------------------------------------------------------------------------
\* HeapTiled is a part of KInv.
LEMMA TiledStep == KInv => HeapTiled
BY DEF KInv

\* Between calls MergeState leaves no pair of free neighbours, and without
\* live allocations every block is free, so there is one block.
LEMMA MergedStep == KInv => FullyMerged
<1> SUFFICES ASSUME KInv, phase = "idle", initialized
             PROVE  /\ \A b \in Blocks : free[b] /\ next[b] # NULL => ~free[next[b]]
                    /\ live = {} => Blocks = {heap_base} /\ End(heap_base) = heap_end
  BY DEF FullyMerged
<1>1. \A b \in Blocks : free[b] /\ next[b] # NULL => ~free[next[b]]
  BY DEF KInv, MergeState
<1>2. ASSUME live = {} PROVE Blocks = {heap_base} /\ End(heap_base) = heap_end
  <2>1. heap_base \in Blocks /\ \A b \in Blocks : free[b]
    BY <1>2 DEF KInv, HeapTiled, UsedIsLive
  <2>2. next[heap_base] = NULL /\ End(heap_base) = heap_end
    BY <2>1, <1>1, BlockFacts
  <2>3. ASSUME NEW c \in Blocks, c # heap_base PROVE FALSE
    <3>1. heap_base < c /\ c < End(c) /\ End(c) <= heap_end /\ c \in Nat /\ End(c) \in Nat
      BY <2>1, <2>3, BlockFacts DEF KInv, HeaderTypes, Addr
    <3>2. End(heap_base) <= c
      BY <3>1, <2>1, Apart
    <3> QED BY <3>1, <3>2, <2>2 DEF KInv, HeaderTypes
  <2> QED BY <2>1, <2>2, <2>3
<1> QED BY <1>1, <1>2

\* Each allocation lies in its own used block, and blocks do not overlap.
LEMMA DisjointStep == KInv => LiveDisjoint
<1> SUFFICES ASSUME KInv, NEW p \in live
             PROVE  /\ p[1] % Align = 0 /\ p[2] > 0
                    /\ heap_base + HeaderSize <= p[1] /\ p[1] + p[2] <= heap_end
                    /\ \A q \in live : q # p => p[1] + p[2] <= q[1] \/ q[1] + q[2] <= p[1]
                    /\ \A b \in Blocks : b + HeaderSize <= p[1] \/ p[1] + p[2] <= b
  BY DEF LiveDisjoint
<1>1. initialized /\ heap_base \in Nat /\ heap_end \in Nat
  BY DEF KInv, ArenaState, HeaderTypes
<1>2. ASSUME NEW q \in live
      PROVE  /\ q[1] \in Nat /\ q[2] \in Nat /\ q[1] - HeaderSize \in Blocks
             /\ 0 < q[2] /\ q[1] + q[2] <= End(q[1] - HeaderSize)
  <2>1. /\ q[1] \in Nat /\ q[2] \in Nat /\ q[1] - HeaderSize \in Blocks
        /\ 0 < q[2] /\ q[2] <= size[q[1] - HeaderSize]
    BY DEF KInv, HeaderTypes, UsedIsLive
  <2>2. size[q[1] - HeaderSize] \in Nat
    BY <2>1, <1>1, BlockFacts
  <2> QED BY <2>1, <2>2, KmemConstants DEF End, kmem_payload
<1>3. \A b \in Blocks : /\ b \in Nat /\ End(b) \in Nat /\ heap_base <= b /\ End(b) <= heap_end
                        /\ b + HeaderSize <= End(b)
  BY <1>1, BlockFacts, KmemConstants DEF Addr
<1>4. PICK b \in Blocks : b = p[1] - HeaderSize
  BY <1>2
<1>5. p[1] % Align = 0
  <2>1. Aligned(b) /\ Aligned(HeaderSize)
    BY <1>1, BlockFacts, KmemConstants DEF Aligned
  <2>2. Aligned(b + HeaderSize)
    BY <2>1, <1>3, AlignedSum, KmemConstants
  <2>3. b + HeaderSize = p[1]
    BY <1>2, <1>4, KmemConstants
  <2> QED BY <2>2, <2>3 DEF Aligned
<1>6. ASSUME NEW q \in live, q # p
      PROVE  p[1] + p[2] <= q[1] \/ q[1] + q[2] <= p[1]
  <2>1. PICK c \in Blocks : c = q[1] - HeaderSize
    BY <1>2
  <2>2. b # c
    <3>1. p[1] # q[1]
      BY <1>6 DEF KInv, UsedIsLive
    <3> QED BY <3>1, <2>1, <1>2, <1>4, KmemConstants
  <2>3. End(b) <= c \/ End(c) <= b
    BY <2>2, <1>1, <1>3, Apart
  <2> QED BY <2>1, <2>3, <1>2, <1>3, <1>4, KmemConstants
<1>7. ASSUME NEW c \in Blocks
      PROVE  c + HeaderSize <= p[1] \/ p[1] + p[2] <= c
  <2>1. c = b \/ End(b) <= c \/ End(c) <= b
    BY <1>1, <1>3, Apart
  <2> QED BY <2>1, <1>2, <1>3, <1>4, KmemConstants
<1> QED BY <1>1, <1>2, <1>3, <1>4, <1>5, <1>6, <1>7, KmemConstants

\* Splitting and merging never lose, overlap or leave behind a block
\* (kmem_split_if_useful, kmem_coalesce_forward).
THEOREM HeapStaysTiled == Spec => []HeapTiled
BY HeapInvariant, TiledStep, PTL

\* kmem_free_checked merges all there is to merge.
THEOREM StaysMerged == Spec => []FullyMerged
BY HeapInvariant, MergedStep, PTL

\* What kmem_alloc hands out is aligned, large enough, inside the arena and
\* apart from every other allocation and every header.
THEOREM AllocationsDisjoint == Spec => []LiveDisjoint
BY HeapInvariant, DisjointStep, PTL

\* The checks of kmem_free_checked pass exactly for live pointers.
LEMMA AcceptStep ==
  ASSUME KInv, NEW p \in 1..(MaxAddr + 1), kmem_free_checked(p)
  PROVE  phase' = "forward" <=> \E q \in live : q[1] = p
<1>1. phase' = "forward" <=> FreeCode(p) = 0
  BY DEF kmem_free_checked, NULL
<1>2. ASSUME FreeCode(p) = 0 PROVE \E q \in live : q[1] = p
  <2>1. p - HeaderSize \in Blocks /\ ~free[p - HeaderSize]
    BY <1>2, FreedBlock
  <2>2. kmem_payload(p - HeaderSize) = p
    BY KmemConstants DEF kmem_payload
  <2> QED BY <2>1, <2>2 DEF KInv, UsedIsLive
<1>3. ASSUME NEW q \in live, q[1] = p PROVE FreeCode(p) = 0
  <2>1. PICK b : b = p - HeaderSize
    OBVIOUS
  <2>2. b \in Blocks /\ ~free[b] /\ 0 < q[2] /\ q[2] <= size[b] /\ initialized /\ q[2] \in Nat
    BY <1>3, <2>1 DEF KInv, UsedIsLive, ArenaState, HeaderTypes
  <2>3. /\ b \in Addr /\ magic[b] /\ size[b] \in Nat /\ heap_base <= b /\ End(b) <= heap_end
        /\ End(b) = b + HeaderSize + size[b] /\ heap_base \in Nat /\ heap_end \in Nat
        /\ Aligned(b)
    BY <2>2, BlockFacts DEF Blocks, KInv, HeaderTypes
  <2>4. p = b + HeaderSize /\ p < heap_end /\ p >= heap_base /\ b < heap_end
    BY <2>1, <2>2, <2>3, KmemConstants DEF Addr
  <2>5. Aligned(p)
    <3>1. Aligned(HeaderSize) /\ b \in Int /\ HeaderSize \in Int
      BY <2>3, KmemConstants DEF Aligned, Addr
    <3> QED BY <3>1, <2>3, <2>4, AlignedSum
  <2> QED BY <2>1, <2>2, <2>3, <2>4, <2>5 DEF FreeCode, kmem_ptr_in_heap, Aligned
<1> QED BY <1>1, <1>2, <1>3

\* kmem_free_checked accepts a pointer if and only if it is live.
THEOREM FreesExactlyLive == Spec => FreeAcceptsLive
<1>1. KInv /\ [Next]_vars =>
        [\A p \in 1..(MaxAddr + 1) :
           kmem_free_checked(p) =>
             (phase' = "forward" <=> \E q \in live : q[1] = p)]_vars
  BY AcceptStep
<1> QED BY <1>1, HeapInvariant, PTL DEF Spec, FreeAcceptsLive

-----------------------------------------------------------------------------
(* The loops over the whole list.                                           *)

\* The loops start at g_head and follow next until it is NULL.
LEMMA WalkFacts ==
  ASSUME KInv, NEW bound \in Nat
  PROVE  /\ DOMAIN Walk(bound) = 0..bound /\ Walk(bound)[0] = heap_base
         /\ \A k \in 1..bound :
              Walk(bound)[k - 1] \in 0..MaxAddr =>
                Walk(bound)[k] = IF Walk(bound)[k - 1] = NULL THEN NULL
                                 ELSE next[Walk(bound)[k - 1]]
<1> DEFINE link == [b \in 0..MaxAddr |-> IF b = NULL THEN NULL ELSE next[b]]
           w == CHOOSE v : IsIteration(v, link, heap_base, bound)
<1>1. Walk(bound) = w
  BY DEF Walk, IsIteration, g_head
<1>2. IsIteration(w, link, heap_base, bound)
  <2> HIDE DEF link
  <2> QED BY IterateExists
<1> HIDE DEF w
<1>3. w = [k \in 0..bound |-> IF k = 0 THEN heap_base ELSE link[w[k - 1]]]
  BY <1>2 DEF IsIteration
<1>4. DOMAIN w = 0..bound /\ w[0] = heap_base /\ \A k \in 1..bound : w[k] = link[w[k - 1]]
  <2> HIDE DEF link
  <2> QED BY <1>3
<1> QED BY <1>1, <1>4, Zenon

\* Multiplying by a natural keeps the order.
LEMMA Monotone ==
  ASSUME NEW a \in Int, NEW b \in Int, a <= b, NEW c \in Nat
  PROVE  a * c <= b * c
OBVIOUS

\* Every cursor is a block or NULL, at least a header further every time.
LEMMA WalkBlocks ==
  ASSUME KInv, initialized, NEW bound \in Nat, NEW k \in 0..bound
  PROVE  Walk(bound)[k] # NULL => /\ Walk(bound)[k] \in Blocks
                                  /\ heap_base + k * HeaderSize <= Walk(bound)[k]
<1> DEFINE w == Walk(bound)
           Good(j) == w[j] # NULL => w[j] \in Blocks /\ heap_base + j * HeaderSize <= w[j]
           S == {j \in Nat : j <= bound => Good(j)}
<1>0. w[0] = heap_base /\ \A j \in 1..bound : w[j - 1] \in 0..MaxAddr =>
                            w[j] = IF w[j - 1] = NULL THEN NULL ELSE next[w[j - 1]]
  BY WalkFacts
<1>00. heap_base \in Blocks /\ heap_base \in Nat /\ HeaderSize \in Nat
  BY KmemConstants DEF KInv, HeapTiled, HeaderTypes
<1> HIDE DEF w
<1>1. 0 \in S
  BY <1>0, <1>00
<1>2. ASSUME NEW j \in Nat, j \in S PROVE j + 1 \in S
  <2> SUFFICES ASSUME j + 1 <= bound, w[j + 1] # NULL
               PROVE  w[j + 1] \in Blocks /\ heap_base + (j + 1) * HeaderSize <= w[j + 1]
    OBVIOUS
  <2>1. Good(j)
    BY <1>2
  <2>2. w[j] \in 0..MaxAddr
    BY <2>1, KmemConstants DEF NULL, Blocks, Addr
  <2>3. j + 1 \in 1..bound /\ (j + 1) - 1 = j
    OBVIOUS
  <2>4. w[j + 1] = IF w[j] = NULL THEN NULL ELSE next[w[j]]
    BY <1>0, <2>2, <2>3
  <2>5. w[j] \in Blocks /\ w[j + 1] = next[w[j]] /\ heap_base + j * HeaderSize <= w[j]
    BY <2>1, <2>4
  <2>6. /\ next[w[j]] \in Blocks /\ next[w[j]] = w[j] + HeaderSize + size[w[j]]
        /\ size[w[j]] \in Nat /\ w[j] \in Nat
    BY <2>5, BlockFacts DEF Addr
  <2>7. (j + 1) * HeaderSize = j * HeaderSize + HeaderSize /\ j * HeaderSize \in Nat
    BY <1>00
  <2> QED BY <2>5, <2>6, <2>7, <1>00
<1>3. Nat \subseteq S
  <2> HIDE DEF S
  <2> QED BY <1>1, <1>2, NumberInduction
<1> QED BY <1>3 DEF w

\* A walk long enough for the arena meets every block and falls off the end.
LEMMA WalkCovers ==
  ASSUME KInv, initialized, NEW bound \in Nat,
         heap_end - heap_base < (bound + 1) * HeaderSize
  PROVE  /\ Walk(bound)[bound] = NULL
         /\ \A b \in Blocks : \E k \in 0..bound : Walk(bound)[k] = b
<1> DEFINE w == Walk(bound)
           Missed == {b \in Blocks : ~\E k \in 0..bound : w[k] = b}
<1>1. /\ heap_base \in Blocks /\ heap_base \in Nat /\ heap_end \in Nat
      /\ HeaderSize \in Nat /\ HeaderSize > 0 /\ Blocks \subseteq Nat
  BY KmemConstants DEF KInv, HeapTiled, HeaderTypes, Blocks, Addr
<1>2. w[0] = heap_base /\ \A j \in 1..bound : w[j - 1] \in 0..MaxAddr =>
                            w[j] = IF w[j - 1] = NULL THEN NULL ELSE next[w[j - 1]]
  BY WalkFacts
<1>3. \A k \in 0..bound : w[k] # NULL => w[k] \in Blocks /\ heap_base + k * HeaderSize <= w[k]
  BY WalkBlocks
<1>4. \A b \in Blocks : b + HeaderSize <= heap_end
  BY <1>1, BlockFacts DEF Addr
<1> HIDE DEF w
<1>5. ASSUME NEW k \in 0..bound, w[k] # NULL
      PROVE  (k + 1) * HeaderSize <= heap_end - heap_base
  <2>1. w[k] \in Nat /\ w[k] + HeaderSize <= heap_end /\ heap_base + k * HeaderSize <= w[k]
    BY <1>1, <1>3, <1>4, <1>5, Zenon
  <2>2. (k + 1) * HeaderSize = k * HeaderSize + HeaderSize /\ k * HeaderSize \in Nat
    BY <1>1
  <2> QED BY <2>1, <2>2, <1>1
<1>6. w[bound] = NULL
  <2> SUFFICES ASSUME w[bound] # NULL PROVE FALSE
    OBVIOUS
  <2>1. (bound + 1) * HeaderSize <= heap_end - heap_base
    BY <1>5
  <2>2. (bound + 1) * HeaderSize \in Nat
    BY <1>1
  <2> QED BY <2>1, <2>2, <1>1
<1>7. Missed = {}
  <2> SUFFICES ASSUME Missed # {} PROVE FALSE
    OBVIOUS
  <2>1. PICK b \in Missed : \A c \in Missed : b <= c
    BY <1>1, LeastNumber, Zenon
  <2>2. b # heap_base
    BY <1>2, <2>1
  <2>3. PICK p \in Blocks : p = prev[b] /\ next[p] = b /\ b = End(p)
    BY <2>1, <2>2, BlockFacts DEF NULL, Blocks, Addr
  <2>4. p < b /\ p \in Nat /\ p # NULL
    BY <2>3, BlockFacts DEF Addr, NULL
  <2>5. PICK k \in 0..bound : w[k] = p
    <3>1. p \notin Missed
      BY <2>1, <2>4, <1>1
    <3> QED BY <3>1, <2>3
  <2>6. k # bound
    BY <2>4, <2>5, <1>6
  <2>7. k + 1 \in 1..bound /\ (k + 1) - 1 = k /\ w[k] \in 0..MaxAddr
    <3>1. p \in 1..MaxAddr
      BY <2>3 DEF Blocks, Addr
    <3> QED BY <3>1, <2>5, <2>6, KmemConstants
  <2>8. w[k + 1] = b
    BY <2>3, <2>4, <2>5, <2>7, <1>2, Zenon
  <2> QED BY <2>1, <2>7, <2>8
<1> QED BY <1>6, <1>7 DEF w

\* kmem_get_stats visits exactly the blocks.
LEMMA ListedBlocks ==
  ASSUME KInv, initialized
  PROVE  Listed = Blocks
<1> DEFINE bound == MaxAddr \div HeaderSize
<1>0. /\ bound \in Int /\ MaxAddr = HeaderSize * bound + (MaxAddr % HeaderSize)
      /\ MaxAddr % HeaderSize \in 0..(HeaderSize - 1)
  BY KmemConstants, DivMod
<1> HIDE DEF bound
<1>1. /\ bound \in Nat /\ MaxAddr = HeaderSize * bound + (MaxAddr % HeaderSize)
      /\ MaxAddr % HeaderSize \in 0..(HeaderSize - 1)
  <2>1. ASSUME bound <= -1 PROVE HeaderSize * bound <= - HeaderSize
    BY <1>0, <2>1, KmemConstants
  <2> QED BY <1>0, <2>1, KmemConstants
<1>2. heap_end - heap_base < (bound + 1) * HeaderSize
  <2>1. heap_base \in Nat /\ heap_end \in Nat /\ heap_end <= MaxAddr
    BY DEF KInv, HeaderTypes, ArenaState
  <2>2. (bound + 1) * HeaderSize = HeaderSize * bound + HeaderSize /\ HeaderSize * bound \in Nat
    BY <1>1, KmemConstants
  <2> QED BY <2>1, <2>2, <1>1, KmemConstants
<1>3. DOMAIN Walk(bound) = 0..bound
  BY <1>1, WalkFacts
<1>4. NULL \notin Blocks
  BY DEF Blocks, Addr, NULL
<1>5. Listed = {Walk(bound)[k] : k \in 0..bound} \ {NULL}
  BY <1>3, Zenon DEF Listed, bound
<1> QED BY <1>1, <1>2, <1>4, <1>5, WalkBlocks, WalkCovers

-----------------------------------------------------------------------------
\* The largest free block kmem_get_stats reports is not smaller than any.
LEMMA LargestFree ==
  ASSUME KInv, initialized
  PROVE  /\ kmem_get_stats.largest_free \in {0} \cup {size[b] : b \in {c \in Blocks : free[c]}}
         /\ \A b \in Blocks : free[b] => size[b] <= kmem_get_stats.largest_free
<1> DEFINE T == {0} \cup {size[b] : b \in {c \in Blocks : free[c]}}
           U == {MaxAddr - x : x \in T}
<1>1. kmem_get_stats.largest_free = Max(T)
  BY ListedBlocks DEF kmem_get_stats
<1>2. \A x \in T : x \in Nat /\ x <= MaxAddr
  <2>1. \A b \in Blocks : size[b] \in Nat /\ size[b] <= MaxAddr
    BY BlockFacts, KmemConstants DEF Addr
  <2> QED BY <2>1, KmemConstants
<1>3. U \in SUBSET Nat /\ U # {}
  BY <1>2, KmemConstants
<1>4. PICK u \in U : \A v \in U : u <= v
  BY <1>3, LeastNumber, Zenon
<1>5. PICK x \in T : u = MaxAddr - x
  BY <1>4
<1>6. \A y \in T : x >= y
  <2> SUFFICES ASSUME NEW y \in T PROVE x >= y
    OBVIOUS
  <2>1. MaxAddr - x <= MaxAddr - y
    BY <1>4, <1>5
  <2> QED BY <2>1, <1>2, KmemConstants
<1>7. Max(T) \in T /\ \A y \in T : Max(T) >= y
  <2> HIDE DEF T
  <2> QED BY <1>6 DEF Max
<1> HIDE DEF T
<1>8. \A b \in Blocks : free[b] => size[b] \in T
  BY DEF T
<1> QED BY <1>1, <1>2, <1>7, <1>8, Zenon DEF T

\* When the scan ends, ScanState and the list say where.
LEMMA FirstFitStep ==
  ASSUME KInv, Next, phase = "scan", phase' = "idle"
  PROVE  LET fit == {b \in Blocks : free[b] /\ size[b] >= wanted}
         IN  IF ret' = NULL THEN kmem_get_stats.largest_free < wanted
             ELSE /\ ret' - HeaderSize \in fit
                  /\ \A b \in fit : ret' - HeaderSize <= b
<1>1. ScanHit \/ ScanMiss
  BY Zenon DEF Next, Loop, kmem_init, kmem_alloc, kmem_calloc, kmem_free_checked, ScanOn,
       Coalesce, CoalesceDone
<1>2. initialized /\ wanted \in Nat /\ 0 < wanted
  BY DEF KInv, ScanState, ArenaState, LoopTypes
<1>3. CASE ScanHit
  <2>1. /\ cur \in Blocks /\ free[cur] /\ size[cur] >= wanted /\ ret' = kmem_payload(cur)
        /\ cur \in Nat /\ \A b \in Blocks : b \in Nat
    BY <1>3, HitFacts DEF ScanHit, Blocks, Addr
  <2>2. ret' # NULL /\ ret' - HeaderSize = cur
    BY <2>1, KmemConstants DEF kmem_payload, NULL
  <2>3. \A b \in Blocks : free[b] /\ size[b] >= wanted => ~(b < cur)
    BY DEF KInv, ScanState
  <2> QED BY <2>1, <2>2, <2>3
<1>4. CASE ScanMiss
  <2>1. cur = NULL /\ ret' = NULL
    BY <1>4 DEF ScanMiss, KInv, ScanState, Blocks
  <2>2. \A b \in Blocks : free[b] => size[b] \in Nat /\ size[b] < wanted
    BY <2>1, <1>2, BlockFacts DEF KInv, ScanState
  <2>3. kmem_get_stats.largest_free < wanted
    BY <2>2, <1>2, LargestFree
  <2> QED BY <2>1, <2>3
<1> QED BY <1>1, <1>3, <1>4

\* kmem_alloc takes the first block that is large enough, and gives up only
\* when kmem_get_stats reports none (kmem.c, the loop of kmem_alloc).
THEOREM TakesFirstFit == Spec => FirstFit
<1>1. KInv /\ [Next]_vars =>
        [phase = "scan" /\ phase' = "idle" =>
           LET fit == {b \in Blocks : free[b] /\ size[b] >= wanted}
           IN  IF ret' = NULL THEN kmem_get_stats.largest_free < wanted
               ELSE /\ ret' - HeaderSize \in fit
                    /\ \A b \in fit : ret' - HeaderSize <= b]_vars
  BY FirstFitStep
<1> QED BY <1>1, HeapInvariant, PTL DEF Spec, FirstFit

-----------------------------------------------------------------------------
\* The arena stays within what kmem_validate walks.
ArenaWalked == initialized => heap_end - heap_base <= ValidateGuard * HeaderSize

\* There is no arena before kmem_init.
LEMMA WalkedInit == Init => ArenaWalked
BY DEF Init, ArenaWalked

\* kmem_init uses no more than it is given, and no call changes the arena.
LEMMA WalkedNext == ArenaWalked /\ [Next]_vars => ArenaWalked'
<1> SUFFICES ASSUME ArenaWalked, [Next]_vars PROVE ArenaWalked'
  OBVIOUS
<1>1. ASSUME NEW a \in Arenas, kmem_init(a.base, a.bytes) PROVE ArenaWalked'
  <2> DEFINE base == a.base
             bytes == a.bytes
  <2>1. base \in Nat /\ bytes \in Nat /\ base + bytes <= MaxAddr
        /\ bytes <= ValidateGuard * HeaderSize
    BY KmemConstants, ArenasBelowGuard
  <2>2. CASE InitCode(base, bytes) # 0
    BY <1>1, <2>2, Zenon DEF kmem_init, ArenaWalked, arena
  <2>3. CASE InitCode(base, bytes) = 0
    <3>1. PICK start, usable, rest :
             /\ start = kmem_align_up(base) /\ rest = bytes - (start - base)
             /\ usable = rest - (rest % Align)
      OBVIOUS
    <3>2. heap_base' = start /\ heap_end' = start + usable
      BY <1>1, <2>3, <3>1 DEF kmem_init
    <3>3. start \in Addr /\ usable \in Nat
      <4> HIDE DEF base, bytes
      <4> QED BY <2>1, <2>3, <3>1, AcceptedArena
    <3> HIDE DEF base, bytes
    <3>4. start >= base
      BY <2>1, <3>1, <3>3, AlignUp DEF Addr
    <3>5. rest \in Int /\ rest % Align \in Nat
      <4>1. rest \in Int
        BY <2>1, <3>1, <3>3 DEF Addr
      <4> QED BY <4>1, DivMod, KmemConstants
    <3>6. heap_end' - heap_base' <= bytes
      BY <2>1, <3>1, <3>2, <3>3, <3>4, <3>5 DEF Addr
    <3>7. ValidateGuard * HeaderSize \in Nat /\ heap_end' - heap_base' \in Int
      BY <3>2, <3>3, KmemConstants DEF Addr
    <3> QED BY <2>1, <3>6, <3>7 DEF ArenaWalked
  <2> QED BY <2>2, <2>3
<1>2. CASE UNCHANGED arena
  BY <1>2 DEF ArenaWalked, arena
<1> QED
  BY <1>1, <1>2, Zenon DEF Next, Loop, kmem_alloc, kmem_calloc, kmem_free_checked, ScanOn, ScanHit,
       ScanMiss, Coalesce, CoalesceDone, vars

\* The checker finds nothing wrong with a tiled heap.
LEMMA ValidatePasses ==
  ASSUME KInv, ArenaWalked, initialized
  PROVE  kmem_validate = 0
<1> DEFINE w == Walk(ValidateGuard)
           Code(k) == IF k = 0 THEN ValidateCode(w[0], NULL, heap_base)
                      ELSE ValidateCode(w[k], w[k - 1], kmem_align_up(End(w[k - 1])))
           bad == {k \in 0..(ValidateGuard - 1) : w[k] # NULL /\ Code(k) # 0}
<1>1. /\ heap_base \in Blocks /\ heap_base \in Nat /\ heap_end \in Nat /\ heap_base # NULL
      /\ prev[heap_base] = NULL /\ ValidateGuard \in Nat
  BY KmemConstants DEF KInv, HeapTiled, HeaderTypes, Blocks, Addr, NULL
<1>2. heap_end > heap_base
  BY <1>1, BlockFacts
<1>3. heap_end - heap_base < (ValidateGuard + 1) * HeaderSize
  <2>1. /\ (ValidateGuard + 1) * HeaderSize = ValidateGuard * HeaderSize + HeaderSize
        /\ ValidateGuard * HeaderSize \in Nat
    BY KmemConstants
  <2> QED BY <2>1, <1>1, KmemConstants DEF ArenaWalked
<1>4. w[ValidateGuard] = NULL
  BY <1>1, <1>3, WalkCovers
<1>5. ASSUME NEW b \in Blocks, NEW before, NEW cursor, prev[b] = before, b = cursor
      PROVE  ValidateCode(b, before, cursor) = 0
  <2>1. /\ b >= heap_base /\ b \in Nat /\ size[b] \in Nat /\ End(b) = b + HeaderSize + size[b]
        /\ kmem_align_up(End(b)) = End(b) /\ End(b) <= heap_end /\ End(b) \in 1..MaxAddr
        /\ magic[b]
    BY BlockFacts DEF Blocks, Addr
  <2>2. /\ kmem_payload(b) \in Int /\ heap_end - kmem_payload(b) \in Int
        /\ kmem_payload(b) <= heap_end /\ size[b] <= heap_end - kmem_payload(b)
    BY <2>1, <1>1, KmemConstants DEF kmem_payload
  <2>4. ~(b < heap_base) /\ ~(kmem_payload(b) > heap_end) /\ ~(size[b] > heap_end - kmem_payload(b))
    BY <2>1, <2>2, <1>1
  <2>3. kmem_align_up(End(b)) \in 1..heap_end
    BY <2>1, <1>1
  <2> QED BY <2>1, <2>3, <2>4, <1>5 DEF ValidateCode
<1>6. ASSUME NEW k \in 0..(ValidateGuard - 1), w[k] # NULL
      PROVE  Code(k) = 0
  <2>1. w[0] = heap_base
    BY <1>1, WalkFacts
  <2>2. CASE k = 0
    BY <2>1, <2>2, <1>1, <1>5
  <2>3. CASE k # 0
    <3>1. k \in 1..ValidateGuard /\ k - 1 \in 0..ValidateGuard
      BY <2>3, <1>1
    <3>2. w[k - 1] # NULL => w[k - 1] \in Blocks
      BY <3>1, <1>1, WalkBlocks
    <3>3. w[k - 1] \in 0..MaxAddr
      BY <3>2, KmemConstants DEF Blocks, Addr, NULL
    <3>4. w[k - 1] \in Blocks /\ w[k] = next[w[k - 1]]
      BY <3>1, <3>2, <3>3, <1>1, <1>6, WalkFacts
    <3>5. /\ w[k] \in Blocks /\ prev[w[k]] = w[k - 1]
          /\ kmem_align_up(End(w[k - 1])) = w[k]
      BY <3>4, <1>6, BlockFacts
    <3> HIDE DEF w
    <3> QED BY <2>3, <3>5, <1>5
  <2> QED BY <2>2, <2>3
<1>7. bad = {}
  <2> HIDE DEF w, Code
  <2> QED BY <1>6
<1> HIDE DEF Code
<1>8. kmem_validate = IF ~initialized \/ heap_base = NULL \/ heap_end <= heap_base THEN -1
                      ELSE IF g_head # heap_base THEN -2
                      ELSE IF bad # {} THEN Code(Min(bad))
                      ELSE IF w[ValidateGuard] # NULL THEN -3
                      ELSE 0
  BY Zenon DEF kmem_validate, Code
<1> HIDE DEF bad, w
<1> QED BY <1>1, <1>2, <1>4, <1>7, <1>8 DEF g_head

\* Some block ends where the arena ends.
LEMMA LastBlock ==
  ASSUME KInv, initialized
  PROVE  \E b \in Blocks : End(b) = heap_end
<1> DEFINE U == {MaxAddr - b : b \in Blocks}
<1>1. heap_base \in Blocks /\ MaxAddr \in Nat /\ Blocks \subseteq 1..MaxAddr
  BY KmemConstants DEF KInv, HeapTiled, Blocks, Addr
<1>2. U \in SUBSET Nat /\ U # {}
  BY <1>1
<1>3. PICK u \in U : \A v \in U : u <= v
  BY <1>2, LeastNumber, Zenon
<1>4. PICK b \in Blocks : u = MaxAddr - b
  BY <1>3
<1>5. \A c \in Blocks : c <= b
  <2> SUFFICES ASSUME NEW c \in Blocks PROVE c <= b
    OBVIOUS
  <2>1. MaxAddr - b <= MaxAddr - c
    BY <1>3, <1>4
  <2> QED BY <2>1, <1>1
<1>6. next[b] = NULL
  <2> SUFFICES ASSUME next[b] # NULL PROVE FALSE
    OBVIOUS
  <2>1. next[b] \in Blocks /\ next[b] = End(b) /\ b < End(b) /\ End(b) \in 1..MaxAddr
    BY BlockFacts
  <2> QED BY <2>1, <1>1, <1>5
<1> QED BY <1>6, BlockFacts

\* There are finitely many blocks.
LEMMA FiniteBlocks == IsFiniteSet(Blocks)
<1>1. IsFiniteSet(1..MaxAddr)
  BY FS_Interval, KmemConstants
<1>2. Blocks \in SUBSET (1..MaxAddr)
  BY DEF Blocks, Addr
<1> QED BY <1>1, <1>2, FS_Subset, Zenon

\* The bytes before x are those of the blocks before x and of their headers.
LEMMA PrefixSum ==
  ASSUME KInv, initialized, NEW x \in Blocks \cup {heap_end}
  PROVE  LET pre == {c \in Blocks : c < x}
         IN  SumFunctionOnSet(size, pre) + Cardinality(pre) * HeaderSize = x - heap_base
<1> DEFINE Pre(y) == {c \in Blocks : c < y}
           Holds(y) == SumFunctionOnSet(size, Pre(y)) + Cardinality(Pre(y)) * HeaderSize
                         = y - heap_base
           Ends == Blocks \cup {heap_end}
           T == {y \in Ends : ~Holds(y)}
<1>1. /\ heap_base \in Blocks /\ heap_end \in Nat /\ MaxAddr \in Nat /\ HeaderSize \in Nat
      /\ Blocks \subseteq 1..MaxAddr /\ Blocks \subseteq Nat
  BY KmemConstants DEF KInv, HeapTiled, Blocks, Addr, HeaderTypes
<1>2. IsFiniteSet(Blocks)
  BY FiniteBlocks
<1>3. \A b \in Blocks : /\ size[b] \in Nat /\ heap_base <= b /\ b < End(b)
                        /\ End(b) = b + HeaderSize + size[b] /\ End(b) <= heap_end
  BY BlockFacts
<1>4. ASSUME NEW y \in Ends, y # heap_base
      PROVE  \E b \in Blocks : End(b) = y
  <2>1. CASE y \in Blocks
    <3>1. prev[y] \in Blocks /\ next[prev[y]] = y /\ y # NULL
      BY <1>4, <2>1, <1>1, BlockFacts DEF NULL
    <3> QED BY <3>1, BlockFacts
  <2>2. CASE y = heap_end
    BY <2>2, LastBlock
  <2> QED BY <2>1, <2>2
<1> HIDE DEF Holds
<1> SUFFICES ASSUME T # {} PROVE FALSE
  BY Zenon DEF Holds
<1>5. PICK y \in T : \A z \in T : y <= z
  BY <1>1, LeastNumber, Zenon
<1>6. CASE y = heap_base
  <2>1. Pre(y) = {}
    <3>1. \A c \in Blocks : c \in Nat /\ heap_base \in Nat /\ heap_base <= c
      BY <1>1, <1>3
    <3> QED BY <3>1, <1>6
  <2> HIDE DEF Pre
  <2>2. SumFunctionOnSet(size, {}) = 0 /\ Cardinality({}) = 0
    BY SumEquation, FS_EmptySet, Zenon
  <2>3. Holds(y)
    BY <2>1, <2>2, <1>1, <1>6 DEF Holds
  <2> QED BY <2>3, <1>5
<1>7. CASE y # heap_base
  <2>1. PICK b \in Blocks : End(b) = y
    BY <1>4, <1>5, <1>7
  <2>2. b \in Nat /\ y \in Nat /\ b < y
    BY <2>1, <1>1, <1>3, <1>5
  <2>3. Holds(b)
    BY <2>2, <1>5
  <2>4. Pre(y) = Pre(b) \cup {b} /\ b \notin Pre(b)
    <3>1. \A c \in Blocks : b < c => y <= c
      BY <2>1 DEF KInv, HeapTiled
    <3>2. \A c \in Blocks : c < y <=> (c < b \/ c = b)
      <4> SUFFICES ASSUME NEW c \in Blocks PROVE c < y <=> (c < b \/ c = b)
        OBVIOUS
      <4>1. c \in Nat
        BY <1>1
      <4> QED BY <4>1, <3>1, <2>2
    <3>3. b \in Blocks /\ ~(b < b)
      BY <2>2
    <3> QED BY <3>2, <3>3
  <2>5. Pre(b) \in SUBSET Blocks
    OBVIOUS
  <2> HIDE DEF Pre
  <2>6. IsFiniteSet(Pre(b)) /\ Cardinality(Pre(b)) \in Nat
    BY <2>5, <1>2, FS_Subset, FS_CardinalityType
  <2>7. \A c \in Pre(b) : size[c] \in Nat
    BY <2>5, <1>3
  <2>8. /\ SumFunctionOnSet(size, Pre(y)) = size[b] + SumFunctionOnSet(size, Pre(b))
        /\ SumFunctionOnSet(size, Pre(b)) \in Nat
    BY <2>4, <2>6, <2>7, <1>3, SumAdd, SumType
  <2>9. Cardinality(Pre(y)) = Cardinality(Pre(b)) + 1
    BY <2>4, <2>6, FS_AddElement
  <2>10. Cardinality(Pre(y)) * HeaderSize = Cardinality(Pre(b)) * HeaderSize + HeaderSize
         /\ Cardinality(Pre(b)) * HeaderSize \in Nat
    BY <2>6, <2>9, <1>1
  <2>11. y = b + HeaderSize + size[b] /\ size[b] \in Nat
    BY <2>1, <1>3
  <2>12. Holds(y)
    BY <2>2, <2>3, <2>8, <2>10, <2>11, <1>1 DEF Holds
  <2> QED BY <2>12, <1>5
<1> QED BY <1>6, <1>7

\* The used, the free and the header bytes are the arena.
LEMMA StatsAddUp ==
  ASSUME KInv, initialized
  PROVE  LET s == kmem_get_stats
         IN  s.used_bytes + s.free_bytes + s.block_count * HeaderSize = s.total_bytes
<1> DEFINE used == {b \in Blocks : ~free[b]}
           idle == {b \in Blocks : free[b]}
<1>1. /\ kmem_get_stats.used_bytes = SumFunctionOnSet(size, used)
      /\ kmem_get_stats.free_bytes = SumFunctionOnSet(size, idle)
      /\ kmem_get_stats.block_count = Cardinality(Blocks)
      /\ kmem_get_stats.total_bytes = heap_end - heap_base
  BY ListedBlocks, Zenon DEF kmem_get_stats
<1>2. IsFiniteSet(Blocks) /\ \A b \in Blocks : size[b] \in Nat
  BY FiniteBlocks, BlockFacts
<1>3. used \in SUBSET Blocks /\ idle = Blocks \ used
  OBVIOUS
<1>4. {c \in Blocks : c < heap_end} = Blocks
  <2> SUFFICES ASSUME NEW b \in Blocks PROVE b < heap_end
    OBVIOUS
  <2>1. b \in Nat /\ End(b) \in Nat /\ heap_end \in Nat /\ b < End(b) /\ End(b) <= heap_end
    <3>1. heap_end \in Nat
      BY DEF KInv, HeaderTypes
    <3> QED BY <3>1, BlockFacts DEF Addr
  <2> QED BY <2>1
<1> HIDE DEF used, idle
<1>5. SumFunctionOnSet(size, Blocks) = SumFunctionOnSet(size, used) + SumFunctionOnSet(size, idle)
  BY <1>2, <1>3, SumDisjoint
<1>6. SumFunctionOnSet(size, Blocks) + Cardinality(Blocks) * HeaderSize = heap_end - heap_base
  BY <1>4, PrefixSum
<1> QED BY <1>1, <1>5, <1>6

\* kmem_validate accepts the heap after every call and the statistics of
\* kmem_get_stats add up to the arena.
THEOREM ReportsItself == Spec => []HeapReported
<1>1. KInv /\ ArenaWalked => HeapReported
  BY ValidatePasses, StatsAddUp DEF HeapReported
<1> QED BY <1>1, HeapInvariant, WalkedInit, WalkedNext, PTL DEF Spec
=============================================================================
