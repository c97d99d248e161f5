-------------------------------- MODULE PMM --------------------------------
(***************************************************************************)
(* The physical memory manager of src/pmm.c: a bitmap with one bit per     *)
(* page frame, counters, and a hint where the next search starts.          *)
(*                                                                         *)
(* The bitmap is the set of frames whose bit is 1.  A loop that marks the  *)
(* frames of a range one by one is one operation on the set of them; the   *)
(* guarded decrements of the counters saturate at zero either way.         *)
(* pmm_init_from_map proceeds region by region, as its two loops do.       *)
(* Addresses are uint64_t: they wrap at AddrMod.                           *)
(***************************************************************************)
EXTENDS Integers, Sequences, FiniteSets

CONSTANTS
    PageSize,       \* PMM_PAGE_SIZE
    AddrMod,        \* 2^64
    Maps,           \* the memory maps a boot loader may pass
    Storages,       \* the bitmap sizes, in bytes, callers may pass
    MaxPhysArgs,    \* the max_phys_bytes callers may pass
    Addresses,      \* the addresses callers pass to free and reserve
    Lengths,        \* the lengths callers pass to reserve
    StatMod,        \* where the two write-only statistics wrap (2^64)
    INVALID         \* PMM_INVALID_FRAME

Region == [base : 0..(AddrMod - 1), length : 0..(AddrMod - 1), usable : BOOLEAN]

ASSUME PMMConstants ==
    /\ PageSize \in Nat \ {0}
    /\ AddrMod \in Nat /\ 2 * PageSize <= AddrMod
    /\ Maps \subseteq Seq(Region)
    /\ Storages \subseteq Nat
    /\ MaxPhysArgs \subseteq 0..(AddrMod - 1)
    /\ Addresses \subseteq 0..(AddrMod - 1)
    /\ Lengths \subseteq 0..(AddrMod - 1)
    /\ StatMod \in Nat \ {0}
    /\ INVALID \notin Nat

VARIABLES
    bitmap,             \* the frames whose bit is set: used
    frame_count,
    free_frames,
    used_frames,
    reserved_frames,
    ignored_frames,
    next_hint,
    initialized,
    regions,            \* the memory map pmm_init_from_map is working on
    phase,              \* where it is: "off", "open", "frame0", "close", "up"
    i,                  \* its loop index
    safe,               \* ghost: the frames the memory map says may be used
    held,               \* ghost: frames handed out and not given back
    fenced,             \* ghost: frames a successful reserve_range covered
    ret                 \* what the last call returned

counters == <<free_frames, used_frames, reserved_frames, ignored_frames>>

vars == <<bitmap, frame_count, counters, next_hint, initialized, regions,
          phase, i, safe, held, fenced, ret>>

max_phys == frame_count * PageSize

Frames == 0..(frame_count - 1)

FreeSet == Frames \ bitmap

-----------------------------------------------------------------------------
(* uint64_t arithmetic.                                                     *)

align_down(value) == value - (value % PageSize)

align_up(value) == align_down((value + PageSize - 1) % AddrMod)

\* checked_add_u64 succeeds
NoOverflow(a, b) == a + b < AddrMod

Monus(a, b) == IF a > b THEN a - b ELSE 0

Least(S) == CHOOSE x \in S : \A y \in S : x <= y

-----------------------------------------------------------------------------
(* Marking.                                                                 *)

\* Mutant: the hint is not lowered.
MarkFreeKeepsHint(S) ==
    LET opened == S \cap bitmap
    IN  /\ bitmap' = bitmap \ S
        /\ free_frames' = free_frames + Cardinality(opened)
        /\ used_frames' = Monus(used_frames, Cardinality(opened))
        /\ UNCHANGED next_hint

\* mark_frame_free for every frame of S.
MarkFree(S) ==
    LET opened == S \cap bitmap
    IN  /\ bitmap' = bitmap \ S
        /\ free_frames' = free_frames + Cardinality(opened)
        /\ used_frames' = Monus(used_frames, Cardinality(opened))
        /\ next_hint' = Least(opened \cup {next_hint})

\* Mutant: frames that were used already are counted again.
MarkUsedCountsAll(S) ==
    /\ bitmap' = bitmap \cup S
    /\ free_frames' = Monus(free_frames, Cardinality(S))
    /\ used_frames' = used_frames + Cardinality(S)

\* mark_frame_used for every frame of S.
MarkUsed(S) ==
    LET closed == S \ bitmap
    IN  /\ bitmap' = bitmap \cup S
        /\ free_frames' = Monus(free_frames, Cardinality(closed))
        /\ used_frames' = used_frames + Cardinality(closed)

\* The frames the loop `for (addr = start; addr < stop; ...)' visits.
Visited(start, stop) ==
    {f \in Frames : start <= f * PageSize /\ f * PageSize < stop}

\* Mutant: a partly usable first page is opened.
RangeFreeOutward(base, length) ==
    LET start == align_down(base)
        stop == align_down(base + length)
    IN  IF length = 0 \/ ~NoOverflow(base, length) \/ stop <= start
             \/ start >= max_phys
        THEN {} ELSE Visited(start, stop)

\* The frames mark_range_free opens.
RangeFree(base, length) ==
    LET start == align_up(base)
        stop == align_down(base + length)
    IN  IF length = 0 \/ ~NoOverflow(base, length) \/ stop <= start
             \/ start >= max_phys
        THEN {} ELSE Visited(start, stop)

\* The whole pages of the range beyond max_phys, which it only counts.
RangeIgnored(base, length) ==
    LET stop == align_down(base + length)
    IN  IF length = 0 \/ ~NoOverflow(base, length) \/ stop <= align_up(base)
             \/ align_up(base) >= max_phys \/ stop <= max_phys
        THEN 0 ELSE (stop - max_phys) \div PageSize

\* Mutant: a partly reserved last page stays open.
RangeUsedInward(base, length) ==
    LET start == align_down(base)
        stop == align_down(base + length)
    IN  IF length = 0 \/ ~NoOverflow(base, length) \/ stop <= start
             \/ start >= max_phys
        THEN {} ELSE Visited(start, stop)

\* The frames mark_range_used closes.
RangeUsed(base, length) ==
    LET start == align_down(base)
        stop == align_up(base + length)
    IN  IF length = 0 \/ ~NoOverflow(base, length) \/ stop <= start
             \/ start >= max_phys
        THEN {} ELSE Visited(start, stop)

mark_range_free(base, length) ==
    /\ MarkFree(RangeFree(base, length))
    /\ ignored_frames' = (ignored_frames + RangeIgnored(base, length)) % StatMod
    /\ UNCHANGED reserved_frames

\* Mutant: the statistic does not wrap.
MarkRangeUsedUnbounded(base, length) ==
    /\ MarkUsed(RangeUsed(base, length))
    /\ reserved_frames' =
         reserved_frames + Cardinality(RangeUsed(base, length) \ bitmap)
    /\ UNCHANGED <<ignored_frames, next_hint>>

mark_range_used(base, length) ==
    /\ MarkUsed(RangeUsed(base, length))
    /\ reserved_frames' =
         (reserved_frames + Cardinality(RangeUsed(base, length) \ bitmap)) % StatMod
    /\ UNCHANGED <<ignored_frames, next_hint>>

-----------------------------------------------------------------------------
(* The memory map as its author means it, with unbounded arithmetic: the    *)
(* bytes of frame f, and the frames below n that lie in a usable region and *)
(* touch no other one.                                                      *)

Covers(r, f) == r.base <= f * PageSize /\ (f + 1) * PageSize <= r.base + r.length

Touches(r, f) ==
    r.length > 0 /\ r.base < (f + 1) * PageSize /\ f * PageSize < r.base + r.length

SafeFrames(map, n) ==
    LET Valid == {r \in {map[k] : k \in DOMAIN map} : NoOverflow(r.base, r.length)}
    IN  {f \in 1..(n - 1) : /\ \E r \in Valid : r.usable /\ Covers(r, f)
                            /\ \A r \in Valid : ~r.usable => ~Touches(r, f)}

-----------------------------------------------------------------------------
Init ==
    /\ bitmap = {} /\ frame_count = 0
    /\ free_frames = 0 /\ used_frames = 0
    /\ reserved_frames = 0 /\ ignored_frames = 0
    /\ next_hint = 0 /\ initialized = FALSE
    /\ regions = <<>> /\ phase = "off" /\ i = 1
    /\ safe = {} /\ held = {} /\ fenced = {} /\ ret = FALSE

\* Entry of pmm_init_from_map: the argument checks, pmm_zero_state and the
\* all-used bitmap.  A second call starts over; whoever held a frame of the
\* first life has lost it.
InitBegin(map, storage, max_phys_bytes) ==
    LET count == max_phys_bytes \div PageSize
    IN  IF \/ map = <<>> \/ max_phys_bytes = 0 \/ max_phys_bytes % PageSize # 0
           \/ storage < (count + 7) \div 8
        THEN /\ ret' = FALSE
             /\ UNCHANGED <<bitmap, frame_count, counters, next_hint,
                            initialized, regions, phase, i, safe, held, fenced>>
        ELSE /\ frame_count' = count
             /\ bitmap' = 0..(count - 1)
             /\ free_frames' = 0 /\ used_frames' = count
             /\ reserved_frames' = 0 /\ ignored_frames' = 0
             /\ next_hint' = 0 /\ initialized' = FALSE
             /\ regions' = map /\ phase' = "open" /\ i' = 1
             /\ safe' = SafeFrames(map, count) /\ held' = {} /\ fenced' = {}
             /\ UNCHANGED ret

\* One iteration of the first loop: usable regions are opened.
InitOpen ==
    /\ phase = "open" /\ i <= Len(regions)
    /\ IF regions[i].usable
       THEN mark_range_free(regions[i].base, regions[i].length)
       ELSE UNCHANGED <<bitmap, counters, next_hint>>
    /\ i' = i + 1
    /\ phase' = IF i = Len(regions) THEN "frame0" ELSE "open"
    /\ UNCHANGED <<frame_count, initialized, regions, safe, held, fenced, ret>>

\* Frame 0 is closed between the loops.
InitFrame0 ==
    /\ phase = "frame0"
    /\ mark_range_used(0, PageSize)
    /\ phase' = "close" /\ i' = 1
    /\ UNCHANGED <<frame_count, initialized, regions, safe, held, fenced, ret>>

\* One iteration of the second loop: other regions are closed.  The last one
\* sets initialized and returns.
InitClose ==
    LET last == i = Len(regions)
    IN  /\ phase = "close" /\ i <= Len(regions)
        /\ IF regions[i].usable
           THEN UNCHANGED <<bitmap, counters, next_hint>>
           ELSE mark_range_used(regions[i].base, regions[i].length)
        /\ i' = IF last THEN 1 ELSE i + 1
        /\ phase' = IF last THEN "up" ELSE "close"
        /\ initialized' = last
        /\ regions' = IF last THEN <<>> ELSE regions
        /\ ret' = IF last THEN TRUE ELSE ret
        /\ UNCHANGED <<frame_count, safe, held, fenced>>

\* No call is made while pmm_init_from_map runs: one core, no interrupt use.
Idle == phase \in {"off", "up"}

\* Mutant: the search starts one frame too late.
FoundLate ==
    LET above == {f \in FreeSet : f > next_hint}
    IN  IF above # {} THEN Least(above) ELSE Least({f \in FreeSet : f <= next_hint})

\* The frame the two loops of pmm_alloc_frame find first.
Found ==
    LET above == {f \in FreeSet : f >= next_hint}
    IN  IF above # {} THEN Least(above) ELSE Least({f \in FreeSet : f < next_hint})

pmm_alloc_frame ==
    /\ Idle
    /\ IF ~initialized \/ free_frames = 0 \/ FreeSet = {}
       THEN ret' = INVALID /\ UNCHANGED <<bitmap, counters, next_hint, held>>
       ELSE /\ MarkUsed({Found})
            /\ next_hint' = Found + 1
            /\ held' = held \cup {Found}
            /\ ret' = Found * PageSize
            /\ UNCHANGED <<reserved_frames, ignored_frames>>
    /\ UNCHANGED <<frame_count, initialized, regions, phase, i, safe, fenced>>

\* Mutant: address 0 is not refused.
FreeFrameZero(phys_addr) ==
    LET frame == phys_addr \div PageSize
    IN  /\ Idle
        /\ IF \/ ~initialized \/ phys_addr % PageSize # 0
              \/ phys_addr >= max_phys \/ frame \notin bitmap
           THEN ret' = FALSE /\ UNCHANGED <<bitmap, counters, next_hint, held>>
           ELSE /\ MarkFree({frame})
                /\ held' = held \ {frame}
                /\ ret' = TRUE
                /\ UNCHANGED <<reserved_frames, ignored_frames>>
        /\ UNCHANGED <<frame_count, initialized, regions, phase, i, safe, fenced>>

pmm_free_frame(phys_addr) ==
    LET frame == phys_addr \div PageSize
    IN  /\ Idle
        /\ IF \/ ~initialized \/ phys_addr % PageSize # 0 \/ phys_addr = 0
              \/ phys_addr >= max_phys \/ frame \notin bitmap
           THEN ret' = FALSE /\ UNCHANGED <<bitmap, counters, next_hint, held>>
           ELSE /\ MarkFree({frame})
                /\ held' = held \ {frame}
                /\ ret' = TRUE
                /\ UNCHANGED <<reserved_frames, ignored_frames>>
        /\ UNCHANGED <<frame_count, initialized, regions, phase, i, safe, fenced>>

\* The frames a caller of pmm_reserve_range believes are now set aside.
Fence(base, length) ==
    {f \in Frames : NoOverflow(base, length)
                     /\ Touches([base |-> base, length |-> length], f)}

pmm_reserve_range(base, length) ==
    /\ Idle
    /\ IF ~initialized \/ length = 0
       THEN /\ ret' = FALSE
            /\ UNCHANGED <<bitmap, counters, next_hint, fenced>>
       ELSE /\ mark_range_used(base, length)
            /\ fenced' = fenced \cup Fence(base, length)
            /\ ret' = TRUE
    /\ UNCHANGED <<frame_count, initialized, regions, phase, i, safe, held>>

pmm_is_frame_free(phys_addr) ==
    /\ initialized /\ phys_addr % PageSize = 0 /\ phys_addr < max_phys
    /\ phys_addr \div PageSize \notin bitmap

-----------------------------------------------------------------------------
(* Callers.  AnyNext makes every call with every argument, at any time.     *)
(* In Next pmm_init_from_map succeeds once, a used frame is freed only by   *)
(* the caller that holds it, and a range is reserved only while nobody      *)
(* holds a frame of it.                                                     *)

Initialise(maps) ==
    \E map \in maps, storage \in Storages, max_phys_bytes \in MaxPhysArgs :
        InitBegin(map, storage, max_phys_bytes)

Initialising == InitOpen \/ InitFrame0 \/ InitClose

MayFree(phys_addr) ==
    phys_addr % PageSize # 0 \/ phys_addr \div PageSize \notin bitmap \ held

MayReserve(base, length) == Fence(base, length) \cap held = {}

Next ==
    \/ phase = "off" /\ Initialise(Maps)
    \/ Initialising
    \/ pmm_alloc_frame
    \/ \E a \in Addresses : MayFree(a) /\ pmm_free_frame(a)
    \/ \E a \in Addresses, l \in Lengths :
          MayReserve(a, l) /\ pmm_reserve_range(a, l)

AnyCalls(maps) ==
    \/ Idle /\ Initialise(maps)
    \/ Initialising
    \/ pmm_alloc_frame
    \/ \E a \in Addresses : pmm_free_frame(a)
    \/ \E a \in Addresses, l \in Lengths : pmm_reserve_range(a, l)

AnyNext == AnyCalls(Maps)

Spec == Init /\ [][Next]_vars
AnySpec == Init /\ [][AnyNext]_vars

-----------------------------------------------------------------------------
(* Properties.                                                              *)

\* Type invariant: counters and indices are natural numbers, bits exist only
\* for frames below frame_count, and ghosts are sets of frames.
TypeOK ==
    /\ frame_count \in Nat /\ bitmap \subseteq Frames
    /\ free_frames \in Nat /\ used_frames \in Nat
    /\ reserved_frames \in 0..(StatMod - 1) /\ ignored_frames \in 0..(StatMod - 1)
    /\ next_hint \in 0..frame_count
    /\ initialized \in BOOLEAN
    /\ regions \in Seq(Region)
    /\ phase \in {"off", "open", "frame0", "close", "up"}
    /\ i \in Nat \ {0}
    /\ safe \subseteq Frames /\ held \subseteq Frames /\ fenced \subseteq Frames

\* The counters are exact in every state, also half-way through
\* pmm_init_from_map: free_frames counts the clear bits, used_frames the set
\* ones, whatever overlaps the map has and whatever is freed or reserved.
CountersMatchBitmap ==
    /\ free_frames = Cardinality(FreeSet)
    /\ used_frames = Cardinality(bitmap)
    /\ free_frames + used_frames = frame_count

\* Once the map is processed frame 0 is never free again, under any calls.
Frame0Used == phase \in {"close", "up"} => 0 \in bitmap

\* No free frame lies below the hint: every operation that clears a bit also
\* lowers next_hint, so starting the search there overlooks nothing.
HintBelowFree == \A f \in FreeSet : next_hint <= f

\* pmm_alloc_frame fails only when no frame is free, and otherwise returns
\* the lowest free frame: the wrap-around loop never has to find it.
AllocFindsLowest ==
    [][pmm_alloc_frame =>
         ret' = IF initialized /\ FreeSet # {} THEN Least(FreeSet) * PageSize
                ELSE INVALID]_vars

\* The boot map is honoured exactly: when pmm_init_from_map returns true,
\* pmm_is_frame_free holds of the frames that lie wholly in one usable region
\* and touch no region of another kind, and of no other address, in whatever
\* order and overlap the map lists its regions.
BootMapHonoured ==
    [][~initialized /\ initialized' =>
         {a \in 0..(AddrMod - 1) : pmm_is_frame_free(a)'}
           = {f * PageSize : f \in safe}]_vars

\* Ownership: with callers that free only what they hold and reserve only
\* what nobody holds, a frame is free, held or neither, never two at once,
\* and no frame outside usable memory or in a reserved range gets out.
Ownership ==
    initialized => /\ held \cap FreeSet = {}
                   /\ held \cup FreeSet \subseteq safe \ fenced

\* From the M6 guide: only usable regions are opened; every other frame stays
\* used.
OnlyUsableOpened == initialized => FreeSet \subseteq safe

============================================================================
