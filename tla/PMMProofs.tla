----------------------------- MODULE PMMProofs -----------------------------
(***************************************************************************)
(* Proofs about PMM for every page size, address width, memory map and     *)
(* argument, and for callers that make every call at any time (AnySpec).   *)
(***************************************************************************)
EXTENDS PMMCallers, InductionFacts

-----------------------------------------------------------------------------
(* Natural numbers.                                                         *)

\* Least returns it.
LEMMA LeastIsMinimum ==
  ASSUME NEW S \in SUBSET Nat, S # {}
  PROVE  Least(S) \in S /\ \A y \in S : Least(S) <= y
  BY LeastNumber, Zenon DEF Least

\* Division by the page size.
LEMMA PageDivision ==
  ASSUME NEW a \in Nat
  PROVE  /\ a \div PageSize \in Nat
         /\ a % PageSize \in 0..(PageSize - 1)
         /\ a = PageSize * (a \div PageSize) + (a % PageSize)
  BY PMMConstants

\* Rounding down and up yields natural numbers.
LEMMA AlignType ==
  ASSUME NEW a \in Nat
  PROVE  /\ align_down(a) \in Nat /\ align_down(a) > a - PageSize
         /\ align_up(a) \in Nat
<1>1. ASSUME NEW b \in Nat
      PROVE  align_down(b) \in Nat /\ align_down(b) > b - PageSize
  <2>1. PageSize * (b \div PageSize) \in Nat
    BY PageDivision, PMMConstants
  <2> QED
    BY <2>1, PageDivision, PMMConstants DEF align_down
<1>2. (a + PageSize - 1) % AddrMod \in Nat
  BY PMMConstants
<1> QED
  BY <1>1, <1>2 DEF align_up

-----------------------------------------------------------------------------
(* Marking a set of frames.                                                 *)

\* What marking preserves: the bits are those of the frames, the counters
\* count them, and no free frame lies below the hint.
BitmapOK ==
    /\ frame_count \in Nat /\ bitmap \subseteq Frames
    /\ free_frames \in Nat /\ used_frames \in Nat
    /\ next_hint \in 0..frame_count
    /\ CountersMatchBitmap
    /\ HintBelowFree

\* A set of frames and its complement.
LEMMA Complement ==
  ASSUME frame_count \in Nat, NEW B \in SUBSET Frames
  PROVE  /\ IsFiniteSet(B)
         /\ Cardinality(B) \in 0..frame_count
         /\ Cardinality(Frames \ B) = frame_count - Cardinality(B)
<1>1. IsFiniteSet(Frames) /\ Cardinality(Frames) = frame_count
  BY FS_Interval DEF Frames
<1>2. IsFiniteSet(B) /\ Cardinality(B) <= frame_count
  BY <1>1, FS_Subset
<1>3. Cardinality(B) \in Nat
  BY <1>2, FS_CardinalityType
<1>4. Frames \cap B = B
  OBVIOUS
<1>5. Cardinality(Frames \ B) = Cardinality(Frames) - Cardinality(Frames \cap B)
  BY <1>1, FS_Difference
<1> QED
  BY <1>1, <1>2, <1>3, <1>4, <1>5

\* mark_frame_free over a set keeps the counters exact and the hint low.
LEMMA MarkFreeOK ==
  ASSUME BitmapOK, NEW S \in SUBSET Frames, MarkFree(S), frame_count' = frame_count
  PROVE  BitmapOK' /\ bitmap' = bitmap \ S
<1> DEFINE opened == S \cap bitmap
<1>1. /\ bitmap' = bitmap \ S
      /\ free_frames' = free_frames + Cardinality(opened)
      /\ used_frames' = Monus(used_frames, Cardinality(opened))
      /\ next_hint' = Least(opened \cup {next_hint})
  BY DEF MarkFree
<1>2. frame_count \in Nat /\ bitmap \in SUBSET Frames /\ Frames \subseteq Nat
      /\ Frames' = Frames
  BY DEF BitmapOK, Frames
<1>3. IsFiniteSet(bitmap) /\ Cardinality(bitmap) \in 0..frame_count
  BY <1>2, Complement, Zenon
<1>4. Cardinality(opened) \in 0..frame_count
  BY <1>2, Complement, Zenon
<1>5. Cardinality(bitmap \ S) = Cardinality(bitmap) - Cardinality(opened)
  <2>1. bitmap \cap S = opened
    OBVIOUS
  <2> QED
    BY <1>3, <2>1, FS_Difference
<1>6. Cardinality(bitmap \ S) \in 0..frame_count
      /\ Cardinality(Frames \ (bitmap \ S)) = frame_count - Cardinality(bitmap \ S)
  BY <1>2, Complement
<1>7. used_frames = Cardinality(bitmap) /\ free_frames = frame_count - used_frames
  BY <1>2, <1>3 DEF BitmapOK, CountersMatchBitmap
<1>8. used_frames' = Cardinality(bitmap') /\ free_frames' = frame_count - used_frames'
  <2> HIDE DEF opened
  <2>1. Cardinality(bitmap') = Cardinality(bitmap \ S)
    BY <1>1
  <2>2. used_frames >= Cardinality(opened)
    BY <1>3, <1>4, <1>5, <1>6, <1>7
  <2>3. used_frames' = used_frames - Cardinality(opened)
    BY <1>1, <1>3, <1>4, <1>7, <2>2 DEF Monus
  <2> QED
    BY <1>1, <1>2, <1>3, <1>4, <1>5, <1>7, <2>1, <2>3
<1>9. CountersMatchBitmap' /\ free_frames' \in Nat /\ used_frames' \in Nat
  BY <1>1, <1>2, <1>6, <1>8 DEF CountersMatchBitmap, FreeSet
<1>10. /\ next_hint' \in opened \cup {next_hint}
       /\ \A f \in opened \cup {next_hint} : next_hint' <= f
  <2>1. opened \cup {next_hint} \in SUBSET Nat /\ opened \cup {next_hint} # {}
    BY <1>2 DEF BitmapOK
  <2> QED
    BY <1>1, <2>1, LeastIsMinimum
<1>11. next_hint' \in 0..frame_count
  BY <1>2, <1>10 DEF BitmapOK, Frames
<1>12. HintBelowFree'
  <2> SUFFICES ASSUME NEW f \in Frames, f \notin bitmap \ S
               PROVE  next_hint' <= f
    BY <1>1, <1>2 DEF HintBelowFree, FreeSet
  <2>1. CASE f \in opened
    BY <2>1, <1>10
  <2>2. CASE f \in FreeSet
    BY <2>2, <1>2, <1>10, <1>11 DEF BitmapOK, HintBelowFree
  <2> QED
    BY <2>1, <2>2 DEF FreeSet
<1> QED
  BY <1>1, <1>2, <1>9, <1>11, <1>12 DEF BitmapOK

\* mark_frame_used over a set keeps the counters exact.
LEMMA MarkUsedCounts ==
  ASSUME BitmapOK, NEW S \in SUBSET Frames, MarkUsed(S), frame_count' = frame_count
  PROVE  /\ CountersMatchBitmap' /\ free_frames' \in Nat /\ used_frames' \in Nat
         /\ bitmap' = bitmap \cup S /\ bitmap' \subseteq Frames'
<1> DEFINE closed == S \ bitmap
<1>1. /\ bitmap' = bitmap \cup S
      /\ free_frames' = Monus(free_frames, Cardinality(closed))
      /\ used_frames' = used_frames + Cardinality(closed)
  BY DEF MarkUsed
<1>2. frame_count \in Nat /\ bitmap \in SUBSET Frames /\ Frames' = Frames
  BY DEF BitmapOK, Frames
<1>3. /\ IsFiniteSet(bitmap) /\ Cardinality(bitmap) \in 0..frame_count
      /\ IsFiniteSet(closed) /\ Cardinality(closed) \in 0..frame_count
  BY <1>2, Complement, Zenon
<1>4. Cardinality(bitmap \cup S) = Cardinality(bitmap) + Cardinality(closed)
  <2>1. bitmap \cup S = bitmap \cup closed /\ bitmap \cap closed = {}
    OBVIOUS
  <2>2. Cardinality(bitmap \cup closed)
          = Cardinality(bitmap) + Cardinality(closed) - Cardinality(bitmap \cap closed)
    BY <1>3, FS_Union
  <2> QED
    BY <1>3, <2>1, <2>2, FS_EmptySet
<1>5. Cardinality(bitmap \cup S) \in 0..frame_count
      /\ Cardinality(Frames \ (bitmap \cup S)) = frame_count - Cardinality(bitmap \cup S)
  <2>1. bitmap \cup S \in SUBSET Frames
    BY <1>2
  <2> QED
    BY <1>2, <2>1, Complement
<1>6. used_frames = Cardinality(bitmap) /\ free_frames = frame_count - used_frames
  BY <1>2, <1>3 DEF BitmapOK, CountersMatchBitmap
<1>7. used_frames' = Cardinality(bitmap') /\ free_frames' = frame_count - used_frames'
  <2> HIDE DEF closed
  <2>1. Cardinality(bitmap') = Cardinality(bitmap \cup S)
    BY <1>1
  <2>2. free_frames >= Cardinality(closed)
    BY <1>2, <1>3, <1>4, <1>5, <1>6
  <2>3. free_frames' = free_frames - Cardinality(closed)
    BY <1>1, <1>2, <1>3, <1>6, <2>2 DEF Monus
  <2> QED
    BY <1>1, <1>2, <1>3, <1>4, <1>6, <2>1, <2>3
<1> QED
  BY <1>1, <1>2, <1>5, <1>7 DEF CountersMatchBitmap, FreeSet

\* ... and, with an unchanged hint, everything else.
LEMMA MarkUsedOK ==
  ASSUME BitmapOK, NEW S \in SUBSET Frames, MarkUsed(S), frame_count' = frame_count,
         next_hint' = next_hint
  PROVE  BitmapOK' /\ bitmap' = bitmap \cup S
<1>1. /\ CountersMatchBitmap' /\ free_frames' \in Nat /\ used_frames' \in Nat
      /\ bitmap' = bitmap \cup S /\ bitmap' \subseteq Frames'
  BY MarkUsedCounts
<1>2. HintBelowFree'
  BY <1>1 DEF BitmapOK, HintBelowFree, FreeSet, Frames
<1> QED
  BY <1>1, <1>2 DEF BitmapOK

\* A range covers frames only, and what it ignores is counted.
LEMMA RangeType ==
  ASSUME frame_count \in Nat, NEW base \in Nat, NEW length \in Nat
  PROVE  /\ RangeFree(base, length) \in SUBSET Frames
         /\ RangeUsed(base, length) \in SUBSET Frames
         /\ RangeIgnored(base, length) \in Nat
<1>1. \A start, stop : Visited(start, stop) \in SUBSET Frames
  BY DEF Visited
<1>2. RangeFree(base, length) \in SUBSET Frames /\ RangeUsed(base, length) \in SUBSET Frames
  BY <1>1 DEF RangeFree, RangeUsed
<1>3. align_down(base + length) \in Nat /\ max_phys \in Nat
  <2>1. base + length \in Nat
    OBVIOUS
  <2>2. max_phys \in Nat
    BY PMMConstants DEF max_phys
  <2> QED
    BY <2>1, <2>2, AlignType
<1>4. RangeIgnored(base, length) \in Nat
  <2>1. CASE align_down(base + length) > max_phys
    <3>1. align_down(base + length) - max_phys \in Nat
      BY <1>3, <2>1
    <3>2. (align_down(base + length) - max_phys) \div PageSize \in Nat
      BY <3>1, PageDivision
    <3> QED
      BY <3>2 DEF RangeIgnored
  <2>2. CASE align_down(base + length) <= max_phys
    BY <2>2 DEF RangeIgnored
  <2> QED
    BY <1>3, <2>1, <2>2
<1> QED
  BY <1>2, <1>4

\* The statistics wrap.
LEMMA StatType ==
  ASSUME NEW a \in Nat, NEW b \in Nat
  PROVE  (a + b) % StatMod \in 0..(StatMod - 1)
  BY PMMConstants

\* mark_range_free and mark_range_used.
LEMMA MarkRangeFreeOK ==
  ASSUME BitmapOK, NEW base \in Nat, NEW length \in Nat, ignored_frames \in Nat,
         mark_range_free(base, length), frame_count' = frame_count
  PROVE  /\ BitmapOK' /\ bitmap' = bitmap \ RangeFree(base, length)
         /\ ignored_frames' \in 0..(StatMod - 1) /\ reserved_frames' = reserved_frames
<1>1. RangeFree(base, length) \in SUBSET Frames /\ RangeIgnored(base, length) \in Nat
  BY RangeType DEF BitmapOK
<1> QED
  BY <1>1, MarkFreeOK, StatType DEF mark_range_free

\* mark_range_used (pmm.c) keeps bitmap, counters and hint in step.
LEMMA MarkRangeUsedOK ==
  ASSUME BitmapOK, NEW base \in Nat, NEW length \in Nat, reserved_frames \in Nat,
         mark_range_used(base, length), frame_count' = frame_count
  PROVE  /\ BitmapOK' /\ bitmap' = bitmap \cup RangeUsed(base, length)
         /\ reserved_frames' \in 0..(StatMod - 1) /\ ignored_frames' = ignored_frames
<1>1. RangeUsed(base, length) \in SUBSET Frames
  BY RangeType DEF BitmapOK
<1>2. BitmapOK' /\ bitmap' = bitmap \cup RangeUsed(base, length)
  BY <1>1, MarkUsedOK DEF mark_range_used
<1>3. Cardinality(RangeUsed(base, length) \ bitmap) \in Nat
  <2>1. RangeUsed(base, length) \ bitmap \in SUBSET Frames
    BY <1>1
  <2>2. Cardinality(RangeUsed(base, length) \ bitmap) \in 0..frame_count
    BY <2>1, Complement, Zenon DEF BitmapOK
  <2> QED
    BY <2>2
<1> QED
  BY <1>2, <1>3, StatType DEF mark_range_used

\* The range of the first page is frame 0.
LEMMA Frame0Range ==
  ASSUME frame_count \in Nat, frame_count > 0
  PROVE  0 \in RangeUsed(0, PageSize)
<1>1. 0 \in Frames /\ max_phys > 0 /\ PageSize \in Nat /\ PageSize > 0
  BY PMMConstants DEF Frames, max_phys
<1>2. align_down(0) = 0
  <2>1. 0 % PageSize = 0
    BY PMMConstants
  <2> QED
    BY <2>1 DEF align_down
<1>3. NoOverflow(0, PageSize)
  BY PMMConstants DEF NoOverflow
<1>4. align_up(PageSize) > 0
  <2>1. (PageSize + PageSize - 1) % AddrMod = PageSize + PageSize - 1
    BY PMMConstants
  <2> DEFINE n == PageSize + PageSize - 1
  <2>2. n \in Nat
    BY <1>1
  <2> HIDE DEF n
  <2>3. align_down(n) \in Nat /\ align_down(n) > n - PageSize
    BY <2>2, AlignType
  <2>4. align_down(n) > 0
    BY <1>1, <2>2, <2>3 DEF n
  <2> QED
    BY <2>1, <2>4 DEF align_up, n
<1>5. align_up(PageSize) \in Nat
  BY <1>1, AlignType
<1>6. 0 \in Visited(0, align_up(PageSize))
  BY <1>1, <1>4, <1>5 DEF Visited
<1>7. RangeUsed(0, PageSize) = Visited(0, align_up(PageSize))
  <2>1. 0 + PageSize = PageSize
    BY <1>1
  <2>2. ~(align_up(PageSize) <= 0) /\ ~(0 >= max_phys)
    BY <1>1, <1>4, <1>5, PMMConstants DEF max_phys
  <2> QED
    BY <1>1, <1>2, <1>3, <2>1, <2>2 DEF RangeUsed
<1> QED
  BY <1>6, <1>7

-----------------------------------------------------------------------------
(* The inductive invariant.                                                 *)

\* The bounds on frame_count and on the hint are what the induction needs
\* beyond the properties: frame 0 can only be closed if there is one.
IInv ==
    /\ TypeOK
    /\ CountersMatchBitmap
    /\ HintBelowFree
    /\ Frame0Used
    /\ phase # "off" => frame_count > 0

\* What the invariant says of the bitmap.
LEMMA InvBitmap == IInv => BitmapOK
  BY DEF IInv, TypeOK, BitmapOK

\* The initial state: no frames at all.
LEMMA InitInv == Init => IInv
<1> SUFFICES ASSUME Init PROVE IInv
  OBVIOUS
<1>1. Frames = {} /\ FreeSet = {}
  BY DEF Init, Frames, FreeSet
<1>2. CountersMatchBitmap /\ HintBelowFree /\ Frame0Used
  BY <1>1, FS_EmptySet DEF Init, CountersMatchBitmap, HintBelowFree, Frame0Used
<1>3. 0 \in 0..(StatMod - 1)
  BY PMMConstants
<1>4. regions \in Seq(Region) /\ initialized \in BOOLEAN
  <2>1. regions \in Seq(Region)
    BY DEF Init
  <2>2. initialized \in BOOLEAN
    BY Zenon DEF Init
  <2> QED
    BY <2>1, <2>2
<1>5. TypeOK
  BY <1>1, <1>3, <1>4 DEF Init, TypeOK
<1> QED
  BY <1>2, <1>5 DEF IInv, Init

\* pmm_init_from_map, entry.
LEMMA InitBeginInv ==
  ASSUME IInv, NEW map \in Maps, NEW storage \in Storages,
         NEW max_phys_bytes \in MaxPhysArgs, InitBegin(map, storage, max_phys_bytes)
  PROVE  IInv'
<1> DEFINE count == max_phys_bytes \div PageSize
<1>1. max_phys_bytes \in Nat /\ map \in Seq(Region) /\ PageSize \in Nat \ {0}
  BY PMMConstants
<1>2. CASE UNCHANGED <<bitmap, frame_count, counters, next_hint, initialized,
                       regions, phase, i, safe, held, fenced>>
  BY <1>2 DEF IInv, TypeOK, CountersMatchBitmap, HintBelowFree, Frame0Used,
              counters, Frames, FreeSet
<1>3. CASE /\ max_phys_bytes # 0 /\ max_phys_bytes % PageSize = 0
           /\ frame_count' = count /\ bitmap' = 0..(count - 1)
           /\ free_frames' = 0 /\ used_frames' = count
           /\ reserved_frames' = 0 /\ ignored_frames' = 0
           /\ next_hint' = 0 /\ initialized' = FALSE
           /\ regions' = map /\ phase' = "open" /\ i' = 1
           /\ safe' = SafeFrames(map, count) /\ held' = {} /\ fenced' = {}
  <2>1. count \in Nat /\ count > 0
    <3>1. /\ count \in Nat
          /\ max_phys_bytes = PageSize * count + (max_phys_bytes % PageSize)
      BY <1>1, PageDivision, Zenon
    <3> HIDE DEF count
    <3>2. count # 0
      BY <1>1, <1>3, <3>1
    <3> QED
      BY <3>1, <3>2
  <2> HIDE DEF count
  <2>2. Frames' = 0..(count - 1) /\ FreeSet' = {}
    BY <1>3 DEF Frames, FreeSet
  <2>3. Cardinality(0..(count - 1)) = count /\ Cardinality({}) = 0
    BY <2>1, FS_Interval, FS_EmptySet
  <2>4. CountersMatchBitmap'
    BY <1>3, <2>1, <2>2, <2>3 DEF CountersMatchBitmap
  <2>5. safe' \subseteq Frames'
    BY <1>3, <2>1, <2>2 DEF SafeFrames
  <2>6. 0 \in 0..(StatMod - 1)
    BY PMMConstants
  <2>7. regions' \in Seq(Region) /\ initialized' \in BOOLEAN
    BY <1>1, <1>3, Zenon
  <2>8. TypeOK'
    BY <1>3, <2>1, <2>2, <2>5, <2>6, <2>7 DEF TypeOK
  <2> QED
    BY <1>3, <2>1, <2>2, <2>4, <2>8 DEF IInv, HintBelowFree, Frame0Used
<1> QED
  BY <1>2, <1>3, Zenon DEF InitBegin

\* The frame of a step of pmm_init_from_map's loops, and of the calls.
LEMMA StepInv ==
  ASSUME IInv, BitmapOK', frame_count' = frame_count,
         reserved_frames' \in 0..(StatMod - 1), ignored_frames' \in 0..(StatMod - 1),
         initialized' \in BOOLEAN, regions' \in Seq(Region),
         phase' \in {"open", "frame0", "close", "up"} \/ phase' = phase,
         phase # "off" \/ phase' = phase,
         i' \in Nat \ {0},
         safe' \subseteq Frames, held' \subseteq Frames, fenced' \subseteq Frames,
         phase' \in {"close", "up"} => 0 \in bitmap'
  PROVE  IInv'
<1>1. Frames' = Frames
  BY DEF Frames
<1>2. TypeOK'
  BY <1>1 DEF IInv, TypeOK, BitmapOK
<1> QED
  BY <1>2 DEF IInv, BitmapOK, Frame0Used

\* What an untouched bitmap leaves as it was.
LEMMA SameBitmap ==
  ASSUME BitmapOK, UNCHANGED <<bitmap, frame_count, counters, next_hint>>
  PROVE  BitmapOK'
  BY DEF BitmapOK, CountersMatchBitmap, HintBelowFree, counters, Frames, FreeSet

\* The region the loops are at.
LEMMA RegionType ==
  ASSUME IInv, i <= Len(regions)
  PROVE  regions[i].base \in Nat /\ regions[i].length \in Nat
<1>1. regions \in Seq(Region) /\ i \in 1..Len(regions)
  BY DEF IInv, TypeOK
<1>2. regions[i] \in Region
  BY <1>1
<1> QED
  BY <1>2, PMMConstants DEF Region

\* Opening the frames of a usable region keeps the invariant.
LEMMA InitOpenInv == ASSUME IInv, InitOpen PROVE IInv'
<1>1. BitmapOK /\ reserved_frames \in 0..(StatMod - 1)
      /\ ignored_frames \in 0..(StatMod - 1) /\ ignored_frames \in Nat
  BY InvBitmap DEF IInv, TypeOK
<1>2. /\ BitmapOK' /\ reserved_frames' \in 0..(StatMod - 1)
      /\ ignored_frames' \in 0..(StatMod - 1)
  <2>1. CASE regions[i].usable
    BY <1>1, <2>1, RegionType, MarkRangeFreeOK DEF InitOpen
  <2>2. CASE ~regions[i].usable
    BY <1>1, <2>2, SameBitmap DEF InitOpen, counters
  <2> QED
    BY <2>1, <2>2
<1>3. /\ frame_count' = frame_count /\ i' \in Nat \ {0}
      /\ phase # "off" /\ phase' \in {"open", "frame0"}
      /\ UNCHANGED <<initialized, regions, safe, held, fenced>>
  BY DEF InitOpen, IInv, TypeOK
<1> QED
  BY <1>2, <1>3, StepInv DEF IInv, TypeOK

\* Closing frame 0 keeps the invariant.
LEMMA InitFrame0Inv == ASSUME IInv, InitFrame0 PROVE IInv'
<1>1. /\ BitmapOK /\ ignored_frames \in 0..(StatMod - 1) /\ reserved_frames \in Nat
      /\ frame_count \in Nat
  BY InvBitmap DEF IInv, TypeOK
<1>2. PageSize \in Nat /\ frame_count > 0
  BY PMMConstants DEF IInv, InitFrame0
<1>3. /\ BitmapOK' /\ bitmap' = bitmap \cup RangeUsed(0, PageSize)
      /\ reserved_frames' \in 0..(StatMod - 1) /\ ignored_frames' \in 0..(StatMod - 1)
  BY <1>1, <1>2, MarkRangeUsedOK DEF InitFrame0
<1>4. 0 \in bitmap'
  BY <1>1, <1>2, <1>3, Frame0Range
<1>5. /\ frame_count' = frame_count /\ i' = 1
      /\ phase # "off" /\ phase' = "close"
      /\ UNCHANGED <<initialized, regions, safe, held, fenced>>
  BY DEF InitFrame0
<1> QED
  BY <1>3, <1>4, <1>5, StepInv DEF IInv, TypeOK

\* Closing the frames of a region that is not usable keeps the invariant.
LEMMA InitCloseInv == ASSUME IInv, InitClose PROVE IInv'
<1>1. /\ BitmapOK /\ ignored_frames \in 0..(StatMod - 1) /\ reserved_frames \in Nat
      /\ reserved_frames \in 0..(StatMod - 1) /\ 0 \in bitmap
  BY InvBitmap DEF IInv, TypeOK, InitClose, Frame0Used
<1>2. /\ BitmapOK' /\ bitmap \subseteq bitmap'
      /\ reserved_frames' \in 0..(StatMod - 1) /\ ignored_frames' \in 0..(StatMod - 1)
  <2>1. CASE ~regions[i].usable
    BY <1>1, <2>1, RegionType, MarkRangeUsedOK DEF InitClose
  <2>2. CASE regions[i].usable
    BY <1>1, <2>2, SameBitmap DEF InitClose, counters
  <2> QED
    BY <2>1, <2>2
<1>3. initialized' \in BOOLEAN
  BY DEF InitClose
<1>4. regions' \in Seq(Region)
  BY DEF InitClose, IInv, TypeOK
<1>5. /\ frame_count' = frame_count /\ i' \in Nat \ {0}
      /\ phase # "off" /\ phase' \in {"close", "up"}
      /\ UNCHANGED <<safe, held, fenced>>
  BY DEF InitClose, IInv, TypeOK
<1> QED
  BY <1>1, <1>2, <1>3, <1>4, <1>5, StepInv DEF IInv, TypeOK

\* With the hint below every free frame, the search of pmm_alloc_frame stops
\* at the lowest one.
LEMMA FoundIsLeast ==
  ASSUME BitmapOK, FreeSet # {}
  PROVE  /\ Found = Least(FreeSet) /\ Found \in FreeSet
         /\ \A f \in FreeSet : Found <= f
<1>1. {f \in FreeSet : f >= next_hint} = FreeSet
  <2>1. \A f \in FreeSet : f \in Nat /\ next_hint \in Nat /\ next_hint <= f
    BY DEF BitmapOK, HintBelowFree, FreeSet, Frames
  <2> QED
    BY <2>1
<1>2. Found = Least(FreeSet)
  BY <1>1 DEF Found
<1>3. FreeSet \in SUBSET Nat
  BY DEF FreeSet, Frames
<1> QED
  BY <1>2, <1>3, LeastIsMinimum

\* pmm_alloc_frame keeps the invariant.
LEMMA AllocInv == ASSUME IInv, pmm_alloc_frame PROVE IInv'
<1>1. /\ BitmapOK /\ ignored_frames \in 0..(StatMod - 1)
      /\ reserved_frames \in 0..(StatMod - 1)
  BY InvBitmap DEF IInv, TypeOK
<1>2. UNCHANGED <<frame_count, initialized, regions, phase, i, safe, fenced>>
  BY DEF pmm_alloc_frame
<1>3. CASE UNCHANGED <<bitmap, counters, next_hint, held>>
  <2>1. BitmapOK'
    BY <1>1, <1>2, <1>3, SameBitmap
  <2> QED
    BY <1>1, <1>2, <1>3, <2>1, StepInv DEF IInv, TypeOK, counters, Frame0Used
<1>4. CASE /\ FreeSet # {} /\ MarkUsed({Found}) /\ next_hint' = Found + 1
           /\ held' = held \cup {Found}
           /\ UNCHANGED <<reserved_frames, ignored_frames>>
  <2>1. Found \in FreeSet /\ \A f \in FreeSet : Found <= f
    BY <1>1, <1>4, FoundIsLeast
  <2>2. Found \in Frames /\ Found \in Nat /\ Found + 1 \in 0..frame_count
    BY <1>1, <2>1 DEF FreeSet, Frames, BitmapOK
  <2>3. /\ CountersMatchBitmap' /\ free_frames' \in Nat /\ used_frames' \in Nat
        /\ bitmap' = bitmap \cup {Found} /\ bitmap' \subseteq Frames'
    BY <1>1, <1>2, <1>4, <2>2, MarkUsedCounts
  <2>4. HintBelowFree'
    <3> SUFFICES ASSUME NEW f \in FreeSet, f # Found
                 PROVE  Found + 1 <= f
      BY <1>2, <1>4, <2>3 DEF HintBelowFree, FreeSet, Frames
    <3> QED
      BY <2>1, <2>2 DEF FreeSet, Frames
  <2>5. BitmapOK'
    BY <1>1, <1>2, <1>4, <2>2, <2>3, <2>4 DEF BitmapOK
  <2> QED
    BY <1>1, <1>2, <1>4, <2>2, <2>3, <2>5, StepInv DEF IInv, TypeOK, Frame0Used
<1> QED
  BY <1>3, <1>4 DEF pmm_alloc_frame

\* pmm_free_frame keeps the invariant, whatever address it is given.
LEMMA FreeInv ==
  ASSUME IInv, NEW phys_addr \in Addresses, pmm_free_frame(phys_addr)
  PROVE  IInv'
<1> DEFINE frame == phys_addr \div PageSize
<1>1. /\ BitmapOK /\ ignored_frames \in 0..(StatMod - 1)
      /\ reserved_frames \in 0..(StatMod - 1)
  BY InvBitmap DEF IInv, TypeOK
<1>2. UNCHANGED <<frame_count, initialized, regions, phase, i, safe, fenced>>
  BY DEF pmm_free_frame
<1>3. CASE UNCHANGED <<bitmap, counters, next_hint, held>>
  <2>1. BitmapOK'
    BY <1>1, <1>2, <1>3, SameBitmap
  <2> QED
    BY <1>1, <1>2, <1>3, <2>1, StepInv DEF IInv, TypeOK, counters, Frame0Used
<1>4. CASE /\ phys_addr % PageSize = 0 /\ phys_addr # 0 /\ frame \in bitmap
           /\ MarkFree({frame}) /\ held' = held \ {frame}
           /\ UNCHANGED <<reserved_frames, ignored_frames>>
  <2>1. phys_addr \in Nat /\ PageSize \in Nat
    BY PMMConstants
  <2>2. /\ frame \in Nat
        /\ phys_addr = PageSize * frame + (phys_addr % PageSize)
    BY <2>1, PageDivision
  <2> HIDE DEF frame
  <2>3. frame # 0
    BY <1>4, <2>1, <2>2
  <2>4. BitmapOK' /\ bitmap' = bitmap \ {frame}
    <3>1. {frame} \in SUBSET Frames
      BY <1>1, <1>4 DEF BitmapOK
    <3> QED
      BY <1>1, <1>2, <1>4, <3>1, MarkFreeOK
  <2> QED
    BY <1>1, <1>2, <1>4, <2>3, <2>4, StepInv DEF IInv, TypeOK, Frame0Used
<1> QED
  BY <1>3, <1>4 DEF pmm_free_frame

\* pmm_reserve_range keeps the invariant, whatever range it is given.
LEMMA ReserveInv ==
  ASSUME IInv, NEW base \in Addresses, NEW length \in Lengths,
         pmm_reserve_range(base, length)
  PROVE  IInv'
<1>1. /\ BitmapOK /\ ignored_frames \in 0..(StatMod - 1)
      /\ reserved_frames \in 0..(StatMod - 1) /\ reserved_frames \in Nat
  BY InvBitmap DEF IInv, TypeOK
<1>2. UNCHANGED <<frame_count, initialized, regions, phase, i, safe, held>>
  BY DEF pmm_reserve_range
<1>3. CASE UNCHANGED <<bitmap, counters, next_hint, fenced>>
  <2>1. BitmapOK'
    BY <1>1, <1>2, <1>3, SameBitmap
  <2> QED
    BY <1>1, <1>2, <1>3, <2>1, StepInv DEF IInv, TypeOK, counters, Frame0Used
<1>4. CASE /\ mark_range_used(base, length)
           /\ fenced' = fenced \cup Fence(base, length)
  <2>1. base \in Nat /\ length \in Nat
    BY PMMConstants
  <2>2. /\ BitmapOK' /\ bitmap \subseteq bitmap'
        /\ reserved_frames' \in 0..(StatMod - 1) /\ ignored_frames' = ignored_frames
    BY <1>1, <1>2, <1>4, <2>1, MarkRangeUsedOK
  <2>3. fenced' \subseteq Frames
    BY <1>4 DEF IInv, TypeOK, Fence
  <2> QED
    BY <1>1, <1>2, <2>2, <2>3, StepInv DEF IInv, TypeOK, Frame0Used
<1> QED
  BY <1>3, <1>4 DEF pmm_reserve_range

-----------------------------------------------------------------------------
(* The theorems.                                                            *)

\* Every step of every caller preserves the invariant.
LEMMA NextInv == IInv /\ [AnyNext]_vars => IInv'
<1> SUFFICES ASSUME IInv, [AnyNext]_vars PROVE IInv'
  OBVIOUS
<1>1. CASE Idle /\ Initialise(Maps)
  BY <1>1, InitBeginInv DEF Initialise
<1>2. CASE Initialising
  BY <1>2, InitOpenInv, InitFrame0Inv, InitCloseInv DEF Initialising
<1>3. CASE pmm_alloc_frame
  BY <1>3, AllocInv
<1>4. CASE \E a \in Addresses : pmm_free_frame(a)
  BY <1>4, FreeInv
<1>5. CASE \E a \in Addresses, l \in Lengths : pmm_reserve_range(a, l)
  BY <1>5, ReserveInv
<1>6. CASE UNCHANGED vars
  BY <1>6 DEF vars, counters, IInv, TypeOK, CountersMatchBitmap, HintBelowFree,
              Frame0Used, Frames, FreeSet
<1> QED
  BY <1>1, <1>2, <1>3, <1>4, <1>5, <1>6 DEF AnyNext, AnyCalls

\* Under arbitrary callers of the functions of src/pmm.c, the types hold.
THEOREM TypeCorrect == AnySpec => []TypeOK
<1>1. IInv => TypeOK
  BY DEF IInv
<1> QED
  BY InitInv, NextInv, <1>1, PTL DEF AnySpec

\* Under arbitrary callers, free_frames and used_frames count the bits of
\* the bitmap exactly, in every state of pmm_init_from_map and after every
\* alloc, free and reserve.
THEOREM CountersExact == AnySpec => []CountersMatchBitmap
<1>1. IInv => CountersMatchBitmap
  BY DEF IInv
<1> QED
  BY InitInv, NextInv, <1>1, PTL DEF AnySpec

\* Under arbitrary callers, frame 0 is used from the moment it was closed.
THEOREM Frame0StaysUsed == AnySpec => []Frame0Used
<1>1. IInv => Frame0Used
  BY DEF IInv
<1> QED
  BY InitInv, NextInv, <1>1, PTL DEF AnySpec

\* Under arbitrary callers, no free frame lies below next_hint.
THEOREM HintIsLow == AnySpec => []HintBelowFree
<1>1. IInv => HintBelowFree
  BY DEF IInv
<1> QED
  BY InitInv, NextInv, <1>1, PTL DEF AnySpec

\* Under arbitrary callers, pmm_alloc_frame returns the lowest free frame,
\* and PMM_INVALID_FRAME only if there is none.
THEOREM AllocIsLowest == AnySpec => AllocFindsLowest
<1>1. ASSUME IInv, pmm_alloc_frame
      PROVE  ret' = IF initialized /\ FreeSet # {} THEN Least(FreeSet) * PageSize
                    ELSE INVALID
  <2>1. BitmapOK
    BY <1>1, InvBitmap
  <2>2. ASSUME FreeSet # {}
        PROVE  free_frames # 0 /\ Found = Least(FreeSet)
    <3>1. IsFiniteSet(FreeSet)
      BY <2>1, Complement DEF BitmapOK, FreeSet
    <3>2. Cardinality(FreeSet) # 0
      BY <2>2, <3>1, FS_EmptySet
    <3> QED
      BY <2>1, <2>2, <3>2, FoundIsLeast DEF BitmapOK, CountersMatchBitmap
  <2> QED
    BY <1>1, <2>2 DEF pmm_alloc_frame
<1>2. IInv => [pmm_alloc_frame =>
                 ret' = IF initialized /\ FreeSet # {} THEN Least(FreeSet) * PageSize
                        ELSE INVALID]_vars
  BY <1>1
<1> QED
  BY InitInv, NextInv, <1>2, PTL DEF AnySpec, AllocFindsLowest

-----------------------------------------------------------------------------
(* Which frames a range opens and closes.                                   *)

\* Multiplying by a natural keeps the order.
LEMMA Monotone ==
  ASSUME NEW a \in Int, NEW b \in Int, a <= b, NEW c \in Nat
  PROVE  a * c <= b * c
OBVIOUS

\* Rounding an address down to a page.
LEMMA DownToPage ==
  ASSUME NEW a \in Nat, NEW f \in Int
  PROVE  align_down(a) <= f * PageSize <=> a < (f + 1) * PageSize
<1> DEFINE q == a \div PageSize
           r == a % PageSize
<1>1. q \in Nat /\ r \in 0..(PageSize - 1) /\ a = PageSize * q + r /\ PageSize \in Nat \ {0}
  BY PageDivision, PMMConstants, Zenon
<1>2. align_down(a) = a - r
  BY DEF align_down
<1> HIDE DEF q, r
<1>3. align_down(a) = q * PageSize /\ q * PageSize \in Int /\ a = q * PageSize + r
  BY <1>1, <1>2
<1>4. f * PageSize \in Int /\ (f + 1) * PageSize = f * PageSize + PageSize
  BY <1>1
<1>5. CASE q <= f
  <2>1. q * PageSize <= f * PageSize
    BY <1>1, <1>5, Monotone
  <2> QED BY <2>1, <1>1, <1>3, <1>4
<1>6. CASE f + 1 <= q
  <2>1. (f + 1) * PageSize <= q * PageSize
    BY <1>1, <1>6, Monotone
  <2> QED BY <2>1, <1>1, <1>3, <1>4
<1> QED BY <1>1, <1>5, <1>6

\* Rounding it up, where that does not wrap.
LEMMA UpToPage ==
  ASSUME NEW a \in Nat, a <= AddrMod - PageSize, NEW f \in Int
  PROVE  align_up(a) \in Nat /\ (align_up(a) <= f * PageSize <=> a <= f * PageSize)
<1> DEFINE n == a + PageSize - 1
<1>1. n \in Nat /\ n < AddrMod /\ AddrMod \in Nat \ {0} /\ PageSize \in Nat \ {0}
  BY PMMConstants
<1> HIDE DEF n
<1>2. n % AddrMod = n
  BY <1>1
<1>3. align_up(a) = align_down(n)
  BY <1>2 DEF align_up, n
<1>4. f * PageSize \in Int /\ (f + 1) * PageSize = f * PageSize + PageSize
  BY <1>1
<1>5. align_down(n) <= f * PageSize <=> n < (f + 1) * PageSize
  BY <1>1, DownToPage
<1>6. n < (f + 1) * PageSize <=> a <= f * PageSize
  BY <1>1, <1>4 DEF n
<1> QED BY <1>1, <1>3, <1>5, <1>6, AlignType

\* Dividing a multiple of the page size.
LEMMA Quotient ==
  ASSUME NEW f \in Nat
  PROVE  (f * PageSize) % PageSize = 0 /\ (f * PageSize) \div PageSize = f
<1> DEFINE a == f * PageSize
           q == a \div PageSize
           r == a % PageSize
<1>0. PageSize \in Nat \ {0} /\ a \in Nat
  BY PMMConstants
<1>1. q \in Nat /\ r \in 0..(PageSize - 1) /\ a = PageSize * q + r
  <2> HIDE DEF a
  <2> QED BY <1>0, PageDivision
<1> HIDE DEF q, r
<1>2. f * PageSize = q * PageSize + r /\ q * PageSize \in Nat
  BY <1>0, <1>1
<1>3. CASE q + 1 <= f
  <2>1. (q + 1) * PageSize <= f * PageSize /\ (q + 1) * PageSize = q * PageSize + PageSize
    BY <1>0, <1>1, <1>3, Monotone
  <2> QED BY <2>1, <1>0, <1>1, <1>2
<1>4. CASE f + 1 <= q
  <2>1. (f + 1) * PageSize <= q * PageSize /\ (f + 1) * PageSize = f * PageSize + PageSize
    BY <1>0, <1>1, <1>4, Monotone
  <2> QED BY <2>1, <1>0, <1>1, <1>2
<1>5. CASE q = f
  BY <1>0, <1>1, <1>2, <1>5 DEF q, r
<1> QED BY <1>1, <1>3, <1>4, <1>5

\* A range that does not reach into the last page of the address space.
EndsBelowTop(base, length) ==
    NoOverflow(base, length) => base + length <= AddrMod - PageSize

\* The frames below frame_count.
LEMMA FrameBytes ==
  ASSUME frame_count \in Nat, NEW f \in Frames
  PROVE  /\ f \in Nat /\ f * PageSize \in Nat
         /\ (f + 1) * PageSize = f * PageSize + PageSize
         /\ (f + 1) * PageSize <= max_phys /\ max_phys \in Nat
<1>1. f \in Nat /\ f + 1 <= frame_count /\ PageSize \in Nat
  BY PMMConstants DEF Frames
<1>2. (f + 1) * PageSize <= frame_count * PageSize
  BY <1>1, Monotone
<1> QED BY <1>1, <1>2 DEF max_phys

\* mark_range_free opens the frames that lie wholly in the range.
LEMMA RangeFreeExact ==
  ASSUME frame_count \in Nat, NEW base \in Nat, NEW length \in Nat,
         EndsBelowTop(base, length)
  PROVE  RangeFree(base, length) =
           {f \in Frames : /\ NoOverflow(base, length)
                           /\ base <= f * PageSize
                           /\ (f + 1) * PageSize <= base + length}
<1>0. PageSize \in Nat \ {0} /\ AddrMod \in Nat
  BY PMMConstants
<1>1. CASE length = 0
  <2>1. \A f \in Frames : ~(base <= f * PageSize /\ (f + 1) * PageSize <= base + length)
    BY <1>0, <1>1, FrameBytes
  <2> QED BY <1>1, <2>1 DEF RangeFree
<1>2. CASE ~NoOverflow(base, length)
  BY <1>2 DEF RangeFree
<1>3. CASE length # 0 /\ NoOverflow(base, length)
  <2> DEFINE start == align_up(base)
             stop == align_down(base + length)
  <2>1. base <= AddrMod - PageSize /\ base + length \in Nat
    BY <1>0, <1>3 DEF EndsBelowTop
  <2>2. start \in Nat /\ stop \in Nat
    BY <2>1, AlignType
  <2>3. ASSUME NEW f \in Frames
        PROVE  /\ start <= f * PageSize <=> base <= f * PageSize
               /\ f * PageSize < stop <=> (f + 1) * PageSize <= base + length
    <3>1. f \in Int /\ f * PageSize \in Int /\ (f + 1) * PageSize \in Int
      BY <1>0, FrameBytes
    <3>2. start <= f * PageSize <=> base <= f * PageSize
      BY <3>1, <2>1, UpToPage
    <3>3. stop <= f * PageSize <=> base + length < (f + 1) * PageSize
      BY <3>1, <2>1, DownToPage
    <3> QED BY <3>1, <3>2, <3>3, <2>1, <2>2
  <2> HIDE DEF start, stop
  <2>4. Visited(start, stop) = {f \in Frames : /\ base <= f * PageSize
                                               /\ (f + 1) * PageSize <= base + length}
    BY <2>3 DEF Visited
  <2>5. stop <= start \/ start >= max_phys => Visited(start, stop) = {}
    BY <1>0, <2>2, FrameBytes DEF Visited
  <2>6. RangeFree(base, length) = Visited(start, stop)
    BY <1>3, <2>5 DEF RangeFree, start, stop
  <2> QED BY <1>3, <2>4, <2>6
<1> QED BY <1>1, <1>2, <1>3

\* mark_range_used closes the frames the range touches.
LEMMA RangeUsedExact ==
  ASSUME frame_count \in Nat, NEW base \in Nat, NEW length \in Nat,
         base < max_phys => EndsBelowTop(base, length)
  PROVE  RangeUsed(base, length) =
           {f \in Frames : /\ NoOverflow(base, length) /\ length > 0
                           /\ base < (f + 1) * PageSize
                           /\ f * PageSize < base + length}
<1>0. PageSize \in Nat \ {0} /\ AddrMod \in Nat
  BY PMMConstants
<1>1. CASE length = 0 \/ ~NoOverflow(base, length)
  BY <1>1 DEF RangeUsed
<1>2. CASE base >= max_phys
  <2>1. \A f \in Frames : ~(base < (f + 1) * PageSize)
    BY <1>0, <1>2, FrameBytes
  <2>2. align_down(base) >= max_phys
    <3>1. max_phys = ((frame_count - 1) + 1) * PageSize /\ max_phys \in Nat
          /\ (frame_count - 1) * PageSize \in Int /\ align_down(base) \in Nat
      BY <1>0, AlignType DEF max_phys
    <3>2. ~(align_down(base) <= (frame_count - 1) * PageSize)
      BY <1>2, <3>1, DownToPage
    <3> DEFINE q == base \div PageSize
    <3>3. q \in Nat /\ align_down(base) = q * PageSize
      <4>1. q \in Nat /\ base = PageSize * q + (base % PageSize) /\ base % PageSize \in Nat
        BY PageDivision, <1>0
      <4> HIDE DEF q
      <4> QED BY <4>1, <1>0 DEF align_down
    <3> HIDE DEF q
    <3>4. frame_count <= q
      <4> SUFFICES ASSUME q <= frame_count - 1 PROVE FALSE
        BY <3>3
      <4>1. q * PageSize <= (frame_count - 1) * PageSize
        BY <3>3, <1>0, Monotone
      <4> QED BY <4>1, <3>2, <3>3
    <3> QED BY <3>3, <3>4, <1>0, Monotone DEF max_phys
  <2> QED BY <2>1, <2>2 DEF RangeUsed
<1>3. CASE length # 0 /\ NoOverflow(base, length) /\ base < max_phys
  <2> DEFINE start == align_down(base)
             stop == align_up(base + length)
  <2>1. base + length <= AddrMod - PageSize /\ base + length \in Nat
    BY <1>0, <1>3 DEF EndsBelowTop
  <2>2. start \in Nat /\ stop \in Nat
    BY <2>1, AlignType
  <2>3. ASSUME NEW f \in Frames
        PROVE  /\ start <= f * PageSize <=> base < (f + 1) * PageSize
               /\ f * PageSize < stop <=> f * PageSize < base + length
    <3>1. f \in Int /\ f * PageSize \in Int /\ (f + 1) * PageSize \in Int
      BY <1>0, FrameBytes
    <3>2. start <= f * PageSize <=> base < (f + 1) * PageSize
      BY <3>1, DownToPage
    <3>3. stop <= f * PageSize <=> base + length <= f * PageSize
      BY <3>1, <2>1, UpToPage
    <3> QED BY <3>1, <3>2, <3>3, <2>1, <2>2
  <2> HIDE DEF start, stop
  <2>4. Visited(start, stop) = {f \in Frames : /\ base < (f + 1) * PageSize
                                               /\ f * PageSize < base + length}
    BY <2>3 DEF Visited
  <2>5. stop <= start \/ start >= max_phys => Visited(start, stop) = {}
    BY <1>0, <2>2, FrameBytes DEF Visited
  <2>6. RangeUsed(base, length) = Visited(start, stop)
    BY <1>3, <2>5 DEF RangeUsed, start, stop
  <2> QED BY <1>3, <2>4, <2>6
<1>4. max_phys \in Nat
  BY <1>0 DEF max_phys
<1> QED BY <1>1, <1>2, <1>3, <1>4

-----------------------------------------------------------------------------
(* The boot map and the owners of frames.                                   *)

\* Region r opens frame f in the first loop of pmm_init_from_map.
Opens(r, f) == r.usable /\ NoOverflow(r.base, r.length) /\ Covers(r, f)

\* Region r closes frame f in the second loop.
Closes(r, f) == ~r.usable /\ NoOverflow(r.base, r.length) /\ Touches(r, f)

\* No region of a map and no range that is reserved ends in the last page of
\* the address space, where align_up wraps; what is reserved beyond the memory
\* may.
RangesBelowTop ==
    /\ \A map \in Maps : \A k \in DOMAIN map : EndsBelowTop(map[k].base, map[k].length)
    /\ \A a \in Addresses, l \in Lengths :
         (\E m \in MaxPhysArgs : a < m) => EndsBelowTop(a, l)

\* The free frames are, half-way through pmm_init_from_map, those the regions
\* met so far leave.
MapState ==
    /\ initialized <=> phase = "up"
    /\ phase # "off" => max_phys \in MaxPhysArgs
    /\ phase \in {"open", "frame0", "close"} =>
         /\ held = {} /\ fenced = {}
         /\ regions \in Maps /\ 1 \in 1..Len(regions)
         /\ safe = SafeFrames(regions, frame_count)
    /\ phase \in {"open", "close"} => i \in 1..Len(regions)
    /\ phase = "frame0" => i = Len(regions) + 1
    /\ phase \in {"open", "frame0"} =>
         FreeSet = {f \in Frames : \E j \in 1..(i - 1) : Opens(regions[j], f)}
    /\ phase = "close" =>
         FreeSet = {f \in Frames \ {0} :
                      /\ \E j \in 1..Len(regions) : Opens(regions[j], f)
                      /\ \A j \in 1..(i - 1) : ~Closes(regions[j], f)}

\* It holds at first.
LEMMA MapInit == Init => MapState
BY DEF Init, MapState

\* The frames an opening or a closing region is about.
LEMMA RegionFrames ==
  ASSUME IInv, RangesBelowTop, regions \in Maps, i \in 1..Len(regions)
  PROVE  /\ regions[i].usable =>
              RangeFree(regions[i].base, regions[i].length) =
                {f \in Frames : Opens(regions[i], f)}
         /\ ~regions[i].usable =>
              RangeUsed(regions[i].base, regions[i].length) =
                {f \in Frames : Closes(regions[i], f)}
<1>1. /\ regions[i].base \in Nat /\ regions[i].length \in Nat
      /\ EndsBelowTop(regions[i].base, regions[i].length)
  <2>1. i \in DOMAIN regions
    BY PMMConstants
  <2> QED BY <2>1, RegionType DEF RangesBelowTop
<1>2. frame_count \in Nat
  BY DEF IInv, TypeOK
<1> QED
  BY <1>1, <1>2, RangeFreeExact, RangeUsedExact DEF Opens, Closes, Covers, Touches

\* The entry of pmm_init_from_map.
LEMMA MapBegin ==
  ASSUME IInv, MapState, NEW map \in Maps, NEW storage \in Storages,
         NEW max_phys_bytes \in MaxPhysArgs, InitBegin(map, storage, max_phys_bytes)
  PROVE  MapState'
<1> DEFINE count == max_phys_bytes \div PageSize
<1>1. CASE UNCHANGED <<bitmap, frame_count, counters, next_hint, initialized,
                       regions, phase, i, safe, held, fenced>>
  BY <1>1 DEF MapState, max_phys, Frames, FreeSet
<1>2. CASE /\ map # <<>> /\ max_phys_bytes % PageSize = 0
           /\ frame_count' = count /\ bitmap' = 0..(count - 1) /\ initialized' = FALSE
           /\ regions' = map /\ phase' = "open" /\ i' = 1
           /\ safe' = SafeFrames(map, count) /\ held' = {} /\ fenced' = {}
  <2>1. max_phys' = max_phys_bytes
    <3>1. /\ count \in Nat /\ max_phys_bytes \in Nat /\ PageSize \in Nat
          /\ max_phys_bytes = PageSize * count + (max_phys_bytes % PageSize)
      <4>1. max_phys_bytes \in Nat /\ PageSize \in Nat
        BY PMMConstants
      <4> QED BY <4>1, PageDivision
    <3> HIDE DEF count
    <3> QED BY <1>2, <3>1 DEF max_phys
  <2>2. 1 \in 1..Len(map)
    <3>1. map \in Seq(Region)
      BY PMMConstants
    <3> QED BY <1>2, <3>1
  <2> HIDE DEF count
  <2>3. FreeSet' = {} /\ {f \in Frames' : \E j \in 1..(1 - 1) : Opens(map[j], f)} = {}
    BY <1>2 DEF FreeSet, Frames
  <2> QED BY <1>2, <2>1, <2>2, <2>3 DEF MapState
<1> QED BY <1>1, <1>2, Zenon DEF InitBegin

\* The first loop.
LEMMA MapOpen ==
  ASSUME IInv, MapState, RangesBelowTop, InitOpen
  PROVE  MapState'
<1>1. /\ regions \in Maps /\ i \in 1..Len(regions) /\ Len(regions) \in Nat
      /\ FreeSet = {f \in Frames : \E j \in 1..(i - 1) : Opens(regions[j], f)}
      /\ bitmap \subseteq Frames /\ phase = "open"
  BY DEF MapState, InitOpen, IInv, TypeOK
<1>2. /\ i' = i + 1 /\ phase' = IF i = Len(regions) THEN "frame0" ELSE "open"
      /\ UNCHANGED <<frame_count, initialized, regions, safe, held, fenced, ret>>
      /\ Frames' = Frames /\ max_phys' = max_phys
  BY DEF InitOpen, Frames, max_phys
<1>3. FreeSet' = FreeSet \cup {f \in Frames : Opens(regions[i], f)}
  <2>1. CASE regions[i].usable
    <3>1. /\ bitmap' = bitmap \ RangeFree(regions[i].base, regions[i].length)
          /\ RangeFree(regions[i].base, regions[i].length) =
               {f \in Frames : Opens(regions[i], f)}
      BY <1>1, <2>1, RegionFrames DEF InitOpen, mark_range_free, MarkFree
    <3> QED BY <1>1, <1>2, <3>1 DEF FreeSet
  <2>2. CASE ~regions[i].usable
    BY <1>1, <1>2, <2>2 DEF InitOpen, Opens, FreeSet
  <2> QED BY <2>1, <2>2
<1>4. FreeSet' = {f \in Frames' : \E j \in 1..(i' - 1) : Opens(regions'[j], f)}
  <2>1. 1..(i' - 1) = (1..(i - 1)) \cup {i}
    BY <1>1, <1>2
  <2> QED BY <1>1, <1>2, <1>3, <2>1
<1>5. (i # Len(regions) => i' \in 1..Len(regions)) /\ (i = Len(regions) => i' = Len(regions) + 1)
  BY <1>1, <1>2
<1> QED BY <1>1, <1>2, <1>4, <1>5 DEF MapState

\* Frame 0 is closed.
LEMMA MapFrame0 ==
  ASSUME IInv, MapState, RangesBelowTop, InitFrame0
  PROVE  MapState'
<1>1. /\ i - 1 = Len(regions) /\ 1 \in 1..Len(regions)
      /\ FreeSet = {f \in Frames : \E j \in 1..(i - 1) : Opens(regions[j], f)}
      /\ bitmap \subseteq Frames /\ phase = "frame0" /\ frame_count \in Nat
  <2>1. i - 1 = Len(regions)
    <3>1. regions \in Seq(Region) /\ i = Len(regions) + 1
      BY DEF MapState, InitFrame0, IInv, TypeOK
    <3> QED BY <3>1
  <2> QED BY <2>1 DEF MapState, InitFrame0, IInv, TypeOK
<1>2. /\ i' = 1 /\ phase' = "close"
      /\ UNCHANGED <<frame_count, initialized, regions, safe, held, fenced, ret>>
      /\ Frames' = Frames /\ max_phys' = max_phys
      /\ bitmap' = bitmap \cup RangeUsed(0, PageSize)
  BY DEF InitFrame0, mark_range_used, MarkUsed, Frames, max_phys
<1>3. RangeUsed(0, PageSize) \cap Frames = {0} \cap Frames
  <2>1. PageSize \in Nat \ {0} /\ AddrMod \in Nat /\ 2 * PageSize <= AddrMod
    BY PMMConstants
  <2>2. NoOverflow(0, PageSize) /\ EndsBelowTop(0, PageSize)
    BY <2>1 DEF NoOverflow, EndsBelowTop
  <2>3. RangeUsed(0, PageSize) =
          {f \in Frames : /\ NoOverflow(0, PageSize) /\ PageSize > 0
                          /\ 0 < (f + 1) * PageSize /\ f * PageSize < 0 + PageSize}
    BY <1>1, <2>1, <2>2, RangeUsedExact
  <2>4. ASSUME NEW f \in Frames
        PROVE  0 < (f + 1) * PageSize /\ (f * PageSize < 0 + PageSize <=> f = 0)
    <3>1. f \in Nat /\ f * PageSize \in Nat /\ (f + 1) * PageSize = f * PageSize + PageSize
      BY <1>1, FrameBytes
    <3>2. f # 0 => 1 * PageSize <= f * PageSize
      BY <2>1, <3>1, Monotone
    <3> QED BY <2>1, <3>1, <3>2
  <2> QED BY <2>1, <2>2, <2>3, <2>4
<1>4. FreeSet' = FreeSet \ {0}
  BY <1>1, <1>2, <1>3 DEF FreeSet
<1>5. FreeSet' = {f \in Frames' \ {0} :
                    /\ \E j \in 1..Len(regions') : Opens(regions'[j], f)
                    /\ \A j \in 1..(i' - 1) : ~Closes(regions'[j], f)}
  BY <1>1, <1>2, <1>4
<1> QED BY <1>1, <1>2, <1>5 DEF MapState

\* The second loop: its last iteration leaves the safe frames.
LEMMA MapClose ==
  ASSUME IInv, MapState, RangesBelowTop, InitClose
  PROVE  MapState' /\ (initialized' => FreeSet' = safe)
<1>1. /\ regions \in Maps /\ i \in 1..Len(regions) /\ Len(regions) \in Nat
      /\ FreeSet = {f \in Frames \ {0} :
                      /\ \E j \in 1..Len(regions) : Opens(regions[j], f)
                      /\ \A j \in 1..(i - 1) : ~Closes(regions[j], f)}
      /\ bitmap \subseteq Frames /\ phase = "close" /\ frame_count \in Nat
      /\ safe = SafeFrames(regions, frame_count) /\ regions \in Seq(Region)
  BY DEF MapState, InitClose, IInv, TypeOK
<1>2. /\ UNCHANGED <<frame_count, safe, held, fenced>>
      /\ Frames' = Frames /\ max_phys' = max_phys
  BY DEF InitClose, Frames, max_phys
<1>3. FreeSet' = FreeSet \ {f \in Frames : Closes(regions[i], f)}
  <2>1. CASE ~regions[i].usable
    <3>1. /\ bitmap' = bitmap \cup RangeUsed(regions[i].base, regions[i].length)
          /\ RangeUsed(regions[i].base, regions[i].length) =
               {f \in Frames : Closes(regions[i], f)}
      BY <1>1, <2>1, RegionFrames DEF InitClose, mark_range_used, MarkUsed
    <3> QED BY <1>1, <1>2, <3>1 DEF FreeSet
  <2>2. CASE regions[i].usable
    BY <1>1, <1>2, <2>2 DEF InitClose, Closes, FreeSet
  <2> QED BY <2>1, <2>2
<1>4. FreeSet' = {f \in Frames \ {0} :
                    /\ \E j \in 1..Len(regions) : Opens(regions[j], f)
                    /\ \A j \in 1..i : ~Closes(regions[j], f)}
  <2>1. 1..i = (1..(i - 1)) \cup {i}
    BY <1>1
  <2> QED BY <1>1, <1>3, <2>1
<1>5. CASE i = Len(regions)
  <2>1. phase' = "up" /\ initialized' = TRUE
    BY <1>5, Zenon DEF InitClose
  <2>2. 1..(frame_count - 1) = Frames \ {0}
    BY <1>1 DEF Frames
  <2>3. DOMAIN regions = 1..Len(regions)
    BY <1>1
  <2>4. FreeSet' = SafeFrames(regions, frame_count)
    BY <1>4, <1>5, <2>2, <2>3 DEF SafeFrames, Opens, Closes
  <2> QED BY <1>1, <1>2, <2>1, <2>4 DEF MapState
<1>6. CASE i # Len(regions)
  <2>1. phase' = "close" /\ initialized' = FALSE /\ regions' = regions /\ i' = i + 1
    BY <1>6, Zenon DEF InitClose
  <2>2. i' \in 1..Len(regions) /\ i' - 1 = i
    BY <1>1, <1>6, <2>1
  <2>3. FreeSet' = {f \in Frames' \ {0} :
                      /\ \E j \in 1..Len(regions') : Opens(regions'[j], f)
                      /\ \A j \in 1..(i' - 1) : ~Closes(regions'[j], f)}
    BY <1>2, <1>4, <2>1, <2>2
  <2> QED BY <1>1, <1>2, <2>1, <2>2, <2>3 DEF MapState
<1> QED BY <1>5, <1>6

\* The other calls are made before or after, and leave the map alone.
LEMMA MapIdle ==
  ASSUME MapState, Idle, UNCHANGED <<frame_count, initialized, phase>>
  PROVE  MapState'
BY DEF MapState, Idle, max_phys

\* Every step of every caller keeps MapState.
LEMMA MapNext ==
  ASSUME RangesBelowTop, IInv, MapState, [AnyNext]_vars
  PROVE  MapState'
<1>1. CASE Idle /\ Initialise(Maps)
  BY <1>1, MapBegin DEF Initialise
<1>2. CASE Initialising
  BY <1>2, MapOpen, MapFrame0, MapClose DEF Initialising
<1>3. CASE pmm_alloc_frame
  BY <1>3, MapIdle DEF pmm_alloc_frame
<1>4. CASE \E a \in Addresses : pmm_free_frame(a)
  BY <1>4, MapIdle DEF pmm_free_frame
<1>5. CASE \E a \in Addresses, l \in Lengths : pmm_reserve_range(a, l)
  BY <1>5, MapIdle DEF pmm_reserve_range
<1>6. CASE UNCHANGED vars
  BY <1>6 DEF vars, MapState, max_phys, Frames, FreeSet
<1> QED
  BY <1>1, <1>2, <1>3, <1>4, <1>5, <1>6 DEF AnyNext, AnyCalls

\* The addresses of which pmm_is_frame_free holds, with n frames of which B are
\* used.
LEMMA FreeAddresses ==
  ASSUME NEW n \in Nat, n * PageSize < AddrMod, NEW B
  PROVE  {a \in 0..(AddrMod - 1) :
            a % PageSize = 0 /\ a < n * PageSize /\ a \div PageSize \notin B}
           = {f * PageSize : f \in (0..(n - 1)) \ B}
<1>0. PageSize \in Nat \ {0} /\ AddrMod \in Nat /\ n * PageSize \in Nat
  BY PMMConstants
<1>1. ASSUME NEW a \in 0..(AddrMod - 1), a % PageSize = 0, a < n * PageSize,
             a \div PageSize \notin B
      PROVE  a \in {f * PageSize : f \in (0..(n - 1)) \ B}
  <2> DEFINE q == a \div PageSize
  <2>1. q \in Nat /\ a = PageSize * q + (a % PageSize)
    BY <1>0, PageDivision
  <2>2. q \notin B
    BY <1>1
  <2> HIDE DEF q
  <2>3. a = q * PageSize
    BY <1>0, <1>1, <2>1
  <2>4. q < n
    <3> SUFFICES ASSUME n <= q PROVE FALSE
      BY <2>1
    <3>1. n * PageSize <= q * PageSize
      BY <1>0, <2>1, Monotone
    <3> QED BY <1>0, <1>1, <2>1, <2>3, <3>1
  <2> QED BY <2>1, <2>2, <2>3, <2>4
<1>2. ASSUME NEW f \in (0..(n - 1)) \ B
      PROVE  /\ f * PageSize \in 0..(AddrMod - 1) /\ (f * PageSize) % PageSize = 0
             /\ f * PageSize < n * PageSize /\ (f * PageSize) \div PageSize \notin B
  <2>1. /\ f \in Nat /\ f + 1 <= n /\ f * PageSize \in Nat
        /\ (f + 1) * PageSize = f * PageSize + PageSize
    BY <1>0
  <2>2. (f + 1) * PageSize <= n * PageSize
    BY <1>0, <2>1, Monotone
  <2>3. f * PageSize < n * PageSize /\ f * PageSize \in 0..(AddrMod - 1)
    BY <1>0, <2>1, <2>2
  <2> QED BY <2>1, <2>3, Quotient
<1> QED BY <1>1, <1>2

\* The step that ends pmm_init_from_map.
LEMMA BootStep ==
  ASSUME RangesBelowTop, IInv, MapState, AnyNext, ~initialized, initialized'
  PROVE  {a \in 0..(AddrMod - 1) : pmm_is_frame_free(a)'} = {f * PageSize : f \in safe}
<1>1. InitClose
  BY Zenon DEF AnyNext, AnyCalls, Initialise, Initialising, InitBegin, InitOpen, InitFrame0,
       pmm_alloc_frame, pmm_free_frame, pmm_reserve_range
<1>2. FreeSet' = safe /\ MapState' /\ IInv'
  BY <1>1, MapClose, InitCloseInv
<1>3. max_phys' \in MaxPhysArgs /\ frame_count' \in Nat
  BY <1>2 DEF IInv, TypeOK, MapState
<1>4. max_phys' < AddrMod
  BY <1>3, PMMConstants
<1>5. \A a : pmm_is_frame_free(a)' <=> /\ a % PageSize = 0 /\ a < frame_count' * PageSize
                                       /\ a \div PageSize \notin bitmap'
  BY DEF pmm_is_frame_free, max_phys
<1>6. {a \in 0..(AddrMod - 1) : /\ a % PageSize = 0 /\ a < frame_count' * PageSize
                                /\ a \div PageSize \notin bitmap'}
        = {f * PageSize : f \in (0..(frame_count' - 1)) \ bitmap'}
  BY <1>3, <1>4, FreeAddresses, Zenon DEF max_phys
<1>7. (0..(frame_count' - 1)) \ bitmap' = safe
  BY <1>2 DEF FreeSet, Frames
<1> QED BY <1>5, <1>6, <1>7

\* The boot map is honoured, whatever calls are made before and after.
THEOREM BootMapIsHonoured == ASSUME RangesBelowTop PROVE AnySpec => BootMapHonoured
<1>1. IInv /\ MapState /\ [AnyNext]_vars => MapState'
  BY MapNext
<1>2. IInv /\ MapState /\ [AnyNext]_vars =>
        [~initialized /\ initialized' =>
           {a \in 0..(AddrMod - 1) : pmm_is_frame_free(a)'} = {f * PageSize : f \in safe}]_vars
  BY BootStep
<1> QED
  BY InitInv, NextInv, MapInit, <1>1, <1>2, PTL DEF AnySpec, BootMapHonoured

\* The frames pmm_reserve_range closes are the ones its caller means.
LEMMA ReserveExact ==
  ASSUME RangesBelowTop, IInv, MapState, phase # "off",
         NEW base \in Addresses, NEW length \in Lengths
  PROVE  RangeUsed(base, length) = Fence(base, length)
<1>1. base \in Nat /\ length \in Nat /\ frame_count \in Nat
  BY PMMConstants DEF IInv, TypeOK
<1>2. base < max_phys => EndsBelowTop(base, length)
  BY DEF MapState, RangesBelowTop
<1> QED BY <1>1, <1>2, RangeUsedExact DEF Fence, Touches

\* A step of callers that keep the rules keeps Ownership.
LEMMA OwnershipNext ==
  ASSUME RangesBelowTop, IInv, MapState, Ownership, [Next]_vars
  PROVE  Ownership'
<1>1. ASSUME NEW map, NEW storage, NEW max_phys_bytes, phase = "off",
             InitBegin(map, storage, max_phys_bytes)
      PROVE  Ownership'
  BY <1>1, Zenon DEF InitBegin, Ownership, MapState
<1>2. CASE InitOpen
  BY <1>2 DEF InitOpen, Ownership, MapState
<1>3. CASE InitFrame0
  BY <1>3 DEF InitFrame0, Ownership, MapState
<1>4. CASE InitClose
  <2>1. initialized' => FreeSet' = safe
    BY <1>4, MapClose
  <2>2. held' = {} /\ fenced' = {} /\ safe' = safe
    BY <1>4 DEF InitClose, MapState
  <2> QED BY <2>1, <2>2 DEF Ownership
<1>5. CASE pmm_alloc_frame
  <2>1. CASE UNCHANGED <<bitmap, held>>
    BY <1>5, <2>1 DEF pmm_alloc_frame, Ownership, FreeSet, Frames
  <2>2. CASE /\ initialized /\ FreeSet # {} /\ bitmap' = bitmap \cup {Found}
             /\ held' = held \cup {Found}
    <3>1. Found \in FreeSet
      BY <2>2, FoundIsLeast, InvBitmap
    <3>2. UNCHANGED <<safe, fenced>> /\ FreeSet' = FreeSet \ {Found}
      BY <1>5, <2>2 DEF pmm_alloc_frame, FreeSet, Frames
    <3> QED BY <2>2, <3>1, <3>2 DEF Ownership
  <2> QED BY <1>5, <2>1, <2>2 DEF pmm_alloc_frame, MarkUsed
<1>6. ASSUME NEW a \in Addresses, MayFree(a), pmm_free_frame(a)
      PROVE  Ownership'
  <2> DEFINE frame == a \div PageSize
  <2>1. CASE UNCHANGED <<bitmap, held>>
    BY <1>6, <2>1 DEF pmm_free_frame, Ownership, FreeSet, Frames
  <2>2. CASE /\ initialized /\ a % PageSize = 0 /\ frame \in bitmap
             /\ bitmap' = bitmap \ {frame} /\ held' = held \ {frame}
    <3> HIDE DEF frame
    <3>1. frame \in held
      BY <1>6, <2>2 DEF MayFree, frame
    <3>2. UNCHANGED <<safe, fenced>> /\ FreeSet' = FreeSet \cup ({frame} \cap Frames)
      BY <1>6, <2>2 DEF pmm_free_frame, FreeSet, Frames
    <3> QED BY <2>2, <3>1, <3>2 DEF Ownership
  <2> QED BY <1>6, <2>1, <2>2 DEF pmm_free_frame, MarkFree
<1>7. ASSUME NEW a \in Addresses, NEW l \in Lengths, MayReserve(a, l), pmm_reserve_range(a, l)
      PROVE  Ownership'
  <2>1. CASE UNCHANGED <<bitmap, fenced>>
    BY <1>7, <2>1 DEF pmm_reserve_range, Ownership, FreeSet, Frames
  <2>2. CASE /\ initialized /\ bitmap' = bitmap \cup RangeUsed(a, l)
             /\ fenced' = fenced \cup Fence(a, l)
    <3>1. RangeUsed(a, l) = Fence(a, l)
      BY <2>2, ReserveExact DEF MapState
    <3>2. UNCHANGED <<safe, held>> /\ FreeSet' = FreeSet \ Fence(a, l)
      BY <1>7, <2>2, <3>1, Zenon DEF pmm_reserve_range, FreeSet, Frames
    <3> QED BY <1>7, <2>2, <3>2 DEF Ownership, MayReserve, pmm_reserve_range
  <2> QED BY <1>7, <2>1, <2>2 DEF pmm_reserve_range, mark_range_used, MarkUsed
<1>8. CASE UNCHANGED vars
  BY <1>8 DEF vars, Ownership, FreeSet, Frames
<1> QED
  BY <1>1, <1>2, <1>3, <1>4, <1>5, <1>6, <1>7, <1>8 DEF Next, Initialise, Initialising

\* Callers that free only what they hold and reserve only what nobody holds
\* never share a frame, and never get one outside usable memory or in a
\* reserved range.
THEOREM OwnershipKept == ASSUME RangesBelowTop PROVE Spec => []Ownership
<1>1. Init => Ownership
  BY DEF Init, Ownership
<1>2. [Next]_vars => [AnyNext]_vars
  BY DEF Next, AnyNext, AnyCalls, Idle
<1>3. IInv /\ MapState /\ [AnyNext]_vars => MapState'
  BY MapNext
<1>4. IInv /\ MapState /\ Ownership /\ [Next]_vars => Ownership'
  BY OwnershipNext
<1> QED
  BY InitInv, NextInv, MapInit, <1>1, <1>2, <1>3, <1>4, PTL DEF Spec

\* The same where callers obey or not (pmm.c:126-218): a PMM whose callers obey
\* keeps every frame with one owner.
THEOREM ObeyedOwnershipKept ==
  ASSUME RangesBelowTop PROVE CallersSpec => []ObeyedOwnership
<1>1. CallersInit => Init /\ ObeyedOwnership
  BY DEF CallersInit, Init, Ownership, ObeyedOwnership
<1>2. [CallersNext]_<<vars, obeys>> => [AnyNext]_vars
  <2>1. ASSUME AnyCalls(AgainMaps) PROVE AnyCalls(Maps)
    BY <2>1, AgainIsAMap DEF AnyCalls, Initialise
  <2>2. Next => AnyCalls(Maps)
    BY DEF Next, AnyCalls, Idle
  <2> QED BY <2>1, <2>2 DEF CallersNext, AnyNext
<1>3. IInv /\ MapState /\ [AnyNext]_vars => MapState'
  BY MapNext
<1>4. ASSUME IInv, MapState, ObeyedOwnership, [CallersNext]_<<vars, obeys>>
      PROVE  ObeyedOwnership'
  <2> SUFFICES ASSUME obeys' PROVE Ownership'
    BY DEF ObeyedOwnership
  <2>1. obeys /\ [Next]_vars
    BY <1>4 DEF CallersNext
  <2> QED BY <1>4, <2>1, OwnershipNext DEF ObeyedOwnership
<1> QED
  BY InitInv, NextInv, MapInit, <1>1, <1>2, <1>3, <1>4, PTL DEF CallersSpec
=============================================================================
