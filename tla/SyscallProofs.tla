----------------------------- MODULE SyscallProofs -----------------------------
(***************************************************************************)
(* The check of user ranges is exact for every width of the words and      *)
(* every region, and the loops over bytes move what they should, in every  *)
(* state the assembly and the system calls reach.                          *)
(***************************************************************************)
EXTENDS Entry, TLAPS

Facts == INSTANCE InductionFacts

\* The sum of two words, reduced: wrapping takes the modulus away once.
LEMMA WrapOnce ==
    ASSUME NEW m \in Nat \ {0}, NEW x \in Nat, x < 2 * m
    PROVE  x % m = IF x < m THEN x ELSE x - m
<1> DEFINE q == x \div m
           r == x % m
<1>1. q \in Int /\ r \in 0..(m - 1) /\ x = m * q + r
  OBVIOUS
<1>2. CASE x < m
  <2>1. q = 0
    BY <1>1, <1>2
  <2> QED BY <1>1, <1>2, <2>1
<1>3. CASE x >= m
  <2>1. q = 1
    <3> HIDE DEF q, r
    <3>1. m * q > 0 /\ m * q < 2 * m
      BY <1>1, <1>3
    <3>2. q >= 1
      BY <3>1, <1>1, SMT
    <3>3. q < 2
      BY <3>1, <1>1, SMT
    <3> QED BY <3>2, <3>3, <1>1
  <2> QED BY <1>1, <1>3, <2>1
<1> QED BY <1>2, <1>3

\* mcsos_user_check_range accepts exactly the ranges of which every byte is
\* in the user region (syscall.c:28-37): the comparison of the last address
\* with the first finds every sum that wraps, whatever the width.
LEMMA RangeCheckExact == SyscallTypeOK => UserRangeExact
<1> SUFFICES ASSUME SyscallTypeOK, NEW addr \in Words, NEW len \in Words
             PROVE  mcsos_user_check_range(addr, len) <=> InUserRegion(addr, len)
  BY DEF UserRangeExact
<1> DEFINE b == g_user_region.base
           l == g_user_region.limit
           x == addr + len - 1
           last == x % WordMod
<1>1. WordMod \in Nat \ {0} /\ b \in Words /\ l \in Words
  BY SyscallConstants DEF SyscallTypeOK
<1>2. CASE len = 0
  BY <1>2 DEF mcsos_user_check_range, InUserRegion
<1>3. CASE len # 0
  <2>0. x = addr + len - 1 /\ x \in Nat /\ x < 2 * WordMod
    BY <1>1, <1>3 DEF Words
  <2>1. last = IF x < WordMod THEN x ELSE x - WordMod
    <3> HIDE DEF x
    <3> QED BY <2>0, <1>1, WrapOnce
  <2>2. InUserRegion(addr, len) <=>
          /\ b # 0
          /\ \A i \in 0..(len - 1) : addr + i \in b..(l - 1)
    BY <1>3 DEF InUserRegion
  <2>3. mcsos_user_check_range(addr, len) <=>
          /\ b # 0 /\ l > b /\ addr >= b /\ addr <= l
          /\ last >= addr /\ last < l
    BY <1>3 DEF mcsos_user_check_range
  <2> HIDE DEF b, l, x, last
  <2>4. ASSUME mcsos_user_check_range(addr, len) PROVE InUserRegion(addr, len)
    BY <2>0, <2>1, <2>2, <2>3, <2>4, <1>1, <1>3 DEF Words
  <2>5. ASSUME InUserRegion(addr, len) PROVE mcsos_user_check_range(addr, len)
    <3>1. addr + 0 \in b..(l - 1) /\ addr + (len - 1) \in b..(l - 1)
      BY <2>2, <2>5, <1>3 DEF Words
    <3> QED BY <3>1, <2>0, <2>1, <2>2, <2>3, <2>5, <1>1, <1>3 DEF Words
  <2> QED BY <2>4, <2>5
<1> QED BY <1>2, <1>3

-----------------------------------------------------------------------------
(* The loops over bytes.                                                   *)

\* w holds the memory after each turn of the loop of memset, of memcpy and of
\* the descending one.
SetTurns(w, m, dest, value, count) ==
    w = [k \in 0..count |->
           IF k = 0 THEN m ELSE [w[k - 1] EXCEPT ![dest + k - 1] = value % 256]]

UpTurns(w, m, dest, src, count) ==
    w = [k \in 0..count |->
           IF k = 0 THEN m ELSE [w[k - 1] EXCEPT ![dest + k - 1] = w[k - 1][src + k - 1]]]

DownTurns(w, m, dest, src, count) ==
    w = [k \in 0..count |->
           IF k = 0 THEN m
           ELSE [w[k - 1] EXCEPT ![dest + count - k] = w[k - 1][src + count - k]]]

\* Memory m is a table of the bytes from 0, and the range is in it.
Holds(m, at, count) == DOMAIN m \subseteq Int /\ at..(at + count - 1) \subseteq DOMAIN m

\* Two tables that start alike and go on alike end alike.
LEMMA SameLoop ==
    ASSUME NEW n \in Nat, NEW v, NEW c, v[0] = c[0],
           \A k \in 1..n : v[k - 1] = c[k - 1] => v[k] = c[k]
    PROVE  v[n] = c[n]
<1> DEFINE S == {k \in Nat : k <= n => v[k] = c[k]}
<1>1. 0 \in S
  OBVIOUS
<1>2. ASSUME NEW k \in Nat, k \in S PROVE k + 1 \in S
  <2>1. CASE k + 1 <= n
    <3>1. k + 1 \in 1..n /\ (k + 1) - 1 = k /\ v[k] = c[k]
      BY <1>2, <2>1
    <3> QED BY <3>1
  <2>2. CASE ~(k + 1 <= n)
    BY <2>2
  <2> QED BY <2>1, <2>2
<1>3. Nat \subseteq S
  <2> HIDE DEF S
  <2> QED BY <1>1, <1>2, Facts!NumberInduction
<1> QED BY <1>3

\* memset fills the range with the byte of the value (memory.c:3-9).
LEMMA MemsetFills ==
    ASSUME NEW m, m = [a \in DOMAIN m |-> m[a]], NEW dest \in Nat, NEW value \in Nat,
           NEW count \in Nat, Holds(m, dest, count)
    PROVE  memset(m, dest, value, count) = Filled(m, dest, value % 256, count)
<1> DEFINE c == [k \in 0..count |-> Filled(m, dest, value % 256, k)]
           v == CHOOSE w : SetTurns(w, m, dest, value, count)
<1>1. DOMAIN m \subseteq Int /\ dest..(dest + count - 1) \subseteq DOMAIN m
  BY DEF Holds
<1>2. c[0] = m
  <2>1. c[0] = [a \in DOMAIN m |-> IF a \in dest..(dest + 0 - 1) THEN value % 256 ELSE m[a]]
    BY DEF Filled
  <2>2. \A a \in DOMAIN m : a \notin dest..(dest + 0 - 1)
    BY <1>1
  <2>3. c[0] = [a \in DOMAIN m |-> m[a]]
    <3> HIDE DEF c
    <3> QED BY <2>1, <2>2
  <2> QED BY <2>3
<1>3. ASSUME NEW k \in 1..count PROVE c[k] = [c[k - 1] EXCEPT ![dest + k - 1] = value % 256]
  <2>1. /\ c[k] = [a \in DOMAIN m |-> IF a \in dest..(dest + k - 1) THEN value % 256 ELSE m[a]]
        /\ c[k - 1] = [a \in DOMAIN m |->
                         IF a \in dest..(dest + (k - 1) - 1) THEN value % 256 ELSE m[a]]
    BY DEF Filled
  <2>2. \A a \in DOMAIN m : a \in dest..(dest + k - 1) <=>
                              (a \in dest..(dest + (k - 1) - 1) \/ a = dest + k - 1)
    BY <1>1
  <2> HIDE DEF c
  <2> QED BY <2>1, <2>2
<1>4. SetTurns(c, m, dest, value, count)
  <2>1. c = [k \in 0..count |-> c[k]]
    OBVIOUS
  <2>2. \A k \in 0..count : k = 0 \/ k \in 1..count
    OBVIOUS
  <2> HIDE DEF c
  <2> QED BY <2>1, <2>2, <1>2, <1>3, Zenon DEF SetTurns
<1>5. SetTurns(v, m, dest, value, count)
  BY <1>4, Zenon
<1>6. memset(m, dest, value, count) = v[count]
  BY Zenon DEF memset, SetTurns
<1>7. c[count] = Filled(m, dest, value % 256, count)
  OBVIOUS
<1> HIDE DEF c, v
<1>8. v[0] = m /\ \A k \in 1..count : v[k] = [v[k - 1] EXCEPT ![dest + k - 1] = value % 256]
  <2>1. 0 \in 0..count /\ \A k \in 1..count : k \in 0..count /\ k # 0
    OBVIOUS
  <2> QED BY <1>5, <2>1, Zenon DEF SetTurns
<1>9. ASSUME NEW k \in 1..count, v[k - 1] = c[k - 1] PROVE v[k] = c[k]
  <2>1. v[k] = [v[k - 1] EXCEPT ![dest + k - 1] = value % 256]
    BY <1>8
  <2>2. c[k] = [c[k - 1] EXCEPT ![dest + k - 1] = value % 256]
    BY <1>3
  <2> QED BY <1>9, <2>1, <2>2, Zenon
<1>10. v[count] = c[count]
  BY <1>2, <1>8, <1>9, SameLoop
<1> QED BY <1>6, <1>7, <1>10

\* The ascending loop copies when it does not write what it has yet to read
\* (memory.c:11-18).
LEMMA MemcpyCopies ==
    ASSUME NEW m, m = [a \in DOMAIN m |-> m[a]], NEW dest \in Nat, NEW src \in Nat,
           NEW count \in Nat, Holds(m, dest, count), Holds(m, src, count),
           dest \notin (src + 1)..(src + count - 1)
    PROVE  memcpy(m, dest, src, count) = Copied(m, dest, src, count)
<1> DEFINE c == [k \in 0..count |-> Copied(m, dest, src, k)]
           v == CHOOSE w : UpTurns(w, m, dest, src, count)
<1>1. /\ DOMAIN m \subseteq Int /\ dest..(dest + count - 1) \subseteq DOMAIN m
      /\ src..(src + count - 1) \subseteq DOMAIN m
  BY DEF Holds
<1>2. c[0] = m
  <2>1. c[0] = [a \in DOMAIN m |-> IF a \in dest..(dest + 0 - 1) THEN m[src + a - dest] ELSE m[a]]
    BY DEF Copied
  <2>2. \A a \in DOMAIN m : a \notin dest..(dest + 0 - 1)
    BY <1>1
  <2>3. c[0] = [a \in DOMAIN m |-> m[a]]
    <3> HIDE DEF c
    <3> QED BY <2>1, <2>2
  <2> QED BY <2>3
<1>3. ASSUME NEW k \in 1..count
      PROVE  c[k] = [c[k - 1] EXCEPT ![dest + k - 1] = c[k - 1][src + k - 1]]
  <2>1. /\ c[k] = [a \in DOMAIN m |-> IF a \in dest..(dest + k - 1) THEN m[src + a - dest] ELSE m[a]]
        /\ c[k - 1] = [a \in DOMAIN m |->
                         IF a \in dest..(dest + (k - 1) - 1) THEN m[src + a - dest] ELSE m[a]]
    BY DEF Copied
  <2>2. \A a \in DOMAIN m : a \in dest..(dest + k - 1) <=>
                              (a \in dest..(dest + (k - 1) - 1) \/ a = dest + k - 1)
    BY <1>1
  <2>3. src + k - 1 \in DOMAIN m /\ src + k - 1 \notin dest..(dest + (k - 1) - 1)
    BY <1>1
  <2>4. src + (dest + k - 1) - dest = src + k - 1
    OBVIOUS
  <2> HIDE DEF c
  <2>5. c[k - 1][src + k - 1] = m[src + k - 1]
    BY <2>1, <2>3
  <2>6. c[k] = [c[k - 1] EXCEPT ![dest + k - 1] = m[src + k - 1]]
    BY <2>1, <2>2, <2>4
  <2> QED BY <2>5, <2>6
<1>4. UpTurns(c, m, dest, src, count)
  <2>1. c = [k \in 0..count |-> c[k]]
    OBVIOUS
  <2>2. \A k \in 0..count : k = 0 \/ k \in 1..count
    OBVIOUS
  <2> HIDE DEF c
  <2> QED BY <2>1, <2>2, <1>2, <1>3, Zenon DEF UpTurns
<1>5. UpTurns(v, m, dest, src, count)
  BY <1>4, Zenon
<1>6. memcpy(m, dest, src, count) = v[count]
  BY Zenon DEF memcpy, UpTurns
<1>7. c[count] = Copied(m, dest, src, count)
  OBVIOUS
<1> HIDE DEF c, v
<1>8. v[0] = m /\ \A k \in 1..count : v[k] = [v[k - 1] EXCEPT ![dest + k - 1] = v[k - 1][src + k - 1]]
  <2>1. 0 \in 0..count /\ \A k \in 1..count : k \in 0..count /\ k # 0
    OBVIOUS
  <2> QED BY <1>5, <2>1, Zenon DEF UpTurns
<1>9. ASSUME NEW k \in 1..count, v[k - 1] = c[k - 1] PROVE v[k] = c[k]
  BY <1>3, <1>8, <1>9, Zenon
<1>10. v[count] = c[count]
  BY <1>2, <1>8, <1>9, SameLoop
<1> QED BY <1>6, <1>7, <1>10

\* The descending loop copies when the destination comes after the source
\* (memory.c:32-38).
LEMMA DescendingCopies ==
    ASSUME NEW m, m = [a \in DOMAIN m |-> m[a]], NEW dest \in Nat, NEW src \in Nat,
           NEW count \in Nat, Holds(m, dest, count), Holds(m, src, count), dest >= src
    PROVE  Descending(m, dest, src, count) = Copied(m, dest, src, count)
<1> DEFINE Down(k) == [a \in DOMAIN m |-> IF a \in (dest + count - k)..(dest + count - 1)
                                          THEN m[src + a - dest] ELSE m[a]]
           c == [k \in 0..count |-> Down(k)]
           v == CHOOSE w : DownTurns(w, m, dest, src, count)
<1>1. /\ DOMAIN m \subseteq Int /\ dest..(dest + count - 1) \subseteq DOMAIN m
      /\ src..(src + count - 1) \subseteq DOMAIN m
  BY DEF Holds
<1>2. c[0] = m
  <2>1. c[0] = [a \in DOMAIN m |-> IF a \in (dest + count - 0)..(dest + count - 1)
                                   THEN m[src + a - dest] ELSE m[a]]
    OBVIOUS
  <2>2. \A a \in DOMAIN m : a \notin (dest + count - 0)..(dest + count - 1)
    BY <1>1
  <2>3. c[0] = [a \in DOMAIN m |-> m[a]]
    <3> HIDE DEF c
    <3> QED BY <2>1, <2>2
  <2> QED BY <2>3
<1>3. ASSUME NEW k \in 1..count
      PROVE  c[k] = [c[k - 1] EXCEPT ![dest + count - k] = c[k - 1][src + count - k]]
  <2>1. /\ c[k] = [a \in DOMAIN m |-> IF a \in (dest + count - k)..(dest + count - 1)
                                      THEN m[src + a - dest] ELSE m[a]]
        /\ c[k - 1] = [a \in DOMAIN m |-> IF a \in (dest + count - (k - 1))..(dest + count - 1)
                                          THEN m[src + a - dest] ELSE m[a]]
    OBVIOUS
  <2>2. \A a \in DOMAIN m :
          a \in (dest + count - k)..(dest + count - 1) <=>
            (a \in (dest + count - (k - 1))..(dest + count - 1) \/ a = dest + count - k)
    BY <1>1
  <2>3. /\ src + count - k \in DOMAIN m
        /\ src + count - k \notin (dest + count - (k - 1))..(dest + count - 1)
    BY <1>1
  <2>4. src + (dest + count - k) - dest = src + count - k
    OBVIOUS
  <2> HIDE DEF c
  <2>5. c[k - 1][src + count - k] = m[src + count - k]
    BY <2>1, <2>3
  <2>6. c[k] = [c[k - 1] EXCEPT ![dest + count - k] = m[src + count - k]]
    BY <2>1, <2>2, <2>4
  <2> QED BY <2>5, <2>6
<1>4. DownTurns(c, m, dest, src, count)
  <2>1. c = [k \in 0..count |-> c[k]]
    OBVIOUS
  <2>2. \A k \in 0..count : k = 0 \/ k \in 1..count
    OBVIOUS
  <2> HIDE DEF c
  <2> QED BY <2>1, <2>2, <1>2, <1>3, Zenon DEF DownTurns
<1>5. DownTurns(v, m, dest, src, count)
  BY <1>4, Zenon
<1>6. Descending(m, dest, src, count) = v[count]
  BY Zenon DEF Descending, DownTurns
<1>7. c[count] = Copied(m, dest, src, count)
  <2>1. dest + count - count = dest
    OBVIOUS
  <2>2. c[count] = Down(count)
    OBVIOUS
  <2>3. Down(count) = Copied(m, dest, src, count)
    BY <2>1 DEF Copied
  <2> QED BY <2>2, <2>3, Zenon
<1> HIDE DEF c, v
<1>8. v[0] = m /\ \A k \in 1..count : v[k] = [v[k - 1] EXCEPT ![dest + count - k] = v[k - 1][src + count - k]]
  <2>1. 0 \in 0..count /\ \A k \in 1..count : k \in 0..count /\ k # 0
    OBVIOUS
  <2> QED BY <1>5, <2>1, Zenon DEF DownTurns
<1>9. ASSUME NEW k \in 1..count, v[k - 1] = c[k - 1] PROVE v[k] = c[k]
  BY <1>3, <1>8, <1>9, Zenon
<1>10. v[count] = c[count]
  BY <1>2, <1>8, <1>9, SameLoop
<1> QED BY <1>6, <1>7, <1>10

\* memmove copies however the ranges overlap (memory.c:20-41).
LEMMA MemmoveCopies ==
    ASSUME NEW m, m = [a \in DOMAIN m |-> m[a]], NEW dest \in Nat, NEW src \in Nat,
           NEW count \in Nat, Holds(m, dest, count), Holds(m, src, count)
    PROVE  memmove(m, dest, src, count) = Copied(m, dest, src, count)
<1>1. CASE dest = src \/ count = 0
  <2>1. DOMAIN m \subseteq Int
    BY DEF Holds
  <2>2. \A a \in DOMAIN m : (IF a \in dest..(dest + count - 1) THEN m[src + a - dest] ELSE m[a]) = m[a]
    <3> TAKE a \in DOMAIN m
    <3>1. CASE dest = src
      <4>1. src + a - dest = a
        BY <2>1, <3>1
      <4> QED BY <4>1
    <3>2. CASE count = 0
      <4>1. a \notin dest..(dest + count - 1)
        BY <2>1, <3>2
      <4> QED BY <4>1
    <3> QED BY <1>1, <3>1, <3>2
  <2>3. Copied(m, dest, src, count) = [a \in DOMAIN m |-> m[a]]
    BY <2>2 DEF Copied
  <2> QED BY <1>1, <2>3 DEF memmove
<1>2. CASE ~(dest = src \/ count = 0) /\ dest < src
  <2>1. dest \notin (src + 1)..(src + count - 1)
    BY <1>2
  <2> QED BY <1>2, <2>1, MemcpyCopies DEF memmove
<1>3. CASE ~(dest = src \/ count = 0) /\ ~(dest < src)
  BY <1>3, DescendingCopies DEF memmove
<1> QED BY <1>1, <1>2, <1>3

\* The ranges the loops are given are in the memory they run on.
LEMMA DistinctHolds ==
    ASSUME NEW at \in Nat, NEW count \in Nat, at + count <= Cells
    PROVE  Distinct = [a \in DOMAIN Distinct |-> Distinct[a]] /\ Holds(Distinct, at, count)
BY MemoryConstants DEF Distinct, Holds

\* The effects of the loops of memory.c.
LEMMA LoopsMove ==
    ASSUME NEW dest \in Nat, NEW src \in Nat, NEW count \in Nat, dest + count <= Cells,
           src + count <= Cells, ByteLoop(dest, src, count)
    PROVE  BytesMoved'
<1>1. PICK args : args = <<dest, src, count>>
  BY Zenon
<1>2. \A f, ram : /\ Moves(f, ram, args).fn = f /\ Moves(f, ram, args).ram = ram
                  /\ Moves(f, ram, args).args = args
  BY DEF Moves, Nothing
<1>3. args[1] = dest /\ args[2] = src /\ args[3] = count
  BY <1>1
<1>4. /\ Distinct = [a \in DOMAIN Distinct |-> Distinct[a]]
      /\ Holds(Distinct, dest, count) /\ Holds(Distinct, src, count)
  BY DistinctHolds
<1>5. CASE effect' = Moves("memmove", memmove(Distinct, dest, src, count), args)
  <2>1. /\ effect'.fn = "memmove" /\ effect'.args = args
        /\ effect'.ram = memmove(Distinct, dest, src, count)
    BY <1>2, <1>5
  <2>2. memmove(Distinct, dest, src, count) = Copied(Distinct, dest, src, count)
    BY <1>4, MemmoveCopies
  <2> QED BY <2>1, <2>2, <1>3, Zenon DEF BytesMoved
<1>6. CASE effect' = Moves("memcpy", memcpy(Distinct, dest, src, count), args)
  <2>1. /\ effect'.fn = "memcpy" /\ effect'.args = args
        /\ effect'.ram = memcpy(Distinct, dest, src, count)
    BY <1>2, <1>6
  <2>2. ASSUME dest \notin (src + 1)..(src + count - 1)
        PROVE  memcpy(Distinct, dest, src, count) = Copied(Distinct, dest, src, count)
    BY <2>2, <1>4, MemcpyCopies
  <2> QED BY <2>1, <2>2, <1>3, Zenon DEF BytesMoved
<1>7. CASE effect' = Moves("memset", memset(Distinct, dest, 256 + src, count), args)
  <2>1. /\ effect'.fn = "memset" /\ effect'.args = args
        /\ effect'.ram = memset(Distinct, dest, 256 + src, count)
    BY <1>2, <1>7
  <2>2. memset(Distinct, dest, 256 + src, count) = Filled(Distinct, dest, src % 256, count)
    <3>1. PICK value \in Nat : value = 256 + src
      OBVIOUS
    <3>2. memset(Distinct, dest, value, count) = Filled(Distinct, dest, value % 256, count)
      BY <1>4, MemsetFills
    <3>3. value % 256 = src % 256
      BY <3>1
    <3> QED BY <3>1, <3>2, <3>3
  <2> QED BY <2>1, <2>2, <1>3, Zenon DEF BytesMoved
<1> QED BY <1>1, <1>5, <1>6, <1>7, Zenon DEF ByteLoop

\* The copy from the user moves its bytes: the range it is given has been
\* found in the user region, so it is in memory (syscall.c:39-47).
LEMMA CopyMoves ==
    ASSUME SyscallTypeOK, NEW dst \in Words, NEW src \in Words, NEW len \in Words, dst + len <= Cells,
           g_user_region.limit <= Cells, mcsos_copy_from_user(dst, src, len)
    PROVE  BytesMoved'
<1>1. dst \in Nat /\ src \in Nat /\ len \in Nat
  BY SyscallConstants DEF Words
<1>2. PICK ret : ret = IF len = 0 THEN MCSOS_OK
                       ELSE IF dst = 0 \/ src = 0 THEN MCSOS_EINVAL
                       ELSE IF ~mcsos_user_check_range(src, len) THEN MCSOS_EFAULT ELSE MCSOS_OK
  BY Zenon
<1>3. PICK moved : moved = IF ret = MCSOS_OK /\ len # 0
                           THEN Moves("copy", memcpy(Distinct, dst, src, len), <<dst, src, len>>)
                           ELSE Nothing
  BY Zenon
<1>4. effect' = [moved EXCEPT !.ret = ret,
                              !.reads = moved.args[2]..(moved.args[2] + moved.args[3] - 1)]
  BY <1>2, <1>3 DEF mcsos_copy_from_user
<1>5. CASE ret = MCSOS_OK /\ len # 0
  <2>1. PICK args, ram : args = <<dst, src, len>> /\ ram = memcpy(Distinct, dst, src, len)
    BY Zenon
  <2>2. args[1] = dst /\ args[2] = src /\ args[3] = len
    BY <2>1
  <2>3. moved = Moves("copy", ram, args)
    BY <1>3, <1>5, <2>1
  <2>4. moved = [fn |-> "copy", kind |-> "none", reads |-> {}, ram |-> ram, args |-> args, ret |-> MCSOS_OK]
    BY <2>3, Zenon DEF Moves, Nothing
  <2>5. effect'.fn = "copy" /\ effect'.args = args /\ effect'.ram = ram
    BY <1>4, <2>4
  <2>6. mcsos_user_check_range(src, len)
    BY <1>2, <1>5 DEF MCSOS_OK, MCSOS_EINVAL, MCSOS_EFAULT
  <2>7. \A i \in 0..(len - 1) : src + i \in g_user_region.base..(g_user_region.limit - 1)
    <3>1. InUserRegion(src, len)
      BY <2>6, RangeCheckExact DEF UserRangeExact
    <3> QED BY <3>1, <1>5 DEF InUserRegion
  <2>8. src + len <= Cells
    <3>1. g_user_region.limit \in Int /\ g_user_region.base \in Int /\ Cells \in Int
      BY SyscallConstants, MemoryConstants DEF SyscallTypeOK, Words
    <3>2. src + (len - 1) \in g_user_region.base..(g_user_region.limit - 1)
      BY <1>1, <1>5, <2>7
    <3> QED BY <3>1, <3>2, <1>1
  <2>9. ASSUME dst \notin (src + 1)..(src + len - 1)
        PROVE  ram = Copied(Distinct, dst, src, len)
    <3>1. /\ Distinct = [a \in DOMAIN Distinct |-> Distinct[a]]
          /\ Holds(Distinct, dst, len) /\ Holds(Distinct, src, len)
      BY <1>1, <2>8, DistinctHolds
    <3> QED BY <1>1, <2>1, <2>9, <3>1, MemcpyCopies
  <2> QED BY <2>2, <2>5, <2>9, Zenon DEF BytesMoved
<1>6. CASE ~(ret = MCSOS_OK /\ len # 0)
  <2>1. effect'.fn = "none"
    BY <1>3, <1>4, <1>6 DEF Nothing
  <2> QED BY <2>1 DEF BytesMoved
<1> QED BY <1>5, <1>6

\* The dispatcher makes a callback or none, and moves no bytes, whatever
\* number and arguments it is given (syscall.c:49-105).
LEMMA DispatchMovesNothing ==
    ASSUME NEW nr, NEW a0, NEW a1
    PROVE  mcsos_syscall_dispatch(nr, a0, a1).effect.fn \in Callbacks \cup {"none"}
<1>1. \A ret : Answer(ret).effect.fn = "none"
  BY DEF Answer, Nothing
<1>2. \A f, ret, reads : Callback(f, ret, reads).effect.fn = f
  BY DEF Callback, Nothing
<1>3. \A ret : IfInstalled("get_ticks", ret).effect.fn \in {"get_ticks", "none"}
  BY <1>1, <1>2, Zenon DEF IfInstalled
<1>4. \A ret : IfInstalled("yield_current", ret).effect.fn \in {"yield_current", "none"}
  BY <1>1, <1>2, Zenon DEF IfInstalled
<1>5. \A ret : IfInstalled("exit_current", ret).effect.fn \in {"exit_current", "none"}
  BY <1>1, <1>2, Zenon DEF IfInstalled
<1>6. sys_write_serial(a0, a1).effect.fn \in {"write_serial", "none"}
  BY <1>1, <1>2, Zenon DEF sys_write_serial
<1>7. \/ \E ret : mcsos_syscall_dispatch(nr, a0, a1) = Answer(ret)
      \/ \E ret : mcsos_syscall_dispatch(nr, a0, a1) = IfInstalled("get_ticks", ret)
      \/ \E ret : mcsos_syscall_dispatch(nr, a0, a1) = IfInstalled("yield_current", ret)
      \/ \E ret : mcsos_syscall_dispatch(nr, a0, a1) = IfInstalled("exit_current", ret)
      \/ mcsos_syscall_dispatch(nr, a0, a1) = sys_write_serial(a0, a1)
  BY DEF mcsos_syscall_dispatch
<1>8. PICK fn : fn = mcsos_syscall_dispatch(nr, a0, a1).effect.fn
  BY Zenon
<1>9. \/ fn = "none" \/ fn \in {"get_ticks", "none"} \/ fn \in {"yield_current", "none"}
      \/ fn \in {"exit_current", "none"} \/ fn \in {"write_serial", "none"}
  BY <1>1, <1>3, <1>4, <1>5, <1>6, <1>7, <1>8, Zenon
<1> QED BY <1>8, <1>9 DEF Callbacks

\* The last step moved what it should have, and the user region is in memory.
MovesRight == SyscallTypeOK /\ g_user_region.limit <= Cells /\ BytesMoved

\* Every step moves what it should.
LEMMA MovesRightKept ==
    ASSUME MovesRight, [Next]_vars
    PROVE  MovesRight'
\* A step that runs no loop moves nothing.
<1>NoLoop.
    ASSUME effect'.fn \in Callbacks \cup {"none"}
    PROVE  BytesMoved'
  BY <1>NoLoop DEF BytesMoved, Callbacks
<1>0. Nothing.fn = "none"
  BY DEF Nothing
<1>1. ASSUME UNCHANGED state
      PROVE  SyscallTypeOK' /\ g_user_region'.limit <= Cells
  <2>1. g_ops' = g_ops /\ g_user_region' = g_user_region /\ ready' = ready
    BY <1>1 DEF state
  <2> QED BY <2>1, Zenon DEF MovesRight, SyscallTypeOK
<1>2. CASE Step
  <2>1. UNCHANGED state
    BY <1>2, Zenon DEF Step
  <2>2. effect' = dispatched.effect \/ effect' = Nothing
    BY <1>2, Zenon DEF Step
  <2>3. dispatched.effect.fn \in Callbacks \cup {"none"}
    BY DispatchMovesNothing, Zenon DEF dispatched
  <2>4. effect'.fn \in Callbacks \cup {"none"}
    BY <1>0, <2>2, <2>3, Zenon
  <2> QED BY <1>1, <2>1, <2>4, <1>NoLoop DEF MovesRight
<1>3. CASE effect' = Nothing /\ UNCHANGED state
  <2>1. effect'.fn \in Callbacks \cup {"none"}
    BY <1>0, <1>3, Zenon
  <2> QED BY <1>1, <1>3, <2>1, <1>NoLoop DEF MovesRight
<1>4. ASSUME NEW v, Exception(v) PROVE MovesRight'
  BY <1>3, <1>4, Zenon DEF Exception
<1>5. CASE \E g \in 0..1 : Work(g)
  BY <1>3, <1>5, Zenon DEF Work
<1>6. CASE \E t \in Threads : CallSwitch(t)
  BY <1>3, <1>6, Zenon DEF CallSwitch
<1>7. CASE \E q \in Requests : CallInt80(q[1], q[2], q[3])
  BY <1>3, <1>7, Zenon DEF CallInt80
<1>8. CASE UNCHANGED vars
  <2>1. effect' = effect /\ UNCHANGED state
    BY <1>8, Zenon DEF vars, state
  <2>2. BytesMoved'
    BY <2>1, Zenon DEF MovesRight, BytesMoved
  <2> QED BY <1>1, <2>1, <2>2 DEF MovesRight
<1>9. CASE Setup
  <2>1. CASE \E ops \in OpsSets : mcsos_syscall_init(ops)
    <3>1. /\ \A f \in Callbacks : g_ops'[f] \in {"null", "default", "given"}
          /\ g_user_region' = g_user_region /\ ready' = TRUE /\ effect' = Nothing
      BY <2>1 DEF mcsos_syscall_init
    <3>2. effect'.fn \in Callbacks \cup {"none"}
      BY <1>0, <3>1, Zenon
    <3> QED BY <3>1, <3>2, <1>NoLoop DEF MovesRight, SyscallTypeOK
  <2>2. CASE \E region \in Regions : mcsos_syscall_set_user_region(region)
    <3>1. PICK region \in Regions : /\ g_user_region' = region /\ effect' = Nothing
                                    /\ g_ops' = g_ops /\ ready' = ready
      BY <2>2 DEF mcsos_syscall_set_user_region
    <3>2. g_user_region'.limit <= Cells /\ g_user_region' \in [base : Words, limit : Words]
      BY <3>1, EntryConstants, SyscallConstants
    <3>3. effect'.fn \in Callbacks \cup {"none"}
      BY <1>0, <3>1, Zenon
    <3>4. SyscallTypeOK'
      BY <3>1, <3>2, Zenon DEF MovesRight, SyscallTypeOK
    <3> QED BY <3>2, <3>3, <3>4, <1>NoLoop DEF MovesRight
  <2>3. CASE \E dst, src, len \in Args : dst + len <= Cells /\ mcsos_copy_from_user(dst, src, len)
    <3>1. PICK dst \in Words, src \in Words, len \in Words :
            dst + len <= Cells /\ mcsos_copy_from_user(dst, src, len)
      BY <2>3, EntryConstants
    <3>2. UNCHANGED state
      BY <3>1, Zenon DEF mcsos_copy_from_user
    <3>3. BytesMoved'
      BY <3>1, CopyMoves DEF MovesRight
    <3> QED BY <1>1, <3>2, <3>3 DEF MovesRight
  <2>4. CASE \E dest, src, count \in 0..Cells :
               dest + count <= Cells /\ src + count <= Cells /\ ByteLoop(dest, src, count)
    <3>1. PICK dest \in Nat, src \in Nat, count \in Nat :
            dest + count <= Cells /\ src + count <= Cells /\ ByteLoop(dest, src, count)
      BY <2>4, MemoryConstants
    <3>2. UNCHANGED state
      BY <3>1, Zenon DEF ByteLoop
    <3>3. BytesMoved'
      BY <3>1, LoopsMove
    <3> QED BY <1>1, <3>2, <3>3 DEF MovesRight
  <2> QED BY <1>9, <2>1, <2>2, <2>3, <2>4, Zenon DEF Setup
<1>10. CASE \E v \in 0..31 : FromRun(v)
  BY <1>4, <1>10, Zenon DEF FromRun
<1>11. CASE Halted
  BY <1>8, <1>11, Zenon DEF Halted
<1> QED BY <1>2, <1>4, <1>5, <1>6, <1>7, <1>8, <1>9, <1>10, <1>11, Zenon DEF Next

\* At first nothing has been moved and there is no user region.
LEMMA MovesRightFirst == ASSUME Init PROVE MovesRight
<1>1. /\ effect = Nothing /\ g_user_region = [base |-> 0, limit |-> 0] /\ ready = FALSE
      /\ \A f \in Callbacks : g_ops[f] = "null"
  BY DEF Init, SyscallInit
<1>2. g_user_region.limit <= Cells /\ g_user_region \in [base : Words, limit : Words]
  BY <1>1, MemoryConstants, SyscallConstants DEF Words
<1>3. BytesMoved
  BY <1>1 DEF Nothing, BytesMoved
<1> QED BY <1>1, <1>2, <1>3 DEF MovesRight, SyscallTypeOK

\* The loops move their bytes and no others, on memory of every size, for
\* every region and every argument of a copy, and whatever threads, system
\* calls and exceptions run in between (memory.c:3-41, syscall.c:39-47).
THEOREM BytesAreMoved == Spec => []BytesMoved
<1>1. Init => MovesRight
  BY MovesRightFirst
<1>2. MovesRight /\ [Next]_vars => MovesRight'
  BY MovesRightKept
<1>3. MovesRight => BytesMoved
  BY DEF MovesRight
<1> QED BY <1>1, <1>2, <1>3, PTL DEF Spec

\* In every state the check of a user range accepts exactly the ranges that
\* are in the region set at the time, before one is set and after it has been
\* replaced (syscall.c:24-37).
THEOREM RangeCheckStaysExact == Spec => []UserRangeExact
<1>1. Init => MovesRight
  BY MovesRightFirst
<1>2. MovesRight /\ [Next]_vars => MovesRight'
  BY MovesRightKept
<1>3. MovesRight => UserRangeExact
  BY RangeCheckExact DEF MovesRight
<1> QED BY <1>1, <1>2, <1>3, PTL DEF Spec

============================================================================
