------------------------------- MODULE Memory -------------------------------
(***************************************************************************)
(* The byte loops of kernel/lib/memory.c, as functions of the memory m     *)
(* they run on.                                                            *)
(***************************************************************************)
EXTENDS Integers

CONSTANT Cells      \* the addresses the loops are tried on: 0 to Cells - 1

ASSUME MemoryConstants == Cells \in Nat

memset(m, dest, value, count) ==
    LET loop[k \in 0..count] ==
          IF k = 0 THEN m ELSE [loop[k - 1] EXCEPT ![dest + k - 1] = value % 256]
    IN  loop[count]

\* The ascending loop: each byte is read from the memory the bytes before
\* it have been written to.
memcpy(m, dest, src, count) ==
    LET loop[k \in 0..count] ==
          IF k = 0 THEN m
          ELSE [loop[k - 1] EXCEPT ![dest + k - 1] = loop[k - 1][src + k - 1]]
    IN  loop[count]

Descending(m, dest, src, count) ==
    LET loop[k \in 0..count] ==
          IF k = 0 THEN m
          ELSE [loop[k - 1] EXCEPT ![dest + count - k] = loop[k - 1][src + count - k]]
    IN  loop[count]

\* Mutant: the direction is chosen the other way round.
MoveTowards(m, dest, src, count) ==
    IF dest = src \/ count = 0 THEN m
    ELSE IF dest > src THEN memcpy(m, dest, src, count)
         ELSE Descending(m, dest, src, count)

memmove(m, dest, src, count) ==
    IF dest = src \/ count = 0 THEN m
    ELSE IF dest < src THEN memcpy(m, dest, src, count)
         ELSE Descending(m, dest, src, count)

\* What a copy is for: the bytes as they were before, and no other changed.
Copied(m, dest, src, count) ==
    [a \in DOMAIN m |-> IF a \in dest..(dest + count - 1) THEN m[src + a - dest] ELSE m[a]]

Distinct == [a \in 0..(Cells - 1) |-> a]

\* What a fill is for.
Filled(m, dest, value, count) ==
    [a \in DOMAIN m |-> IF a \in dest..(dest + count - 1) THEN value ELSE m[a]]

============================================================================
