------------------------------- MODULE MCKmem -------------------------------
(* Small instances of Kmem: KMEM_ALIGN is scaled from 16 bytes to 2, and    *)
(* the header (3 alignments) and the split threshold (2) with it.           *)
EXTENDS Kmem

\* Too small, too small after alignment, unaligned, and aligned arenas.
MCArenas == {[base |-> 3, bytes |-> 9], [base |-> 3, bytes |-> 11],
             [base |-> 2, bytes |-> 11], [base |-> 3, bytes |-> MaxAddr - 3],
             [base |-> 2, bytes |-> MaxAddr - 2]}

\* One array that overflows size_t, one that does not.
MCArrays == {<<2, 3>>, <<2, WordMod - 1>>, <<0, 5>>}

\* States that differ only in the free field of a header without its magic,
\* which the code leaves behind and never reads, are the same state.
Observed == <<arena, magic, size, prev, next, {a \in Addr : magic[a] /\ free[a]},
              phase, cur, wanted, asked, live, ret>>

============================================================================
