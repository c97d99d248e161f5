------------------------------- MODULE MCPMM -------------------------------
(* Small instances of PMM and its callers.  AllMaps are all maps of one or  *)
(* two regions of a scaled-down address space in which no region reaches    *)
(* into its last page; TopMaps are maps with a region that may.             *)
EXTENDS PMMCallers

NoTop(r) == ~NoOverflow(r.base, r.length) \/ r.base + r.length <= AddrMod - PageSize

AllMaps ==
    LET Low == {r \in Region : NoTop(r)}
    IN  {<<>>} \cup {<<r>> : r \in Low} \cup {<<r, s>> : r \in Low, s \in Low}

\* One usable region, anywhere.
TopMaps ==
    {<<r>> : r \in {q \in Region : q.usable /\ NoOverflow(q.base, q.length)}}

\* Callers that do not obey make their calls on the whole of memory and on
\* memory with a hole.
AnyMaps ==
    {<<[base |-> 0, length |-> 8, usable |-> TRUE]>>,
     <<[base |-> 1, length |-> 7, usable |-> TRUE],
       [base |-> 5, length |-> 1, usable |-> FALSE]>>}

============================================================================
