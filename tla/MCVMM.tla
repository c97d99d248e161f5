------------------------------- MODULE MCVMM -------------------------------
(* Small instances of VMM: pages of 2 bytes, tables of 2 entries, 8 frames  *)
(* of RAM in a physical address space of 32.  Frame 1 is the root, frames   *)
(* 0 and 2 may hold tables of the boot loader, and frames 0 and 7 are out   *)
(* of reach of phys_to_virt.                                                *)
EXTENDS VMM

\* What a frame holds when the allocator hands it out.
Garbage == [n \in 0..(Entries - 1) |-> [addr |-> 4 * PageSize, bits |-> {"PRESENT"}]]

\* A root of its own, and roots taken over from the boot loader: with a huge
\* page one level down, and with a table out of reach.
MCBootTables ==
    LET Fill(root, two) ==
          [f \in Frames |-> CASE f = 1 -> [vmm_zero_page EXCEPT ![1] = root]
                             [] f = 2 -> [vmm_zero_page EXCEPT ![1] = two]
                             [] f = 0 -> vmm_zero_page
                             [] OTHER -> Garbage]
        Link(f) == [addr |-> f * PageSize, bits |-> {"PRESENT", "WRITABLE"}]
    IN  {Fill(Empty, Empty), Fill(Link(0), Empty),
         Fill(Link(2), [addr |-> 16, bits |-> {"PRESENT", "HUGE"}])}

\* What the last call returned is written and never read by the calls.
Observed == <<space, mem, pool, data, cr3, tlb, call>>

============================================================================
