--------------------------- MODULE AddressSpace ---------------------------
(***************************************************************************)
(* What the virtual memory manager promises, without tables: a partial     *)
(* function from pages to where they lead.  A page is mapped only while it *)
(* is not mapped, one page at a time, and stays as it is until unmapped.   *)
(***************************************************************************)
EXTENDS Functions

CONSTANTS Page, Target

VARIABLE pages

Init == pages = [v \in {} |-> {}]

Map ==
    \E v \in DOMAIN pages' \ DOMAIN pages :
      /\ v \in Page
      /\ pages' \in [DOMAIN pages \cup {v} -> Target]
      /\ Restrict(pages', DOMAIN pages) = pages

Unmap ==
    \E v \in DOMAIN pages \ DOMAIN pages' :
      pages' = Restrict(pages, DOMAIN pages \ {v})

Next == Map \/ Unmap

Spec == Init /\ [][Next]_pages

============================================================================
