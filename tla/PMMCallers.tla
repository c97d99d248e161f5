----------------------------- MODULE PMMCallers -----------------------------
(* The callers of the physical memory manager: either all of them free only *)
(* what they hold and reserve only what nobody holds (Next), or they make   *)
(* any call at any time (AnyCalls), with a second initialisation among them. *)
EXTENDS PMM

CONSTANT AgainMaps      \* the maps such callers initialise the PMM with

ASSUME AgainIsAMap == AgainMaps \subseteq Maps

VARIABLE obeys

CallersInit == Init /\ obeys \in BOOLEAN

CallersNext ==
    /\ IF obeys THEN Next ELSE AnyCalls(AgainMaps)
    /\ UNCHANGED obeys

CallersSpec == CallersInit /\ [][CallersNext]_<<vars, obeys>>

\* Ownership is the promise to callers that obey; the other properties of PMM
\* are kept under any calls.
ObeyedOwnership == obeys => Ownership

=============================================================================
