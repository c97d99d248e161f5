----------------------------- MODULE RoundRobin -----------------------------
(***************************************************************************)
(* What the scheduler promises, without pointers, states or counters: one  *)
(* CPU and one queue of distinct threads served in order of arrival.  The  *)
(* boot thread fills in when nobody waits and never queues.  As in the     *)
(* code, the next thread is taken before the old one rejoins, so a thread  *)
(* that yields alone gives way to the boot thread once.                    *)
(***************************************************************************)
EXTENDS Sequences, Functions

CONSTANTS Threads, Boot, NULL

VARIABLES running, waiting

Upcoming == IF waiting = <<>> THEN Boot ELSE Head(waiting)

Remaining == IF waiting = <<>> THEN <<>> ELSE Tail(waiting)

Init == running = NULL /\ waiting = <<>>

Start ==
    /\ running = NULL
    /\ running' = Boot
    /\ UNCHANGED waiting

Arrive(t) ==
    /\ running \notin {NULL, t}
    /\ t \notin Range(waiting)
    /\ waiting' = Append(waiting, t)
    /\ UNCHANGED running

Rotate ==
    /\ running # NULL
    /\ running' = Upcoming
    /\ waiting' = IF running = Boot THEN Remaining ELSE Append(Remaining, running)

Sleep ==
    /\ running \in Threads
    /\ running' = Upcoming
    /\ waiting' = Remaining

Next == Start \/ Rotate \/ Sleep \/ \E t \in Threads : Arrive(t)

Spec == Init /\ [][Next]_<<running, waiting>>

============================================================================
