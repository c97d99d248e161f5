---------------------------- MODULE MCScheduler ----------------------------
(* Small instances of Scheduler in a 64-byte address space.                 *)
EXTENDS Scheduler

\* Refused: too short, wrapping, ending at the very top, too close to the
\* margin.
BadStacks == {[base |-> 16, size |-> 8], [base |-> 56, size |-> 16],
              [base |-> 48, size |-> 16], [base |-> 3, size |-> 12]}

OneStack == BadStacks \cup {[base |-> 16, size |-> 16]}

\* The second accepted stack clears the margin by one byte.
TwoStacks == OneStack \cup {[base |-> 5, size |-> 12]}

============================================================================
