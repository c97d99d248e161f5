-------------------------- MODULE SchedulerCallers --------------------------
(***************************************************************************)
(* The scheduler under both kinds of callers: those that obey the          *)
(* transition table (Scheduler!Next) and those that make any call with any *)
(* argument (Scheduler!AnyNext).  What holds of all callers is checked     *)
(* once for both, and what only holds of those that obey, of them.         *)
(***************************************************************************)
EXTENDS Scheduler

VARIABLE obeys      \* the callers keep to the table

CallersInit == Init /\ obeys \in BOOLEAN

CallersNext ==
    /\ IF obeys THEN Next ELSE AnyNext
    /\ UNCHANGED obeys

CallersSpec == CallersInit /\ [][CallersNext]_<<vars, obeys>>

\* Every context switch is charged to the two threads it is about and every
\* tick to the thread that was running, as long as the scheduler is
\* initialised once: a second mcsos_scheduler_init clears the totals and
\* leaves the threads' counters.
ObeyedAccounting == obeys => AccountingBalances

=============================================================================
