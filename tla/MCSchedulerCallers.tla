------------------------- MODULE MCSchedulerCallers -------------------------
(* Two threads, and callers of both kinds.                                  *)
EXTENDS SchedulerCallers, MCScheduler

\* The counters are written and never read by the calls; they are left out
\* where no property is about them.
Observed ==
    <<obeys, initialized, current, idle, rq, magic, state, rip, frame, cpu, fifo,
      ret, IF obeys THEN <<acct, retired>> ELSE <<>>>>

=============================================================================
