------------------------------- MODULE MCEntry -------------------------------
(* The assembly and the system calls with two threads and words modulo 8.  *)
EXTENDS Entry

\* A region up to the last word, and one upside down.
FewRegions == {[base |-> 2, limit |-> 7], [base |-> 5, limit |-> 3]}

FewOps == {{}, Callbacks}

\* Every write of few arguments, and every other call and one too many.
FewRequests == ({2} \X {0, 2, 7} \X {0, 2, 7}) \cup ({0, 1, 3, 4, 5} \X {7} \X {2})

============================================================================
