--------------------------- MODULE MC_SemSyscall ---------------------------
(* Two threads, two object ids and three Semaphore objects: enough for a  *)
(* table to fill, an id to be reused after a destroy, and a thread to     *)
(* sleep in P while the other calls V or SemDestroy.                      *)
EXTENDS SemSyscall, TLC

CONSTANTS t1, t2, s1, s2, s3

MC_Threads == {t1, t2}
MC_Sems == {s1, s2, s3}
MC_Ids == {0, 1}

=============================================================================
