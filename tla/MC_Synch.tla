------------------------------ MODULE MC_Synch ------------------------------
(* Three threads, so that one holds an object while two wait on it.       *)
EXTENDS Synch, TLC

CONSTANTS t1, t2, t3

MC_Threads == {t1, t2, t3}

=============================================================================
