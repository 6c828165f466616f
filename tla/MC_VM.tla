------------------------------- MODULE MC_VM --------------------------------
(* Model-checking instance of VM: two processes of the same executable     *)
(* (code page 0 read-only, data page 1 read-write, page 2 unmapped), three *)
(* frames for four mapped pages, 8-byte pages and a 5-bit Translate        *)
(* address (the scaled-down uint32_t).                                     *)
EXTENDS VM, TLC

CONSTANTS p1, p2, t1, t2

MC_ProcOf_2procs == [t \in Threads |-> IF t = t1 THEN p1 ELSE p2]
MC_ProcOf_1proc  == [t \in Threads |-> p1]
MC_Layout == [v \in 0 .. 2 |-> CASE v = 0 -> "r" [] v = 1 -> "rw" [] OTHER -> "none"]
\* In range, aligned or 1-byte, on every kind of page, and two errors.
MC_Addrs == {0, 4, 9, 12, 20, 24}
\* A double-word access in the second half of a page.
MC_Addrs_cross == {0, 12}
\* A 64-bit address beyond the uint32_t range, aliasing page 1.
MC_Addrs_wide == {0, 12, 32 + 12}
=============================================================================
