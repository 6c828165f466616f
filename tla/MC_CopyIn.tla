------------------------------ MODULE MC_CopyIn ------------------------------
(* Two-byte pages, three of them mapped, two non-zero byte values: the    *)
(* smallest memory where a string or a buffer crosses a page boundary     *)
(* onto a page that is resident or not.                                   *)
EXTENDS CopyIn

MC_Chars == {1, 2}
=============================================================================
