------------------------------ MODULE MC_Swap ------------------------------
(* Three pages of two address spaces over a two-sector swap area, so that *)
(* the area fills, sectors are reused by a page's later write-backs and   *)
(* handed to another address space after a release.                      *)
EXTENDS SwapManager, TLC

CONSTANTS a1, a2, b1, A, B, c1, c2, none

MC_Pages == {a1, a2, b1}
MC_ProcOfPage == (a1 :> A) @@ (a2 :> A) @@ (b1 :> B)

\* ERROR and INVALID_SECTOR taken equal (-1), as PutPageSwap's comparison
\* of one with the other assumes.
MC_Minus1 == -1

=============================================================================
