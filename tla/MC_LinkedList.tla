--------------------------- MODULE MC_LinkedList ---------------------------
(* Three elements holding two items with keys 0..2: lists long enough for *)
(* SortedInsert to go in front, in the middle and at the end, and for      *)
(* RemoveItem to move elements before the one it removes.                 *)
EXTENDS LinkedList, TLC

CONSTANTS x, y, c1, c2, c3

MC_Cells == {c1, c2, c3}

=============================================================================
