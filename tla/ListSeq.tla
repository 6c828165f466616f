------------------------------ MODULE ListSeq ------------------------------
(***************************************************************************)
(* The kernel's List (list.h) as a sequence of [item, key] elements: what  *)
(* each method does to the list its callers see.  Prepend and Append give  *)
(* key 0; Remove takes the front; SortedInsert puts the new element before *)
(* the first element whose key exceeds its own; RemoveItem takes out the   *)
(* first element holding the item and moves the ones before it to the end  *)
(* with key 0, since it Removes and re-Appends them.                       *)
(***************************************************************************)
EXTENDS Integers, Sequences, SequencesExt, FiniteSetsExt

CONSTANTS Items, Keys, MaxLen

VARIABLE lst

Elem(x, k) == [item |-> x, key |-> k]

Room == Len(lst) < MaxLen

ListPrepend(x) == Room /\ lst' = <<Elem(x, 0)>> \o lst

ListAppend(x) == Room /\ lst' = Append(lst, Elem(x, 0))

ListRemove == lst' = IF lst = <<>> THEN lst ELSE Tail(lst)

ListSortedInsert(x, k) ==
    LET after == {i \in 1 .. Len(lst) : k < lst[i].key} IN
    /\ Room
    /\ lst' = IF after = {} THEN Append(lst, Elem(x, k))
              ELSE InsertAt(lst, Min(after), Elem(x, k))

ListRemoveItem(x) ==
    \E i \in 1 .. Len(lst) :
        /\ lst[i].item = x
        /\ \A j \in 1 .. i - 1 : lst[j].item # x
        /\ lst' = SubSeq(lst, i + 1, Len(lst))
                  \o [j \in 1 .. i - 1 |-> Elem(lst[j].item, 0)]

Next ==
    \/ \E x \in Items :
          ListPrepend(x) \/ ListAppend(x) \/ ListRemoveItem(x)
          \/ \E k \in Keys : ListSortedInsert(x, k)
    \/ ListRemove

Spec == lst = <<>> /\ [][Next]_lst

=============================================================================
