----------------------------- MODULE LinkedList -----------------------------
(***************************************************************************)
(* The singly linked List of list.h (template List<T>, ListElement<T>) as  *)
(* its pointer structure: first, last, and for each allocated element its  *)
(* next, item and key.  Elements are drawn from the pool Cells (new        *)
(* ListElement) and returned to it (delete).  Each method is an operator   *)
(* on the record L = [first, last, next, item, key, used]; RemoveItem is   *)
(* the code's loop of Remove and Append.  A List is used with interrupts   *)
(* off, so each method is one step.  The list is shown to implement        *)
(* ListSeq under the mapping "the elements reached from first".            *)
(***************************************************************************)
EXTENDS Integers, Sequences, FiniteSets

CONSTANTS
    Cells,    \* the ListElement objects new may return
    Items,    \* the void * items callers put on the list
    Keys,     \* sort keys
    NULL,
    MaxLen    \* model bound: inserts are not taken on a list this long

ASSUME MaxLen <= Cardinality(Cells)

VARIABLES first, last, next, item, key, used, hung

vars == <<first, last, next, item, key, used, hung>>

Ptr == Cells \cup {NULL}

TypeOK ==
    /\ first \in Ptr /\ last \in Ptr
    /\ next \in [Cells -> Ptr]
    /\ item \in [Cells -> Items \cup {NULL}]
    /\ key \in [Cells -> Keys]
    /\ used \subseteq Cells
    /\ hung \in BOOLEAN

State == [first |-> first, last |-> last, next |-> next, item |-> item,
          key |-> key, used |-> used]

\* new ListElement(item, sortKey): next is NULL.
NewElement(L, x, k) ==
    LET c == CHOOSE c \in Cells \ L.used : TRUE IN
    [cell |-> c,
     L |-> [L EXCEPT !.used = @ \cup {c}, !.next[c] = NULL,
                     !.item[c] = x, !.key[c] = k]]

IsEmpty(L) == L.first = NULL

ListPrepend(L, x) ==
    LET n == NewElement(L, x, 0)
        e == n.cell
        M == n.L
    IN IF IsEmpty(M) THEN [M EXCEPT !.first = e, !.last = e]
       ELSE [M EXCEPT !.next[e] = M.first, !.first = e]

ListAppend(L, x) ==
    LET n == NewElement(L, x, 0)
        e == n.cell
        M == n.L
    IN IF IsEmpty(M) THEN [M EXCEPT !.first = e, !.last = e]
       ELSE [M EXCEPT !.next[M.last] = e, !.last = e]

\* Seeded bug: the one-element case not recognised, so last is left
\* naming the deleted element.
SortedRemoveNoLast(L) ==
    IF IsEmpty(L) THEN [L |-> L, thing |-> NULL]
    ELSE LET e == L.first IN
         [thing |-> L.item[e],
          L |-> [L EXCEPT !.first = L.next[e], !.used = @ \ {e}]]

\* SortedRemove (and Remove, which is SortedRemove(NULL)): NULL on an
\* empty list, else the front item, its element deleted.
SortedRemove(L) ==
    IF IsEmpty(L) THEN [L |-> L, thing |-> NULL]
    ELSE LET e == L.first IN
         [thing |-> L.item[e],
          L |-> IF L.first = L.last
                THEN [L EXCEPT !.first = NULL, !.last = NULL, !.used = @ \ {e}]
                ELSE [L EXCEPT !.first = L.next[e], !.used = @ \ {e}]]

\* Seeded bug: <= for <, so a new element goes before equal keys.
SortedInsertLe(L, x, k) ==
    LET n == NewElement(L, x, k)
        e == n.cell
        M == n.L
        RECURSIVE Scan(_)
        Scan(ptr) ==
            IF M.next[ptr] = NULL
            THEN [M EXCEPT !.next[M.last] = e, !.last = e]
            ELSE IF k <= M.key[M.next[ptr]]
            THEN [M EXCEPT !.next[e] = M.next[ptr], !.next[ptr] = e]
            ELSE Scan(M.next[ptr])
    IN IF IsEmpty(M) THEN [M EXCEPT !.first = e, !.last = e]
       ELSE IF k <= M.key[M.first]
       THEN [M EXCEPT !.next[e] = M.first, !.first = e]
       ELSE Scan(M.first)

\* SortedInsert: in front when the list is empty or sortKey is below the
\* first key; else after the first element whose successor's key exceeds
\* sortKey; else at the end.
SortedInsert(L, x, k) ==
    LET n == NewElement(L, x, k)
        e == n.cell
        M == n.L
        RECURSIVE Scan(_)
        Scan(ptr) ==
            IF M.next[ptr] = NULL
            THEN [M EXCEPT !.next[M.last] = e, !.last = e]
            ELSE IF k < M.key[M.next[ptr]]
            THEN [M EXCEPT !.next[e] = M.next[ptr], !.next[ptr] = e]
            ELSE Scan(M.next[ptr])
    IN IF IsEmpty(M) THEN [M EXCEPT !.first = e, !.last = e]
       ELSE IF k < M.key[M.first]
       THEN [M EXCEPT !.next[e] = M.first, !.first = e]
       ELSE Scan(M.first)

\* Search: walk from first until last or the item.
Search(L, x) ==
    LET RECURSIVE Walk(_)
        Walk(e) == IF e # L.last /\ L.item[e] # x THEN Walk(L.next[e]) ELSE e
    IN ~IsEmpty(L) /\ L.item[Walk(L.first)] = x

\* RemoveItem: Remove and re-Append until the item comes out.  It returns
\* only if the item is on the list.
RECURSIVE RemoveItem(_, _)
RemoveItem(L, x) ==
    LET r == SortedRemove(L) IN
    IF r.thing = x THEN r.L ELSE RemoveItem(ListAppend(r.L, r.thing), x)

\* The elements reached from first, as ListSeq's sequence.
RECURSIVE Chain(_, _, _)
Chain(L, e, n) ==
    IF e = NULL \/ n = 0 THEN <<>>
    ELSE <<[item |-> L.item[e], key |-> L.key[e]]>> \o Chain(L, L.next[e], n - 1)

Elements(L) == Chain(L, L.first, Cardinality(Cells))

-----------------------------------------------------------------------------

Init ==
    /\ first = NULL /\ last = NULL
    /\ next = [c \in Cells |-> NULL]
    /\ item = [c \in Cells |-> NULL]
    /\ key = [c \in Cells |-> 0]
    /\ used = {}
    /\ hung = FALSE

Set(L) ==
    /\ first' = L.first /\ last' = L.last /\ next' = L.next
    /\ item' = L.item /\ key' = L.key /\ used' = L.used

Room == Cardinality(used) < MaxLen
Live == ~hung
OnList(x) == \E e \in used : item[e] = x

DoPrepend(x) == Live /\ Room /\ Set(ListPrepend(State, x)) /\ UNCHANGED hung

DoAppend(x) == Live /\ Room /\ Set(ListAppend(State, x)) /\ UNCHANGED hung

DoRemove == Live /\ Set(SortedRemove(State).L) /\ UNCHANGED hung

DoSortedInsert(x, k) ==
    Live /\ Room /\ Set(SortedInsert(State, x, k)) /\ UNCHANGED hung

DoRemoveItem(x) ==
    Live /\ OnList(x) /\ Set(RemoveItem(State, x)) /\ UNCHANGED hung

\* RemoveItem of an item not on the list: the loop never finds it.  A
\* non-empty list is rotated, Remove then Append, forever; on an empty list
\* Remove returns NULL, which is Appended and Removed again, forever.
RemoveItemAbsent(x) ==
    /\ Live /\ ~OnList(x)
    /\ hung' = TRUE
    /\ UNCHANGED <<first, last, next, item, key, used>>

Hang == hung /\ UNCHANGED vars

Next ==
    \/ \E x \in Items :
          \/ DoPrepend(x) \/ DoAppend(x)
          \/ \E k \in Keys : DoSortedInsert(x, k)
          \/ DoRemoveItem(x) \/ RemoveItemAbsent(x)
    \/ DoRemove
    \/ Hang

Spec == Init /\ [][Next]_vars

-----------------------------------------------------------------------------
(* Properties                                                              *)

\* The pointer structure is a well-formed list: following next from first
\* visits every allocated element exactly once and ends at last, whose
\* next is NULL (so SortedRemove's ASSERT(first != first->next) holds),
\* and Search finds exactly the items on it.
WellFormed ==
    LET s == Elements(State)
        RECURSIVE Reach(_, _)
        Reach(e, n) == IF e = NULL \/ n = 0 THEN {} ELSE {e} \cup Reach(next[e], n - 1)
    IN /\ (first = NULL) <=> (last = NULL)
       /\ Reach(first, Cardinality(Cells)) = used
       /\ Len(s) = Cardinality(used)
       /\ last # NULL => next[last] = NULL /\ last \in used
       /\ \A x \in Items : Search(State, x) <=> \E i \in 1 .. Len(s) : s[i].item = x

Abs == INSTANCE ListSeq WITH lst <- Elements(State)

\* The linked list implements the sequence semantics of ListSeq: every
\* method changes the elements reached from first as ListSeq says.
ListRefinement == Abs!Spec

\* RemoveItem leaves the other elements with their keys: what a sorted
\* list (ListTime, ordered by SortedInsert) relies on.
RemoveItemKeepsKeys ==
    [][\A x \in Items :
         DoRemoveItem(x) =>
           \A e \in used' : \E f \in used :
              item[f] = item'[e] /\ key[f] = key'[e]]_vars

=============================================================================
