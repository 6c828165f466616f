----------------------------- MODULE SwapStore -----------------------------
(***************************************************************************)
(* What the swap area promises its clients (spec.md 4.3, "swap round      *)
(* trip"): a page written out is read back with the content it had when it *)
(* was written, whatever other pages do meanwhile.  saved[p] is the        *)
(* content a swap-in of p would load, NoContent if p was never written.    *)
(* Writing out may instead stop the machine (the area is full).            *)
(***************************************************************************)
CONSTANTS
    Pages,       \* virtual pages of all processes
    ProcOfPage,  \* ProcOfPage[p]: the address space page p belongs to
    Contents,    \* page contents
    NoContent    \* "never swapped out"

VARIABLES mem, resident, live, saved, halted

Init ==
    /\ mem \in [Pages -> Contents]
    /\ resident = [p \in Pages |-> TRUE]
    /\ live = [p \in Pages |-> TRUE]
    /\ saved = [p \in Pages |-> NoContent]
    /\ halted = FALSE

Write(p, c) ==
    /\ ~halted /\ live[p] /\ resident[p]
    /\ mem' = [mem EXCEPT ![p] = c]
    /\ UNCHANGED <<resident, live, saved, halted>>

SwapOut(p) ==
    /\ ~halted /\ live[p] /\ resident[p]
    /\ saved' = [saved EXCEPT ![p] = mem[p]]
    /\ resident' = [resident EXCEPT ![p] = FALSE]
    /\ UNCHANGED <<mem, live, halted>>

SwapOutFails(p) ==
    /\ ~halted /\ live[p] /\ resident[p]
    /\ halted' = TRUE
    /\ UNCHANGED <<mem, resident, live, saved>>

SwapIn(p) ==
    /\ ~halted /\ live[p] /\ ~resident[p]
    /\ mem' = [mem EXCEPT ![p] = saved[p]]
    /\ resident' = [resident EXCEPT ![p] = TRUE]
    /\ UNCHANGED <<live, saved, halted>>

Release(a) ==
    /\ ~halted
    /\ \E p \in Pages : ProcOfPage[p] = a /\ live[p]
    /\ live' = [p \in Pages |-> live[p] /\ ProcOfPage[p] # a]
    /\ saved' = [p \in Pages |-> IF ProcOfPage[p] = a THEN NoContent
                                                     ELSE saved[p]]
    /\ UNCHANGED <<mem, resident, halted>>

Next ==
    \/ \E p \in Pages :
          \/ \E c \in Contents : Write(p, c)
          \/ SwapOut(p) \/ SwapOutFails(p) \/ SwapIn(p)
    \/ \E a \in {ProcOfPage[p] : p \in Pages} : Release(a)

Spec == Init /\ [][Next]_<<mem, resident, live, saved, halted>>

=============================================================================
