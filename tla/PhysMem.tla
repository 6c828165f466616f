------------------------------ MODULE PhysMem ------------------------------
(***************************************************************************)
(* The physical page manager of vm/physMem.cc (class PhysicalMemManager)   *)
(* as operators over its state:                                            *)
(*   tpr             the table of physical pages, one tpr_c per frame      *)
(*   free_page_list  the ListInt of free frame numbers (a sequence: the    *)
(*                   constructor Appends, FreePhysicalPage Prepends,       *)
(*                   FindFreePage Removes the head)                        *)
(* FreePhysicalPage also writes the owner's translation table, so it takes *)
(* and returns the record [tpr, list, tt].  The composed system (VM.tla)   *)
(* holds the variables and calls these operators in the order the         *)
(* handlers do.  i_clock is set by the constructor and read by no code     *)
(* (EvictPage is a stub), so it is not part of the state.                  *)
(***************************************************************************)
EXTENDS Integers, Sequences

CONSTANTS
    NumPhysPages,   \* g_cfg->NumPhysPages
    Procs,          \* the address spaces (AddrSpace *) that may own a frame
    NoOwner         \* the NULL owner pointer

Frames == 0 .. NumPhysPages - 1

\* struct tpr_c, one per frame in the array tpr: free, locked, the
\* virtual page and the owner address space of the back-reference.
TprC(vpages) == [free : BOOLEAN, locked : BOOLEAN, virtualPage : vpages,
                 owner : Procs \cup {NoOwner}]

\* PhysicalMemManager::PhysicalMemManager: every frame free, unlocked,
\* owner NULL, and all frame numbers appended in increasing order.
InitTpr ==
    [f \in Frames |-> [free |-> TRUE, locked |-> FALSE,
                       virtualPage |-> 0, owner |-> NoOwner]]

\* Seeded bug: the list numbered from 1, not from 0.
InitFreeListFromOne == [i \in 1 .. NumPhysPages |-> i]
\* The constructor's free list: 0 .. NumPhysPages-1 in order.
InitFreeList == [i \in 1 .. NumPhysPages |-> i - 1]

\* Seeded bug: the page taken from the list is not marked used.
FindFreePageTprNoMark(tpr, list) == tpr

\* FindFreePage when the list is not empty: the head of the list, which
\* is removed and marked not free.  (An empty list returns INVALID_PAGE;
\* the caller then runs EvictPage.)
FindFreePage(list) == Head(list)
FindFreePageTpr(tpr, list) == [tpr EXCEPT ![Head(list)].free = FALSE]

\* Seeded bug: the lock bit is not recorded.
SetTPREntryNoLock(tpr, pp, virtualpage, owner, locked) ==
    [tpr EXCEPT ![pp].virtualPage = virtualpage, ![pp].owner = owner]

\* SetTPREntry: the back-reference and the lock bit, with no check.
SetTPREntry(tpr, pp, virtualpage, owner, locked) ==
    [tpr EXCEPT ![pp].virtualPage = virtualpage,
                ![pp].owner = owner,
                ![pp].locked = locked]

\* Seeded bug: the unlock at the end of the page fault is lost.
UnlockPageNoop(tpr, pp) == tpr

\* UnlockPage: the lock bit cleared.  Its ASSERTs (the frame is locked and
\* not free) are VM's FrameLocksExact.
UnlockPage(tpr, pp) == [tpr EXCEPT ![pp].locked = FALSE]

\* Seeded bug: the frame is listed as free but its free flag is not set.
FreePhysicalPageNoFlag(s, pp, alive) ==
    [s EXCEPT !.list = <<pp>> \o s.list]

\* FreePhysicalPage on s = [tpr, list, tt]: the frame becomes free and
\* unlocked, the valid bit of the entry its back-reference names is
\* cleared when that owner still has a translation table (alive), and the
\* frame is prepended to the free list.  owner and virtualPage are left
\* as they were.
FreePhysicalPage(s, pp, alive) ==
    LET e == s.tpr[pp] IN
    [tpr  |-> [s.tpr EXCEPT ![pp].free = TRUE, ![pp].locked = FALSE],
     list |-> <<pp>> \o s.list,
     tt   |-> IF alive[e.owner]
              THEN [s.tt EXCEPT ![e.owner][e.virtualPage].valid = FALSE]
              ELSE s.tt]

=============================================================================
