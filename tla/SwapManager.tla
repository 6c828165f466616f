---------------------------- MODULE SwapManager ----------------------------
(***************************************************************************)
(* The swap manager (swapManager.cc, class SwapManager) with the clients   *)
(* the design gives it.  Its own state is the allocation bitmap            *)
(* page_flags and the sectors of the swap disk; each method is an operator *)
(* over them.  No code under src calls PutPageSwap or GetPageSwap (the     *)
(* eviction in EvictPage is a stub), so the client actions -- write-back   *)
(* on eviction, reload on a fault, release at address-space teardown --    *)
(* follow the design (spec.md 4.2-4.4): a page is written back when it is *)
(* modified or has no sector yet, reuses its sector when it has one, and   *)
(* its sector is released when its address space is deleted.  A full swap *)
(* area halts the kernel.                                                   *)
(*                                                                         *)
(* Each method runs without blocking between its bitmap test and mark, and *)
(* the disk driver serialises transfers, so each call is one step.        *)
(***************************************************************************)
EXTENDS Integers, FiniteSetsExt

CONSTANTS
    NumSectors,      \* NUM_SECTORS, the sectors of the swap disk
    ERROR,           \* GetFreeSwapSector's "no free sector"
    INVALID_SECTOR,  \* the diskAddr of a page that has no sector
    Pages, ProcOfPage, Contents, NoContent

Sectors == 0 .. NumSectors - 1

ASSUME ERROR \notin Sectors /\ INVALID_SECTOR \notin Sectors

VARIABLES
    page_flags,  \* the BitMap: TRUE = sector in use
    disk,        \* sector -> the page content last written there
    diskAddr,    \* page -> the sector its table entry records
    mem,         \* page -> its content in memory while resident
    resident,    \* page -> its table entry is valid
    M,           \* page -> modified since it was loaded
    live,        \* page -> its address space still exists
    halted       \* the kernel stopped on a full swap area

vars == <<page_flags, disk, diskAddr, mem, resident, M, live, halted>>

TypeOK ==
    /\ page_flags \in [Sectors -> BOOLEAN]
    /\ disk \in [Sectors -> Contents \cup {NoContent}]
    /\ diskAddr \in [Pages -> Sectors \cup {INVALID_SECTOR}]
    /\ mem \in [Pages -> Contents \cup {NoContent}]
    /\ resident \in [Pages -> BOOLEAN]
    /\ M \in [Pages -> BOOLEAN]
    /\ live \in [Pages -> BOOLEAN]
    /\ halted \in BOOLEAN

\* Seeded bug: the bitmap sized one sector too long.
InitPageFlagsOneMore == [i \in 0 .. NumSectors |-> FALSE]

\* The constructor: a bitmap of NUM_SECTORS clear bits.
InitPageFlags == [i \in Sectors |-> FALSE]

\* Seeded bug: the sector found is returned but not marked.
GetFreeSwapSectorNoMark(flags) ==
    LET fr == {i \in Sectors : ~flags[i]} IN
    IF fr = {} THEN [sector |-> ERROR, flags |-> flags]
    ELSE [sector |-> Min(fr), flags |-> flags]

\* GetFreeSwapSector: the lowest clear bit, marked, or ERROR.
GetFreeSwapSector(flags) ==
    LET fr == {i \in Sectors : ~flags[i]} IN
    IF fr = {} THEN [sector |-> ERROR, flags |-> flags]
    ELSE [sector |-> Min(fr), flags |-> [flags EXCEPT ![Min(fr)] = TRUE]]

\* Seeded bug: the release clears no bit.
ReleasePageSwapNoClear(flags, disk_addr) == flags

\* ReleasePageSwap: clears the bit, whatever it was.
ReleasePageSwap(flags, disk_addr) == [flags EXCEPT ![disk_addr] = FALSE]

\* GetPageSwap: the content of the sector, read into the frame.
GetPageSwap(dsk, disk_addr) == dsk[disk_addr]

\* Seeded bug: a page that already has a sector is not written again.
PutPageSwapNoRewrite(s, disk_addr, content) ==
    IF disk_addr # INVALID_SECTOR
    THEN [s EXCEPT !.ret = disk_addr]
    ELSE LET g == GetFreeSwapSector(s.flags) IN
         IF g.sector = INVALID_SECTOR
         THEN [s EXCEPT !.flags = g.flags, !.ret = INVALID_SECTOR]
         ELSE [flags |-> g.flags,
               disk  |-> [s.disk EXCEPT ![g.sector] = content],
               ret   |-> g.sector]

\* PutPageSwap(disk_addr, content) on s = [flags, disk]: the given sector
\* is overwritten when there is one; otherwise a free sector is claimed
\* and written, and INVALID_SECTOR returned when GetFreeSwapSector's
\* answer equals it.
PutPageSwap(s, disk_addr, content) ==
    IF disk_addr # INVALID_SECTOR
    THEN [s EXCEPT !.disk = [@ EXCEPT ![disk_addr] = content],
                   !.ret = disk_addr]
    ELSE LET g == GetFreeSwapSector(s.flags) IN
         IF g.sector = INVALID_SECTOR
         THEN [s EXCEPT !.flags = g.flags, !.ret = INVALID_SECTOR]
         ELSE [flags |-> g.flags,
               disk  |-> [s.disk EXCEPT ![g.sector] = content],
               ret   |-> g.sector]

Init ==
    /\ page_flags = InitPageFlags
    /\ disk = [i \in Sectors |-> NoContent]
    /\ diskAddr = [p \in Pages |-> INVALID_SECTOR]
    /\ mem \in [Pages -> Contents]
    /\ resident = [p \in Pages |-> TRUE]
    /\ M = [p \in Pages |-> FALSE]
    /\ live = [p \in Pages |-> TRUE]
    /\ halted = FALSE

Usable(p) == ~halted /\ live[p]

\* A user store to a resident page: new content, modified bit set.
UserWrite(p, c) ==
    /\ Usable(p) /\ resident[p]
    /\ mem' = [mem EXCEPT ![p] = c]
    /\ M' = [M EXCEPT ![p] = TRUE]
    /\ UNCHANGED <<page_flags, disk, diskAddr, resident, live, halted>>

\* Eviction of p with a write-back (modified, or never swapped): the
\* sector PutPageSwap returns is recorded and the entry invalidated; an
\* INVALID_SECTOR answer halts the kernel.
MustWriteBack(p) == M[p] \/ diskAddr[p] = INVALID_SECTOR

SwapOutWrite(p) ==
    /\ Usable(p) /\ resident[p] /\ MustWriteBack(p)
    /\ LET r == PutPageSwap([flags |-> page_flags, disk |-> disk, ret |-> 0],
                            diskAddr[p], mem[p]) IN
       IF r.ret = INVALID_SECTOR
       THEN /\ halted' = TRUE
            /\ page_flags' = r.flags
            /\ UNCHANGED <<disk, diskAddr, mem, resident, M, live>>
       ELSE /\ page_flags' = r.flags
            /\ disk' = r.disk
            /\ diskAddr' = [diskAddr EXCEPT ![p] = r.ret]
            /\ resident' = [resident EXCEPT ![p] = FALSE]
            /\ UNCHANGED <<mem, M, live, halted>>

\* Eviction of an unmodified page that has a sector: no write.
SwapOutClean(p) ==
    /\ Usable(p) /\ resident[p] /\ ~MustWriteBack(p)
    /\ resident' = [resident EXCEPT ![p] = FALSE]
    /\ UNCHANGED <<page_flags, disk, diskAddr, mem, M, live, halted>>

\* A fault on a swapped-out page: GetPageSwap into a frame, entry valid,
\* modified bit clear.
SwapIn(p) ==
    /\ Usable(p) /\ ~resident[p]
    /\ mem' = [mem EXCEPT ![p] = GetPageSwap(disk, diskAddr[p])]
    /\ resident' = [resident EXCEPT ![p] = TRUE]
    /\ M' = [M EXCEPT ![p] = FALSE]
    /\ UNCHANGED <<page_flags, disk, diskAddr, live, halted>>

\* The address space a is deleted: every sector its entries record is
\* released, and the entries are discarded.
ReleaseAll(flags, ps) ==
    FoldSet(LAMBDA q, f : IF diskAddr[q] # INVALID_SECTOR
                          THEN ReleasePageSwap(f, diskAddr[q]) ELSE f,
            flags, ps)

ReleaseSwap(a) ==
    LET own == {p \in Pages : ProcOfPage[p] = a} IN
    /\ ~halted
    /\ \E p \in own : live[p]
    /\ page_flags' = ReleaseAll(page_flags, own)
    /\ diskAddr' = [p \in Pages |-> IF p \in own THEN INVALID_SECTOR
                                                ELSE diskAddr[p]]
    /\ live' = [p \in Pages |-> live[p] /\ p \notin own]
    /\ UNCHANGED <<disk, mem, resident, M, halted>>

\* The kernel has halted, or every address space is gone.
Terminated ==
    /\ halted \/ \A p \in Pages : ~live[p]
    /\ UNCHANGED vars

Next ==
    \/ \E p \in Pages :
          \/ \E c \in Contents : UserWrite(p, c)
          \/ SwapOutWrite(p) \/ SwapOutClean(p) \/ SwapIn(p)
    \/ \E a \in {ProcOfPage[p] : p \in Pages} : ReleaseSwap(a)
    \/ Terminated

Spec == Init /\ [][Next]_vars

-----------------------------------------------------------------------------
(* The swap area as its clients see it: the content a reload of p would   *)
(* load.                                                                   *)
SavedMap ==
    [p \in Pages |-> IF diskAddr[p] # INVALID_SECTOR THEN disk[diskAddr[p]]
                                                    ELSE NoContent]

Store == INSTANCE SwapStore WITH saved <- SavedMap

\* Swap round trip (spec.md 6): every behaviour of the manager and its
\* clients is one of SwapStore's, so a reloaded page always gets back the
\* content it had when it was evicted, whatever other pages' write-backs
\* and releases did in between.  This fails when two live entries come to
\* record the same sector.
SwapRoundTrip == Store!Spec

\* The bitmap is exact: a sector is marked exactly when the entry of one
\* live page records it, and no two pages record the same sector.  A
\* marked sector nobody records is leaked for the life of the kernel.
BitmapExact ==
    /\ \A i \in Sectors :
          page_flags[i] <=> \E p \in Pages : live[p] /\ diskAddr[p] = i
    /\ \A p, q \in Pages :
          p # q /\ diskAddr[p] # INVALID_SECTOR => diskAddr[p] # diskAddr[q]

=============================================================================
