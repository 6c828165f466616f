-------------------------------- MODULE VM ---------------------------------
(***************************************************************************)
(* Demand paging as the kernel runs it: user threads of several processes  *)
(* issue memory accesses through MMU::ReadMem/WriteMem (machine/mmu.cc),   *)
(* a miss raises a page fault that ExceptionHandler (exception.cc) hands   *)
(* to the page fault manager, which takes a frame from PhysicalMemManager  *)
(* (vm/physMem.cc), loads the page and validates the entry; a process's    *)
(* address space is deleted once its threads have exited, freeing its     *)
(* frames.  Processes other than BootProcs are created by a thread's Exec *)
(* system call while the others run.                                       *)
(*                                                                         *)
(* Scheduling: one processor.  Kernel code runs with no preemption except  *)
(* where it blocks; the page fault blocks while the page is read from disk *)
(* (executable or swap), so a fault is two steps, PageFaultStart and       *)
(* PageFaultDone, and any thread may run in between.                       *)
(*                                                                         *)
(* The page fault manager and the address space destructor are not in     *)
(* src/; they are modelled from the design (spec.md 4.4 and the comments  *)
(* of kernel/addrspace.h).                                                 *)
(***************************************************************************)
EXTENDS Integers, Sequences, SequencesExt, FiniteSets, MMU, PhysMem

CONSTANTS
    Threads,     \* user threads
    ProcOf,      \* ProcOf[t]: the process (address space) thread t runs in
    BootProcs,   \* the processes that exist at boot; the others are Exec'd
    NumVPages,   \* translationTable->getMaxNumPages()
    Layout,      \* Layout[v] \in {"none", "r", "rw"}: permissions of page v
    Addrs,       \* virtual addresses the user programs use (uint64_t)
    Sizes,       \* access sizes used, a subset of {1, 2, 4, 8}
    MaxAccess    \* bound on the number of accesses of one thread

ASSUME ProcOf \in [Threads -> Procs] /\ BootProcs \subseteq Procs
ASSUME Layout \in [0 .. NumVPages - 1 -> {"none", "r", "rw"}]
ASSUME Sizes \subseteq {1, 2, 4, 8} /\ Addrs \subseteq Nat
ASSUME MaxAccess \in Nat

VARIABLES
    tt,              \* tt[p]: p's translationTable
    alive,           \* alive[p]: p's translationTable is not NULL
    tpr,             \* PhysicalMemManager::tpr
    free_page_list,  \* PhysicalMemManager::free_page_list
    frameContent,    \* frameContent[f]: the page whose data mainMemory frame f holds
    pc,              \* pc[t] \in {"unborn", "user", "fault", "exited"}
    fault,           \* fault[t]: the access of t waiting for its page fault
    nAccess,         \* accesses t has issued
    halt,            \* "running", or why the machine stopped
    lastAccess       \* history: the access the last step completed, if any

vars == <<tt, alive, tpr, free_page_list, frameContent, pc, fault, nAccess,
          halt, lastAccess>>

VPages == 0 .. NumVPages - 1
NoPage == <<NoOwner, -1>>
NoAccess == [proc |-> NoOwner]
Running == halt = "running"

Entry == [physicalPage : -1 .. NumPhysPages - 1, valid : BOOLEAN,
          readAllowed : BOOLEAN, writeAllowed : BOOLEAN,
          U : BOOLEAN, M : BOOLEAN]

\* The translation table AddrSpace's constructor builds for demand paging:
\* every entry invalid, permissions from the executable's sections.
InitTable ==
    [v \in VPages |-> [physicalPage |-> -1, valid |-> FALSE,
                       readAllowed |-> Layout[v] # "none",
                       writeAllowed |-> Layout[v] = "rw",
                       U |-> FALSE, M |-> FALSE]]

ThreadsOf(p) == {t \in Threads : ProcOf[t] = p}

TypeOK ==
    /\ tt \in [Procs -> [VPages -> Entry]]
    /\ alive \in [Procs -> BOOLEAN]
    /\ tpr \in [Frames -> TprC(VPages)]
    /\ free_page_list \in Seq(Frames)
    /\ frameContent \in [Frames -> (Procs \X VPages) \cup {NoPage}]
    /\ pc \in [Threads -> {"unborn", "user", "fault", "exited"}]
    /\ nAccess \in [Threads -> 0 .. MaxAccess]
    /\ halt \in {"running", "user_exception", "evict_stub"}

Init ==
    /\ tt = [p \in Procs |-> InitTable]
    /\ alive = [p \in Procs |-> p \in BootProcs]
    /\ tpr = InitTpr
    /\ free_page_list = InitFreeList
    /\ frameContent = [f \in Frames |-> NoPage]
    /\ pc = [t \in Threads |-> IF ProcOf[t] \in BootProcs THEN "user" ELSE "unborn"]
    /\ fault = [t \in Threads |-> [va |-> 0, size |-> 1, writing |-> FALSE,
                                   frame |-> 0]]
    /\ nAccess = [t \in Threads |-> 0]
    /\ halt = "running"
    /\ lastAccess = NoAccess

-----------------------------------------------------------------------------
(* A memory access: ReadMem (writing = FALSE) or WriteMem (writing = TRUE) *)
(* of size bytes at the uint64_t address va.  Both call Translate twice on *)
(* ToUint32(va) and use the first result.                                  *)

CanAccess(t) == Running /\ pc[t] = "user" /\ nAccess[t] < MaxAccess

Check(t, va, size, w) ==
    TranslateCheck(tt[ProcOf[t]], NumVPages, ToUint32(va), size, w)

\* The access itself once both translations succeeded: the table with its
\* U/M bits set (twice, to the same values) and the access recorded.
Complete(t, table, va, size, w) ==
    LET p == ProcOf[t]
        v32 == ToUint32(va)
    IN /\ tt' = [tt EXCEPT ![p] = SetUM(table, v32, w)]
       /\ lastAccess' = [proc |-> p, page |-> va \div PageSize,
                         frames |-> {PhysAddr(table, v32) \div PageSize,
                                     (PhysAddr(table, v32) + size - 1)
                                        \div PageSize}]
       /\ nAccess' = [nAccess EXCEPT ![t] = @ + 1]

\* Translate returns BUSERROR, ADDRESSERROR or READONLY: ReadMem/WriteMem
\* raise it, ExceptionHandler prints and halts the machine.
AccessException(t) ==
    /\ CanAccess(t)
    /\ \E va \in Addrs, size \in Sizes, w \in BOOLEAN :
          Check(t, va, size, w) \in {BusError, AddressError, ReadOnly}
    /\ halt' = "user_exception"
    /\ lastAccess' = NoAccess
    /\ UNCHANGED <<tt, alive, tpr, free_page_list, frameContent, pc, fault,
                   nAccess>>

\* The page is resident: both translations succeed and the access is done.
AccessHit(t) ==
    /\ CanAccess(t)
    /\ \E va \in Addrs, size \in Sizes, w \in BOOLEAN :
          /\ Check(t, va, size, w) = NoException
          /\ TranslateResident(tt[ProcOf[t]], NumPhysPages, ToUint32(va)) = NoException
          /\ Complete(t, tt[ProcOf[t]], va, size, w)
    /\ UNCHANGED <<alive, tpr, free_page_list, frameContent, pc, fault, halt>>

\* A page fault of a thread of p is in service for page v: its frame is
\* locked and the entry is still invalid.
InService(p, v) ==
    \E u \in ThreadsOf(p) : pc[u] = "fault" /\ Vpn(ToUint32(fault[u].va)) = v

\* The page fault start: Translate raises the page fault, the handler
\* calls the page fault manager for the page, which takes a frame with
\* FindFreePage, records it with SetTPREntry(locked = TRUE) and starts the
\* disk read of the page's content; the thread blocks on the read.
PageFaultBegin(t, va, size, w) ==
    LET f == FindFreePage(free_page_list) IN
    /\ free_page_list # <<>>
    /\ tpr' = SetTPREntry(FindFreePageTpr(tpr, free_page_list), f,
                          Vpn(ToUint32(va)), ProcOf[t], TRUE)
    /\ fault' = [fault EXCEPT ![t] = [va |-> va, size |-> size,
                                      writing |-> w, frame |-> f]]
    /\ free_page_list' = Tail(free_page_list)
    /\ pc' = [pc EXCEPT ![t] = "fault"]
    /\ lastAccess' = NoAccess
    /\ UNCHANGED <<tt, alive, frameContent, nAccess, halt>>

\* Seeded bug: the manager does not wait for a fault in service on the page.
PageFaultStartNoWait(t) ==
    /\ CanAccess(t)
    /\ \E va \in Addrs, size \in Sizes, w \in BOOLEAN :
          /\ Check(t, va, size, w) = PageFault
          /\ PageFaultBegin(t, va, size, w)

\* The page fault manager's body is not in src/ (spec.md 4.4, 5): faults on
\* one page are serialised, so a second fault on a page whose service is in
\* flight waits until the page is valid, and then hits.  The wait is this
\* action being disabled; the access is taken again as an AccessHit.
PageFaultStart(t) ==
    /\ CanAccess(t)
    /\ \E va \in Addrs, size \in Sizes, w \in BOOLEAN :
          /\ Check(t, va, size, w) = PageFault
          /\ ~InService(ProcOf[t], Vpn(ToUint32(va)))
          /\ PageFaultBegin(t, va, size, w)

\* The page fault with no free frame (and none in service on the page):
\* FindFreePage returns INVALID_PAGE and EvictPage, a stub, prints a
\* warning and exits.
PageFaultEvict(t) ==
    /\ CanAccess(t)
    /\ free_page_list = <<>>
    /\ \E va \in Addrs, size \in Sizes, w \in BOOLEAN :
          /\ Check(t, va, size, w) = PageFault
          /\ ~InService(ProcOf[t], Vpn(ToUint32(va)))
    /\ halt' = "evict_stub"
    /\ lastAccess' = NoAccess
    /\ UNCHANGED <<tt, alive, tpr, free_page_list, frameContent, pc, fault,
                   nAccess>>

\* The disk read completes: the frame holds the page, the entry points at
\* the frame and is valid, UnlockPage releases the frame.  The handler
\* returns, Translate finds the entry valid and finishes, the second
\* Translate hits, and the access is done.
PageFaultDone(t) ==
    LET p == ProcOf[t]
        F == fault[t]
        vpn == Vpn(ToUint32(F.va))
        table == [tt[p] EXCEPT ![vpn].physicalPage = F.frame,
                               ![vpn].valid = TRUE]
    IN /\ Running
       /\ pc[t] = "fault"
       /\ frameContent' = [frameContent EXCEPT ![F.frame] = <<p, vpn>>]
       /\ tpr' = UnlockPage(tpr, F.frame)
       /\ Complete(t, table, F.va, F.size, F.writing)
       /\ pc' = [pc EXCEPT ![t] = "user"]
       /\ UNCHANGED <<alive, free_page_list, fault, halt>>

\* The Exit system call: Thread::Finish.
ThreadExit(t) ==
    /\ Running
    /\ pc[t] = "user"
    /\ pc' = [pc EXCEPT ![t] = "exited"]
    /\ lastAccess' = NoAccess
    /\ UNCHANGED <<tt, alive, tpr, free_page_list, frameContent, fault,
                   nAccess, halt>>

\* A process no Exec has created yet: no address space, no thread started.
Unborn(p) == ~alive[p] /\ \A u \in ThreadsOf(p) : pc[u] = "unborn"

\* The Exec system call by t: Process::Process opens the executable and
\* builds the address space (the table of InitTable), then the master
\* thread m is started.  When Thread::Start fails the handler returns
\* ERROR and the Process is never deleted: its address space stays, with
\* no thread to run in it.  The failures before the address space exists
\* (no such file, AddrSpace error) change nothing this model holds.
Exec(t, p) ==
    /\ Running
    /\ pc[t] = "user"
    /\ Unborn(p)
    /\ tt' = [tt EXCEPT ![p] = InitTable]
    /\ alive' = [alive EXCEPT ![p] = TRUE]
    /\ \E m \in ThreadsOf(p), started \in BOOLEAN :
          pc' = IF started THEN [pc EXCEPT ![m] = "user"] ELSE pc
    /\ lastAccess' = NoAccess
    /\ UNCHANGED <<tpr, free_page_list, frameContent, fault, nAccess, halt>>

\* ~Process once its last thread is gone deletes the address space: for
\* every virtual page in order, a valid entry's frame is freed with
\* FreePhysicalPage; then the translation table is deleted.
AddrSpaceDelete(p) ==
    LET FreeIfValid(s, v) ==
            IF s.tt[p][v].valid
            THEN FreePhysicalPage(s, s.tt[p][v].physicalPage, alive)
            ELSE s
        s0 == [tpr |-> tpr, list |-> free_page_list, tt |-> tt]
        s1 == FoldLeft(FreeIfValid, s0, [i \in 1 .. NumVPages |-> i - 1])
    IN /\ Running
       /\ alive[p]
       /\ \A t \in ThreadsOf(p) : pc[t] = "exited"
       /\ tpr' = s1.tpr
       /\ free_page_list' = s1.list
       /\ tt' = s1.tt
       /\ alive' = [alive EXCEPT ![p] = FALSE]
       /\ lastAccess' = NoAccess
       /\ UNCHANGED <<frameContent, pc, fault, nAccess, halt>>

\* The machine has halted, or no thread is left to run and every address
\* space left is one whose thread never started.
Terminated ==
    /\ \/ ~Running
       \/ /\ \A t \in Threads : pc[t] \in {"unborn", "exited"}
          /\ \A p \in Procs : alive[p] => \E t \in ThreadsOf(p) : pc[t] = "unborn"
    /\ UNCHANGED vars

Next ==
    \/ \E t \in Threads :
          \/ AccessException(t)
          \/ AccessHit(t)
          \/ PageFaultStart(t)
          \/ PageFaultEvict(t)
          \/ PageFaultDone(t)
          \/ ThreadExit(t)
          \/ \E p \in Procs : Exec(t, p)
    \/ \E p \in Procs : AddrSpaceDelete(p)
    \/ Terminated

\* The disk read of a page fault completes (the disk interrupt always
\* arrives), and the address space of a process whose threads have all
\* exited is deleted.  User threads are not fair: a program may stop
\* issuing accesses at any point.
Fairness ==
    /\ \A t \in Threads : WF_vars(PageFaultDone(t))
    /\ \A p \in Procs : WF_vars(AddrSpaceDelete(p))

Spec == Init /\ [][Next]_vars /\ Fairness

-----------------------------------------------------------------------------
(* Properties                                                              *)

\* Translation table and frame table agree, both ways (spec.md 3): a valid
\* entry names a frame that is in use, whose back-reference names that
\* entry and which holds that page's data; a frame in use and not locked
\* by a page fault in progress is named by the valid entry its
\* back-reference points to, in a live address space.  This is what
\* FreePhysicalPage and the eviction rely on when they follow tpr[f].owner.
TranslationConsistent ==
    /\ \A p \in Procs, v \in VPages :
          alive[p] /\ tt[p][v].valid =>
             LET f == tt[p][v].physicalPage IN
             /\ f \in Frames
             /\ ~tpr[f].free
             /\ tpr[f].owner = p /\ tpr[f].virtualPage = v
             /\ frameContent[f] = <<p, v>>
    /\ \A f \in Frames :
          ~tpr[f].free /\ ~tpr[f].locked =>
             LET p == tpr[f].owner
                 v == tpr[f].virtualPage
             IN /\ p \in Procs /\ alive[p]
                /\ tt[p][v].valid /\ tt[p][v].physicalPage = f

\* The free list holds each free frame exactly once and nothing else, so
\* FindFreePage's ASSERT(tpr[page].free) and FreePhysicalPage's
\* ASSERT(!tpr[page].free) can never fail.
FreeListExact ==
    /\ IsInjective(free_page_list)
    /\ ToSet(free_page_list) = {f \in Frames : tpr[f].free}

\* Every byte a successful ReadMem/WriteMem touches lies in a frame that
\* holds the page the program addressed (its uint64_t address divided by
\* the page size), and in a process's own memory.
AccessIsolated ==
    lastAccess # NoAccess =>
        \A f \in lastAccess.frames :
            f \in Frames /\ frameContent[f] = <<lastAccess.proc, lastAccess.page>>

\* The frames page faults are loading into, one per faulting thread.
Loading == [t \in {u \in Threads : pc[u] = "fault"} |-> fault[t].frame]

\* A frame is locked exactly while a page fault is loading into it, by one
\* fault only, and that frame is in use.  So the ASSERTs of UnlockPage
\* (locked, not free) hold when the page fault ends.  No frame stays
\* locked after its fault, where an eviction could never choose it.  No
\* loaded frame is unlocked early, where it could be chosen half-loaded.
FrameLocksExact ==
    /\ IsInjective(Loading)
    /\ \A f \in Frames : tpr[f].locked <=> f \in Range(Loading)
    /\ \A f \in Range(Loading) : ~tpr[f].free

\* Once every thread of a process has exited, all of its frames are
\* eventually back in the free list (unless the machine halted first).
FramesReclaimed ==
    \A p \in Procs :
        (\A t \in ThreadsOf(p) : pc[t] = "exited") ~>
            (~Running \/ \A f \in Frames : tpr[f].free \/ tpr[f].owner # p)

=============================================================================
