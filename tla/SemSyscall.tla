----------------------------- MODULE SemSyscall -----------------------------
(***************************************************************************)
(* The semaphore system calls of ExceptionHandler (SC_SEM_CREATE,          *)
(* SC_SEM_DESTROY, SC_P, SC_V) over the kernel object table and the        *)
(* Semaphore objects of kernel/synch.cc, reached from the user library of  *)
(* userlib/syscall.h.                                                      *)
(*                                                                         *)
(* A user call traps with its code (syscall.h) and ExceptionHandler        *)
(* switches on the code inside its SYSCALL_EXCEPTION case.  The four       *)
(* semaphore cases are written after the PAGEFAULT case, in the outer      *)
(* switch on the exception type, so the inner switch sends their codes to  *)
(* its default: "Invalid system call number", exit(ERROR).  The constant   *)
(* SemCasesDispatched says whether the semaphore cases are reached: FALSE  *)
(* is the code as it stands, TRUE checks the handler bodies as if they sat *)
(* in the inner switch.  The Lock and Condition calls syscall.h declares   *)
(* have no case at all.                                                    *)
(*                                                                         *)
(* A Semaphore is a heap object: Sems is the supply of objects the kernel  *)
(* may allocate (its bound on creations), each "unalloc", "live" or       *)
(* "deleted" (type SEMAPHORE_TYPE, INVALID_TYPE).  The object table        *)
(* g_object_addrs maps an id to an object; AddObject takes the lowest free *)
(* id and returns ERROR when the table is full; SearchObject returns NULL  *)
(* for a free id.  A thread in P holds the Semaphore pointer it looked up  *)
(* and keeps it across its sleep.  P and V end with the file's exit(ERROR) *)
(* placeholder when StubExit.                                              *)
(***************************************************************************)
EXTENDS Integers, Sequences, FiniteSetsExt

CONSTANTS
    Threads,
    Sems,       \* the Semaphore objects the kernel may allocate
    Ids,        \* the object table's ids
    InitVals,   \* initial values a program passes to SemCreate
    NoSem,      \* NULL
    MaxCount,   \* model bound on a semaphore's count (V is not taken above it)
    StubExit,
    SemCasesDispatched

VARIABLES
    table,   \* g_object_addrs: id -> object or NULL
    sem,     \* object -> [state, count, queue]
    pc,      \* "user", or inside Semaphore::P: "P" (ready), "P_sleep"
    psem,    \* the Semaphore * a thread inside P holds
    halted   \* "running", "exit_stub", "assert", "use_after_free",
             \* "invalid_syscall"

vars == <<table, sem, pc, psem, halted>>

\* The system call codes of syscall.h.
SC == [HALT |-> 0, EXIT |-> 1, EXEC |-> 2, JOIN |-> 3, CREATE |-> 4,
       OPEN |-> 5, READ |-> 6, WRITE |-> 7, SEEK |-> 8, CLOSE |-> 9,
       NEW_THREAD |-> 10, YIELD |-> 11, PERROR |-> 12, P |-> 13, V |-> 14,
       SEM_CREATE |-> 15, SEM_DESTROY |-> 16, LOCK_CREATE |-> 17,
       LOCK_DESTROY |-> 18, LOCK_ACQUIRE |-> 19, LOCK_RELEASE |-> 20,
       COND_CREATE |-> 21, COND_DESTROY |-> 22, COND_WAIT |-> 23,
       COND_SIGNAL |-> 24, COND_BROADCAST |-> 25, TTY_SEND |-> 26,
       TTY_RECEIVE |-> 27, MKDIR |-> 28, RMDIR |-> 29, REMOVE |-> 30,
       FSLIST |-> 31, SYS_TIME |-> 32, MMAP |-> 33, DEBUG |-> 34]

SemCodes == {SC.P, SC.V, SC.SEM_CREATE, SC.SEM_DESTROY}

\* The synchronisation calls of the user library: SemCreate, SemDestroy,
\* P, V, and the Lock and Condition calls, each trapping with its code.
UserSyncCalls == SemCodes \cup (SC.LOCK_CREATE .. SC.COND_BROADCAST)

\* The case labels of the switch on no_syscall.
SyscallSwitchCases ==
    {SC.HALT, SC.SYS_TIME, SC.EXIT, SC.EXEC, SC.NEW_THREAD, SC.JOIN,
     SC.YIELD, SC.PERROR, SC.CREATE, SC.OPEN, SC.READ, SC.WRITE, SC.SEEK,
     SC.CLOSE, SC.REMOVE, SC.MKDIR, SC.RMDIR, SC.FSLIST, SC.TTY_SEND,
     SC.TTY_RECEIVE, SC.MMAP, SC.DEBUG}
    \cup (IF SemCasesDispatched THEN SemCodes ELSE {})

Served(code) == code \in SyscallSwitchCases

Running == halted = "running"
Live(s) == s # NoSem /\ sem[s].state = "live"

\* The fields of class Semaphore: type (with the allocation state), count,
\* wait_queue.
SemObject == [state : {"unalloc", "live", "deleted"}, count : Int,
              queue : Seq(Threads)]

TypeOK ==
    /\ table \in [Ids -> Sems \cup {NoSem}]
    /\ sem \in [Sems -> SemObject]
    /\ \A s \in Sems : sem[s].count \in Nat
    /\ pc \in [Threads -> {"user", "P", "P_sleep"}]
    /\ psem \in [Threads -> Sems \cup {NoSem}]
    /\ halted \in {"running", "exit_stub", "assert", "use_after_free",
                   "invalid_syscall"}

Init ==
    /\ table = [i \in Ids |-> NoSem]
    /\ sem = [s \in Sems |-> [state |-> "unalloc", count |-> 0,
                               queue |-> <<>>]]
    /\ pc = [t \in Threads |-> "user"]
    /\ psem = [t \in Threads |-> NoSem]
    /\ halted = "running"

Exit == halted' = IF StubExit THEN "exit_stub" ELSE "running"

\* A user program traps with a synchronisation call.
UserCall(t) == Running /\ pc[t] = "user"

\* SC_SEM_CREATE: new Semaphore(name, initval), then AddObject.  The int
\* initval goes through the uint32_t parameter back to the int count,
\* which gives it back unchanged.  When the table is full the call returns
\* ERROR and the new object stays allocated, reachable from no id.
SemCreate(t, v) ==
    /\ UserCall(t) /\ Served(SC.SEM_CREATE)
    /\ \E s \in Sems :
          /\ sem[s].state = "unalloc"
          /\ sem' = [sem EXCEPT ![s] = [state |-> "live", count |-> v,
                                          queue |-> <<>>]]
          /\ LET free == {i \in Ids : table[i] = NoSem} IN
             table' = IF free = {} THEN table
                      ELSE [table EXCEPT ![Min(free)] = s]
    /\ UNCHANGED <<pc, psem, halted>>

\* Semaphore::~Semaphore: type = INVALID_TYPE and the object freed.  A
\* waiter left in the queue is removed and appended again, so the queue is
\* unchanged and ASSERT(wait_queue->IsEmpty()) fails.
SemaphoreDeleteAsserts(s) == sem[s].queue # <<>>

SemaphoreDelete(s) == [sem EXCEPT ![s].state = "deleted"]

\* Seeded bug: the object is deleted but its id not removed.
SemDestroyNoRemove(t, id) ==
    /\ UserCall(t) /\ Served(SC.SEM_DESTROY)
    /\ LET s == table[id] IN
       IF Live(s)
       THEN IF SemaphoreDeleteAsserts(s)
            THEN halted' = "assert" /\ UNCHANGED <<table, sem>>
            ELSE /\ sem' = SemaphoreDelete(s)
                 /\ UNCHANGED <<table, halted>>
       ELSE UNCHANGED <<table, sem, halted>>
    /\ UNCHANGED <<pc, psem>>

\* SC_SEM_DESTROY: for an id naming a semaphore, delete it and
\* RemoveObject; otherwise return ERROR.
SemDestroy(t, id) ==
    /\ UserCall(t) /\ Served(SC.SEM_DESTROY)
    /\ LET s == table[id] IN
       IF Live(s)
       THEN IF SemaphoreDeleteAsserts(s)
            THEN halted' = "assert" /\ UNCHANGED <<table, sem>>
            ELSE /\ sem' = SemaphoreDelete(s)
                 /\ table' = [table EXCEPT ![id] = NoSem]
                 /\ UNCHANGED halted
       ELSE UNCHANGED <<table, sem, halted>>
    /\ UNCHANGED <<pc, psem>>

\* SC_P: for an id naming a semaphore, enter Semaphore::P holding it;
\* otherwise return ERROR.
SysP(t, id) ==
    /\ UserCall(t) /\ Served(SC.P)
    /\ Live(table[id])
    /\ pc' = [pc EXCEPT ![t] = "P"]
    /\ psem' = [psem EXCEPT ![t] = table[id]]
    /\ UNCHANGED <<table, sem, halted>>

\* Semaphore::P's loop test, count == 0: sleep in the queue.
PSleep(t) ==
    LET s == psem[t] IN
    /\ Running /\ pc[t] = "P" /\ Live(s)
    /\ sem[s].count = 0
    /\ sem' = [sem EXCEPT ![s].queue = Append(@, t)]
    /\ pc' = [pc EXCEPT ![t] = "P_sleep"]
    /\ UNCHANGED <<table, psem, halted>>

\* Seeded bug: the count consumed without the loop test.
PTakeNoTest(t) ==
    LET s == psem[t] IN
    /\ Running /\ pc[t] = "P" /\ Live(s)
    /\ sem' = [sem EXCEPT ![s].count = @ - 1]
    /\ pc' = [pc EXCEPT ![t] = "user"]
    /\ psem' = [psem EXCEPT ![t] = NoSem]
    /\ Exit
    /\ UNCHANGED table

\* Semaphore::P's loop test, count != 0: consume, return to the program.
PTake(t) ==
    LET s == psem[t] IN
    /\ Running /\ pc[t] = "P" /\ Live(s)
    /\ sem[s].count # 0
    /\ sem' = [sem EXCEPT ![s].count = @ - 1]
    /\ pc' = [pc EXCEPT ![t] = "user"]
    /\ psem' = [psem EXCEPT ![t] = NoSem]
    /\ Exit
    /\ UNCHANGED table

\* A thread made ready inside P runs its loop test on an object that has
\* been deleted meanwhile: a read of freed memory.
PFreed(t) ==
    /\ Running /\ pc[t] = "P" /\ sem[psem[t]].state = "deleted"
    /\ halted' = "use_after_free"
    /\ UNCHANGED <<table, sem, pc, psem>>

\* SC_V: for an id naming a semaphore, Semaphore::V: the first waiter is
\* made ready, count incremented.
SysV(t, id) ==
    LET s == table[id] IN
    /\ UserCall(t) /\ Served(SC.V)
    /\ Live(s)
    /\ sem[s].count < MaxCount
    /\ LET q == sem[s].queue IN
       /\ sem' = [sem EXCEPT ![s].count = @ + 1,
                             ![s].queue = IF q = <<>> THEN q ELSE Tail(q)]
       /\ pc' = IF q = <<>> THEN pc ELSE [pc EXCEPT ![Head(q)] = "P"]
    /\ Exit
    /\ UNCHANGED <<table, psem>>

\* A synchronisation call whose code no case of the syscall switch takes:
\* its default prints "Invalid system call number" and exits.
InvalidSyscall(t, code) ==
    /\ UserCall(t) /\ ~Served(code)
    /\ halted' = "invalid_syscall"
    /\ UNCHANGED <<table, sem, pc, psem>>

Next ==
    \/ \E t \in Threads :
          \/ \E v \in InitVals : SemCreate(t, v)
          \/ \E id \in Ids : SemDestroy(t, id) \/ SysP(t, id) \/ SysV(t, id)
          \/ PSleep(t) \/ PTake(t) \/ PFreed(t)
          \/ \E code \in UserSyncCalls : InvalidSyscall(t, code)

Spec == Init /\ [][Next]_vars

-----------------------------------------------------------------------------
(* Properties                                                              *)

\* Every synchronisation call the user library declares is served: a
\* program calling SemCreate, SemDestroy, P, V or a Lock or Condition call
\* gets the call's result or an error code back, and never ends the kernel
\* in the default of ExceptionHandler's system call switch.
SyncCallsServed == halted # "invalid_syscall"

\* Each id names a live semaphore, each live semaphore has at most one id,
\* and no wakeup is lost: a thread sleeps on a semaphore only while its
\* count is spoken for by threads made ready inside P on it.
TableAndQueuesConsistent ==
    /\ \A i \in Ids : table[i] # NoSem => sem[table[i]].state = "live"
    /\ \A i, j \in Ids : table[i] = table[j] /\ table[i] # NoSem => i = j
    /\ \A s \in Sems :
          /\ \A k \in 1 .. Len(sem[s].queue) :
                /\ pc[sem[s].queue[k]] = "P_sleep"
                /\ psem[sem[s].queue[k]] = s
          /\ sem[s].queue # <<>> =>
                sem[s].count <= Cardinality({t \in Threads :
                                               pc[t] = "P" /\ psem[t] = s})

=============================================================================
