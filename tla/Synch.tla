------------------------------- MODULE Synch -------------------------------
(***************************************************************************)
(* The semaphore and the lock of kernel/synch.cc, used by threads that     *)
(* loop over two critical sections: P ... V on one Semaphore and Acquire   *)
(* ... Release on one Lock.  The kernel runs on one processor; each method *)
(* turns interrupts off for its whole body and a thread that must wait is  *)
(* Appended to the object's wait queue and sleeps there, so the test of    *)
(* the condition and the sleep are one step, and a woken thread is made    *)
(* ready and tests the condition again (the while loops).                  *)
(*                                                                         *)
(* Every method ends with exit(ERROR), after its body: the placeholder the *)
(* file ships with.  StubExit = TRUE is the code as it stands (the first  *)
(* P, V, Acquire or Release that completes ends the kernel);               *)
(* StubExit = FALSE is the same bodies without that last line.            *)
(***************************************************************************)
EXTENDS Naturals, Sequences, FiniteSets

CONSTANTS
    Threads,       \* the kernel threads using the two objects
    InitialCount,  \* the Semaphore's initialCount
    NoThread,      \* the NULL owner
    StubExit       \* the trailing exit(ERROR) is compiled in

VARIABLES
    count,     \* Semaphore::count
    semQueue,  \* Semaphore::wait_queue (a FIFO ListThread)
    is_free,   \* Lock::is_free
    owner,     \* Lock::owner
    lockQueue, \* Lock::wait_queue
    pc,        \* where each thread is in its loop
    halted     \* exit(ERROR) has ended the kernel

vars == <<count, semQueue, is_free, owner, lockQueue, pc, halted>>

PCs == {"idle", "P", "P_sleep", "sem_cs", "acq", "acq_sleep", "lock_cs"}

\* The fields of class Lock: wait_queue, is_free, owner.
LockObject == [wait_queue : Seq(Threads), is_free : BOOLEAN,
               owner : Threads \cup {NoThread}]

TypeOK ==
    /\ count \in Nat
    /\ semQueue \in Seq(Threads)
    /\ [wait_queue |-> lockQueue, is_free |-> is_free, owner |-> owner]
          \in LockObject
    /\ pc \in [Threads -> PCs]
    /\ halted \in BOOLEAN

\* Semaphore::Semaphore: count = initialCount, an empty wait queue.
InitSemaphore == count = InitialCount /\ semQueue = <<>>

\* Lock::Lock: an empty wait queue, free, no owner.
InitLock == lockQueue = <<>> /\ is_free = TRUE /\ owner = NoThread

Init ==
    /\ InitSemaphore
    /\ InitLock
    /\ pc = [t \in Threads |-> "idle"]
    /\ halted = FALSE

\* The trailing exit(ERROR) of a method that has completed.
Exit == halted' = StubExit

Goto(t, l) == pc' = [pc EXCEPT ![t] = l]

\* A thread starts one of its two critical sections.
Call(t) ==
    /\ ~halted /\ pc[t] = "idle"
    /\ \E l \in {"P", "acq"} : Goto(t, l)
    /\ UNCHANGED <<count, semQueue, is_free, owner, lockQueue, halted>>

\* Seeded bug: the thread sleeps without being Appended to the queue.
PSleepNoQueue(t) ==
    /\ ~halted /\ pc[t] = "P" /\ count = 0
    /\ Goto(t, "P_sleep")
    /\ UNCHANGED <<count, semQueue, is_free, owner, lockQueue, halted>>

\* Semaphore::P, the loop test finding count = 0: sleep in the queue.
PSleep(t) ==
    /\ ~halted /\ pc[t] = "P" /\ count = 0
    /\ semQueue' = Append(semQueue, t)
    /\ Goto(t, "P_sleep")
    /\ UNCHANGED <<count, is_free, owner, lockQueue, halted>>

\* Seeded bug: count consumed without testing it ("if" for "while" after
\* a wakeup).
PTakeNoTest(t) ==
    /\ ~halted /\ pc[t] = "P"
    /\ count' = count - 1
    /\ Goto(t, "sem_cs")
    /\ Exit
    /\ UNCHANGED <<semQueue, is_free, owner, lockQueue>>

\* Semaphore::P, the loop test finding count > 0: consume it and return.
PTake(t) ==
    /\ ~halted /\ pc[t] = "P" /\ count > 0
    /\ count' = count - 1
    /\ Goto(t, "sem_cs")
    /\ Exit
    /\ UNCHANGED <<semQueue, is_free, owner, lockQueue>>

\* Seeded bug: the waiter is woken but the count not incremented.
VNoIncrement(t) ==
    /\ ~halted /\ pc[t] = "sem_cs"
    /\ IF semQueue # <<>>
       THEN /\ semQueue' = Tail(semQueue)
            /\ pc' = [pc EXCEPT ![t] = "idle", ![Head(semQueue)] = "P"]
       ELSE /\ Goto(t, "idle") /\ UNCHANGED semQueue
    /\ UNCHANGED count
    /\ Exit
    /\ UNCHANGED <<is_free, owner, lockQueue>>

\* Semaphore::V: the first waiter, if any, is made ready (it will test
\* count again), and count is incremented.
V(t) ==
    /\ ~halted /\ pc[t] = "sem_cs"
    /\ IF semQueue # <<>>
       THEN /\ semQueue' = Tail(semQueue)
            /\ pc' = [pc EXCEPT ![t] = "idle", ![Head(semQueue)] = "P"]
       ELSE /\ Goto(t, "idle") /\ UNCHANGED semQueue
    /\ count' = count + 1
    /\ Exit
    /\ UNCHANGED <<is_free, owner, lockQueue>>

\* Lock::Acquire, the loop test finding the lock taken: sleep.
AcquireSleep(t) ==
    /\ ~halted /\ pc[t] = "acq" /\ ~is_free
    /\ lockQueue' = Append(lockQueue, t)
    /\ Goto(t, "acq_sleep")
    /\ UNCHANGED <<count, semQueue, is_free, owner, halted>>

\* Seeded bug: the lock taken without testing is_free.
AcquireTakeNoTest(t) ==
    /\ ~halted /\ pc[t] = "acq"
    /\ is_free' = FALSE /\ owner' = t
    /\ Goto(t, "lock_cs")
    /\ Exit
    /\ UNCHANGED <<count, semQueue, lockQueue>>

\* Lock::Acquire, the loop test finding the lock free: take it, become
\* its owner and return.
AcquireTake(t) ==
    /\ ~halted /\ pc[t] = "acq" /\ is_free
    /\ is_free' = FALSE /\ owner' = t
    /\ Goto(t, "lock_cs")
    /\ Exit
    /\ UNCHANGED <<count, semQueue, lockQueue>>

\* Lock::isHeldByCurrentThread.
IsHeldByCurrentThread(t) == owner = t

\* Lock::Release: ASSERT(isHeldByCurrentThread()) aborts the kernel when
\* the caller is not the owner.  With a waiter, the waiter is made ready
\* and is_free and owner are left as they are; with none, the lock is
\* freed.
Release(t) ==
    /\ ~halted /\ pc[t] = "lock_cs"
    /\ IF ~IsHeldByCurrentThread(t)
       THEN halted' = TRUE /\ UNCHANGED <<pc, is_free, owner, lockQueue>>
       ELSE /\ IF lockQueue # <<>>
               THEN /\ lockQueue' = Tail(lockQueue)
                    /\ pc' = [pc EXCEPT ![t] = "idle", ![Head(lockQueue)] = "acq"]
                    /\ UNCHANGED <<is_free, owner>>
               ELSE /\ is_free' = TRUE /\ owner' = NoThread
                    /\ Goto(t, "idle")
                    /\ UNCHANGED lockQueue
            /\ Exit
    /\ UNCHANGED <<count, semQueue>>

Next ==
    \E t \in Threads :
        \/ Call(t)
        \/ PSleep(t) \/ PTake(t) \/ V(t)
        \/ AcquireSleep(t) \/ AcquireTake(t) \/ Release(t)

\* The kernel steps of a thread that has called P, V, Acquire or Release.
Kernel(t) ==
    PSleep(t) \/ PTake(t) \/ V(t) \/ AcquireSleep(t) \/ AcquireTake(t) \/ Release(t)

\* The scheduler runs every ready thread eventually (a sleeping thread is
\* in a wait queue, not ready, so nothing is enabled for it), and a thread
\* in a critical section eventually leaves it.  Call is not fair: a thread
\* may stop using the objects.  A woken thread is only weakly fair.  The
\* ready list gives no guarantee that it runs before a thread that takes
\* the unit or the lock first.
Fairness == \A t \in Threads : WF_vars(Kernel(t))

Spec == Init /\ [][Next]_vars /\ Fairness

-----------------------------------------------------------------------------
(* Properties                                                              *)

InSemCS == {t \in Threads : pc[t] = "sem_cs"}
InLockCS == {t \in Threads : pc[t] = "lock_cs"}
Ready(l) == {t \in Threads : pc[t] = l}

\* The semaphore admits at most initialCount threads, and no wakeup is
\* lost: while some thread sleeps in P, every unit of count is spoken for
\* by a thread that is ready to test it again.
SemaphoreSafe ==
    /\ count + Cardinality(InSemCS) = InitialCount
    /\ semQueue # <<>> => count <= Cardinality(Ready("P"))

\* Mutual exclusion: at most one thread is between Acquire and Release,
\* and it is the lock's owner.
LockExclusive ==
    \A t \in InLockCS : InLockCS = {t} /\ owner = t /\ ~is_free

\* The semaphore never stalls: while some thread is in P or asleep in its
\* queue, some thread eventually passes P.  A V always readies a sleeper
\* when there is one, and the unit it adds is there for a ready thread.
SemaphoreProgress ==
    (\E t \in Threads : pc[t] \in {"P", "P_sleep"})
        ~> (\E t \in Threads : pc[t] = "sem_cs")

\* Every thread that calls P eventually passes it, and every thread that
\* calls Acquire eventually holds the lock.  This is the promise of the
\* wait queues: a thread is parked in one only until a V or a Release
\* lets it in.
EntryProgress ==
    \A t \in Threads :
        /\ pc[t] = "P" ~> pc[t] = "sem_cs"
        /\ pc[t] = "acq" ~> pc[t] = "lock_cs"

=============================================================================
