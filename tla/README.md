# TLA+ models of the Nachos-RiscV virtual-memory kernel

These modules model the demand-paging core of the kernel in `src/`:
- address translation (`machine/mmu.cc`);
- the physical page manager (`vm/physMem.cc`);
- the swap manager (`swapManager.cc`, in `src/unnamed/part_003`);
- the exception handler's page-fault, exit and exec paths, and its copy-in of system-call arguments from user memory (`exception.cc`, in `src/unnamed/part_001`);
- address-space teardown (`kernel/process.cc`).

They also model the kernel services those parts rely on:
- the semaphore and lock of `kernel/synch.cc`, with the class layouts of `synch.h` (the tail of the `mmu.cc` source file);
- the semaphore system calls, with the user library's system call codes (`userlib/syscall.h`) and the dispatch in `ExceptionHandler` that decides whether a call reaches them;
- the linked `List` of `list.h` (`src/unnamed/part_002`).

Every module is checked with TLC. `PROJECT.json` lists the components, the runs, the mutants, the source lines each definition models, the findings and the hazards.

## The system

A user access goes through `MMU::ReadMem`/`WriteMem`, which call `MMU::Translate`. Translate checks, in this order:
1. alignment, for sizes 2 and 4 only;
2. the page-number range;
3. that the page is mapped;
4. write permission.

If the entry is not valid, Translate itself raises `PAGEFAULT_EXCEPTION` (`mmu.cc:246-258`). `ExceptionHandler` then calls the page fault manager, which:
1. takes a frame from the `PhysicalMemManager` with `FindFreePage`, or `EvictPage` when none is free;
2. records the frame's owner and virtual page and locks it with `SetTPREntry`;
3. loads the page (a blocking disk read);
4. marks the entry valid and unlocks the frame.

The manager's body is not in `src/`. spec.md 5 requires that faults on one page be serialised: a second fault on a page whose service is in flight waits for it. `VM`'s `PageFaultStart` follows that (`InService`).

Translate then re-reads the entry, checks the frame bound, sets the U/M bits and computes the physical address.

`SC_EXEC` creates a process while others run. `Process::Process` builds its address space, then the handler starts its thread. If `Thread::Start` fails, the handler returns ERROR and never deletes the process. Its address space then stays alive with no thread.

When a process's last thread exits, `Process::~Process` deletes the address space. Every valid frame goes back to the free list through `FreePhysicalPage`, which clears the valid bit of the entry its back-reference names.

A system call reads its string arguments (a file name, a thread name) with `GetLengthParam`, then `GetStringParam` with that length. `SC_WRITE` reads its buffer with its own loop. All three read one byte per `ReadMem`. A byte on a page not yet resident makes `Translate` raise the page fault. The handler loads the page, and `Translate` goes on, so the byte is read. Only an unmapped address makes `ReadMem` fail, and then the handler halts the machine. None of the loops checks `ReadMem`'s result.

The swap manager allocates swap sectors from a bitmap, and writes and reads whole pages. Its intended clients are eviction (write-back) and the page fault manager (reload).

The kernel runs on one processor. Kernel code switches threads only where it blocks (disk I/O, `Sleep`) or where interrupts are enabled. The models therefore use one atomic step per method, and split a method in two where it blocks.

Some of this code is not under `src/`: the page fault manager, the `TranslationTable` and `AddrSpace` constructor/destructor bodies, and the object table. Those parts are modelled from `spec.md` and marked `spec_modelled` in the map. `EvictPage` is a stub that prints and exits, and the `synch.cc` methods end with `exit(ERROR)`. The models keep both facts, as described below.

## Modules

| Module | Models | State | Actions / operators |
|---|---|---|---|
| `MMU` | `MMU::Translate` | — (pure) | `ToUint32` (the `uint64_t` to `uint32_t` conversion), `Misaligned`, `TranslateCheck` (the early returns in code order, up to the page fault), `TranslateResident`, `SetUM`, `PhysAddr` |
| `PhysMem` | `PhysicalMemManager` | `tpr`, `free_page_list` (held by `VM`) | constructor (`InitTpr`, `InitFreeList`), `FindFreePage`/`FindFreePageTpr`, `SetTPREntry`, `UnlockPage`, `FreePhysicalPage` |
| `VM` | the composition: threads of processes issuing accesses, page faults, exits, teardown | `tt` (one translation table per process), `alive`, `tpr`, `free_page_list`, `frameContent` (whose page a frame holds), `pc`, `fault`, `nAccess`, `halt`, `lastAccess` | `AccessHit`, `AccessException`, `PageFaultStart`, `PageFaultDone`, `PageFaultEvict`, `ThreadExit`, `Exec`, `AddrSpaceDelete`, `Terminated` |
| `SwapManager` | `SwapManager` and its clients | `page_flags`, `disk`, `diskAddr`, `mem`, `resident`, `M`, `live`, `halted` | operators `GetFreeSwapSector`, `PutPageSwap`, `GetPageSwap`, `ReleasePageSwap`; actions `UserWrite`, `SwapOutWrite`, `SwapOutClean`, `SwapIn`, `ReleaseSwap` |
| `SwapStore` | the abstract swap area (spec.md 4.3, 6) | `mem`, `resident`, `live`, `saved`, `halted` | `Write`, `SwapOut`, `SwapOutFails`, `SwapIn`, `Release` |
| `Synch` | `Semaphore` and `Lock` constructors, `P/V`, `Acquire/Release`, `isHeldByCurrentThread` | `count`, `semQueue`, `is_free`, `owner`, `lockQueue`, `pc`, `halted` | `InitSemaphore`, `InitLock`; actions `PSleep`, `PTake`, `V`, `AcquireSleep`, `AcquireTake`, `Release` (with its ASSERT) |
| `SemSyscall` | the system call codes of `syscall.h`, `ExceptionHandler`'s dispatch, `SC_SEM_CREATE`, `SC_SEM_DESTROY`, `SC_P`, `SC_V`, `Semaphore::~Semaphore` | `table` (object table), `sem` (heap objects), `pc`, `psem`, `halted` | `SC`, `SyscallSwitchCases`, `Served`, `SemaphoreDelete`; actions `SemCreate`, `SemDestroy`, `SysP`, `PSleep`, `PTake`, `PFreed`, `SysV`, `InvalidSyscall` |
| `CopyIn` | `GetLengthParam`, `GetStringParam`, `SC_WRITE`'s copy loop, one-byte `ReadMem` with the exception it raises | `mem`, `resident`, `start`, `size` (all fixed by `Init`: the inputs a call can meet) | `RaiseException`, `PageFault`, `ReadMem`, `After`; RECURSIVE `LengthLoop`, `StringLoop`, `WriteLoop`; `GetLengthParam`, `GetStringParam`, `SysWriteBuffer`, checked against the reference `FirstZero` |
| `LinkedList` | `List<T>` of `list.h` | `first`, `last`, `next`, `item`, `key`, `used`, `hung` | operators `ListPrepend`, `ListAppend`, `SortedRemove`, `SortedInsert`, `Search`, `RemoveItem`; one action per method |
| `ListSeq` | the list as a sequence | `lst` | one action per method |

In VM, `ReadMem` and `WriteMem` are one access action parameterised by `writing`. The page fault is split at the disk read:
- `PageFaultStart` takes and locks a frame and blocks.
- `PageFaultDone` installs the page, unlocks the frame, finishes Translate and performs the access.

Between the two steps any other thread may run. An exception other than a page fault halts the machine, as `ExceptionHandler` does. `PageFaultEvict` is the stub's exit.

`SwapManager` models each method as one step: no method blocks between the bitmap test and the mark, and the disk driver serialises transfers. `SwapManager` is shown to implement `SwapStore` under the refinement mapping `saved[p] = disk[diskAddr[p]]`.

`SemSyscall` models how a user call reaches a handler. A program's `SemCreate`, `SemDestroy`, `P` or `V` traps with `SYSCALL_EXCEPTION` and its code from `syscall.h`, and `ExceptionHandler` switches on that code. The four semaphore cases, however, are written after the `PAGEFAULT` case, in the outer switch on the exception type. Codes 13 to 16 therefore reach the inner switch's default, which exits. The Lock and Condition codes (17 to 25) have no case at all. The constant `SemCasesDispatched` states where the semaphore cases sit:
- `FALSE` is the code (run `semsys_dispatch`).
- `TRUE` checks the handler bodies as if they sat in the inner switch (run `semsys_safety`).

`ExceptionType`'s values come from `machine.h`, which is not in `src/`. In the Nachos-RiscV distribution they are 0 to 8, so no exception type equals 13 to 16.

In `Synch` and `SemSyscall`, the constant `StubExit` stands for the trailing `exit(ERROR)`. With `TRUE`, the first completed call ends the kernel. The runs use `FALSE`, which checks the method bodies the placeholder follows.

`LinkedList` is shown to implement `ListSeq` under the mapping "the elements reached from `first`".

MC modules (`MC_VM`, `MC_Swap`, `MC_Synch`, `MC_SemSyscall`, `MC_LinkedList`, `MC_CopyIn`) give model values and small definitions to the constants.

## Runs

All runs use `SPECIFICATION Spec`.

| Run (cfg) | Expect | Checks | Shows |
|---|---|---|---|
| `vm_safety` (`VM.cfg`) | pass | `TypeOK`, `TranslationConsistent`, `FreeListExact`, `AccessIsolated`, `FrameLocksExact` | Two processes (one thread each; `p2` is created by `t1`'s Exec) over 3 virtual pages (r, rw, unmapped), 3 frames of 8 bytes, addresses {0,4,9,12,20,24}, sizes {1,4}, up to 3 accesses each. Under faults, exits and teardown in every order, the translation tables and the frame table agree both ways, the free list holds exactly the free frames, and every access lands in its own page's frame. A frame is locked exactly while a page fault loads into it (`FrameLocksExact`: `UnlockPage`'s ASSERTs hold, no frame stays locked, none is unlocked half-loaded). |
| `vm_reclaim` (`VM_reclaim.cfg`) | pass | `FramesReclaimed` | After all threads of a process exit, all its frames come back. |
| `vm_threads` (`VM_threads.cfg`) | pass | `TranslationConsistent` | Two threads of one process, up to 3 accesses each, fault, access and exit in every order over the same pages. With faults on one page serialised (spec.md 5), each valid entry names its own frame, and no frame is left in use unnamed. Without the wait (mutant `PageFaultStartNoWait`), both threads take a frame. |
| `vm_access` | violation | `AccessIsolated` | An access escapes its page through the `uint32_t` truncation or an unchecked 8-byte straddle (findings). |
| `swap_bitmap` (`Swap.cfg`) | pass | `TypeOK`, `BitmapExact`, `SwapRoundTrip` | Three pages of two address spaces, two sectors. The bitmap marks exactly the sectors live entries record, and the refinement of `SwapStore` holds: a reload returns what was evicted. |
| `synch_safety` (`Synch.cfg`) | pass | `TypeOK`, `SemaphoreSafe`, `LockExclusive`, `SemaphoreProgress` | Three threads: the semaphore admits `initialCount` threads and loses no wakeup; the lock admits one thread. Under the scheduler's fairness the semaphore never stalls: while a thread is in P, some thread eventually passes it. |
| `synch_handoff` | violation | `EntryProgress` | Every thread that calls P or Acquire eventually gets in, under a scheduler that runs every ready thread. `Lock::Release` to a waiter leaves the lock held by the releaser, so all three threads end up asleep in the lock's queue (finding). The semaphore half of the property fails too: a thread that calls P can take the unit `V` released for a woken waiter, over and over (a hazard). |
| `semsys_safety` (`SemSyscall.cfg`) | pass | `TypeOK`, `TableAndQueuesConsistent` | With the semaphore cases reached: two threads, two ids, three objects. Ids name live semaphores, queues hold exactly the sleepers, and no wakeup is lost. Lock and Condition calls end in the default case. |
| `semsys_dispatch` (`SemSyscall_dispatch.cfg`) | violation | `SyncCallsServed` | With the cases where the code puts them, a program's first semaphore call ends the kernel with "Invalid system call number" (finding). |
| `list_wellformed` (`LinkedList.cfg`) | pass | `WellFormed`, `ListRefinement` | Three elements, two items, keys 0..2: the pointer structure stays a list, `Search` agrees with it, and `List` implements `ListSeq`. |
| `list_keys` | violation | `RemoveItemKeepsKeys` | `RemoveItem` resets keys to 0 (finding). |
| `copyin` (`CopyIn.cfg`) | pass | `CopyInExact` | Over every 6-byte memory (three 2-byte pages, bytes 0..2), set of resident pages, argument address and write size up to 3: `GetLengthParam`/`GetStringParam` copy exactly the string and read nothing past its `'\0'`, and `SC_WRITE` copies exactly the buffer, with page faults in the middle. A string or buffer that runs off mapped memory halts the machine. |

Every property of a passing run has a mutant in `PROJECT.json`: a plausible bug in a mapped definition that TLC catches under that run's configuration. Examples:
- the free list numbered from 1;
- a frame taken but not marked;
- `V` without the increment;
- `SortedInsert` with `<=`;
- `PutPageSwap` not rewriting a page's existing sector.

## Bounds

- **VM:** three frames and three virtual pages let two processes fill memory, so the no-free-frame path is reached. The addresses cover every exception kind, a page fault on each mapped page, and offsets inside a page. `MaxAccess` (named, per thread) bounds the otherwise endless access loop. The safety run has a few hundred thousand distinct states and takes about 20 s.
- **Swap:** two sectors for three pages reach the full-area halt, sector reuse by the same page, and reuse by another address space after a release.
- **Synch:** three threads give one holder and two waiters.
- **SemSyscall:** every Lock and Condition code is enumerated, so every unserved call is reached. `MaxCount = 2` bounds the semaphore count. `Sems` (three objects) bounds creations. Two ids let the table fill.
- **CopyIn:** three pages of two bytes let a string or a buffer start on, end on or cross onto a page that is not resident, and run into the end of mapped memory. Two non-zero byte values make a copied byte distinguishable from its neighbour.
- **List:** `MaxLen = 3` lets `SortedInsert` go in front, in the middle and at the end.

## Fairness

Three runs check liveness. `vm_reclaim` assumes weak fairness of two things:
- `PageFaultDone`: the disk interrupt always arrives, and the blocked thread is then ready.
- `AddrSpaceDelete`: the destructor runs once the last thread has finished.

User threads get no fairness, because a program may stop issuing accesses at any time.

`synch_safety` and `synch_handoff` assume weak fairness of each thread's kernel steps (`Kernel(t)`: the loop tests, `V` and `Release`). The scheduler eventually runs every ready thread, and a thread in a critical section eventually leaves it. A sleeping thread is in a wait queue, not ready, so nothing of it is enabled. `Call` is not fair: a thread may stop using the objects. A woken thread gets no stronger guarantee. The FIFO ready list does not make it run before a thread that calls P or Acquire in the meantime, so strong fairness would not be justified. Deadlock is checked everywhere except the `Synch` and `SemSyscall` configurations. There, threads really may all block forever: in P on a semaphore nobody will V, and, in `Synch`, behind the lost lock handoff.

## Findings

The findings are listed in `PROJECT.json`:
- the semaphore system calls are unreachable from user programs: their cases sit in the wrong switch;
- 8-byte accesses are not alignment-checked, and the second Translate of ReadMem/WriteMem re-translates the start address;
- `Translate` truncates addresses to 32 bits;
- `Lock::Release` loses the handoff, and every thread using the lock ends up asleep;
- `List::RemoveItem` drops keys.

With the semaphore cases reached and the `exit(ERROR)` stubs removed (the counterfactual configuration of `semsys_safety`), `SC_SEM_DESTROY` would free a semaphore that a thread readied by `V` is still inside. `semsys_safety` reaches that step (`PFreed`), but no property states it. In the code as it is, both preconditions are false (see the dispatch finding).

## Not modelled

- The clock algorithm and `i_clock`: nothing reads `i_clock`.
- Statistics and DEBUG output: no state change.
- The page contents byte by byte: a frame holds `<<process, page>>`.
- ELF loading: a new process's table comes from the `Layout` constant.
- Exec's file name in `VM`: `CopyIn` checks the copy loops on their own. In `VM`, an Exec reads no user memory, and its faults are not composed with the other threads' accesses.
- `Condition`: its methods only print and exit, nothing in `src` calls them, and no system call reaches them.
- The destructors of `Lock` and `PhysicalMemManager`: no code in `src` deletes either.
- `EvictPage` as an algorithm: it is a stub that exits. The model keeps the exit (`PageFaultEvict`). No run states the spec's eviction promise, because there is no body yet to check it against.
- `PhysicalMemManager::Print`: no code in `src` calls it. It would read the translation table of a freed frame's stale owner (a hazard in `PROJECT.json`).
- `GetLengthParam` returns the string length plus 2, not plus 1 as its comment says (a hazard). It is harmless, because the buffer is one byte larger and `GetStringParam` stops at the `'\0'`, so no property states it.
- `AddrSpace` (`addrspace.h`): only declarations are in `src`. Its translation table is `VM`'s `tt`. The memory-mapped files, `Alloc` and `StackAllocate` have no body to model.
- Negative semaphore initial values: the conversions through `uint32_t` keep them, and `P`, which tests `count == 0`, would never block. The runs use 0 and 1.
- The file-system, thread, tty and mmap system calls beyond their argument copy-in (`CopyIn`). `SC_TTY_SEND`'s unbounded copy into `buff[MAXSTRLEN]` (a hazard): the ACIA driver is not in `src`.
- A failing page fault during copy-in (no frame free, `EvictPage` exits): `CopyIn`'s faults always load the page.
- The write-back window during an eviction's disk write: there is no eviction code yet.
- The `int vaddr` parameter of `ExceptionHandler`: addresses in the model stay below 2^31.

## Plan for later work

1. An eviction model following spec.md's clock algorithm, composed with `VM` and `SwapManager`. It would check the write-back window and `TranslationConsistent` under eviction. The spec says the cursor persists across calls; whether each frame gets a fair chance would be stated as a liveness property.
2. The thread system calls (`SC_NEW_THREAD`, `SC_JOIN`, `SC_EXIT`) with the object table, composed with `VM`'s teardown.
3. `ExceptionHandler`'s `int vaddr` conversion. It needs a virtual space of 2^31 bytes, so the model would need an address width scaled separately for `int` and `uint32_t`.
4. Compose `CopyIn` with `VM`, so that a copy-in's faults interleave with other threads' accesses and frame shortage.
