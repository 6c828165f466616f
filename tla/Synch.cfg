CONSTANTS
    t1 = t1  t2 = t2  t3 = t3
    Threads <- MC_Threads
    NoThread = NoThread
    InitialCount = 1
    StubExit = FALSE
SPECIFICATION Spec
INVARIANT TypeOK SemaphoreSafe LockExclusive
PROPERTY SemaphoreProgress
CHECK_DEADLOCK FALSE
