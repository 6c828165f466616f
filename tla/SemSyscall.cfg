CONSTANTS
    t1 = t1  t2 = t2  s1 = s1  s2 = s2  s3 = s3
    Threads <- MC_Threads
    Sems <- MC_Sems
    Ids <- MC_Ids
    InitVals = {0, 1}
    NoSem = NoSem
    MaxCount = 2
    StubExit = FALSE
    SemCasesDispatched = TRUE
SPECIFICATION Spec
INVARIANT TypeOK TableAndQueuesConsistent
CHECK_DEADLOCK FALSE
