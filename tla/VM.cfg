CONSTANTS
    p1 = p1
    p2 = p2
    t1 = t1
    t2 = t2
    NoOwner = NoOwner
    Procs = {p1, p2}
    Threads = {t1, t2}
    BootProcs = {p1}
    ProcOf <- MC_ProcOf_2procs
    NumVPages = 3
    NumPhysPages = 3
    PageSize = 8
    AddrBits = 5
    Layout <- MC_Layout
    Addrs <- MC_Addrs
    Sizes = {1, 4}
    MaxAccess = 3
SPECIFICATION Spec
INVARIANT TypeOK
INVARIANT TranslationConsistent
INVARIANT FreeListExact
INVARIANT AccessIsolated
INVARIANT FrameLocksExact
