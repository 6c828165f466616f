CONSTANTS
    p1 = p1
    p2 = p2
    t1 = t1
    t2 = t2
    NoOwner = NoOwner
    Procs = {p1, p2}
    Threads = {t1, t2}
    BootProcs = {p1, p2}
    ProcOf <- MC_ProcOf_2procs
    NumVPages = 3
    NumPhysPages = 3
    PageSize = 8
    AddrBits = 5
    Layout <- MC_Layout
    Addrs <- MC_Addrs_wide
    Sizes = {4, 8}
    MaxAccess = 1
SPECIFICATION Spec
INVARIANT AccessIsolated
