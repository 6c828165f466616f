-------------------------------- MODULE MMU --------------------------------
(***************************************************************************)
(* The address translation of machine/mmu.cc (MMU::Translate) as pure      *)
(* operators over one process's linear translation table.                 *)
(*                                                                         *)
(* A translation table is a function from virtual page numbers             *)
(* 0..maxPages-1 to entries [physicalPage, valid, readAllowed,            *)
(* writeAllowed, U, M].  Translate is split at the page fault it may       *)
(* raise: TranslateCheck is everything up to and including the residency  *)
(* test, TranslateResident is everything after it.  The caller (VM.tla)    *)
(* runs the page fault in between, as the code does through                *)
(* RaiseException(PAGEFAULT_EXCEPTION).                                    *)
(***************************************************************************)
EXTENDS Integers

CONSTANTS
    PageSize,       \* g_cfg->PageSize, in bytes
    AddrBits        \* width of Translate's uint32_t virtAddr parameter

ASSUME PageSize \in Nat \ {0} /\ PageSize % 4 = 0
ASSUME AddrBits \in Nat \ {0}

\* The exception kinds Translate returns (machine.h ExceptionType).
NoException  == "NO_EXCEPTION"
BusError     == "BUSERROR_EXCEPTION"
AddressError == "ADDRESSERROR_EXCEPTION"
ReadOnly     == "READONLY_EXCEPTION"
PageFault    == "PAGEFAULT_EXCEPTION"

\* The conversion of ReadMem/WriteMem's uint64_t address to Translate's
\* uint32_t parameter: the high bits are dropped.
ToUint32(addr) == addr % (2 ^ AddrBits)

Vpn(virtAddr)    == virtAddr \div PageSize
Offset(virtAddr) == virtAddr % PageSize

\* The alignment test: only 2- and 4-byte accesses are checked.
Misaligned(virtAddr, size) ==
    \/ size = 4 /\ virtAddr % 4 # 0
    \/ size = 2 /\ virtAddr % 2 # 0

\* MMU::Translate up to the residency test, with its early returns in the
\* code's order.  PageFault means "the entry is mapped, allowed and not
\* valid": the code raises the page fault at this point.
TranslateCheck(tt, maxPages, virtAddr, size, writing) ==
    LET vpn == Vpn(virtAddr) IN
    IF Misaligned(virtAddr, size) THEN BusError
    ELSE IF vpn >= maxPages THEN AddressError
    ELSE IF ~tt[vpn].readAllowed /\ ~tt[vpn].writeAllowed THEN AddressError
    ELSE IF writing /\ ~tt[vpn].writeAllowed THEN ReadOnly
    ELSE IF ~tt[vpn].valid THEN PageFault
    ELSE NoException

\* The rest of Translate once the entry is valid: the frame-bounds test
\* against g_cfg->NumPhysPages.
TranslateResident(tt, numPhysPages, virtAddr) ==
    LET pp == tt[Vpn(virtAddr)].physicalPage IN
    IF pp < 0 \/ pp >= numPhysPages THEN BusError ELSE NoException

\* The table after a successful translation: U always set, M on a write.
SetUM(tt, virtAddr, writing) ==
    LET vpn == Vpn(virtAddr) IN
    [tt EXCEPT ![vpn].U = TRUE, ![vpn].M = @ \/ writing]

\* Seeded bug: the whole virtual address added instead of the offset.
PhysAddrNoOffset(tt, virtAddr) ==
    tt[Vpn(virtAddr)].physicalPage * PageSize + virtAddr

\* The physical address Translate stores in *physAddr.
PhysAddr(tt, virtAddr) ==
    tt[Vpn(virtAddr)].physicalPage * PageSize + Offset(virtAddr)

=============================================================================
