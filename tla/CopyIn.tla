------------------------------- MODULE CopyIn -------------------------------
(***************************************************************************)
(* How the kernel copies system-call arguments in from user memory         *)
(* (exception.cc): GetLengthParam and GetStringParam, used for SC_EXEC's   *)
(* file name and every other string argument, and SC_WRITE's buffer loop.  *)
(* Each loop reads one byte per MMU::ReadMem.  When the byte's page is not *)
(* resident, Translate itself raises the page fault, the handler loads the *)
(* page, and Translate goes on and the byte is read.  Only an unmapped     *)
(* address makes ReadMem fail: ExceptionHandler halts the machine.  No     *)
(* loop looks at ReadMem's result.                                         *)
(*                                                                         *)
(* The inputs are the state of the machine when the system call arrives:   *)
(* user memory, the resident pages, the argument address and SC_WRITE's    *)
(* size.  Init enumerates them; the loops are pure operators over them,    *)
(* and Next leaves them unchanged.                                         *)
(***************************************************************************)
EXTENDS Integers, FiniteSets, Sequences

CONSTANTS
    PageSize,   \* bytes per page
    NumPages,   \* pages mapped in the address space
    Chars,      \* the non-zero byte values
    MaxWrite    \* largest SC_WRITE size enumerated

ASSUME PageSize \in Nat \ {0} /\ NumPages \in Nat \ {0}
       /\ 0 \notin Chars /\ MaxWrite \in Nat

Bytes == {0} \cup Chars
Addrs == 0 .. NumPages * PageSize - 1
Pages == 0 .. NumPages - 1
PageOf(a) == a \div PageSize

\* The value an uninitialized local holds, read before it is written.
Unset == -1

VARIABLES
    mem,       \* user memory, byte per virtual address
    resident,  \* pages whose translation is valid
    start,     \* the argument address (REG_SYSCALL_PARAM_1)
    size       \* SC_WRITE's size (REG_SYSCALL_PARAM_2)

vars == <<mem, resident, start, size>>

\* The address of the '\0' that ends the user string at a.
FirstZero(a) ==
    CHOOSE z \in Addrs : z >= a /\ mem[z] = 0 /\ \A y \in a .. z - 1 : mem[y] # 0

\* The string at a ends inside mapped memory.
Terminated(a) == \E z \in Addrs : z >= a /\ mem[z] = 0

\* A user program passes any address of its mapped memory, and any size:
\* the string there may run off the end of mapped memory, and so may the
\* write buffer.
Init ==
    /\ mem \in [Addrs -> Bytes]
    /\ resident \in SUBSET Pages
    /\ start \in Addrs
    /\ size \in 0 .. MaxWrite

Next == UNCHANGED vars

Spec == Init /\ [][Next]_vars

(***************************************************************************)
(* The machine as the copy loops see it: st.resident the resident pages,   *)
(* st.halted whether Interrupt::Halt stopped the kernel, st.read every     *)
(* address ReadMem was asked for.                                          *)
(***************************************************************************)

\* ExceptionHandler on ADDRESSERROR, the one exception a one-byte ReadMem
\* raises: it prints and halts the machine.
RaiseException(st) == [st EXCEPT !.halted = TRUE]

\* Translate on a page that is not valid: it raises the page fault, whose
\* handler loads the page (the fault always succeeds here), re-checks the
\* valid bit and goes on.
PageFault(st, a) == [st EXCEPT !.resident = @ \cup {PageOf(a)}]

\* Seeded bug: a page fault makes the read fail, as if Translate returned
\* PAGEFAULT to ReadMem instead of serving it.
ReadMemFaultFails(st, a) ==
    LET ok == a \in Addrs /\ PageOf(a) \in st.resident
        st1 == [st EXCEPT !.read = @ \cup {a}]
    IN  [st |-> IF ok THEN st1
                ELSE IF a \in Addrs THEN PageFault(st1, a) ELSE RaiseException(st1),
         ok |-> ok,
         value |-> IF ok THEN mem[a] ELSE Unset]

\* MMU::ReadMem(a, 1, &c): Translate, serving a page fault on the way, then
\* the byte; an address beyond the mapped pages raises ADDRESSERROR and
\* ReadMem returns false, leaving c as it was.
ReadMem(st, a) ==
    LET mapped == a \in Addrs
        st1 == [st EXCEPT !.read = @ \cup {a}]
    IN  [st |-> IF ~mapped THEN RaiseException(st1)
                ELSE IF PageOf(a) \in st.resident THEN st1 ELSE PageFault(st1, a),
         ok |-> mapped,
         value |-> IF mapped THEN mem[a] ELSE Unset]

\* c after the read: the byte, or its old value when ReadMem failed.
After(r, c) == IF r.ok THEN r.value ELSE c

\* The while (c != 0) loop of GetLengthParam; a halt ends the system call.
RECURSIVE LengthLoop(_, _, _, _)
LengthLoop(st, addr, i, c) ==
    IF c = 0 \/ st.halted THEN [st |-> st, len |-> i + 1]
    ELSE LET r == ReadMem(st, addr)
         IN  LengthLoop(r.st, addr + 1, i + 1, After(r, c))

GetLengthParam(st, addr) == LengthLoop(st, addr, 0, 1)

\* The while ((c != 0) && (i < maxlen)) loop of GetStringParam.
RECURSIVE StringLoop(_, _, _, _, _, _)
StringLoop(st, addr, i, c, dest, maxlen) ==
    IF c = 0 \/ i >= maxlen \/ st.halted
    THEN [st |-> st, dest |-> dest]
    ELSE LET r == ReadMem(st, addr)
         IN  StringLoop(r.st, addr + 1, i + 1, After(r, c),
                        [dest EXCEPT ![i] = After(r, c)], maxlen)

\* GetStringParam: the loop, then dest[maxlen - 1] = '\0'.
GetStringParam(st, addr, maxlen) ==
    LET s == StringLoop(st, addr, 0, 1, [j \in 0 .. maxlen - 1 |-> Unset], maxlen)
    IN  [s EXCEPT !.dest[maxlen - 1] = 0]

\* SC_WRITE's for (i = 0; i < size; i++) loop filling buffer.
RECURSIVE WriteLoop(_, _, _, _)
WriteLoop(st, addr, c, buffer) ==
    IF Len(buffer) >= size \/ st.halted THEN [st |-> st, buffer |-> buffer]
    ELSE LET r == ReadMem(st, addr)
         IN  WriteLoop(r.st, addr + 1, After(r, c), Append(buffer, After(r, c)))

\* c starts uninitialized; every read of mapped memory writes it.
SysWriteBuffer(st, addr) == WriteLoop(st, addr, Unset, <<>>)

(***************************************************************************)
(* Properties                                                              *)
(***************************************************************************)

\* What a system call gets from user memory is what the user program put
\* there.  SC_EXEC's name, read by GetLengthParam and then GetStringParam
\* with that length, reads only the bytes of the string, its '\0'
\* included, without halting, and holds the string; a string that runs
\* off mapped memory halts the machine with ADDRESSERROR instead.
\* SC_WRITE's buffer holds the size bytes at the address, or the machine
\* halts when the buffer runs off mapped memory.  All of it must hold
\* whichever pages are resident when the call arrives: a page fault in the
\* middle of a copy must not lose, repeat or shift a byte.
CopyInExact ==
    LET st0 == [resident |-> resident, halted |-> FALSE, read |-> {}]
        L == GetLengthParam(st0, start)
        S == GetStringParam(L.st, start, L.len)
        W == SysWriteBuffer(st0, start)
    IN  /\ IF Terminated(start)
           THEN LET z == FirstZero(start) IN
                /\ ~S.st.halted
                /\ S.st.read \subseteq start .. z
                /\ \A j \in 0 .. z - start : S.dest[j] = mem[start + j]
           ELSE L.st.halted
        /\ IF start + size <= Cardinality(Addrs)
           THEN W.buffer = [j \in 1 .. size |-> mem[start + j - 1]]
           ELSE W.st.halted

=============================================================================
