------------------------------ MODULE Machine ------------------------------
(***************************************************************************)
(* The registers, the memory and the address translation of the simulated   *)
(* MIPS machine (machine/machine.cc, machine/translate.cc), as operators on *)
(* a record c: [registers, mainMemory, tlb, entries, raised].  tlb says that *)
(* USE_TLB is defined, and entries are then a TLB, not a page table.        *)
(*                                                                         *)
(* A word has 4 bytes of ByteBits bits (8 in the code): W bits.  Words are  *)
(* written unsigned, 0 .. 2^W - 1; Signed gives a word its C int value.     *)
(* The host is little endian, so WordToHost and its kin change nothing.     *)
(***************************************************************************)
EXTENDS Integers, FiniteSets, FiniteSetsExt

CONSTANTS
    ByteBits,      \* the bits of a byte
    PageSize,      \* the bytes of a page
    NumPhysPages   \* the frames of the machine

ASSUME MachineAssumption ==
    /\ ByteBits \in Nat \ {0}
    /\ PageSize \in Nat \ {0} /\ PageSize % 4 = 0
    /\ NumPhysPages \in Nat \ {0}

W == 4 * ByteBits
Byte == 0 .. 2^ByteBits - 1
Half == 2^(2 * ByteBits)              \* 0x10000 in the code
Word == 0 .. 2^W - 1
Wrap(n) == n % 2^W
SignBit(w) == w >= 2^(W - 1)
Signed(w) == IF SignBit(w) THEN w - 2^W ELSE w

\* The value of the n low bytes of w, sign extended to a word.
SignExtend(w, n) ==
    LET low == w % 2^(n * ByteBits)
    IN  Wrap(IF low >= 2^(n * ByteBits - 1) THEN low - 2^(n * ByteBits) ELSE low)

\* Bitwise operations on words seen as sets of bit numbers.
Bits(w) == {k \in 0 .. W - 1 : (w \div 2^k) % 2 = 1}
FromBits(B) == MapThenSumSet(LAMBDA k : 2^k, B)
And(v, w) == FromBits(Bits(v) \cap Bits(w))
Or(v, w) == FromBits(Bits(v) \cup Bits(w))
Xor(v, w) == FromBits((Bits(v) \cup Bits(w)) \ (Bits(v) \cap Bits(w)))
Not(w) == 2^W - 1 - w
Shl(w, n) == Wrap(w * 2^n)
Sra(w, n) == Wrap(Signed(w) \div 2^n)  \* >> of a C int

\* Five of the 32 general registers: r2 also carries system call results, r29 is
\* StackReg and r31 RetAddrReg.
GPReg == {"r0", "r1", "r2", "r29", "r31"}
SpecialReg == {"HiReg", "LoReg", "PCReg", "NextPCReg", "PrevPCReg",
               "LoadValueReg", "BadVAddrReg"}
ExceptionType == {"NoException", "SyscallException", "PageFaultException",
                  "ReadOnlyException", "BusErrorException",
                  "AddressErrorException", "OverflowException",
                  "IllegalInstrException"}
TranslationEntry == [virtualPage : Nat, physicalPage : Nat, valid : BOOLEAN,
                     readOnly : BOOLEAN, use : BOOLEAN, dirty : BOOLEAN]

-----------------------------------------------------------------------------
(* Delayed loads and exceptions.                                           *)

\* The load of the instruction before takes effect.
DelayedLoad(r, nextReg, nextValue) ==
    LET loaded == [r EXCEPT ![r.LoadReg] = r.LoadValueReg]
    IN  [loaded EXCEPT !.LoadReg = nextReg, !.LoadValueReg = nextValue,
                       !.r0 = 0]

\* Mutant: the exception handler runs with the load still pending.
RaiseExceptionMutPending(c, which, badVAddr) ==
    [c EXCEPT !.registers.BadVAddrReg = badVAddr, !.raised = which]

\* The trap into the kernel: what it does before it calls ExceptionHandler.
RaiseException(c, which, badVAddr) ==
    [c EXCEPT !.registers = DelayedLoad([@ EXCEPT !.BadVAddrReg = badVAddr],
                                        "r0", 0),
              !.raised = which]

-----------------------------------------------------------------------------
(* Machine::Translate.                                                     *)

\* The entries that translate page vpn: a page table is indexed by vpn, a TLB
\* is searched for the first valid entry.
Lookup(c, vpn) ==
    LET hits == {k \in DOMAIN c.entries : /\ c.entries[k].valid
                                          /\ c.entries[k].virtualPage = vpn}
    IN  IF c.tlb THEN {k \in hits : \A h \in hits : k <= h}
                 ELSE {k \in DOMAIN c.entries : k = vpn}

\* Mutant: the read-only bit is not looked at.
EntryExceptionMutReadOnly(e, writing) ==
    IF ~e.valid THEN "PageFaultException"
    ELSE IF e.physicalPage >= NumPhysPages THEN "BusErrorException"
    ELSE "NoException"

\* Why entry e may not be used; "NoException" when it may.
EntryException(e, writing) ==
    IF ~e.valid THEN "PageFaultException"
    ELSE IF e.readOnly /\ writing THEN "ReadOnlyException"
    ELSE IF e.physicalPage >= NumPhysPages THEN "BusErrorException"
    ELSE "NoException"

\* What a translation through entry k gives.
Translated(c, k, offset, writing) ==
    LET exception == EntryException(c.entries[k], writing)
    IN  IF exception # "NoException" THEN [exception |-> exception]
        ELSE [exception |-> exception, entry |-> k,
              physAddr |-> c.entries[k].physicalPage * PageSize + offset]

Translate(c, virtAddr, size, writing) ==
    LET found == Lookup(c, virtAddr \div PageSize)
    IN  IF virtAddr % size # 0 \/ (found = {} /\ ~c.tlb)
        THEN [exception |-> "AddressErrorException"]
        ELSE IF found = {} THEN [exception |-> "PageFaultException"]
        ELSE Translated(c, CHOOSE k \in found : TRUE, virtAddr % PageSize, writing)

-----------------------------------------------------------------------------
(* Machine::ReadMem and WriteMem: size is 1, 2 or 4 bytes, low byte first.  *)
(* Both give back the machine; ok says that no exception was raised.        *)

ReadMem(c, addr, size) ==
    LET t == Translate(c, addr, size, FALSE)
        raw == MapThenSumSet(LAMBDA k : c.mainMemory[t.physAddr + k]
                                        * 2^(k * ByteBits), 0 .. size - 1)
    IN  IF t.exception # "NoException"
        THEN [ok |-> FALSE, c |-> RaiseException(c, t.exception, addr),
              value |-> 0]
        ELSE [ok |-> TRUE, c |-> [c EXCEPT !.entries[t.entry].use = TRUE],
              value |-> IF size = 1 THEN SignExtend(raw, 1) ELSE raw]

\* memory with the size low bytes of value at physical address p.
Stored(memory, p, size, value) ==
    [a \in DOMAIN memory |->
        IF a \in p .. p + size - 1
        THEN (value \div 2^((a - p) * ByteBits)) % 2^ByteBits
        ELSE memory[a]]

WriteMem(c, addr, size, value) ==
    LET t == Translate(c, addr, size, TRUE)
    IN  IF t.exception # "NoException"
        THEN [ok |-> FALSE, c |-> RaiseException(c, t.exception, addr)]
        ELSE [ok |-> TRUE,
              c |-> [c EXCEPT !.entries[t.entry].use = TRUE,
                       !.entries[t.entry].dirty = TRUE,
                       !.mainMemory = Stored(@, t.physAddr, size, value)]]

=============================================================================
