------------------------------ MODULE MipsSim ------------------------------
(***************************************************************************)
(* The instructions of the simulated MIPS processor (machine/mipssim.cc,    *)
(* machine/mipssim.h), the loop of Machine::Run with the interrupts that    *)
(* come between two instructions, the return from the kernel, and the       *)
(* switch from one user program to another (Scheduler::Run).                *)
(*                                                                         *)
(* An instruction word is a record of its fields.  It is chosen by the      *)
(* environment when it is fetched: programs are arbitrary, and do not       *)
(* change their own code.                                                   *)
(***************************************************************************)
EXTENDS Machine

CONSTANTS
    User, First, \* the threads that run user programs, and the one that runs
    Raw,         \* the instruction words of the instance
    StartRegs,   \* register contents a program may be found with
    StartTables, \* the TLB, or the page table of every program, to start with
    MaxSteps     \* bound: instructions executed

VARIABLES
    registers, mainMemory, tlb,  \* class Machine; tlb: it has one
    tables,      \* the page table of every address space, or the TLB
    pageTable,   \* Machine::pageTable: whose table is used, or "tlb"
    raised,      \* the exception the kernel is handling
    instr,       \* Run's decoded instruction
    status,      \* interrupt->getStatus(), or "starting" (in StartProcessWithID),
                 \* or "halted", or "aborted"
    steps,       \* instructions executed
    currentThread,
    space,       \* the threads whose space is not NULL
    userRegisters,  \* Thread::userRegisters
    resume       \* the status a thread goes on with when it is switched to

machineVars == <<registers, mainMemory, tlb, tables, pageTable, raised, instr,
                 status, steps>>
threadVars == <<currentThread, space, userRegisters, resume>>
vars == <<machineVars, threadVars>>

Cpu == [registers |-> registers, mainMemory |-> mainMemory, tlb |-> tlb,
        entries |-> tables[pageTable], raised |-> raised]

\* A failed ASSERT, or a host trap: Nachos dies.
Abort(c) == [c EXCEPT !.raised = "Abort"]

-----------------------------------------------------------------------------
(* Instruction::Decode.  op is the entry of opTable the top six bits choose, *)
(* funct the entry of specialTable, cond the field BCOND tests.              *)

\* The entries of opTable and of specialTable.
OpTable == {"SPECIAL", "BCOND", "OP_J", "OP_JAL",
            "OP_BEQ", "OP_BNE", "OP_BLEZ", "OP_BGTZ", "OP_ADDI", "OP_ADDIU",
            "OP_SLTI", "OP_SLTIU", "OP_ANDI", "OP_ORI", "OP_XORI", "OP_LUI",
            "OP_LB", "OP_LH", "OP_LWL", "OP_LW", "OP_LBU", "OP_LHU", "OP_LWR",
            "OP_SB", "OP_SH", "OP_SWL", "OP_SW", "OP_SWR", "OP_UNIMP", "OP_RES"}

SpecialTable == {"OP_SLL", "OP_SRL", "OP_SRA", "OP_SLLV", "OP_SRLV", "OP_SRAV",
                 "OP_JR", "OP_JALR", "OP_SYSCALL", "OP_UNIMP", "OP_MFHI", "OP_MTHI",
                 "OP_MFLO", "OP_MTLO", "OP_MULT", "OP_MULTU", "OP_DIV", "OP_DIVU",
                 "OP_ADD", "OP_ADDU", "OP_SUB", "OP_SUBU", "OP_AND", "OP_OR",
                 "OP_XOR", "OP_NOR", "OP_SLT", "OP_SLTU", "OP_RES"}

ASSUME MipsAssumption ==
    /\ \A raw \in Raw : raw.op \in OpTable /\ raw.funct \in SpecialTable
    /\ First \in User
    /\ MaxSteps \in Nat

Format(op) == CASE op = "SPECIAL" -> "RFMT"
                [] op \in {"OP_J", "OP_JAL"} -> "JFMT"
                [] OTHER -> "IFMT"

BranchCond(cond) == CASE cond = 0 -> "OP_BLTZ"
                      [] cond = 1 -> "OP_BGEZ"
                      [] cond = 16 -> "OP_BLTZAL"
                      [] cond = 17 -> "OP_BGEZAL"
                      [] OTHER -> "OP_UNIMP"

OpCode == (OpTable \ {"SPECIAL", "BCOND"}) \cup SpecialTable
             \cup {BranchCond(cond) : cond \in {0, 1, 16, 17}}

Decode(raw) ==
    [rs |-> raw.rs, rt |-> raw.rt, rd |-> raw.rd,
     opCode |-> CASE raw.op = "SPECIAL" -> raw.funct
                  [] raw.op = "BCOND" -> BranchCond(raw.cond)
                  [] OTHER -> raw.op,
     extra |-> CASE Format(raw.op) = "IFMT" -> SignExtend(raw.imm, 2)
                 [] Format(raw.op) = "RFMT" -> raw.shamt
                 [] OTHER -> raw.target]

-----------------------------------------------------------------------------
(* The end of OneInstruction: the delayed load, then the program counters.  *)

Advance(c, regs, pcAfter, nextLoadReg, nextLoadValue) ==
    LET d == DelayedLoad(regs, nextLoadReg, nextLoadValue)
    IN  [c EXCEPT !.registers = [d EXCEPT !.PrevPCReg = d.PCReg,
                                          !.PCReg = d.NextPCReg,
                                          !.NextPCReg = pcAfter]]

\* An instruction that only computes registers.
Computed(c, regs) ==
    Advance(c, regs, Wrap(c.registers.NextPCReg + 4), "r0", 0)

\* An instruction that loads value into reg, one instruction later.
Loaded(c, reg, value) ==
    Advance(c, c.registers, Wrap(c.registers.NextPCReg + 4), reg, value)

-----------------------------------------------------------------------------
(* The instructions, in the order of the switch; r are the registers.       *)

\* ADD, ADDI, ADDIU, ADDU: the sum, and the code's test for overflow.
Addition(i, c) ==
    LET r == c.registers
        immediate == i.opCode \in {"OP_ADDI", "OP_ADDIU"}
        b == IF immediate THEN i.extra ELSE r[i.rt]
        sum == Wrap(r[i.rs] + b)
        overflow == /\ SignBit(r[i.rs]) = SignBit(b)
                    /\ SignBit(b) # SignBit(sum)
    IN  IF i.opCode \in {"OP_ADD", "OP_ADDI"} /\ overflow
        THEN RaiseException(c, "OverflowException", 0)
        ELSE Computed(c, [r EXCEPT ![IF immediate THEN i.rt ELSE i.rd] = sum])

\* AND, ANDI.
Conjunction(i, c) ==
    LET r == c.registers
    IN  Computed(c, IF i.opCode = "OP_AND"
                    THEN [r EXCEPT ![i.rd] = And(r[i.rs], r[i.rt])]
                    ELSE [r EXCEPT ![i.rt] = And(r[i.rs], i.extra % Half)])

\* BEQ, BGEZAL, BGEZ, BGTZ, BLEZ, BLTZAL, BLTZ, BNE.
Branch(i, c) ==
    LET r == c.registers
        a == r[i.rs]
        linked == IF i.opCode \in {"OP_BGEZAL", "OP_BLTZAL"}
                  THEN [r EXCEPT !.r31 = Wrap(r.NextPCReg + 4)] ELSE r
        taken == CASE i.opCode = "OP_BEQ" -> a = r[i.rt]
                   [] i.opCode = "OP_BNE" -> a # r[i.rt]
                   [] i.opCode \in {"OP_BGEZ", "OP_BGEZAL"}
                          -> ~SignBit(linked[i.rs])
                   [] i.opCode \in {"OP_BLTZ", "OP_BLTZAL"}
                          -> SignBit(linked[i.rs])
                   [] i.opCode = "OP_BGTZ" -> Signed(a) > 0
                   [] i.opCode = "OP_BLEZ" -> Signed(a) <= 0
    IN  Advance(c, linked,
                Wrap(r.NextPCReg + (IF taken THEN i.extra * 4 ELSE 4)), "r0", 0)

\* Mutant: division rounds down.
QuotientMutFloor(a, b) == IF b > 0 THEN a \div b ELSE (-a) \div (-b)

\* C's division of ints, which rounds towards zero.
Quotient(a, b) ==
    LET Abs(n) == IF n < 0 THEN -n ELSE n
        q == Abs(a) \div Abs(b)
    IN  IF (a < 0) = (b < 0) THEN q ELSE -q

\* DIV, DIVU.  The least int divided by -1 traps the host.
Divide(i, c) ==
    LET r == c.registers
        signed == i.opCode = "OP_DIV"
        a == IF signed THEN Signed(r[i.rs]) ELSE r[i.rs]
        b == IF signed THEN Signed(r[i.rt]) ELSE r[i.rt]
        q == Quotient(a, b)
    IN  IF b = 0 THEN Computed(c, [r EXCEPT !.LoReg = 0, !.HiReg = 0])
        ELSE IF signed /\ a = -(2^(W - 1)) /\ b = -1 THEN Abort(c)
        ELSE Computed(c, [r EXCEPT !.LoReg = Wrap(q),
                                   !.HiReg = Wrap(a - q * b)])

\* JAL, J, JALR, JR.  J keeps the top four bits of the address.
Jump(i, c) ==
    LET r == c.registers
        pcAfter == Wrap(r.NextPCReg + 4)
        linked == CASE i.opCode = "OP_JAL" -> [r EXCEPT !.r31 = pcAfter]
                    [] i.opCode = "OP_JALR" -> [r EXCEPT ![i.rd] = pcAfter]
                    [] OTHER -> r
        target == IF i.opCode \in {"OP_J", "OP_JAL"}
                  THEN Or(pcAfter - (pcAfter % 2^(W - 4)), Shl(i.extra, 2))
                  ELSE linked[i.rs]
    IN  Advance(c, linked, target, "r0", 0)

\* LB, LBU, LH, LHU.
LoadPart(i, c) ==
    LET size == IF i.opCode \in {"OP_LB", "OP_LBU"} THEN 1 ELSE 2
        tmp == Wrap(c.registers[i.rs] + i.extra)
        m == ReadMem(c, tmp, size)
        value == IF i.opCode \in {"OP_LB", "OP_LH"}
                 THEN SignExtend(m.value, size)
                 ELSE m.value % 2^(size * ByteBits)
    IN  IF size = 2 /\ tmp % 2 = 1
        THEN RaiseException(c, "AddressErrorException", tmp)
        ELSE IF m.ok THEN Loaded(m.c, i.rt, value) ELSE m.c

LoadUpper(i, c) ==
    Computed(c, [c.registers EXCEPT ![i.rt] = Wrap(i.extra * Half)])

LoadWord(i, c) ==
    LET tmp == Wrap(c.registers[i.rs] + i.extra)
        m == ReadMem(c, tmp, 4)
    IN  IF tmp % 4 # 0 THEN RaiseException(c, "AddressErrorException", tmp)
        ELSE IF m.ok THEN Loaded(m.c, i.rt, m.value) ELSE m.c

\* Mutant: LWL and LWR do not see the load that is still pending.
LoadUnalignedMutForward(i, c) ==
    LET r == c.registers
        tmp == Wrap(r[i.rs] + i.extra)
        m == ReadMem(c, tmp, 4)
        value == IF i.opCode = "OP_LWL" THEN m.value
                 ELSE r[i.rt] - (r[i.rt] % 2^ByteBits)
                      + (m.value \div 2^(3 * ByteBits))
    IN  IF tmp % 4 # 0 THEN Abort(c)
        ELSE IF m.ok THEN Loaded(m.c, i.rt, value) ELSE m.c

\* LWL, LWR.  The ASSERT leaves only the aligned case of the switches.
LoadUnaligned(i, c) ==
    LET r == c.registers
        tmp == Wrap(r[i.rs] + i.extra)
        m == ReadMem(c, tmp, 4)
        old == IF r.LoadReg = i.rt THEN r.LoadValueReg ELSE r[i.rt]
        value == IF i.opCode = "OP_LWL" THEN m.value
                 ELSE old - (old % 2^ByteBits) + (m.value \div 2^(3 * ByteBits))
    IN  IF tmp % 4 # 0 THEN Abort(c)
        ELSE IF m.ok THEN Loaded(m.c, i.rt, value) ELSE m.c

\* MFHI, MFLO, MTHI, MTLO.
MoveHiLo(i, c) ==
    LET r == c.registers
    IN  Computed(c, CASE i.opCode = "OP_MFHI" -> [r EXCEPT ![i.rd] = r.HiReg]
                      [] i.opCode = "OP_MFLO" -> [r EXCEPT ![i.rd] = r.LoReg]
                      [] i.opCode = "OP_MTHI" -> [r EXCEPT !.HiReg = r[i.rs]]
                      [] i.opCode = "OP_MTLO" -> [r EXCEPT !.LoReg = r[i.rs]])

\* One turn of Mult's loop: add in the shifted b when the low bit of a is set.
MultTurn(s) ==
    LET lo == Wrap(s.lo + s.bLo)
        hi == Wrap(s.hi + (IF lo < s.bLo THEN 1 ELSE 0) + s.bHi)
        added == IF s.a % 2 = 1 THEN [s EXCEPT !.lo = lo, !.hi = hi] ELSE s
    IN  IF s.done THEN s
        ELSE IF s.a = 1 THEN [added EXCEPT !.done = TRUE]
        ELSE [added EXCEPT !.bHi = Wrap(2 * s.bHi + (IF SignBit(s.bLo) THEN 1 ELSE 0)),
                           !.bLo = Wrap(2 * s.bLo),
                           !.a = Sra(s.a, 1)]

\* Mult: the double-length product as <<hi, lo>>, the sign put in at the end.
Mult(a, b, signedArith) ==
    LET Magnitude(w) == IF signedArith /\ SignBit(w) THEN Wrap(-w) ELSE w
        negative == signedArith /\ SignBit(a) # SignBit(b)
        Turns[k \in 0 .. W] ==
            IF k = 0 THEN [a |-> Magnitude(a), bLo |-> Magnitude(b), bHi |-> 0,
                           lo |-> 0, hi |-> 0, done |-> FALSE]
            ELSE MultTurn(Turns[k - 1])
        p == Turns[W]
        lo == Wrap(Not(p.lo) + 1)
    IN  IF a = 0 \/ b = 0 THEN <<0, 0>>
        ELSE IF negative
        THEN <<Wrap(Not(p.hi) + (IF lo = 0 THEN 1 ELSE 0)), lo>>
        ELSE <<p.hi, p.lo>>

\* MULT, MULTU.
Multiply(i, c) ==
    LET r == c.registers
        p == Mult(r[i.rs], r[i.rt], i.opCode = "OP_MULT")
    IN  Computed(c, [r EXCEPT !.HiReg = p[1], !.LoReg = p[2]])

\* NOR, OR, ORI.  OR takes rs twice.
Disjunction(i, c) ==
    LET r == c.registers
    IN  Computed(c,
            CASE i.opCode = "OP_NOR"
                    -> [r EXCEPT ![i.rd] = Not(Or(r[i.rs], r[i.rt]))]
              [] i.opCode = "OP_OR" -> [r EXCEPT ![i.rd] = Or(r[i.rs], r[i.rs])]
              [] i.opCode = "OP_ORI"
                    -> [r EXCEPT ![i.rt] = Or(r[i.rs], i.extra % Half)])

\* SB, SH, SW.
Store(i, c) ==
    LET size == IF i.opCode = "OP_SB" THEN 1 ELSE 2
        m == WriteMem(c, Wrap(c.registers[i.rs] + i.extra), size,
                      c.registers[i.rt])
    IN  IF m.ok THEN Computed(m.c, m.c.registers) ELSE m.c

StoreWord(i, c) ==
    LET m == WriteMem(c, Wrap(c.registers[i.rs] + i.extra), 4, c.registers[i.rt])
    IN  IF m.ok THEN Computed(m.c, m.c.registers) ELSE m.c

\* SLL, SLLV.
ShiftLeft(i, c) ==
    LET r == c.registers
        n == IF i.opCode = "OP_SLL" THEN i.extra ELSE r[i.rs] % W
    IN  Computed(c, [r EXCEPT ![i.rd] = Shl(r[i.rt], n)])

\* SLT, SLTI, SLTIU, SLTU.
SetLess(i, c) ==
    LET r == c.registers
        immediate == i.opCode \in {"OP_SLTI", "OP_SLTIU"}
        b == IF immediate THEN i.extra ELSE r[i.rt]
        less == IF i.opCode \in {"OP_SLT", "OP_SLTI"}
                THEN Signed(r[i.rs]) < Signed(b) ELSE r[i.rs] < b
    IN  Computed(c, [r EXCEPT ![IF immediate THEN i.rt ELSE i.rd] =
                                  IF less THEN 1 ELSE 0])

\* SRA, SRAV, SRL, SRLV: tmp is an int, so all four keep the sign.
ShiftRight(i, c) ==
    LET r == c.registers
        n == IF i.opCode \in {"OP_SRA", "OP_SRL"} THEN i.extra ELSE r[i.rs] % W
    IN  Computed(c, [r EXCEPT ![i.rd] = Sra(r[i.rt], n)])

\* SUB, SUBU.
Subtract(i, c) ==
    LET r == c.registers
        diff == Wrap(r[i.rs] - r[i.rt])
        overflow == /\ SignBit(r[i.rs]) # SignBit(r[i.rt])
                    /\ SignBit(r[i.rs]) # SignBit(diff)
    IN  IF i.opCode = "OP_SUB" /\ overflow
        THEN RaiseException(c, "OverflowException", 0)
        ELSE Computed(c, [r EXCEPT ![i.rd] = diff])

\* SWL, SWR: a read, then a write; again only the aligned case is left.
StoreUnaligned(i, c) ==
    LET tmp == Wrap(c.registers[i.rs] + i.extra)
        rt == c.registers[i.rt]
        m == ReadMem(c, tmp, 4)
        value == IF i.opCode = "OP_SWL" THEN rt
                 ELSE (m.value % 2^(3 * ByteBits)) + Shl(rt, 3 * ByteBits)
        w == WriteMem(m.c, tmp, 4, value)
    IN  IF tmp % 4 # 0 THEN Abort(c)
        ELSE IF ~m.ok THEN m.c
        ELSE IF w.ok THEN Computed(w.c, w.c.registers) ELSE w.c

\* XOR, XORI.
ExclusiveOr(i, c) ==
    LET r == c.registers
    IN  Computed(c, IF i.opCode = "OP_XOR"
                    THEN [r EXCEPT ![i.rd] = Xor(r[i.rs], r[i.rt])]
                    ELSE [r EXCEPT ![i.rt] = Xor(r[i.rs], i.extra % Half)])

\* SYSCALL, and the instructions that are reserved or not implemented.
Trap(i, c) ==
    RaiseException(c, IF i.opCode = "OP_SYSCALL" THEN "SyscallException"
                      ELSE "IllegalInstrException", 0)

\* Machine::OneInstruction: the fetch, then the switch.
Execute(i, fetched) ==
    LET m == ReadMem(fetched, fetched.registers.PCReg, 4)
        c == m.c
        op == i.opCode
    IN  IF ~m.ok THEN c ELSE
        CASE op \in {"OP_ADD", "OP_ADDI", "OP_ADDIU", "OP_ADDU"} -> Addition(i, c)
          [] op \in {"OP_AND", "OP_ANDI"} -> Conjunction(i, c)
          [] op \in {"OP_BEQ", "OP_BGEZAL", "OP_BGEZ", "OP_BGTZ", "OP_BLEZ",
                     "OP_BLTZAL", "OP_BLTZ", "OP_BNE"} -> Branch(i, c)
          [] op \in {"OP_DIV", "OP_DIVU"} -> Divide(i, c)
          [] op \in {"OP_JAL", "OP_J", "OP_JALR", "OP_JR"} -> Jump(i, c)
          [] op \in {"OP_LB", "OP_LBU", "OP_LH", "OP_LHU"} -> LoadPart(i, c)
          [] op = "OP_LUI" -> LoadUpper(i, c)
          [] op = "OP_LW" -> LoadWord(i, c)
          [] op \in {"OP_LWL", "OP_LWR"} -> LoadUnaligned(i, c)
          [] op \in {"OP_MFHI", "OP_MFLO", "OP_MTHI", "OP_MTLO"} -> MoveHiLo(i, c)
          [] op \in {"OP_MULT", "OP_MULTU"} -> Multiply(i, c)
          [] op \in {"OP_NOR", "OP_OR", "OP_ORI"} -> Disjunction(i, c)
          [] op \in {"OP_SB", "OP_SH"} -> Store(i, c)
          [] op = "OP_SW" -> StoreWord(i, c)
          [] op \in {"OP_SLL", "OP_SLLV"} -> ShiftLeft(i, c)
          [] op \in {"OP_SLT", "OP_SLTI", "OP_SLTIU", "OP_SLTU"} -> SetLess(i, c)
          [] op \in {"OP_SRA", "OP_SRAV", "OP_SRL", "OP_SRLV"} -> ShiftRight(i, c)
          [] op \in {"OP_SUB", "OP_SUBU"} -> Subtract(i, c)
          [] op \in {"OP_SWL", "OP_SWR"} -> StoreUnaligned(i, c)
          [] op \in {"OP_XOR", "OP_XORI"} -> ExclusiveOr(i, c)
          [] op \in {"OP_SYSCALL", "OP_RES", "OP_UNIMP"} -> Trap(i, c)

-----------------------------------------------------------------------------
(* The loop of Machine::Run and the kernel's part.                          *)

Reg == GPReg \cup SpecialReg \cup {"LoadReg"}

\* Between two instructions of the first program: memory byte a holds a.  The
\* other programs have been forked and not started.
Init ==
    /\ registers \in StartRegs
    /\ mainMemory = [a \in 0 .. NumPhysPages * PageSize - 1 |-> a % 2^ByteBits]
    /\ tables \in StartTables
    /\ tlb = ("tlb" \in DOMAIN tables)
    /\ pageTable = IF tlb THEN "tlb" ELSE First
    /\ raised = "NoException"
    /\ instr = [opCode |-> "none"]
    /\ status = "UserMode"
    /\ steps = 0
    /\ currentThread = First
    /\ space = {First}
    /\ userRegisters = [u \in User |-> [x \in Reg |-> IF x = "LoadReg" THEN "r0" ELSE 0]]
    /\ resume = [u \in User |-> "starting"]

OneInstruction ==
    /\ status = "UserMode" /\ steps < MaxSteps
    /\ \E raw \in Raw :
         LET c == Execute(Decode(raw), Cpu)
         IN  /\ instr' = Decode(raw)
             /\ registers' = c.registers /\ mainMemory' = c.mainMemory
             /\ tables' = [tables EXCEPT ![pageTable] = c.entries]
             /\ raised' = c.raised
             /\ status' = CASE c.raised = "NoException" -> "UserMode"
                            [] c.raised = "Abort" -> "aborted"
                            [] OTHER -> "SystemMode"
    /\ steps' = steps + 1
    /\ UNCHANGED <<tlb, pageTable, threadVars>>

\* An interrupt after the instruction: CheckIfDue ends the pending load before
\* it calls the handler.
InterruptBetween ==
    /\ status = "UserMode"
    /\ registers.LoadReg # "r0"
    /\ registers' = DelayedLoad(registers, "r0", 0)
    /\ UNCHANGED <<mainMemory, tlb, tables, pageTable, raised, instr, status, steps,
                   threadVars>>

\* IncreatePC.
IncreatePC(r) ==
    [r EXCEPT !.PrevPCReg = r.PCReg, !.PCReg = r.NextPCReg,
              !.NextPCReg = Wrap(r.NextPCReg + 4)]

\* A system call returns: with a result in r2 and the program counters moved
\* on or, on the error paths that return early, with -1 and the counters left
\* alone.
SyscallReturn ==
    /\ status = "SystemMode" /\ raised = "SyscallException"
    /\ registers' \in {IncreatePC([registers EXCEPT !.r2 = 0]),
                       [registers EXCEPT !.r2 = 2^W - 1]}
    /\ raised' = "NoException" /\ status' = "UserMode"
    /\ UNCHANGED <<mainMemory, tlb, tables, pageTable, instr, steps, threadVars>>

\* Every other exception halts the machine.
HaltOnException ==
    /\ status = "SystemMode" /\ raised # "SyscallException"
    /\ status' = "halted"
    /\ UNCHANGED <<registers, mainMemory, tlb, tables, pageTable, raised, instr,
                   steps, threadVars>>

-----------------------------------------------------------------------------
(* Context switches.  The vm build, which has a TLB, sets Machine::pageTable *)
(* as well, which Translate refuses: programs are switched without a TLB.    *)

\* Mutant: the program counters, HiReg and LoReg are not saved.
SaveUserStateMutGP(t, r) ==
    [userRegisters EXCEPT ![t] = [x \in Reg |-> IF x \in GPReg THEN r[x] ELSE @[x]]]

SaveUserState(t, r) == [userRegisters EXCEPT ![t] = r]

RestoreUserState(t) == userRegisters[t]

\* AddrSpace::RestoreState: the machine uses the page table of t.
RestoreState(t) == t

InitRegisters(numPages) ==
    [x \in Reg |-> CASE x = "NextPCReg" -> 4
                     [] x = "r29" -> Wrap(numPages * PageSize - 16)
                     [] x = "LoadReg" -> "r0"
                     [] OTHER -> 0]

\* Scheduler::Run: a timer interrupt ends a time slice between two instructions,
\* after the pending load, or a thread gives up the CPU in the kernel.  steps
\* bounds the switches as well.
Run(t) ==
    /\ ~tlb /\ steps < MaxSteps /\ t # currentThread
    /\ \/ status \in {"UserMode", "starting"}
       \/ status = "SystemMode" /\ raised = "SyscallException"
    /\ LET r == IF status = "UserMode" THEN DelayedLoad(registers, "r0", 0)
                ELSE registers
       IN  /\ userRegisters' = IF currentThread \in space
                               THEN SaveUserState(currentThread, r) ELSE userRegisters
           /\ registers' = IF t \in space THEN RestoreUserState(t) ELSE r
    /\ pageTable' = IF t \in space THEN RestoreState(t) ELSE pageTable
    /\ currentThread' = t
    /\ resume' = [resume EXCEPT ![currentThread] = status]
    /\ status' = resume[t]
    /\ raised' = IF resume[t] = "SystemMode" THEN "SyscallException" ELSE "NoException"
    /\ UNCHANGED <<mainMemory, tlb, tables, instr, steps, space>>

\* StartProcessWithID, once AddrSpace is constructed.
StartProcessWithID ==
    /\ status = "starting"
    /\ space' = space \cup {currentThread}
    /\ registers' = InitRegisters(Cardinality(DOMAIN tables[currentThread]))
    /\ pageTable' = RestoreState(currentThread)
    /\ status' = "UserMode"
    /\ UNCHANGED <<mainMemory, tlb, tables, raised, instr, steps, currentThread,
                   userRegisters, resume>>

Next ==
    \/ OneInstruction \/ InterruptBetween \/ SyscallReturn \/ HaltOnException
    \/ \E t \in User : Run(t)
    \/ StartProcessWithID

Spec == Init /\ [][Next]_vars

-----------------------------------------------------------------------------
\* Registers hold words and memory bytes, r0 is 0 between two instructions
\* (DelayedLoad), and a pending load is for a general register.
TypeOK ==
    /\ DOMAIN registers = Reg
    /\ \A x \in GPReg \cup SpecialReg : registers[x] \in Word
    /\ registers.LoadReg \in GPReg
    /\ registers.r0 = 0
    /\ \A a \in DOMAIN mainMemory : mainMemory[a] \in Byte
    /\ \A t \in DOMAIN tables : \A k \in DOMAIN tables[t] :
           tables[t][k] \in TranslationEntry
    /\ instr.opCode \in OpCode \cup {"none"}
    /\ raised \in ExceptionType \cup {"Abort"}
    /\ status \in {"UserMode", "SystemMode", "starting", "halted", "aborted"}
    /\ currentThread \in User /\ space \subseteq User
    /\ steps \in 0 .. MaxSteps

\* The step executes an instruction.
Stepped == steps' = steps + 1

\* Division of a by b gives q and rem as C defines them.
Divides(a, b, q, rem) ==
    /\ a = q * b + rem
    /\ (IF rem < 0 THEN -rem ELSE rem) < (IF b < 0 THEN -b ELSE b)
    /\ rem # 0 => (rem < 0) = (a < 0)

\* Arithmetic is that of the integers: ADD, ADDI and SUB give the exact result
\* or raise OverflowException, never one without the other; MULT and MULTU give
\* the exact double-length product; DIV and DIVU the quotient rounded to zero
\* and its remainder (the overflow tests, Mult and the divisions of
\* OneInstruction).
ArithmeticExact ==
  [][Stepped /\ raised' \in {"NoException", "OverflowException"} =>
      LET i == instr'
          op == i.opCode
          a == registers[i.rs]
          b == IF op = "OP_ADDI" THEN i.extra ELSE registers[i.rt]
          dest == IF op = "OP_ADDI" THEN i.rt ELSE i.rd
          exact == IF op = "OP_SUB" THEN Signed(a) - Signed(b)
                   ELSE Signed(a) + Signed(b)
          hi == registers'.HiReg
          lo == registers'.LoReg
      IN  /\ op \in {"OP_ADD", "OP_ADDI", "OP_SUB"} =>
               IF exact \in -(2^(W - 1)) .. 2^(W - 1) - 1
               THEN /\ raised' = "NoException"
                    /\ dest \notin {"r0", registers.LoadReg} =>
                         Signed(registers'[dest]) = exact
               ELSE raised' = "OverflowException"
          /\ op = "OP_MULT" => Signed(hi) * 2^W + lo = Signed(a) * Signed(b)
          /\ op = "OP_MULTU" => hi * 2^W + lo = a * b
          /\ op = "OP_DIV" /\ b # 0 =>
               Divides(Signed(a), Signed(b), Signed(lo), Signed(hi))
          /\ op = "OP_DIVU" /\ b # 0 => Divides(a, b, lo, hi)]_vars

\* An instruction that raises an exception has done nothing: the program
\* counters, the memory and the registers are those before it, with the load
\* that was pending finished, so that the kernel can start it again
\* (RaiseException, and the early returns of OneInstruction).
PreciseExceptions ==
  [][Stepped /\ raised' \notin {"NoException", "Abort"} =>
       /\ [registers' EXCEPT !.BadVAddrReg = 0] =
            [DelayedLoad(registers, "r0", 0) EXCEPT !.BadVAddrReg = 0]
       /\ mainMemory' = mainMemory]_vars

\* The general registers an instruction names.  LWL and LWR may follow the load
\* they complete.
Uses(i) ==
    IF i.opCode \in {"OP_LWL", "OP_LWR"} THEN {i.rs}
    ELSE {i.rs, i.rt, i.rd} \cup
         (IF i.opCode \in {"OP_JAL", "OP_BGEZAL", "OP_BLTZAL"} THEN {"r31"}
          ELSE {})

Flush(c) == [c EXCEPT !.registers = DelayedLoad(@, "r0", 0)]

\* A program that keeps the target of a load out of the next instruction cannot
\* tell whether an interrupt came between the two: finishing the load early
\* (CheckIfDue's DelayedLoad(0, 0)) leads to the same registers and memory.
InterruptTransparent ==
  [][Stepped /\ registers.LoadReg \notin Uses(instr') =>
       Flush(Cpu)' = Flush(Execute(instr', Flush(Cpu)))]_vars

\* Memory changes only in frames of valid, writable entries, and their dirty
\* bits record every change since the program started (Translate, WriteMem).
DirtyCoversWrites ==
  /\ TypeOK
  /\ \A a \in DOMAIN mainMemory : mainMemory[a] # a % 2^ByteBits =>
        \E t \in DOMAIN tables : \E k \in DOMAIN tables[t] :
            LET e == tables[t][k]
            IN  /\ e.valid /\ ~e.readOnly /\ e.dirty
                /\ e.physicalPage = a \div PageSize

\* What program t can see of the machine: its registers, with no load pending,
\* and the contents of its pages.
View(t) ==
    LET pages == {k \in DOMAIN tables[t] :
                     tables[t][k].valid /\ tables[t][k].physicalPage < NumPhysPages}
    IN  [registers |-> DelayedLoad(IF t = currentThread THEN registers
                                   ELSE userRegisters[t], "r0", 0),
         pages |-> [k \in pages |->
                      [o \in 0 .. PageSize - 1 |->
                          mainMemory[tables[t][k].physicalPage * PageSize + o]]]]

\* Programs do not disturb each other: whatever a program does, wherever it is
\* interrupted, and while another one is being started, every program but the
\* one whose instruction is executed keeps its registers, the program counters
\* included, and its memory; and the switch itself changes nobody's
\* (Scheduler::Run, SaveUserState, RestoreUserState, RestoreState, Translate).
ProgramsIsolated ==
  [][\A t \in space : ~tlb /\ (t # currentThread \/ t # currentThread') =>
        View(t)' = View(t)]_vars

=============================================================================
