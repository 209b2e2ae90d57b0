----------------------------- MODULE MCMipsSim -----------------------------
(***************************************************************************)
(* An instance of MipsSim for TLC: bytes of 2 bits, so words of 8 bits; four *)
(* frames of two words, two of each of the programs a and b.                *)
(***************************************************************************)
EXTENDS MipsSim, TLC

Fields(op, rs, rt) ==
    [op |-> op, funct |-> "OP_RES", cond |-> 0, rs |-> rs, rt |-> rt, rd |-> "r0",
     shamt |-> 0, imm |-> 0, target |-> 0]

Immediates == OpTable \ {"SPECIAL", "BCOND", "OP_J", "OP_JAL"}
Addressing == {"OP_BEQ", "OP_BNE", "OP_LB", "OP_LBU", "OP_LH", "OP_LHU", "OP_LW", "OP_LWL",
               "OP_LWR", "OP_SB", "OP_SH", "OP_SW", "OP_SWL", "OP_SWR"}

\* The immediate operand 15 is -1; loads, stores and branches also have 0.
MCRaw ==
    {[Fields(op, "r1", "r2") EXCEPT !.imm = 15] : op \in Immediates}
    \cup {Fields(op, "r1", "r2") : op \in Addressing}
    \cup {[Fields("OP_ADDI", "r31", "r31") EXCEPT !.imm = 4]}
    \cup {[Fields("SPECIAL", "r1", "r2") EXCEPT !.funct = f, !.rd = "r2", !.shamt = 3] :
            f \in SpecialTable}
    \cup {[Fields("SPECIAL", "r1", "r2") EXCEPT !.funct = f, !.rd = d] :
            f \in {"OP_ADD", "OP_MFLO", "OP_JALR"}, d \in {"r0", "r31"}}
    \cup {[Fields("BCOND", "r1", "r0") EXCEPT !.cond = n, !.imm = 2] :
            n \in {0, 1, 16, 17, 2}}
    \cup {[Fields(op, "r0", "r0") EXCEPT !.target = 2] : op \in {"OP_J", "OP_JAL"}}

\* r1 and r2 hold small and extreme values, and addresses in each page.
MCStartRegs ==
    {[x \in Reg |->
        CASE x = "r1" -> p[1] [] x = "r2" -> p[2] [] x = "LoadReg" -> "r0"
          [] x = "NextPCReg" -> 4 [] OTHER -> 0] :
        p \in {<<0, 255>>, <<128, 255>>, <<8, 127>>, <<16, 3>>, <<24, 0>>, <<3, 251>>}}

Entry(page, frame, isValid, isReadOnly) ==
    [virtualPage |-> page, physicalPage |-> frame, valid |-> isValid,
     readOnly |-> isReadOnly, use |-> FALSE, dirty |-> FALSE]

\* Page tables, the first of which has a page that is not valid and one beyond
\* memory, or a TLB that maps page 0 read-only and page 1 in its third entry.
MCStartTables ==
    {("a" :> ((0 :> Entry(0, 1, TRUE, FALSE)) @@ (1 :> Entry(1, 0, TRUE, FALSE))
            @@ (2 :> Entry(2, 0, FALSE, FALSE)) @@ (3 :> Entry(3, 7, TRUE, FALSE))))
     @@ ("b" :> ((0 :> Entry(0, 3, TRUE, FALSE)) @@ (1 :> Entry(1, 2, TRUE, FALSE)))),
     "tlb" :> ((0 :> Entry(0, 0, TRUE, TRUE)) @@ (1 :> Entry(1, 0, FALSE, FALSE))
               @@ (2 :> Entry(1, 1, TRUE, FALSE)) @@ (3 :> Entry(1, 0, TRUE, FALSE)))}

=============================================================================
