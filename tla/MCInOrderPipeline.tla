-------------------------- MODULE MCInOrderPipeline --------------------------
EXTENDS InOrderPipeline

I(op, rs, rt, imm) == [op |-> op, rs |-> rs, rt |-> rt, rd |-> rt, imm |-> imm]
Back(n) == 2 ^ IMM_BITS - n
\* Dependent instructions, a load for every kind of load-use, a store into what
\* is loaded, a branch forward and a loop.
MCInstrs == {I("addiu", 1, 1, 1), I("addu", 1, 2, 0), I("lw", 1, 2, 0), I("lw", 2, 1, 1),
             I("sw", 1, 2, 1), I("beq", 1, 2, 1), I("bne", 1, 2, Back(2))}
\* The first word computes or loads; the others are different.
MCFirst == {I("addiu", 1, 1, 1), I("lw", 1, 2, 0)}
MCPrograms ==
    {p \in [1 .. 4 -> MCInstrs] :
        /\ p[1] \in MCFirst /\ p[2] # p[3] /\ p[2] # p[4] /\ p[3] # p[4]
        /\ InText(p)}
ASSUME MCProgramsAreOrdinary == \A p \in MCPrograms : KeepsZero(p) /\ Plain(p)
MCData == [a \in Word |-> (a + 2) % 2 ^ WORD_BITS]
=============================================================================
