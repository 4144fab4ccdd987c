------------------------------ MODULE MCOOOCore ------------------------------
EXTENDS OOOCore

I(op, rs, rt, imm) == [op |-> op, rs |-> rs, rt |-> rt, rd |-> rt, imm |-> imm]
Back(n) == 2 ^ IMM_BITS - n
\* From 0, four of them give 0 again: loops have four turns.
Increment == I("addiu", 1, 1, 2)
\* Dependent instructions, a load that may be late, a store into what it loads, a
\* branch forward and a loop.
MCInstrs == {Increment, I("addu", 1, 2, 0), I("lw", 1, 2, 0), I("sw", 1, 2, 0),
             I("beq", 1, 2, 1), I("bne", 1, 2, Back(2))}
\* A loop with a second branch in it, taken in some turns only.
MCLoop == <<I("bne", 1, 0, Back(3))>>
\* A branch that wanders off the program would never come back.
InText(p) == \A k \in DOMAIN p :
    p[k].op \in Branches => BranchTarget(p[k], Decode(p[k]), k - 1) \in 0 .. Len(p)
\* Loads another word than those that follow.
LoadNext == I("lw", 1, 2, 1)
MCFirst == {Increment, LoadNext, I("sw", 1, 2, 0), I("beq", 1, 2, 1)}
\* Two stores of different data that the load could be answered from.
MCTwoStores == <<Increment, I("sw", 1, 2, 0), I("sw", 1, 1, 0), I("lw", 1, 2, 0)>>
\* A loop with a branch that is not taken in the first turn, and then is.
MCLateTaken == <<I("lw", 1, 2, 0), Increment, I("bne", 1, 2, Back(2))>> \o MCLoop
\* The other instructions, one at a time, on 3 in register 1 and 5 that a load
\* brings to register 2: with 0 for an operand, each has another result.
MCOperands == {<<I("addiu", 0, 1, 3), I("lw", 1, 2, 0), i>> :
    i \in {[op |-> op, rs |-> 1, rt |-> 2, rd |-> 1, imm |-> 0] : op \in {"subu", "or", "nor"}}
          \cup {[op |-> op, rs |-> 0, rt |-> 2, rd |-> 1, imm |-> 1] : op \in Shifts}
          \cup {I("and", 1, 2, 0), I("slti", 2, 1, 0), I("andi", 2, 1, 6), I("ori", 2, 1, 2),
                I("lui", 0, 1, 1),
                [op |-> "slt", rs |-> 2, rt |-> 0, rd |-> 1, imm |-> 0],
                [op |-> "slt", rs |-> 0, rt |-> 1, rd |-> 2, imm |-> 0]}}
MCPrograms ==
    {MCTwoStores, MCLateTaken} \cup MCOperands
    \cup {p \in {<<i>> \o q : i \in MCFirst, q \in [1 .. 2 -> MCInstrs]} \cup
               {<<LoadNext>> \o q \o MCLoop : q \in [1 .. 2 -> MCInstrs]} : InText(p)}
MCData == [a \in Word |-> (a + 2) % 2 ^ WORD_BITS]
=============================================================================
