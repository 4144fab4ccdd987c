--------------------------- MODULE InstructionSet ---------------------------
(***************************************************************************)
(* What the three processors share: control_t::decode (control.h) and the  *)
(* ALU (ALU.h).                                                            *)
(*                                                                         *)
(* An instruction is its name and its fields.  The fields that overlap in  *)
(* the word (shamt, the 16-bit immediate, the 26-bit address) are one      *)
(* field imm of IMM_BITS bits; registers have WORD_BITS bits.  Addresses,  *)
(* the pc and branch offsets count words.  The halfword and the byte       *)
(* accesses are one kind of narrow access, of the low IMM_BITS bits.       *)
(***************************************************************************)
EXTENDS Integers

CONSTANTS
    WORD_BITS, IMM_BITS,
    REGISTERS               \* the number of architectural registers

ASSUME WidthAssumption ==
    /\ WORD_BITS \in Nat /\ IMM_BITS \in Nat \ {0} /\ IMM_BITS <= WORD_BITS
    /\ REGISTERS \in Nat \ {0}

Word == 0 .. 2 ^ WORD_BITS - 1
Imm == 0 .. 2 ^ IMM_BITS - 1
Reg == 0 .. REGISTERS - 1
LinkReg == REGISTERS - 1

Shifts == {"sll", "srl"}
RType == {"addu", "subu", "and", "or", "nor", "slt", "jr"} \cup Shifts
JType == {"j", "jal"}
Branches == {"beq", "bne"}
LoadOps == {"lw", "lbu"}
StoreOps == {"sw", "sb"}
ImmediateOps == {"addiu", "slti", "andi", "ori", "lui"}
Op == RType \cup JType \cup Branches \cup LoadOps \cup StoreOps \cup ImmediateOps

Instruction == [op : Op, rs : Reg, rt : Reg, rd : Reg, imm : Imm]
\* The word 0, which memory holds where nothing was loaded, is sll $0, $0, 0.
Nop == [op |-> "sll", rs |-> 0, rt |-> 0, rd |-> 0, imm |-> 0]

----------------------------------------------------------------------------
(* control_t                                                               *)

NoControl == [reg_dest |-> FALSE, jump |-> FALSE, jump_reg |-> FALSE, link |-> FALSE,
              shift |-> FALSE, branch |-> FALSE, bne |-> FALSE, mem_read |-> FALSE,
              mem_to_reg |-> FALSE, ALU_op |-> 0, mem_write |-> FALSE, byte |-> FALSE,
              ALU_src |-> FALSE, reg_write |-> FALSE, zero_extend |-> FALSE]

\* decode
Decode(i) ==
    [reg_dest |-> i.op \in RType \ {"jr"},
     jump |-> i.op \in JType \cup {"jr"},
     jump_reg |-> i.op = "jr",
     link |-> i.op = "jal",
     shift |-> i.op \in Shifts,
     branch |-> i.op \in Branches,
     bne |-> i.op = "bne",
     mem_read |-> i.op \in LoadOps,
     mem_to_reg |-> i.op \in LoadOps,
     ALU_op |-> CASE i.op \in RType \ {"jr"} -> 2
                  [] i.op \in Branches -> 1
                  [] i.op \in ImmediateOps -> 3
                  [] OTHER -> 0,
     mem_write |-> i.op \in StoreOps,
     byte |-> i.op \in {"lbu", "sb"},
     ALU_src |-> i.op \in LoadOps \cup StoreOps \cup ImmediateOps,
     reg_write |-> i.op \in (RType \ {"jr"}) \cup {"jal"} \cup LoadOps \cup ImmediateOps,
     zero_extend |-> i.op \in {"andi", "ori"}]

----------------------------------------------------------------------------
(* ALU                                                                     *)

\* The immediate, sign- or zero-extended to a word.
Extended(i, control) ==
    IF ~control.zero_extend /\ i.imm >= 2 ^ (IMM_BITS - 1)
      THEN i.imm + 2 ^ WORD_BITS - 2 ^ IMM_BITS ELSE i.imm

Signed(v) == IF v >= 2 ^ (WORD_BITS - 1) THEN v - 2 ^ WORD_BITS ELSE v
Narrow(v) == v % 2 ^ IMM_BITS

\* generate_control_inputs
ALUControl(ALU_op, op) ==
    CASE ALU_op = 0 -> "add"
      [] ALU_op = 1 -> "sub"
      [] OTHER -> CASE op \in {"sll", "srl", "lui", "nor"} -> op
                    [] op = "subu" -> "sub"
                    [] op \in {"and", "andi"} -> "and"
                    [] op \in {"or", "ori"} -> "or"
                    [] op \in {"slt", "slti"} -> "slt"
                    [] OTHER -> "add"

Bit(v, k) == (v \div 2 ^ k) % 2
OnesOf(v) == {k \in 0 .. WORD_BITS - 1 : Bit(v, k) = 1}
WithOnes(S) == CHOOSE v \in Word : OnesOf(v) = S

\* execute
ALU(inputs, a, b) ==
    CASE inputs = "and" -> WithOnes(OnesOf(a) \cap OnesOf(b))
      [] inputs = "or"  -> WithOnes(OnesOf(a) \cup OnesOf(b))
      [] inputs = "nor" -> WithOnes((0 .. WORD_BITS - 1) \ (OnesOf(a) \cup OnesOf(b)))
      [] inputs = "sll" -> (b * 2 ^ a) % 2 ^ WORD_BITS
      [] inputs = "srl" -> b \div 2 ^ a
      [] inputs = "lui" -> (b * 2 ^ IMM_BITS) % 2 ^ WORD_BITS
      [] inputs = "sub" -> (a - b) % 2 ^ WORD_BITS
      [] inputs = "slt" -> IF Signed(a) < Signed(b) THEN 1 ELSE 0
      [] OTHER -> (a + b) % 2 ^ WORD_BITS

\* What each processor does with the operands it has read.
ALUResult(i, control, read_data_1, read_data_2) ==
    ALU(ALUControl(control.ALU_op, i.op),
        IF control.shift THEN i.imm ELSE read_data_1,
        IF control.ALU_src THEN Extended(i, control) ELSE read_data_2)

\* pc + 4 + (imm << 2)
BranchTarget(i, control, pc) == pc + 1 + Signed(Extended(i, control))
WriteReg(i, control) == IF control.reg_dest THEN i.rd ELSE i.rt

\* The word at pc; past the text there are zeros.
Fetch(program, pc) == IF pc + 1 \in DOMAIN program THEN program[pc + 1] ELSE Nop
=============================================================================
