----------------------------- MODULE SingleCycle -----------------------------
(***************************************************************************)
(* The reference: the processor of -O0, single_cycle_processor_advance     *)
(* (processor.cpp), with Memory::access as it is at level 0.  README.md    *)
(* says of it that it "was used to verify correctness for other            *)
(* optimization levels".                                                   *)
(*                                                                         *)
(* A data address counts from the end of the text, so that a program does  *)
(* not store into itself (stores into the text are a subject of            *)
(* LoadStoreQueue).                                                        *)
(***************************************************************************)
EXTENDS InstructionSet, Sequences

CONSTANTS
    Programs,       \* sequences of instructions
    InitialData     \* the data section

VARIABLES
    program,
    pc, R,          \* regfile
    mem             \* the data words of Memory::mem

vars == <<program, pc, R, mem>>

Init ==
    /\ program \in Programs
    /\ pc = 0 /\ R = [r \in Reg |-> 0] /\ mem = InitialData

\* The word a store leaves: sb and sh keep the upper bits of what was there.
Stored(control, old, data) ==
    IF control.byte THEN old - Narrow(old) + Narrow(data) ELSE data
\* The word a load gets: lbu and lhu mask it.
Loaded(control, word) == IF control.byte THEN Narrow(word) ELSE word

\* The branch condition; then jr, and j, whose target is always 0 since its
\* two masks have no bit in common.
NextPC(i, control, alu_zero) ==
    LET taken == \/ control.branch /\ ~control.bne /\ alu_zero
                 \/ control.bne /\ ~alu_zero
    IN CASE control.jump_reg -> R[i.rs]
         [] control.jump /\ ~control.jump_reg -> 0
         [] OTHER -> IF taken THEN BranchTarget(i, control, pc) ELSE pc + 1

\* What one instruction does to the registers and to memory.
Effect(i) ==
    LET control == Decode(i)
        alu_result == ALUResult(i, control, R[i.rs], R[i.rt])
        write_reg == IF control.link THEN LinkReg ELSE WriteReg(i, control)
        write_data == CASE control.link -> (pc + 3) % 2 ^ WORD_BITS
                        [] control.mem_to_reg -> Loaded(control, mem[alu_result])
                        [] OTHER -> alu_result
    IN /\ mem' = IF control.mem_write
                   THEN [mem EXCEPT ![alu_result] = Stored(control, @, R[i.rt])] ELSE mem
       /\ R' = IF control.reg_write THEN [R EXCEPT ![write_reg] = write_data] ELSE R
       /\ UNCHANGED program

\* The loop in main goes on while the pc is not past the end of the text.
Running == pc <= Len(program)

Advance ==
    LET i == Fetch(program, pc)
        control == Decode(i)
    IN /\ Running
       /\ Effect(i)
       /\ pc' = NextPC(i, control, ALUResult(i, control, R[i.rs], R[i.rt]) = 0)

Spec == Init /\ [][Advance]_vars

----------------------------------------------------------------------------
\* No step of this processor: the instruction at the pc done once too often.
Repeat == Running /\ Effect(Fetch(program, pc)) /\ UNCHANGED pc
=============================================================================
