--------------------------- MODULE InOrderPipeline ---------------------------
(***************************************************************************)
(* The processor of -O1: pipelined_processor_advance (processor.cpp), five *)
(* stages that run once a cycle from the last to the first, on the caches  *)
(* of BlockingCaches.  An instruction is live in the latch that holds it   *)
(* until it is passed on; bubbles are not.                                 *)
(***************************************************************************)
EXTENDS InstructionSet, Sequences, FiniteSets

CONSTANTS
    L1_SETS, L2_SETS, ASSOC, L1_PENALTY, L2_PENALTY,
    TEXT_WORDS,             \* instructions in a block (a block has one data word)
    MAX_LENGTH,
    Programs, InitialData

\* Control stays in the text: no branch or jump leads past the word after it.
InText(p) ==
    \A k \in DOMAIN p :
        /\ p[k].op \in Branches => BranchTarget(p[k], Decode(p[k]), k - 1) \in 0 .. Len(p)
        /\ p[k].op \in JType \cup {"jr"} => p[k].imm <= Len(p)

\* Not assumed, but what some results are about: register 0 is an ordinary one
\* in regfile.h, and a program that never writes it, but with a Nop, keeps it 0.
KeepsZero(p) ==
    \A k \in DOMAIN p : Decode(p[k]).reg_write => p[k] = Nop \/ WriteReg(p[k], Decode(p[k])) # 0
\* What -O0 and -O1 do in the same way: jumps and narrow stores they do not.
Plain(p) == \A k \in DOMAIN p : p[k].op \notin JType \cup {"jr", "sb"}

ASSUME PipelineAssumption ==
    /\ {L1_SETS, L2_SETS, ASSOC, L1_PENALTY, L2_PENALTY, TEXT_WORDS} \subseteq Nat \ {0}
    /\ Programs \subseteq Seq(Instruction) /\ InitialData \in [Word -> Word]
    /\ MAX_LENGTH \in Nat /\ \A p \in Programs : Len(p) <= MAX_LENGTH /\ InText(p)

VARIABLES
    program,
    pc, R,                          \* regfile
    if_id, id_ex, ex_mem, mem_wb, mem_wb_prev,
    load_use_stall, memory_stall,
    pc_history,
    caches,
    stage,                          \* the stage of the cycle that is next
    refetched,                      \* history: an if_id was left for a second decode
    steady                          \* history: cycles since the last stall behind
                                    \* fetch or taken branch, up to 6

latches == <<if_id, id_ex, ex_mem, mem_wb, mem_wb_prev>>
stalls == <<load_use_stall, memory_stall>>
history == <<refetched, steady>>
vars == <<program, pc, R, latches, stalls, pc_history, caches, stage, history>>

\* Text and data do not share blocks.
TextBlock(at) == 2 * (at \div TEXT_WORDS)
DataBlock(addr) == 2 * addr + 1
Blocks == {DataBlock(a) : a \in Word} \cup {TextBlock(at) : at \in 0 .. MAX_LENGTH + 9}
Caches == INSTANCE BlockingCaches WITH Values <- Word
Memory == [b \in Blocks |-> IF b % 2 = 1 THEN InitialData[b \div 2] ELSE 0]

EmptyIF_ID == [pc |-> 0, instr |-> Nop, live |-> FALSE]
EmptyID_EX == [pc |-> 0, instr |-> Nop, control |-> NoControl,
               read_data_1 |-> 0, read_data_2 |-> 0, live |-> FALSE]
EmptyEX_MEM == [pc |-> 0, control |-> NoControl, alu_out |-> 0, write_data_mem |-> 0,
                write_reg |-> 0, live |-> FALSE]
EmptyMEM_WB == [control |-> NoControl, alu_out |-> 0, read_data_mem |-> 0, write_reg |-> 0]

HISTORY_Bug == 3
HISTORY == 6

Init ==
    /\ program \in Programs
    /\ pc = 0 /\ R = [r \in Reg |-> 0]
    /\ if_id = EmptyIF_ID /\ id_ex = EmptyID_EX /\ ex_mem = EmptyEX_MEM
    /\ mem_wb = EmptyMEM_WB /\ mem_wb_prev = EmptyMEM_WB
    /\ load_use_stall = FALSE /\ memory_stall = FALSE
    /\ pc_history = [k \in 1 .. HISTORY |-> 0]
    /\ caches = Caches!Cold(Memory)
    /\ stage = "writeback"
    /\ refetched = FALSE /\ steady = 0

----------------------------------------------------------------------------
(* (A definition whose name ends in _Bug is a plausible mistake in the one *)
(* that follows it, kept to show that some property notices.)              *)

\* getPC, and the loop in main.
Running == pc_history[1] <= Len(program)

Writes(latch) == latch.control.reg_write
ResultOf(latch) == IF latch.control.mem_read THEN latch.read_data_mem ELSE latch.alu_out

\* The snapshot for forwarding, and writeback_stage.
WritebackStage ==
    /\ stage = "writeback" /\ Running
    /\ mem_wb_prev' = mem_wb
    /\ R' = IF Writes(mem_wb) THEN [R EXCEPT ![mem_wb.write_reg] = ResultOf(mem_wb)] ELSE R
    /\ stage' = "memory"
    /\ UNCHANGED <<program, pc, if_id, id_ex, ex_mem, mem_wb, stalls, pc_history, caches,
                   history>>

\* memory_stage: every load and store reads first; a store that hit then writes
\* the whole word.
MemoryStage ==
    LET control == ex_mem.control
        accesses == control.mem_read \/ control.mem_write
        block == DataBlock(ex_mem.alu_out)
        read == IF accesses THEN Caches!Access(caches, block, Caches!NoValue)
                            ELSE {[to |-> caches, answers |-> TRUE]}
        word(h) == IF accesses THEN Caches!Presented(h, block) ELSE 0
        after(h) == IF control.mem_write
                      THEN {o.to : o \in Caches!Access(h, block, ex_mem.write_data_mem)}
                      ELSE {h}
    IN /\ stage = "memory" /\ stage' = "execute"
       /\ \E o \in read :
             \/ /\ ~o.answers
                /\ memory_stall' = TRUE
                /\ caches' = o.to
                /\ UNCHANGED <<ex_mem, mem_wb>>
             \/ /\ o.answers
                /\ memory_stall' = FALSE
                /\ caches' \in after(o.to)
                /\ mem_wb' = [control |-> control, alu_out |-> ex_mem.alu_out,
                              read_data_mem |-> IF control.byte THEN Narrow(word(o.to))
                                                                ELSE word(o.to),
                              write_reg |-> ex_mem.write_reg]
                /\ ex_mem' = [ex_mem EXCEPT !.live = FALSE]
       /\ UNCHANGED <<program, pc, R, if_id, id_ex, mem_wb_prev, load_use_stall, pc_history,
                      history>>

\* The operand from register r: from EX/MEM, else from the snapshot of MEM/WB,
\* else as decode_stage read it.
Forwarded_Bug(r, read_data) ==
    IF Writes(ex_mem) /\ ex_mem.write_reg # 0 /\ ex_mem.write_reg = r THEN ex_mem.alu_out
    ELSE IF Writes(mem_wb) /\ mem_wb.write_reg # 0 /\ mem_wb.write_reg = r
      THEN ResultOf(mem_wb)
    ELSE read_data
Forwarded(r, read_data) ==
    IF Writes(ex_mem) /\ ex_mem.write_reg # 0 /\ ex_mem.write_reg = r THEN ex_mem.alu_out
    ELSE IF Writes(mem_wb_prev) /\ mem_wb_prev.write_reg # 0 /\ mem_wb_prev.write_reg = r
      THEN ResultOf(mem_wb_prev)
    ELSE read_data

\* jump is looked at before jump_reg, so that jr does not get to its register.
Target(control, i, at, branch_taken, read_data_1) ==
    CASE branch_taken -> BranchTarget(i, control, at)
      [] ~branch_taken /\ control.jump -> i.imm
      [] OTHER -> read_data_1

\* execute_stage, with flush.
ExecuteStage ==
    LET i == id_ex.instr
        control == id_ex.control
        read_data_1 == Forwarded(i.rs, id_ex.read_data_1)
        read_data_2 == Forwarded(i.rt, id_ex.read_data_2)
        alu_result == ALUResult(i, control, read_data_1, read_data_2)
        branch_taken == control.branch /\ (control.bne <=> alu_result # 0)
        redirects == branch_taken \/ control.jump \/ control.jump_reg
    IN /\ stage = "execute" /\ stage' = "decode"
       /\ \/ /\ memory_stall
             /\ UNCHANGED <<pc, if_id, id_ex, ex_mem, steady>>
          \/ /\ ~memory_stall
             /\ ex_mem' = [pc |-> id_ex.pc, control |-> control, alu_out |-> alu_result,
                           write_data_mem |-> read_data_2, write_reg |-> WriteReg(i, control),
                           live |-> id_ex.live]
             /\ \/ /\ redirects
                   /\ pc' = Target(control, i, id_ex.pc, branch_taken, read_data_1)
                   /\ if_id' = EmptyIF_ID /\ id_ex' = EmptyID_EX
                   /\ steady' = 0
                \/ /\ ~redirects
                   /\ id_ex' = [id_ex EXCEPT !.live = FALSE]
                   /\ UNCHANGED <<pc, if_id, steady>>
       /\ UNCHANGED <<program, R, mem_wb, mem_wb_prev, stalls, pc_history, caches, refetched>>

LoadUse_Bug == id_ex.control.mem_read /\ id_ex.instr.rt = if_id.instr.rs
LoadUse == id_ex.control.mem_read /\ id_ex.instr.rt \in {if_id.instr.rs, if_id.instr.rt}

\* decode_stage
DecodeStage ==
    /\ stage = "decode" /\ stage' = "fetch"
    /\ \/ /\ memory_stall
          /\ UNCHANGED <<id_ex, load_use_stall>>
       \/ /\ ~memory_stall
          /\ load_use_stall' = LoadUse
          /\ id_ex' = IF LoadUse THEN EmptyID_EX
                      ELSE [pc |-> if_id.pc, instr |-> if_id.instr,
                            control |-> Decode(if_id.instr),
                            read_data_1 |-> R[if_id.instr.rs],
                            read_data_2 |-> R[if_id.instr.rt], live |-> if_id.live]
    /\ UNCHANGED <<program, pc, R, if_id, ex_mem, mem_wb, mem_wb_prev, memory_stall,
                   pc_history, caches, history>>

\* fetch_stage, and the end of the cycle.  A miss leaves in if_id what
\* decode_stage has just decoded.
FetchStage ==
    LET stalled == load_use_stall \/ memory_stall
    IN /\ stage = "fetch" /\ stage' = "writeback"
       /\ \/ /\ stalled
             /\ UNCHANGED <<pc, if_id, caches, refetched>>
          \/ /\ ~stalled
             /\ \E o \in Caches!Access(caches, TextBlock(pc), Caches!NoValue) :
                   /\ caches' = o.to
                   /\ pc' = IF o.answers THEN pc + 1 ELSE pc
                   /\ if_id' = IF o.answers
                                 THEN [pc |-> pc, instr |-> Fetch(program, pc), live |-> TRUE]
                                 ELSE if_id
                   /\ refetched' = (refetched \/ (~o.answers /\ if_id.live))
       /\ steady' = IF stalled THEN 0 ELSE IF steady < HISTORY THEN steady + 1 ELSE steady
       /\ pc_history' = [k \in 1 .. HISTORY |-> IF k < HISTORY THEN pc_history[k + 1] ELSE pc']
       /\ UNCHANGED <<program, R, id_ex, ex_mem, mem_wb, mem_wb_prev, stalls>>

\* main leaves its loop.
Halted == stage = "writeback" /\ ~Running /\ UNCHANGED vars

Next ==
    \/ WritebackStage \/ MemoryStage \/ ExecuteStage \/ DecodeStage \/ FetchStage
    \/ Halted

Spec == Init /\ [][Next]_vars

Stages == {"writeback", "memory", "execute", "decode", "fetch"}
\* Until main leaves its loop pipelined_processor_advance is called again, and no
\* stage waits.
StageEnds == Running /\ stage' \in Stages \ {stage}
FairSpec == Spec /\ WF_stage(StageEnds)
----------------------------------------------------------------------------
Control == {NoControl} \cup {Decode([Nop EXCEPT !.op = op]) : op \in Op}

(***************************************************************************)
(* Types of the variables.                                                 *)
(***************************************************************************)
TypeOK ==
    /\ program \in Programs /\ pc \in Nat /\ R \in [Reg -> Word]
    /\ if_id.instr \in Instruction /\ id_ex.instr \in Instruction
    /\ {id_ex.control, ex_mem.control, mem_wb.control} \subseteq Control
    /\ {id_ex.read_data_1, id_ex.read_data_2, ex_mem.alu_out, ex_mem.write_data_mem,
        mem_wb.alu_out, mem_wb.read_data_mem} \subseteq Word
    /\ {ex_mem.write_reg, mem_wb.write_reg} \subseteq Reg
    /\ load_use_stall \in BOOLEAN /\ memory_stall \in BOOLEAN
    /\ pc_history \in [1 .. HISTORY -> Nat]
    /\ caches \in Caches!Hierarchy
    /\ stage \in Stages /\ refetched \in BOOLEAN /\ steady \in 0 .. HISTORY

(***************************************************************************)
(* What the programmer sees: the registers with the write of MEM/WB done,  *)
(* memory through the caches, and the pc of the oldest instruction that    *)
(* has not passed memory_stage.  The reference stops past the end.         *)
(***************************************************************************)
ArchR == IF Writes(mem_wb) THEN [R EXCEPT ![mem_wb.write_reg] = ResultOf(mem_wb)] ELSE R
ArchMem == [a \in Word |-> Caches!Presented(caches, DataBlock(a))]
OldestPC ==
    CASE ex_mem.live -> ex_mem.pc
      [] ~ex_mem.live /\ id_ex.live -> id_ex.pc
      [] ~ex_mem.live /\ ~id_ex.live /\ if_id.live -> if_id.pc
      [] OTHER -> pc
ArchPC == IF OldestPC <= Len(program) THEN OldestPC ELSE Len(program) + 1
Reference == INSTANCE SingleCycle WITH pc <- ArchPC, R <- ArchR, mem <- ArchMem

\* The pipeline implements the single-cycle processor: forwarding, the load-use
\* stall, stalls of memory and flushes are invisible, in any combination.
RunsLikeSingleCycle == Reference!Spec

\* The same but for two things: what was left in if_id when fetch missed is
\* executed again, in its place, and after a line of L1 is invalidated that has
\* a newer word than L2 memory is no longer what it was.
RunsLikeSingleCycleOrRepeats ==
    [][\/ caches'.lost # {}
       \/ Reference!Advance
       \/ refetched /\ Reference!Repeat]_<<ArchPC, ArchR, ArchMem>>

\* When main leaves its loop, nothing of the program is on its way any more:
\* pc_history delays the pc by the pipeline's depth "so the main loop doesn't
\* exit before the pipeline drains" (processor.cpp).
ExitsDrained == ~Running => OldestPC >= Len(program)

\* It is so if the six cycles that pc_history spans had no taken branch and no
\* stall but those of fetch, and then the last result has reached the registers.
ExitsDrainedAtFullSpeed ==
    stage = "writeback" /\ ~Running /\ steady = HISTORY =>
        OldestPC >= Len(program) /\ R = ArchR

\* Both levels have room for what an access brings: a block that L1 holds L2
\* holds too, and the search for a line with replacement bits 0 always finds
\* one, though an invalidated line keeps its bits and does not count.
CachesKeepRoom == Caches!InclusiveIn(caches) /\ Caches!VictimsIn(caches)

\* No stall of memory_stage is for ever, though fetch_stage shares the caches'
\* one counter each, and resets what it left half done: it ends, unless main
\* leaves its loop before (ExitsDrained).
MemoryStallsEnd == memory_stall ~> ~memory_stall \/ ~Running
=============================================================================
