------------------------------- MODULE OOOCore -------------------------------
(***************************************************************************)
(* The core of -O2 as a whole, from fetch to commit (processorOOO.cpp,     *)
(* branch_predictor.h, instruction_queue.cpp, functional_units.h): what    *)
(* the program computes, with branch prediction, out-of-order execution    *)
(* and squashes.                                                           *)
(*                                                                         *)
(* The instructions renamed and not committed are one sequence, window, in *)
(* program order; an entry stands for the instruction wherever it is       *)
(* (instruction queue, unit, MSHR, reorder buffer), a sequence number is a *)
(* position in it, and a physical register is the position of its producer *)
(* or 0 once that has committed.  RenameROB shows that registers and       *)
(* reorder buffer do implement this, and LoadStoreQueue how the two queues *)
(* of loads and stores follow the window.  Data are not part of the text   *)
(* and the caches, the subject of MemoryHierarchy, miss when they like.    *)
(***************************************************************************)
EXTENDS InstructionSet, Sequences, FiniteSets

CONSTANTS
    PIPELINE_WIDTH, NUM_ALUS, REORDER_BUFFER_SIZE, INSTRUCTION_QUEUE_SIZE,
    LOAD_QUEUE_SIZE, STORE_QUEUE_SIZE, NUM_PHYSICAL_REGISTERS, NUM_MSHRS, BTB_BITS,
    Programs, InitialData

IsControlTransfer(i) ==
    LET control == Decode(i) IN control.branch \/ control.jump \/ control.jump_reg

\* Nothing loads into register 0, and no transfer leads below address 0: the
\* addresses of the model do not wrap, as those of the code do at 2^32.
ASSUME CoreAssumption ==
    /\ {PIPELINE_WIDTH, NUM_ALUS, REORDER_BUFFER_SIZE, INSTRUCTION_QUEUE_SIZE, NUM_MSHRS,
        LOAD_QUEUE_SIZE, STORE_QUEUE_SIZE} \subseteq Nat \ {0}
    /\ NUM_PHYSICAL_REGISTERS \in Nat /\ NUM_PHYSICAL_REGISTERS > REGISTERS
    /\ BTB_BITS \in Nat
    /\ Programs \subseteq Seq(Instruction) /\ InitialData \in [Word -> Word]
    /\ \A p \in Programs : \A k \in DOMAIN p :
          /\ p[k].op \in LoadOps => p[k].rt # 0
          /\ IsControlTransfer(p[k]) => BranchTarget(p[k], Decode(p[k]), k - 1) \in Nat

VARIABLES
    program,
    pc,                     \* prf.pc
    R,                      \* the committed values of the architectural registers
    if_id_buffer, id_rn_buffer,
    window,
    committed_stores,       \* the head of the store queue: what has not drained yet
    mem,
    btb,
    squash,                 \* squash_pending, squash_seq, squash_target_pc
    num_commited,           \* in this cycle
    stage                   \* the stage of the cycle that is next

buffers == <<if_id_buffer, id_rn_buffer>>
memory == <<committed_stores, mem>>
vars == <<program, pc, R, buffers, window, memory, btb, squash, num_commited, stage>>

Slots == 1 .. PIPELINE_WIDTH
EmptySlot == [in_use |-> FALSE, pc |-> 0, instr |-> Nop, branch_taken |-> FALSE]
EmptyBuffer == [s \in Slots |-> EmptySlot]
BTBIndex == 0 .. 2 ^ BTB_BITS - 1
NoSquash == [pending |-> FALSE, seq |-> 0, target |-> 0]

Init ==
    /\ program \in Programs
    /\ pc = 0 /\ R = [r \in Reg |-> 0]
    /\ if_id_buffer = EmptyBuffer /\ id_rn_buffer = EmptyBuffer
    /\ window = <<>>
    /\ committed_stores = <<>> /\ mem = InitialData
    /\ btb = [i \in BTBIndex |-> [valid |-> FALSE, tag |-> 0, target |-> 0,
                                  bimodal_counter |-> 0]]
    /\ squash = NoSquash /\ num_commited = 0
    /\ stage = "commit"

First(S) == CHOOSE k \in S : \A j \in S : k <= j
Last(S) == CHOOSE k \in S : \A j \in S : j <= k
InState(state) == {k \in DOMAIN window : window[k].state = state}
InWindow(ops) == {k \in DOMAIN window : window[k].instr.op \in ops}
----------------------------------------------------------------------------
(* BranchPredictor                                                         *)
(* (A definition whose name ends in _Bug is a plausible mistake in the one *)
(* that follows it, kept to show that some property notices.)              *)

EntryOf(at) == btb[at % 2 ^ BTB_BITS]
Tag(at) == at \div 2 ^ BTB_BITS
IsBranch(at) == EntryOf(at).valid /\ EntryOf(at).tag = Tag(at)
Predict(at) == EntryOf(at).bimodal_counter >= 2
TargetMatch(at, target) == IsBranch(at) /\ EntryOf(at).target = target

TrainedTarget_Bug(taken, at, target) == EntryOf(at).target
TrainedTarget(taken, at, target) == IF taken THEN target ELSE EntryOf(at).target
Counted_Bug(taken, counter) == IF taken THEN counter + 1 ELSE counter - 1
\* The two-bit counter saturates at both ends.
Counted(taken, counter) ==
    CASE taken /\ counter < 3 -> counter + 1
      [] ~taken /\ counter > 0 -> counter - 1
      [] OTHER -> counter
\* update
Trained(taken, at, target) ==
    LET known == [EntryOf(at) EXCEPT
                    !.bimodal_counter = Counted(taken, @),
                    !.target = TrainedTarget(taken, at, target)]
        new == [valid |-> TRUE, tag |-> Tag(at), target |-> target,
                bimodal_counter |-> IF taken THEN 2 ELSE 1]
    IN [btb EXCEPT ![at % 2 ^ BTB_BITS] = IF IsBranch(at) THEN known ELSE new]

----------------------------------------------------------------------------
(* The front end.                                                          *)

InUse(buffer) == {s \in Slots : buffer[s].in_use}
Compact_Bug(buffer) == buffer
\* What both stages do first: the slots in use go to the low indices, in order.
Compact(buffer) ==
    LET nth(n) == {s \in InUse(buffer) : Cardinality({t \in InUse(buffer) : t <= s}) = n}
    IN [n \in Slots |-> IF nth(n) = {} THEN EmptySlot ELSE buffer[First(nth(n))]]
Free(buffer) == Slots \ InUse(buffer)

\* fetch_stage: one turn of its loop, and its end.  It ends at a branch the BTB
\* knows, when the buffer is full, past the end, or, at any time, at a miss.
FetchOne ==
    LET buffer == Compact(if_id_buffer)
        taken == IsBranch(pc) /\ Predict(pc)
    IN /\ stage = "fetch"
       /\ Free(buffer) # {} /\ pc < Len(program)
       /\ if_id_buffer' = [buffer EXCEPT ![First(Free(buffer))] =
                             [in_use |-> TRUE, pc |-> pc, instr |-> Fetch(program, pc),
                              branch_taken |-> taken]]
       /\ pc' = IF taken THEN EntryOf(pc).target ELSE pc + 1
       /\ stage' = IF IsBranch(pc) THEN "commit" ELSE "fetch"
       /\ UNCHANGED <<program, R, id_rn_buffer, window, memory, btb, squash, num_commited>>

FetchStageEnds ==
    /\ stage = "fetch" /\ stage' = "commit"
    /\ if_id_buffer' = Compact(if_id_buffer)
    /\ UNCHANGED <<program, pc, R, id_rn_buffer, window, memory, btb, squash, num_commited>>

\* decode_stage: one turn of its loop, and its end.
DecodeOne ==
    LET from == Compact(if_id_buffer)
        to == Compact(id_rn_buffer)
    IN /\ stage = "decode"
       /\ Free(to) # {} /\ InUse(from) # {}
       /\ id_rn_buffer' = [to EXCEPT ![First(Free(to))] = from[First(InUse(from))]]
       /\ if_id_buffer' = [from EXCEPT ![First(InUse(from))] = EmptySlot]
       /\ UNCHANGED <<program, pc, R, window, memory, btb, squash, num_commited, stage>>

DecodeStageEnds ==
    /\ stage = "decode" /\ stage' = "fetch"
    /\ Free(id_rn_buffer) = {} \/ InUse(if_id_buffer) = {}
    /\ id_rn_buffer' = Compact(id_rn_buffer) /\ if_id_buffer' = Compact(if_id_buffer)
    /\ UNCHANGED <<program, pc, R, window, memory, btb, squash, num_commited>>

----------------------------------------------------------------------------
(* Renaming, the instruction queue and the units.                          *)

\* update_reg_src_usage
ReadsRs_Bug(i) == i.op \notin Shifts \cup JType \cup {"lui", "andi", "ori"}
ReadsRs(i) == i.op \notin Shifts \cup JType \cup {"lui"}
ReadsRt_Bug(i) == i.op \in (RType \ ({"jr"} \cup Shifts)) \cup Branches \cup StoreOps
ReadsRt(i) == i.op \in (RType \ {"jr"}) \cup Branches \cup StoreOps

Dest(i) == WriteReg(i, Decode(i))
WritesReg(i) == Decode(i).reg_write /\ Dest(i) # 0

\* get_mapping: the youngest instruction that writes r.
Mapping(r) ==
    LET producers == {k \in DOMAIN window : WritesReg(window[k].instr) /\ Dest(window[k].instr) = r}
    IN IF producers = {} THEN 0 ELSE Last(producers)
\* The ready bit of a physical register.
PRFReady_Bug(reg) == reg = 0
PRFReady(reg) == reg = 0 \/ window[reg].state = "done"

FreeRegisters == NUM_PHYSICAL_REGISTERS - REGISTERS
                   - Cardinality({k \in DOMAIN window : WritesReg(window[k].instr)})

\* rename_stage: one turn of its loop, and its end.
Renamable ==
    /\ InUse(id_rn_buffer) # {}
    /\ Len(window) < REORDER_BUFFER_SIZE
    /\ Cardinality(InState("queued")) < INSTRUCTION_QUEUE_SIZE
    /\ LET i == id_rn_buffer[First(InUse(id_rn_buffer))].instr
       IN /\ WritesReg(i) => FreeRegisters > 0
          /\ i.op \in LoadOps => Cardinality(InWindow(LoadOps)) < LOAD_QUEUE_SIZE
          /\ i.op \in StoreOps =>
                Cardinality(InWindow(StoreOps)) + Len(committed_stores) < STORE_QUEUE_SIZE

RenameOne ==
    LET slot == First(InUse(id_rn_buffer))
        id_rn == id_rn_buffer[slot]
        i == id_rn.instr
        rs == IF ReadsRs(i) THEN Mapping(i.rs) ELSE 0
        rt == IF ReadsRt(i) THEN Mapping(i.rt) ELSE 0
    IN /\ stage = "rename" /\ Renamable
       /\ window' = Append(window,
            [pc |-> id_rn.pc, instr |-> i, branch_taken |-> id_rn.branch_taken,
             state |-> "queued", rs |-> rs, rt |-> rt, rs_ready |-> PRFReady(rs),
             rt_ready |-> PRFReady(rt), addr |-> 0, value |-> 0])
       /\ id_rn_buffer' = [id_rn_buffer EXCEPT ![slot] = EmptySlot]
       /\ UNCHANGED <<program, pc, R, if_id_buffer, memory, btb, squash, num_commited, stage>>

RenameStageEnds ==
    /\ stage = "rename" /\ stage' = "decode"
    /\ ~Renamable
    /\ UNCHANGED <<program, pc, R, buffers, window, memory, btb, squash, num_commited>>

\* has_unresolved_earlier_store
Unresolved(k) == {j \in InWindow(StoreOps) : j < k /\ window[j].state \in {"queued", "unit"}}
\* dispatch_stage: the oldest that is ready, as long as a unit is free.
Ready == {k \in InState("queued") :
            /\ window[k].rs_ready /\ window[k].rt_ready
            /\ k \in InWindow(LoadOps) => Unresolved(k) = {}}
Dispatchable == Ready # {} /\ Cardinality(InState("unit")) < NUM_ALUS

DispatchOne ==
    /\ stage = "dispatch" /\ Dispatchable
    /\ window' = [window EXCEPT ![First(Ready)].state = "unit"]
    /\ UNCHANGED <<program, pc, R, buffers, memory, btb, squash, num_commited, stage>>

DispatchStageEnds ==
    /\ stage = "dispatch" /\ stage' = "rename"
    /\ ~Dispatchable
    /\ UNCHANGED <<program, pc, R, buffers, window, memory, btb, squash, num_commited>>

\* prf.read: what the producer wrote, or the register's committed value.  An
\* operand that is not read is that of physical register 0, which holds 0.
Operand(reads, reg, r) ==
    CASE ~reads -> 0
      [] reads /\ reg = 0 -> R[r]
      [] OTHER -> window[reg].value

\* try_forward, for the load at k: the youngest store before it with its address
\* and size, the committed ones being the oldest.
Forwarding(k, addr) ==
    {j \in InWindow(StoreOps) : /\ j < k /\ j \notin Unresolved(k) /\ window[j].addr = addr
                                /\ Decode(window[j].instr).byte = Decode(window[k].instr).byte}
ForwardingCommitted(k, addr) ==
    {j \in DOMAIN committed_stores : /\ committed_stores[j].addr = addr
                                     /\ committed_stores[j].byte = Decode(window[k].instr).byte}
Forwarded(k, addr) ==
    IF Forwarding(k, addr) # {} THEN window[Last(Forwarding(k, addr))].value
                                ELSE committed_stores[Last(ForwardingCommitted(k, addr))].data
Forwards(k, addr) == Forwarding(k, addr) # {} \/ ForwardingCommitted(k, addr) # {}

\* The target and the direction of a control transfer.  control.branch is not
\* looked at: a jump whose operands give 0 goes to the branch target.
TargetOf(e, control, branch_taken, read_data_1) ==
    CASE branch_taken -> BranchTarget(e.instr, control, e.pc)
      [] ~branch_taken /\ control.jump -> e.instr.imm
      [] ~branch_taken /\ ~control.jump /\ control.jump_reg -> read_data_1
      [] OTHER -> e.pc + 1

\* (as in the code that is commented out, from before there was a predictor)
Mispredicted_Bug(e, taken, target) == taken
Mispredicted(e, taken, target) == taken # e.branch_taken \/ ~TargetMatch(e.pc, target)

Requested_Bug(seq, target) == [pending |-> TRUE, seq |-> seq, target |-> target]
\* The oldest misprediction of the cycle counts.
Requested(seq, target) ==
    IF ~squash.pending \/ seq < squash.seq
      THEN [pending |-> TRUE, seq |-> seq, target |-> target] ELSE squash

\* execute_stage, one unit.  Those that were dispatched together are in program
\* order; a load that found no MSHR, which keeps its unit and tries again in the
\* next cycle, may come in any order, for all that the others see of it.
ExecuteOne ==
    LET k == First(InState("unit"))
        e == window[k]
        control == Decode(e.instr)
        read_data_1 == Operand(ReadsRs(e.instr), e.rs, e.instr.rs)
        read_data_2 == Operand(ReadsRt(e.instr), e.rt, e.instr.rt)
        alu_result == ALUResult(e.instr, control, read_data_1, read_data_2)
        branch_taken == control.bne <=> alu_result # 0
        transfers == IsControlTransfer(e.instr)
        target == TargetOf(e, control, branch_taken, read_data_1)
        taken == branch_taken \/ control.jump \/ control.jump_reg
        becomes(state, v) == [window EXCEPT ![k].state = state, ![k].addr = alu_result,
                                            ![k].value = v]
    IN /\ stage = "execute" /\ InState("unit") # {}
       /\ \/ /\ ~control.mem_read /\ ~control.mem_write
             /\ window' = [window EXCEPT ![k].state = "result", ![k].value = alu_result]
          \/ /\ control.mem_write
             /\ window' = becomes("result", read_data_2)
          \/ /\ control.mem_read /\ Forwards(k, alu_result)
             /\ window' = becomes("result", Forwarded(k, alu_result))
          \/ /\ control.mem_read /\ ~Forwards(k, alu_result)
             /\ \/ window' = becomes("result", mem[alu_result])
                \/ window' = becomes("mshr", 0)
                \/ /\ Cardinality(InState("mshr")) >= NUM_MSHRS
                   /\ window' = becomes("retry", 0)
       /\ \/ /\ transfers
             /\ btb' = Trained(taken, e.pc, target)
             /\ squash' = IF Mispredicted(e, taken, target) THEN Requested(k, target) ELSE squash
          \/ ~transfers /\ UNCHANGED <<btb, squash>>
       /\ UNCHANGED <<program, pc, R, buffers, memory, num_commited, stage>>

\* The end of execute_stage, with perform_squash.
ExecuteStageEnds ==
    /\ stage = "execute" /\ stage' = "dispatch"
    /\ InState("unit") = {}
    /\ window' = [k \in 1 .. IF squash.pending THEN squash.seq ELSE Len(window) |->
                    [window[k] EXCEPT !.state = IF @ = "retry" THEN "unit" ELSE @]]
    /\ \/ /\ squash.pending
          /\ if_id_buffer' = EmptyBuffer /\ id_rn_buffer' = EmptyBuffer
          /\ pc' = squash.target
          /\ squash' = NoSquash
       \/ ~squash.pending /\ UNCHANGED <<buffers, pc, squash>>
    /\ UNCHANGED <<program, R, btb, memory, num_commited>>

\* prf.write, iq.broadcast_ready and rob.set_ready for the producers in done.
Wakes_Bug(e, done) == e.state = "queued" /\ e.rs \in done
Wakes(e, done) == e.state = "queued"
Broadcast(done) ==
    [k \in DOMAIN window |->
       IF k \in done THEN [window[k] EXCEPT !.state = "done"]
       ELSE IF Wakes(window[k], done)
         THEN [window[k] EXCEPT !.rs_ready = @ \/ window[k].rs \in done,
                                !.rt_ready = @ \/ window[k].rt \in done]
       ELSE window[k]]

\* evict_commited_stores: the oldest stores of queue q reach memory in order,
\* until one misses.  (A narrow one writes the whole register, too.)
DrainedTo(q, a) == {j \in DOMAIN q : q[j].addr = a}
After(q) == [a \in Word |-> IF DrainedTo(q, a) = {} THEN mem[a] ELSE q[Last(DrainedTo(q, a))].data]
Drain(q) ==
    \E count \in 0 .. Len(q) :
        /\ mem' = After(SubSeq(q, 1, count))
        /\ committed_stores' = SubSeq(q, count + 1, Len(q))

\* memory_stage: the response to a load that waits in an MSHR, which reads the
\* word only now, and the end, where stores drain.
Response(k) ==
    /\ stage = "memory" /\ k \in InState("mshr")
    /\ window' = [Broadcast({k}) EXCEPT ![k].value = mem[window[k].addr]]
    /\ UNCHANGED <<program, pc, R, buffers, memory, btb, squash, num_commited, stage>>

MemoryStageEnds ==
    /\ stage = "memory" /\ stage' = "execute"
    /\ Drain(committed_stores)
    /\ UNCHANGED <<program, pc, R, buffers, window, btb, squash, num_commited>>

WritebackStage ==
    /\ stage = "writeback" /\ stage' = "memory"
    /\ window' = Broadcast(InState("result"))
    /\ UNCHANGED <<program, pc, R, buffers, memory, btb, squash, num_commited>>

\* commit_stage: one turn of its loop, and its end.
Committable == /\ num_commited < PIPELINE_WIDTH
               /\ window # <<>> /\ Head(window).state = "done"

CommitOne ==
    LET e == Head(window)
        shifted(reg) == IF reg = 0 THEN 0 ELSE reg - 1
    IN /\ stage = "commit" /\ Committable
       /\ R' = IF WritesReg(e.instr) THEN [R EXCEPT ![Dest(e.instr)] = e.value] ELSE R
       /\ window' = [k \in 1 .. Len(window) - 1 |->
                       [window[k + 1] EXCEPT !.rs = shifted(@), !.rt = shifted(@)]]
       /\ Drain(IF e.instr.op \in StoreOps
                  THEN Append(committed_stores, [addr |-> e.addr, data |-> e.value,
                                                 byte |-> Decode(e.instr).byte])
                  ELSE committed_stores)
       /\ num_commited' = num_commited + 1
       /\ UNCHANGED <<program, pc, buffers, btb, squash, stage>>

\* getPC: the loop in main ends when nothing is left anywhere.
Drained == /\ pc >= Len(program) /\ window = <<>> /\ committed_stores = <<>>
           /\ InUse(if_id_buffer) = {} /\ InUse(id_rn_buffer) = {}

\* main calls advance again: a cycle is under way, or getPC is not past the end.
Running == stage # "commit" \/ num_commited > 0 \/ ~Drained

CommitStageEnds ==
    /\ stage = "commit" /\ stage' = "writeback"
    /\ ~Committable
    /\ Running
    /\ num_commited' = 0
    /\ UNCHANGED <<program, pc, R, buffers, window, memory, btb, squash>>

Halted == ~Running /\ UNCHANGED vars

Next ==
    \/ FetchOne \/ FetchStageEnds \/ DecodeOne \/ DecodeStageEnds
    \/ RenameOne \/ RenameStageEnds \/ DispatchOne \/ DispatchStageEnds
    \/ ExecuteOne \/ ExecuteStageEnds
    \/ \E k \in DOMAIN window : Response(k)
    \/ MemoryStageEnds \/ WritebackStage
    \/ CommitOne \/ CommitStageEnds \/ Halted

Spec == Init /\ [][Next]_vars

Stages == {"commit", "writeback", "memory", "execute", "dispatch", "rename", "decode", "fetch"}
\* Until main leaves its loop every stage ends (out_of_order_advance is called in
\* it and its stages do not wait); fetch hits again after it missed, loads that
\* wait are answered and stores drain (FetchProceeds, EveryMissAnswered,
\* StoresDrain of MemoryHierarchy).
StageEnds == Running /\ stage' \in Stages \ {stage}
FairSpec == Spec /\ WF_stage(StageEnds) /\ SF_vars(FetchOne)
            /\ SF_vars(\E k \in DOMAIN window : Response(k))
            /\ SF_vars(MemoryStageEnds /\ committed_stores' # committed_stores)
----------------------------------------------------------------------------
Slot == [in_use : BOOLEAN, pc : Nat, instr : Instruction, branch_taken : BOOLEAN]
Entry == [pc : Nat, instr : Instruction, branch_taken : BOOLEAN,
          state : {"queued", "unit", "retry", "result", "mshr", "done"},
          rs : Nat, rt : Nat, rs_ready : BOOLEAN, rt_ready : BOOLEAN,
          addr : Word, value : Word]

(***************************************************************************)
(* Types of the variables.                                                 *)
(***************************************************************************)
TypeOK ==
    /\ pc \in Nat /\ R \in [Reg -> Word]
    /\ if_id_buffer \in [Slots -> Slot] /\ id_rn_buffer \in [Slots -> Slot]
    /\ mem \in [Word -> Word]
    /\ committed_stores \in Seq([addr : Word, data : Word, byte : BOOLEAN])
    /\ Cardinality(InWindow(StoreOps)) + Len(committed_stores) <= STORE_QUEUE_SIZE
    /\ window \in Seq(Entry) /\ Len(window) <= REORDER_BUFFER_SIZE
    /\ btb \in [BTBIndex -> [valid : BOOLEAN, tag : Nat, target : Nat, bimodal_counter : 0 .. 3]]
    /\ squash \in [pending : BOOLEAN, seq : 0 .. REORDER_BUFFER_SIZE, target : Nat]
    /\ num_commited \in 0 .. PIPELINE_WIDTH /\ stage \in Stages

(***************************************************************************)
(* What the programmer sees: the committed registers, memory with the      *)
(* committed stores, and the pc of the oldest instruction that has not     *)
(* committed.                                                              *)
(***************************************************************************)
OldestPC ==
    CASE window # <<>> -> Head(window).pc
      [] window = <<>> /\ InUse(id_rn_buffer) # {} ->
            id_rn_buffer[First(InUse(id_rn_buffer))].pc
      [] window = <<>> /\ InUse(id_rn_buffer) = {} /\ InUse(if_id_buffer) # {} ->
            if_id_buffer[First(InUse(if_id_buffer))].pc
      [] OTHER -> pc
Reference == INSTANCE SingleCycle WITH pc <- OldestPC, mem <- After(committed_stores)

\* The core implements the single-cycle processor of -O0, instruction by
\* instruction: whatever is predicted, executed early, squashed or late, what
\* commits are the program's instructions, in order, with the results they have
\* when they are executed one at a time.
CommitsTheProgram == Reference!Spec

\* No wakeup is lost and none comes early: an instruction that waits in the
\* queue is marked ready for an operand exactly when the operand's producer has
\* written it, also if the producer finished between its broadcast and the
\* cycle in which the consumer is renamed.
NoLostWakeup ==
    \A k \in InState("queued") :
        /\ window[k].rs_ready = PRFReady(window[k].rs)
        /\ window[k].rt_ready = PRFReady(window[k].rt)

\* When the BTB predicts a branch taken, fetch goes where the branch goes: an
\* entry made for the untaken branch holds pc + 4 until the branch is taken
\* once.  Whether the predicted target was right is judged at execution by what
\* the BTB holds by then, so a wrong one could pass unseen.
TakenPredictionsKnowTheTarget ==
    \A at \in 0 .. Len(program) - 1 :
        IsBranch(at) /\ Predict(at) =>
            LET i == Fetch(program, at)
            IN /\ IsControlTransfer(i)
               /\ i.op \in Branches => EntryOf(at).target = BranchTarget(i, Decode(i), at)

\* No other control transfer of the program falls into the BTB entry of the word.
Unshared(at) ==
    \A other \in 0 .. Len(program) - 1 :
        IsControlTransfer(Fetch(program, other)) /\ other % 2 ^ BTB_BITS = at % 2 ^ BTB_BITS
            => other = at

\* A branch that was predicted taken and is taken is not squashed, if no other
\* shares its BTB entry: the only squashes for nothing are those of branches
\* rightly predicted untaken, and of those whose entry a younger branch took over
\* before they were executed.
NoSquashOfTakenPrediction ==
    [][\A k \in DOMAIN window :
         (/\ squash'.pending /\ squash'.seq = k
          /\ window[k].instr.op \in Branches /\ Unshared(window[k].pc)
          /\ squash'.target # window[k].pc + 1)
            => ~window[k].branch_taken]_squash

\* The core never starves: instructions commit for ever, or nothing is left and
\* main leaves its loop, also if fetch ran past the end on a wrong path before.
CommitsUntilDrained == []<>(num_commited > 0 \/ Drained)
=============================================================================
