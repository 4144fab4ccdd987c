----------------------------- MODULE RenameROB -----------------------------
(***************************************************************************)
(* Register renaming, in-order retirement and squash recovery of the -O2   *)
(* core: class PhysicalRegisterFile (prf.h), class ReorderBuffer           *)
(* (reorder_buffer.cpp) and the parts of ProcessorOOO's stages that touch  *)
(* them (processorOOO.cpp).                                                *)
(*                                                                         *)
(* Values are abstracted to their provenance: a register's value is the    *)
(* sequence number of the instruction that produced it, Initial at reset.  *)
(* The instruction queue, the functional units and the MSHRs appear only   *)
(* as the set inflight of the references they hold to a reorder buffer     *)
(* slot and to a physical register; which of them executes next is left    *)
(* open, so every order the scheduler could produce is covered.            *)
(***************************************************************************)
EXTENDS Integers, Sequences, FiniteSets

CONSTANTS
    NUM_ARCHITECTURAL_REGISTERS,
    NUM_PHYSICAL_REGISTERS,
    REORDER_BUFFER_SIZE,
    Instrs,     \* the decoded instructions the front end may deliver
    MaxSeq      \* bound on the number of instructions renamed

Kind == {"alu", "load", "store", "branch"}

Arch == 0 .. NUM_ARCHITECTURAL_REGISTERS - 1
Phys == 0 .. NUM_PHYSICAL_REGISTERS - 1
Slot == 0 .. REORDER_BUFFER_SIZE - 1

ASSUME SizesAssumption ==
    /\ NUM_ARCHITECTURAL_REGISTERS \in Nat \ {0}
    /\ NUM_PHYSICAL_REGISTERS \in Nat
    /\ NUM_PHYSICAL_REGISTERS > NUM_ARCHITECTURAL_REGISTERS
    /\ REORDER_BUFFER_SIZE \in Nat \ {0}
    /\ MaxSeq \in Nat

ASSUME InstrsAssumption ==
    Instrs \subseteq [kind : Kind, reg_write : BOOLEAN, dest_arch_reg : Arch]

VARIABLES
    \* ReorderBuffer
    buffer, size, head, tail,
    \* PhysicalRegisterFile
    R, regmap, commited_regmap, rename_pool,
    \* ProcessorOOO
    next_seq, squash_pending, squash_seq,
    squashing,          \* perform_squash is unwinding the reorder buffer
    \* the other components' references into the above
    inflight,           \* IQ, functional unit and MSHR target records
    committed_stores    \* committed, still undrained stores of the store queue

robVars == <<buffer, size, head, tail>>
prfVars == <<R, regmap, commited_regmap, rename_pool>>
squashVars == <<squash_pending, squash_seq, squashing>>
vars == <<robVars, prfVars, next_seq, squashVars, inflight, committed_stores>>

Initial == -1

Reference == [seq : Nat, kind : Kind, reg_write : BOOLEAN, rob_index : Slot,
              rd : Phys, stage : {"waiting", "result", "mshr"}]

ROBEntry == [seq : Nat, dest_arch_reg : Arch, dest_phys_reg : Phys,
             old_phys_reg : Phys, is_store : BOOLEAN, completed : BOOLEAN]

\* The buffer is not initialised by the constructor; no slot outside the live
\* window is ever read, so any entry will do.
UnusedEntry == [seq |-> 0, dest_arch_reg |-> 0, dest_phys_reg |-> 0,
                old_phys_reg |-> 0, is_store |-> FALSE, completed |-> FALSE]

Init ==
    /\ buffer = [i \in Slot |-> UnusedEntry]
    /\ size = 0 /\ head = 0 /\ tail = 0
    /\ R = [p \in Phys |-> [value |-> Initial, ready |-> TRUE]]
    /\ regmap = [a \in Arch |-> a]
    /\ commited_regmap = [a \in Arch |-> a]
    /\ rename_pool = [i \in 1 .. NUM_PHYSICAL_REGISTERS - NUM_ARCHITECTURAL_REGISTERS
                        |-> NUM_ARCHITECTURAL_REGISTERS + i - 1]
    /\ next_seq = 0
    /\ squash_pending = FALSE /\ squash_seq = 0 /\ squashing = FALSE
    /\ inflight = {}
    /\ committed_stores = {}

\* Definitions whose name ends in _Bug are not part of the specification: each
\* is a plausible mistake in the definition that follows it, kept to show that
\* some property notices.
Full_Bug == size > REORDER_BUFFER_SIZE
Full == size >= REORDER_BUFFER_SIZE

\* The code's own test for "this entry renamed a register".
Renamed(entry) == entry.dest_phys_reg # entry.old_phys_reg

----------------------------------------------------------------------------
AssignMapping_Bug(arch_reg) ==
    /\ rename_pool' = Tail(rename_pool)
    /\ regmap' = [regmap EXCEPT ![arch_reg] = Head(rename_pool)]
    /\ UNCHANGED R
\* PhysicalRegisterFile::assign_mapping
AssignMapping(arch_reg) ==
    LET phys_reg == Head(rename_pool)
    IN /\ rename_pool' = Tail(rename_pool)
       /\ regmap' = [regmap EXCEPT ![arch_reg] = phys_reg]
       /\ R' = [R EXCEPT ![phys_reg].ready = FALSE]

\* ReorderBuffer::insert, and the record that InstructionQueue::add keeps.
Insert(instr, dest_phys_reg, old_phys_reg) ==
    /\ buffer' = [buffer EXCEPT ![tail] =
                    [seq |-> next_seq, dest_arch_reg |-> instr.dest_arch_reg,
                     dest_phys_reg |-> dest_phys_reg, old_phys_reg |-> old_phys_reg,
                     is_store |-> (instr.kind = "store"), completed |-> FALSE]]
    /\ tail' = (tail + 1) % REORDER_BUFFER_SIZE
    /\ size' = size + 1
    /\ inflight' = inflight \cup
         {[seq |-> next_seq, kind |-> instr.kind, reg_write |-> instr.reg_write,
           rob_index |-> tail, rd |-> dest_phys_reg, stage |-> "waiting"]}
    /\ next_seq' = next_seq + 1
    /\ head' = head

\* One iteration of rename_stage, which runs after any pending squash has been
\* performed.  (It also stalls on a full instruction, load or store queue.)
Rename(instr) ==
    /\ next_seq < MaxSeq
    /\ ~squash_pending
    /\ ~Full
    /\ \/ /\ instr.reg_write /\ instr.dest_arch_reg # 0
          /\ rename_pool # <<>>
          /\ AssignMapping(instr.dest_arch_reg)
          /\ Insert(instr, Head(rename_pool), regmap[instr.dest_arch_reg])
       \/ /\ ~(instr.reg_write /\ instr.dest_arch_reg # 0)
          /\ UNCHANGED <<rename_pool, regmap, R>>
          /\ Insert(instr, 0, 0)
    /\ UNCHANGED <<commited_regmap, squashVars, committed_stores>>

\* The requests to squash are merged: the oldest instruction wins.
RequestSquash(seq) ==
    /\ squash_pending' = TRUE
    /\ squash_seq' = IF squash_pending /\ squash_seq <= seq THEN squash_seq ELSE seq
    /\ UNCHANGED squashing

MoveTo(p, stage) == inflight' = (inflight \ {p}) \cup {[p EXCEPT !.stage = stage]}

\* One unit of execute_stage.  A load that misses L1 leaves the unit for an
\* MSHR (it stays when no MSHR is free); a branch may turn out mispredicted.
Execute(p) ==
    /\ p.stage = "waiting"
    /\ ~squashing
    /\ \/ MoveTo(p, "result") /\ UNCHANGED squashVars
       \/ p.kind = "load" /\ MoveTo(p, "mshr") /\ UNCHANGED squashVars
       \/ p.kind = "branch" /\ MoveTo(p, "result") /\ RequestSquash(p.seq)
    /\ UNCHANGED <<robVars, prfVars, next_seq, committed_stores>>

\* prf.write, then rob.set_ready
Complete(p, writes) ==
    /\ R' = IF writes THEN [R EXCEPT ![p.rd] = [value |-> p.seq, ready |-> TRUE]] ELSE R
    /\ buffer' = [buffer EXCEPT ![p.rob_index].completed = TRUE]
    /\ inflight' = inflight \ {p}
    /\ UNCHANGED <<size, head, tail, regmap, commited_regmap, rename_pool,
                   next_seq, squashVars, committed_stores>>

\* One unit of writeback_stage.
Writeback(p) ==
    /\ p.stage = "result"
    /\ ~squashing
    /\ Complete(p, p.reg_write /\ p.rd # 0)

MemoryResponse_Bug(p) ==
    /\ p.stage = "mshr"
    /\ ~squashing
    /\ inflight' = inflight \ {p}
    /\ R' = [R EXCEPT ![p.rd] = [value |-> p.seq, ready |-> TRUE]]
    /\ UNCHANGED <<robVars, regmap, commited_regmap, rename_pool, next_seq,
                   squashVars, committed_stores>>
\* One response of memory_stage: unlike writeback_stage it does not test rd.
MemoryResponse(p) ==
    /\ p.stage = "mshr"
    /\ ~squashing
    /\ Complete(p, TRUE)

Retire_Bug(entry) ==
    /\ rename_pool' = rename_pool
    /\ commited_regmap' = [commited_regmap EXCEPT ![entry.dest_arch_reg] = entry.dest_phys_reg]
\* PhysicalRegisterFile::reclaim and ::update_commited_registers
Retire(entry) ==
    /\ rename_pool' = Append(rename_pool, entry.old_phys_reg)
    /\ commited_regmap' = [commited_regmap EXCEPT ![entry.dest_arch_reg] = entry.dest_phys_reg]

HeadCompleted_Bug == size > 0
HeadCompleted == size > 0 /\ buffer[head].completed

\* ReorderBuffer::commit, one iteration of commit_stage.  The stage ends as
\* soon as a squash is requested.
Commit ==
    LET entry == buffer[head]
    IN /\ ~squash_pending
       /\ HeadCompleted
       /\ head' = (head + 1) % REORDER_BUFFER_SIZE
       /\ size' = size - 1
       /\ IF Renamed(entry) THEN Retire(entry) ELSE UNCHANGED <<rename_pool, commited_regmap>>
       /\ committed_stores' = IF entry.is_store THEN committed_stores \cup {entry.seq}
                                                ELSE committed_stores
       /\ UNCHANGED <<buffer, tail, R, regmap, next_seq, squashVars, inflight>>

\* evict_commited_stores lets the oldest committed store into memory; a store
\* into the program text (smc) requests a squash of everything after it.
DrainStore(seq, smc) ==
    /\ ~squashing
    /\ seq \in committed_stores
    /\ \A s \in committed_stores : seq <= s
    /\ committed_stores' = committed_stores \ {seq}
    /\ IF smc THEN RequestSquash(seq) ELSE UNCHANGED squashVars
    /\ UNCHANGED <<robVars, prfVars, next_seq, inflight>>

SurvivesSquash_Bug(p) == p.stage = "mshr" \/ p.seq <= squash_seq
SurvivesSquash(p) == p.seq <= squash_seq

\* perform_squash: the queues, the units and the MSHRs drop every younger record ...
SquashQueues ==
    /\ squash_pending /\ ~squashing
    /\ squashing' = TRUE
    /\ inflight' = {p \in inflight : SurvivesSquash(p)}
    /\ committed_stores' = {s \in committed_stores : s <= squash_seq}
    /\ UNCHANGED <<robVars, prfVars, next_seq, squash_pending, squash_seq>>

Previous_Bug(i) == IF i = 0 THEN 0 ELSE i - 1
Previous(i) == (i - 1 + REORDER_BUFFER_SIZE) % REORDER_BUFFER_SIZE

RollbackRename_Bug(entry) ==
    /\ rename_pool' = <<entry.dest_phys_reg>> \o rename_pool
    /\ UNCHANGED regmap
\* PhysicalRegisterFile::rollback_rename
RollbackRename(entry) ==
    /\ rename_pool' = <<entry.dest_phys_reg>> \o rename_pool
    /\ regmap' = [regmap EXCEPT ![entry.dest_arch_reg] = entry.old_phys_reg]

OnWrongPath_Bug(entry) == entry.seq >= squash_seq
OnWrongPath(entry) == entry.seq > squash_seq

\* ... and the reorder buffer is unwound from its tail, one entry an iteration
RollBack ==
    LET prev == Previous(tail)
        entry == buffer[prev]
    IN /\ squashing
       /\ size > 0
       /\ OnWrongPath(entry)
       /\ IF Renamed(entry) THEN RollbackRename(entry) ELSE UNCHANGED <<rename_pool, regmap>>
       /\ tail' = prev
       /\ size' = size - 1
       /\ UNCHANGED <<buffer, head, R, commited_regmap, next_seq, squashVars,
                      inflight, committed_stores>>

\* ... until the youngest entry left is not younger than squash_seq.
SquashDone ==
    /\ squashing
    /\ size > 0 => ~OnWrongPath(buffer[Previous(tail)])
    /\ squash_pending' = FALSE /\ squash_seq' = 0 /\ squashing' = FALSE
    /\ UNCHANGED <<robVars, prfVars, next_seq, inflight, committed_stores>>

\* getPC lets the main loop end once the reorder buffer, the functional units
\* and the store queue are empty.
Halted ==
    /\ size = 0 /\ inflight = {} /\ committed_stores = {} /\ ~squash_pending
    /\ UNCHANGED vars

Next ==
    \/ \E instr \in Instrs : Rename(instr)
    \/ \E p \in inflight : Execute(p) \/ Writeback(p) \/ MemoryResponse(p)
    \/ Commit
    \/ \E s \in committed_stores, smc \in BOOLEAN : DrainStore(s, smc)
    \/ SquashQueues \/ RollBack \/ SquashDone
    \/ Halted

Spec == Init /\ [][Next]_vars

\* run_cycle calls every stage once a cycle, and an MSHR answers after a fixed
\* count of cycles: none of these steps can be put off for ever.
Fairness ==
    /\ WF_vars(\E p \in inflight : Execute(p) \/ Writeback(p) \/ MemoryResponse(p))
    /\ WF_vars(Commit)
    /\ WF_vars(SquashQueues \/ RollBack \/ SquashDone)

FairSpec == Spec /\ Fairness
----------------------------------------------------------------------------
\* The slot of the k-th oldest live entry, 0 <= k < size.
Nth(k) == (head + k) % REORDER_BUFFER_SIZE
Live == {Nth(k) : k \in 0 .. size - 1}

\* The mapping of a as the k oldest live entries leave it: what the youngest
\* of them that renames a gave it, else the committed mapping.
MappingAfter(a, k) ==
    LET writers == {j \in 0 .. k - 1 : /\ Renamed(buffer[Nth(j)])
                                       /\ buffer[Nth(j)].dest_arch_reg = a}
    IN IF writers = {}
         THEN commited_regmap[a]
         ELSE buffer[Nth(CHOOSE j \in writers : \A i \in writers : i <= j)].dest_phys_reg

\* Registers that wait for their live entry to commit before they are free.
Superseded == {k \in 0 .. size - 1 : Renamed(buffer[Nth(k)])}

(***************************************************************************)
(* Types of the variables.                                                 *)
(***************************************************************************)
TypeOK ==
    /\ buffer \in [Slot -> ROBEntry]
    /\ size \in 0 .. REORDER_BUFFER_SIZE /\ head \in Slot /\ tail \in Slot
    /\ R \in [Phys -> [value : Nat \cup {Initial}, ready : BOOLEAN]]
    /\ regmap \in [Arch -> Phys] /\ commited_regmap \in [Arch -> Phys]
    /\ rename_pool \in Seq(Phys)
    /\ next_seq \in Nat
    /\ squash_pending \in BOOLEAN /\ squash_seq \in Nat /\ squashing \in BOOLEAN
    /\ inflight \subseteq Reference
    /\ committed_stores \subseteq Nat

\* The size, head and tail that insert, commit and squash update separately
\* agree, and the live slots hold increasing sequence numbers from head to
\* tail across the wrap-around: what squash relies on when it stops at the
\* first entry from the tail that is not younger than the branch.
AgeOrdered ==
    /\ tail = (head + size) % REORDER_BUFFER_SIZE
    /\ \A j, k \in 0 .. size - 1 : j < k => buffer[Nth(j)].seq < buffer[Nth(k)].seq
    /\ \A k \in 0 .. size - 1 : buffer[Nth(k)].seq < next_seq

\* No rob_index or rd kept by the instruction queue, a functional unit or an
\* MSHR is ever stale: it names a live slot that still belongs to the same
\* instruction, whatever was squashed and reused meanwhile, and no slot is
\* named twice; an entry that is not complete has such a reference, so its
\* completion cannot be lost.  (While perform_squash unwinds the buffer, the
\* references to the entries about to go are gone already.)
InflightNamesLiveEntry ==
    /\ \A p \in inflight :
          /\ p.rob_index \in Live
          /\ buffer[p.rob_index].seq = p.seq
          /\ buffer[p.rob_index].dest_phys_reg = p.rd
          /\ ~buffer[p.rob_index].completed
          /\ squashing => p.seq <= squash_seq
    /\ \A p, q \in inflight : p.rob_index = q.rob_index => p = q
    /\ \A i \in Live :
          \/ buffer[i].completed
          \/ squashing /\ buffer[i].seq > squash_seq
          \/ \E p \in inflight : p.rob_index = i
    /\ squashing => squash_pending

\* Every physical register is in exactly one place: on the free list, mapped
\* by regmap, or superseded by a live entry that frees it when it commits.
\* Holds through every interleaving of commits and squashes, so no register
\* leaks and none is handed out twice.
RegistersConserved ==
    LET Old(k) == buffer[Nth(k)].old_phys_reg
        Free == {rename_pool[i] : i \in DOMAIN rename_pool}
        Mapped == {regmap[a] : a \in Arch}
        Held == {Old(k) : k \in Superseded}
    IN /\ Cardinality(Free) = Len(rename_pool)
       /\ Cardinality(Mapped) = NUM_ARCHITECTURAL_REGISTERS
       /\ Cardinality(Held) = Cardinality(Superseded)
       /\ Free \cap Mapped = {} /\ Free \cap Held = {} /\ Mapped \cap Held = {}
       /\ Free \cup Mapped \cup Held = Phys

\* regmap is what the live entries make of the committed map, and each entry
\* remembers the mapping of just before it, so unwinding to any branch at any
\* time restores the map that branch saw; with an empty buffer (the end of the
\* program) the map that printRegFile reads is the committed one.
MapsPrecise ==
    /\ \A a \in Arch : regmap[a] = MappingAfter(a, size)
    /\ \A k \in Superseded :
          buffer[Nth(k)].old_phys_reg = MappingAfter(buffer[Nth(k)].dest_arch_reg, k)

\* The ready bit of a live entry's register says exactly whether that entry's
\* own result is in it, never a result left there by an earlier owner of the
\* register or by a squashed instruction; committed registers are ready.
ReadyMeansProduced ==
    /\ \A k \in Superseded :
          LET entry == buffer[Nth(k)]
          IN /\ R[entry.dest_phys_reg].ready = entry.completed
             /\ entry.completed => R[entry.dest_phys_reg].value = entry.seq
    /\ \A a \in Arch : R[commited_regmap[a]].ready

\* Rename stalls for a free register only when every register beyond the
\* architectural ones is held by an entry in flight.  With as many of them as the
\* reorder buffer has entries (config.h: 96 - 32 = 64) that is never: the reorder
\* buffer is full first.
FreeListSuffices ==
    rename_pool = <<>> => size >= NUM_PHYSICAL_REGISTERS - NUM_ARCHITECTURAL_REGISTERS

\* An instruction leaves the buffer only by committing from the head or
\* because it is younger than the one recovered to (that one, a branch still to
\* be written back, survives its own squash); and when perform_squash ends,
\* nothing younger is left in any component.
SquashExact ==
    [][/\ \A i \in Live \ Live' :
            \/ ~squash_pending /\ i = head
            \/ squashing /\ buffer[i].seq > squash_seq
       /\ SquashDone =>
            /\ \A i \in Live : buffer[i].seq <= squash_seq
            /\ \A p \in inflight : p.seq <= squash_seq
            /\ \A s \in committed_stores : s <= squash_seq]_vars

\* Every instruction that enters the reorder buffer leaves it, committed or
\* squashed: no completion is lost and no squash hangs.
EveryEntryLeaves ==
    \A s \in 0 .. MaxSeq - 1 :
        (\E i \in Live : buffer[i].seq = s) ~> (\A i \in Live : buffer[i].seq # s)

(***************************************************************************)
(* The core implements in-order retirement: the live entries are the       *)
(* window, and the architectural registers are read through the committed  *)
(* map.                                                                    *)
(***************************************************************************)
Retirement ==
    INSTANCE InOrderRetire WITH
        window <- [k \in 1 .. size |->
                     LET entry == buffer[Nth(k - 1)]
                     IN [seq |-> entry.seq,
                         dest |-> IF Renamed(entry) THEN entry.dest_arch_reg ELSE 0]],
        arch <- [a \in Arch \ {0} |-> R[commited_regmap[a]].value]

\* Refinement: whatever executes, misses, is squashed or completes out of
\* order, the registers seen through commited_regmap change only when the
\* oldest instruction retires, in program order, and then to its own result.
RetiresInOrder == Retirement!Spec
=============================================================================
