# Specifications of the superscalar out-of-order MIPS simulator

TLA+ specifications of the simulator's three processors, the TLC configurations
that check them on small machines, and TLAPS proofs for machines of every size.
Names of actions and variables are those of the C++ code wherever possible;
`PROJECT.json` maps each definition to the lines it models.

## The system

The simulator is one thread. `main.cpp` loads a program and calls
`Processor::advance` once per cycle until `getPC()` passes the end of the
program. There are three processors behind it: `-O0` executes one instruction
per call and is the reference for the others (README.md of the repository),
`-O1` is an in-order pipeline of five stages, `-O2` is `ProcessorOOO`. What is hard about
`-O1` is how stalls of four kinds, forwarding and flushes meet, each with early
returns of its own; what is hard about `-O2` is not threads but *order*: in every cycle eight functional units, sixteen
MSHRs, two caches and four queues advance instructions of different ages, and a
misprediction or a store into the program text undoes the younger ones in all
of them. One cycle calls (`processorOOO.cpp:44-64`)

    commit -> writeback -> memory -> execute (-> perform_squash)
           -> dispatch -> rename -> decode -> fetch

so that every stage sees the state the later stages of the pipeline left.

| Component | State | Operations | Talks to | What makes it correct |
| --- | --- | --- | --- | --- |
| `PhysicalRegisterFile` (`prf.h`) | values and ready bits, speculative and committed map, free list | assign_mapping, write, reclaim, rollback_rename, update_commited_registers | called by rename, writeback, memory, the reorder buffer | no register leaks or is owned twice; a squash restores the map the branch saw; a ready bit never shows an earlier owner's result |
| `ReorderBuffer` | circular buffer, head, tail, size | insert, commit, set_ready, squash | register file, load/store queue | ordered by age; every entry leaves; registers change in program order |
| `InstructionQueue`, `FunctionalUnits` | waiting and executing instructions, ready flags | add, get_oldest_ready, broadcast_ready, issue, squash | load/store queue (loads wait for older stores) | no reference to a squashed instruction; no lost wake-up |
| `LoadStoreQueue` | two circular queues | add, try_forward, has_unresolved_earlier_store, mark_store_complete, pops, squash, evict_commited_stores | caches, reorder buffer | loads and memory follow program order; wrong-path stores never reach memory; self-modifying code is seen in time |
| `MemoryOOO`, `NBCacheLevel` | lines of L1 and L2, memory | access (one level per call), probeL1, replace, write-back, invalidate | fetch, drain, MSHRs | caches are invisible; an access that is repeated answers |
| `NonBlockingCache` | MSHRs with targets | allocateMSHR, checkReady, squash | execute, memory stage | each waiting load is answered once, with the current word |
| `BranchPredictor` | BTB with counters | is_branch, predict, update, target_match | fetch, execute | no wrong path commits |
| Front end | two buffers of eight | fetch, decode, compaction | predictor, caches, rename | rename sees program order |
| `control.h`, `ALU.h`, `regfile.h` | none to speak of | decode, execute | all three processors | same result at all levels |
| `Processor` (`-O0`, `-O1`), `Memory` | pipeline registers, caches | stages, flush, access | `regfile` | `-O1` computes what `-O0` does |

Hazards that tests hardly reach are listed in `PROJECT.json`, each at its line
with the properties that watch it or the reason why none does.

## Modules

`InOrderRetire` is the abstract specification of the core: a window of
instructions that grow at the young end, are dropped only there, and retire at
the old end, each leaving its own result in its register. It knows nothing of
physical registers, queues or squash bookkeeping.

`RenameROB` models `prf.h`, `reorder_buffer.cpp` and what the stages do with
them. `buffer`, `size`, `head`, `tail` and `R`, `regmap`, `commited_regmap`,
`rename_pool` are the fields of the two classes. The instruction queue, the
units and the MSHRs are one set, `inflight`, of the references they hold to a
reorder buffer slot and a physical register, so that execution in any order the
scheduler could choose is covered. A value is the number of the instruction that
computed it. Each action is one iteration of a stage's loop; `perform_squash` is
`SquashQueues`, then one `RollBack` per entry, then `SquashDone`, and nothing
else runs between them. The property `RetiresInOrder` is the refinement of
`InOrderRetire`: the window is the live part of the buffer, and the
architectural registers are read through `commited_regmap`.

`LoadStoreQueue` models both queues with the indices that instructions carry
into them (`path[k].slot`), forwarding, the condition in `get_oldest_ready`, the
drain and self-modifying code. `path` and `retired` stand for the reorder buffer. A
word has three parts, which are what byte and halfword accesses tell apart, and
each part holds the number of the store that wrote it. Whether an access misses
is a choice (`MayMiss`), since the caches are the next module's subject.
`StoresIntoText` adds one history variable to it, `stale`: the instructions that had
been fetched behind a store into the text when that store reached memory, each of which
must be squashed.

`MemoryHierarchy` models `memory_ooo.cpp`: the levels with tags, dirty and
replacement bits, the walk of `MemoryOOO::access` that moves a block one level per
call, the MSHRs with countdown and targets, and the cycle of stages that call
them. A cycle is `CommitStage`, `CheckReady`, `MemoryStage` (the drain), the
loads of `execute_stage`, a possible `Squash`, `FetchStage`; a load that finds no MSHR
free is `refused`, stays in its unit and is executed again in every cycle before
`execute_stage` ends (`Retried`); the variable `stage`
fixes that order because the order decides whether a line is still in L1 at the
next call. A block holds one value, the number of the last store into it.
`latest` and `lost` are history variables: the flat memory of `-O0`, and the
blocks hit by the one mechanism that loses writes.

`InstructionSet` is what the processors share: `control_t::decode`, the ALU, the
extension of the immediate, the branch target. An instruction is its name and
its fields; a word has `WORD_BITS` bits and wraps around, an immediate
`IMM_BITS`. The fields that overlap in the encoded word are one field.

`SingleCycle` is `-O0` and the specification of what a program does: one step is
one call of `single_cycle_processor_advance`. `InOrderPipeline` and `OOOCore` each
have it as a property (`Reference == INSTANCE SingleCycle WITH ...`): every step
of theirs is, as the programmer sees it, a step of the reference or nothing.

`InOrderPipeline` is `-O1` over `BlockingCaches`. `if_id`, `id_ex`, `ex_mem`, `mem_wb`,
`mem_wb_prev`, the stall flags and `pc_history` are the fields of `Processor`; a
step is a stage, in the order writeback, memory, execute, decode, fetch, since a
stage reads what the stages before it in that order have left. A latch is
`live` while it holds an instruction that has not been passed on. Seen through
the mapping, an instruction is executed when it passes `memory_stage`: the
registers are `R` with the write of `mem_wb` done (`ArchR`), memory is what the caches present, the pc
is that of the oldest live latch (`ArchPC`). `refetched` and `steady` are history variables.

`BlockingCaches` is `memory.cpp` above level 0, as operators on one record, so that
a stage can access it twice in a step as `memory_stage` does. A miss is counted
down in the one counter of each level and leaves no other trace. `Access` is a
set of outcomes for two reasons. `replace` leaves the dirty bit of the new line as it
is (memory.cpp:108-126): a line that comes to L1 has the bit it has in L2, since
`readLine` copies it, and one that comes to L2 the uninitialized bit of `c`
(memory.cpp:173), modelled as a choice; a line may then be written back that need not
be, with data that is there already. And when L1 has the line already, `replace`
does not set `evictedLine` and `access` reads an uninitialized local, modelled as a choice
between a line that is not valid and the one that the frame held last.

`OOOCore` composes the stages of `-O2` and the classes that the modules above leave
open: the BTB, both front-end buffers with their compaction, wake-up in the
instruction queue, the units, what an instruction computes. Each stage's loop
is an action per turn and an action for its end. The instructions renamed and not
committed are one sequence, `window`; a sequence number is a position in it, and
a physical register is the position of its producer, or 0 once that has
committed. That renaming and the ring buffer do implement this is what
`RenameROB` shows. Loads miss when they like, answer when they like, and may find
no MSHR, since `MemoryHierarchy` says when they do. A store stays in the window
until it commits, then in `committed_stores`, the head of the store queue, until
it reaches `mem`, one or several at a time and as late as the caches like; a load waits
for older stores whose address is not known and takes its word from the youngest
that has its address, or from `mem`, when its answer comes and not before. The
reference sees `mem` with the committed stores done. How the ring buffers of the
two queues hold all this is what `LoadStoreQueue` shows, and so are stores into
the text, which `OOOCore` does not have.

The modules named `MC...` give the constants
values; those named `...Proofs` hold the theorems and their proofs. Definitions named `..._Bug` are
mistakes one could make in the definition after them; each is the evidence that
some property would notice (`PROJECT.json`, "mutants"), and none is part of a
specification.

    InstructionSet --- SingleCycle (-O0) <-- refinement -- InOrderPipeline (-O1)
                                |                              uses BlockingCaches
                                '<------- refinement -- OOOCore (-O2)
                                                           |  leaves open what
                  InOrderRetire <-- refinement -- RenameROB, LoadStoreQueue,
                                                  MemoryHierarchy detail

`RenameROB`, `LoadStoreQueue`, `MemoryHierarchy` and `OOOCore` share no variables and
are composed by what they leave open: where
`RenameROB` lets a load complete at any time, `LoadStoreQueue` says when it may,
and where that lets an access miss at any time, `MemoryHierarchy` says when it
does.

## Runs

| Run | Bounds | What it shows |
| --- | --- | --- |
| `rename_core` | 3 + 2 registers, buffer of 3, 4 instructions of 5 kinds | all invariants of renaming, exact squash, refinement of `InOrderRetire`; every entry leaves the buffer; the free list is empty only when entries in flight hold every spare register, hence never first with the sizes of `config.h` |
| `lsq_word` | queues of 2, 4 instructions, 2 words of which one is text | loads and memory follow program order, queues follow the window; a squash goes back behind a commit only for a store that missed or queued behind one that did; instructions fetched behind a store into the text before it drained are squashed, whichever of several requests to squash comes first |
| `lsq_smc_misses` | the same, 3 instructions | **violated**: a squash spares what has committed; it does not, with the caches `-O2` has |
| `lsq_mixed_sizes` | 3 instructions, two sizes | **violated**: forwarding overlooks a store of another size |
| `caches` | L1 of 2 lines, L2 of 2 x 2, 4 blocks, 2 loads, 2 stores; misses count down 1 cycle (2 in `caches_live`) | inclusion, MSHR bookkeeping, current answers, and that only one mechanism loses writes |
| `caches_lost_write` | the same | **violated**: that mechanism exists, a dirty L1 line evicted by L2 |
| `caches_live` | 2 blocks, one MSHR for two loads | loads that wait in an MSHR, or in their unit for one, are answered or squashed, stores drain, fetch goes on, when an L1 set is not overfull |
| `caches_thrash` | 3 blocks for 2 ways | **violated**: a store and fetch evict each other for ever |
| `inorder` | 360 programs of 4 words, 3 registers of 3 bits, 2 ways in every set (1 and 2 sets), penalties 2 and 3, 2 words to a text line | `-O1` computes what `-O0` does but for repeated instructions and until a newer word of L1 is dropped; at full speed it leaves the loop drained; stalls end unless main leaves its loop before, the caches keep room and inclusion |
| `inorder_refetch` | the same | **violated**: every instruction is executed once |
| `inorder_exit` | the same | **violated**: the pipeline is drained when main leaves its loop |
| `core` | 170 programs: 3 words that add, load, store and branch, loops of 4, two stores before a load, and one for each other instruction in the table of `update_reg_src_usage`, jumps and narrow accesses apart, on operands that are not zero; 3 registers and memory words of 3 bits; width 2, 2 units, buffer of 4, instruction queue of 3, load and store queue of 2, 3 + 3 registers, 1 MSHR, BTB of 2 entries | what `-O2` commits is what `-O0` executes, in registers and memory; no wake-up is lost; predictions know their target; the program ends or goes on committing |

The bounds are small but reach what they are for: the buffer and the queues wrap
around and fill up; the free list empties; two writers of one register
are in flight; branches resolve in both orders of age and squash at every depth;
loads pass stores, miss, and are answered after older stores have drained; L1 and
L2 sets are overfull, and an MSHR is merged into, emptied by a squash and reused.
In `-O1`, every pair of dependent instructions meets at every distance up to three,
with a load, a store, a taken branch or a fetch miss between them, and two text
lines compete with data for the two ways of L1. In `-O2`, two branches share a BTB entry, a
loop is entered under every state of its counter, both front-end buffers stall half
full, and the queue, the units, the registers and the reorder buffer each stall
rename or dispatch; a load is answered by an older store in the window, by a committed
one that waits, by memory, and out of two candidates by the younger. More entries repeat these situations: the code treats all
slots, registers, ways and MSHRs alike, and the only arithmetic on indices is
modulo the size. `MaxSeq`, `MaxWrites` and `Loads` bound how long a program runs,
`Programs` which ones; programs whose branches leave the text are excluded
(`InText` in `PipelineAssumption`), since they need not end, and the pc does not
wrap below address 0 (`CoreAssumption`). Nothing else is cut off.

`Halted` is the end of the program by `getPC`, so the modules that have it are
checked for deadlock. `MemoryHierarchy` never stops: cycles go on.

Fairness: the main loop calls every stage in every cycle, no stage waits for
anything, and an MSHR answers after a fixed number of calls. Therefore
`RenameROB` assumes weak fairness of execution and completion of some
instruction, of commit, and of the steps of a squash (renaming and mispredicting
are free to stop); `MemoryHierarchy` and `InOrderPipeline` assume only that each
stage ends and, in the former, that a unit whose load was refused takes its turn.
In `InOrderPipeline` and `OOOCore` a stage ends as long as main is in its loop
(`Running`): a behaviour in which main leaves it satisfies the fairness too, so
`MemoryStallsEnd` says that a stall ends unless that happens. `OOOCore` assumes in addition strong fairness of a fetch that hits, of an
answer to some waiting load and of the drain of a store, which it leaves open and `FetchProceeds`,
`EveryMissAnswered` and `StoresDrain` of `MemoryHierarchy` establish for caches whose sets are
not overfull.

What the refinements of the reference leave out, because the levels disagree there
and no property could hold:

- *Jumps.* `-O0` takes `j` and `jal` to 0 (`(pc & 0xf0000000) & (addr << 2)`,
  processor.cpp:123); `-O1` looks at `jump` before `jump_reg`, so that `jr` goes to
  its address field (processor.cpp:254), and `jal` writes to its `rt` field;
  `-O2` takes a jump to its branch target whenever the ALU result of its operands
  is zero (processorOOO.cpp:373). `NextPC`, `Target` and `TargetOf` are each as in
  the code; the programs have no jumps.
- *Register 0.* `-O0` and `-O1` let it be written (regfile.h:36), `-O2` does not,
  except by a load that misses (processorOOO.cpp:463). The programs do not write it.
- *Narrow accesses.* Only `-O0` keeps the rest of the word in a narrow store (see 2.
  below), and `-O2` gives `lbu` and `lhu` the whole word (processorOOO.cpp:331-352
  never masks). The programs have neither.

## What the violated runs say

1. **Self-modifying code** (`lsq_smc_misses`). The comments say that accesses at
   `-O2` never miss; the code bypasses the caches only at level 0. A store into
   the text that misses is detected after younger instructions have committed.
   The squash then goes back behind them: they are executed twice, and committed
   stores still queued are dropped.
2. **Sub-word accesses** (`lsq_mixed_sizes`). A `lw` after a queued `sb` to the
   same word takes the word from an older store or from memory; at `-O2` `sb`
   and `sh` also write the whole register, unlike the `-O0` reference.
3. **Lost write** (`caches_lost_write`). L2 evicts a block that L1 holds dirty;
   the L1 line is invalidated and its data dropped. Real geometry: nine blocks
   32 KiB apart, read and then written; the first reads back its old value.
4. **Livelock** (`caches_thrash`). The replacement bits of all valid lines are
   always equal (`ReplacementOrdersNothing`), so a full set evicts way 0 for
   ever. Once the reorder buffer is empty, `memory_stage` brings the store's line in
   and `fetch_stage` replaces it by the line it wants, in every cycle. Real
   geometry: text and eight data blocks 4 KiB apart.

5. **Repeated instructions at `-O1`** (`inorder_refetch`). When fetch misses,
   `if_id` keeps the instruction that `decode_stage` has just taken, and it is
   decoded and executed in every cycle of the miss. In the real program forty
   times `addiu $1, $1, 1` leave 160 in `$1`. Apart from this, and from lost writes as in 3., the
   pipeline is right (`RunsLikeSingleCycleOrRepeats`, where `lost` holds the blocks of
   which L1 had a newer word than L2 when its line was invalidated).
6. **Early exit at `-O1`** (`inorder_exit`). `pc_history` counts six cycles, and a
   stall or a taken branch within them is not known to it: results of the last
   instructions are lost after a load miss, and a loop that ends the text is
   left after its first turn. At full speed six cycles are right, and five would not be
   (`ExitsDrainedAtFullSpeed`).

Met while modelling, without a run: a branch rightly predicted untaken is counted
as a misprediction and squashed for nothing unless its BTB entry holds `pc + 4`
(processorOOO.cpp:398; `NoSquashOfTakenPrediction` shows that a branch rightly
predicted taken is squashed only if another control transfer has taken its BTB
entry in between); `num_dispatched` is never incremented, so that only the units
limit dispatch (processorOOO.cpp:299); `evictedLine` is read uninitialized
(memory.cpp:167), and the dirty bit of a line that comes to L2 (memory.cpp:173), without
breaking what `CachesKeepRoom` and `RunsLikeSingleCycleOrRepeats` say.

## Proofs

The theorems hold for every value of the constants that the assumptions named in
the modules allow (`SizesAssumption`, `CoreAssumption`, `PipelineAssumption`, ...):
all sizes, geometries, penalties, widths and programs. Each is of the form
`Spec => []Inv` or `Spec => [][A]_v` and rests on an inductive invariant that TLC
checked on the instances above before it was proved.

**Renaming** (`RenameROBProofs`, `RenameROBMapProofs`, `RenameROBReadyProofs`).

- `TypeCorrect`, `ReorderBufferAgeOrdered`, `NoStaleReference`. The work is in
  arithmetic on the ring: lemmas `RingValue`, `RingInjective`, `RingNext`,
  `RingPrevious`, `RingStep` give `(head + k) % N` for all `k` below `N` without
  unfolding `%` again; `LiveAfterRename`, `LiveAfterCommit` and `LiveAfterRollBack`
  say which slots are live after each operation. The clause that an incomplete
  entry has a reference is what makes `InflightNamesLiveEntry` inductive: without
  it a commit could not know that the entry it removes is not referred to. The
  clause on `squashing` carries it through the unwinding, where the references are
  gone before the entries.
- `NoRegisterLeaks`, `RecoveryIsPrecise`, `FreeListIsLargeEnough`. The registers are
  partitioned into free, mapped and waiting; the map after unwinding `k` entries
  (`MapOf`) is defined by what the entries hold, and the two facts are inductive only
  together, since an entry's old register is free to hand out again exactly when no
  later map refers to it.
- `ReadyBitsAreTrue`, `SquashIsExact`, `ImplementsInOrderRetirement`: the step
  invariant says who owns each register (`Owned`), and each step of `RenameROB` is
  mapped to a step of `InOrderRetire` (rename to issue, commit to retire, roll-back
  to dropping the youngest) or a stutter.

**The core** (`OOOCoreProofs`): `CoreTypeCorrect`, `WakeupsAreExact`,
`PredictionsAreTargets`, `TakenPredictionsStand`. `CoreInvariant` says that each
instruction in a buffer or in the window is what the text holds at its pc, that
producers are older than what waits for them, and that a squash names a live
entry; the last two need `TakenPredictionsKnowTheTarget` strengthened by what the BTB has
learnt (`Learnt`) and what a fetched branch keeps of it (`Kept`).

**Loads and stores** (`LoadStoreQueueProofs`): `QueueTypes`, `IndicesNameTheirEntries`,
`CommittedSparedUnlessMissed`, `StoresReachMemoryInOrder`, `LoadsReadTheLastStore`, `StaleTextSquashed`.
`Tracks` relates the two rings to the window, `OldestDrained` and `MemoryRight` relate
memory to the prefix of stores that have drained. `LoadsReadTheLastStore`
assumes `MatchedAccesses`: all accesses to a word have one address and size. That this is
needed is what the run `lsq_mixed_sizes` shows. `StaleTextSquashed` needs little of the
invariant (ages increase along the path): the drain that makes an instruction stale asks for
the squash in the same step, and any later request only moves it to an older instruction.

**The caches of -O2** (`MemoryHierarchyProofs`): `MemoryTypeCorrect`,
`HierarchyIsInclusive`, `ReplacementIsBlind`, `EveryWaitHasItsMSHR`, `CachesAreInvisible`,
`LoadsGetCurrentWords`. First, what one level does: under the invariant
`updateReplacementBits` changes nothing, so that every operation is `Put` of one
line. Then the two levels: a clean line of L1 is what L2 has, a clean line of L2 is
what memory has, and each call of `access` is one of a few moves of a block that keep
what is read. Last the MSHRs: four accesses of `checkReady` always bring a block to L1,
and waiting loads and MSHRs match one to one through merging and squashes.

**The in-order pipeline** (`InOrderPipelineProofs`, over `InstructionSetProofs`).

- `AVictimIsAlwaysFound`: in `memory.cpp` an invalidated line keeps its replacement bits and
  is passed over when the others age, so that the bits are no order any more. What is
  inductive is `Ranked`: there is a permutation of the ways that is an upper bound of the
  bits; one way has rank 0, hence bits 0.
- `AccessIs`: what one `Memory::access` does to both levels, whichever line the
  uninitialized `evictedLine` happens to be, and whatever the dirty bits. As long as no
  newer word of L1 is dropped, what
  the caches present changes only where a store writes (`Coherent`).
- `PipelineTypeCorrect` and `PipelineTracked`: the latches hold what the text does;
  the pc, which no stage compares with the end of the text, gets at most five words
  past it while main's loop runs, because `pc_history` is six long (`HistoryBounds`).
- `DrainedAtFullSpeed`: if the pc was past the text `j` cycles ago and nothing has
  stalled since, the stages that these cycles have reached are idle (`Draining`).
- `PipelineImplementsSingleCycle`: `Spec => RunsLikeSingleCycleOrRepeats`, the refinement of
  `-O0`. `OperandsRead`: an operand in ID/EX is the register's value, or the one
  instruction that wrote it since is the one in the snapshot of MEM/WB. `NoLoadUse`: no
  instruction in ID/EX needs the load in front of it. Both with `WrittenBack` give
  `OperandIs`: what forwarding selects is the register after all older instructions,
  which makes the result in EX/MEM that of the reference (`Computed`). `InSequence`: the
  instructions in the latches follow each other in program order, or the younger
  is the one that fetch left to be decoded again. All stages but `memory_stage` are
  stutters, and `memory_stage` is a step of the reference (`Retires`).

  The hypotheses are those of the runs (`MCProgramsAreOrdinary` in
  `MCInOrderPipeline`): `KeepsZero`, since `-O1` treats register 0 as any register when
  it writes and as zero when it forwards; `Plain`, no jumps and no narrow stores, which
  the two processors do not execute alike (see above). The first is needed for
  `DrainedAtFullSpeed` too.

`InstructionSetProofs` has `ALUGivesWords`, that no result overflows a word, with the
arithmetic of powers, division and bits behind it. Induction is possible where the set is
named: the least counterexample in `SUBSET Nat` is refuted.

Only model-checked: the refinement of `-O0` by `OOOCore` (`CommitsTheProgram`) and the
liveness properties, since the prover has no support for fairness and `ENABLED`.

## Not modelled

The loader, option parsing, printing (`PipelineLogger` included) and scripts, which
are input and output; `non_blocking_cache.{h,cpp}`, which the Makefile does not
compile; the order of bytes in a word and the encoding of instructions. Stores
into the text together with the BTB: nothing in the code would notice a word
predicted as a taken branch that no longer is one. Sequence numbers are 64 bits wide and do not wrap. Simplifications
inside the modelled parts: addresses come with the instruction in
`LoadStoreQueue`, since only the time at which they become known matters; in
`MemoryHierarchy` the store queue is its head, and an instruction group that
fetch takes in one cycle touches at most two blocks.

## Plan

1. The refinement of `SingleCycle` by `OOOCore`, `CommitsTheProgram`: `CoreInvariant` with the
   values added, that is, what a finished instruction holds is what the reference computes from
   the registers and memory as all older instructions leave them. Needed: the value of a
   register as the last writer before a position of the window, and of a word as the last
   store.
2. Stores into the text in `OOOCore`: what still holds of the refinement when the
   BTB knows branches at words that change.
