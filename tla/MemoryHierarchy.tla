--------------------------- MODULE MemoryHierarchy ---------------------------
(***************************************************************************)
(* The caches of the -O2 core: classes NBCacheLevel, MemoryOOO and         *)
(* NonBlockingCache (memory_ooo.cpp), driven as the stages of a cycle      *)
(* drive them (processorOOO.cpp): stores drain one access at a time, loads *)
(* that miss L1 wait in MSHRs, and instruction fetch shares the caches.    *)
(*                                                                         *)
(* Addresses are abstracted to the block they lie in and a line's data to  *)
(* one value, the number of the last store into it.  The store queue is    *)
(* represented by its oldest committed store, the only one that accesses   *)
(* memory.  Instruction fetch never uses the MSHRs (i_nbc stays empty).    *)
(***************************************************************************)
EXTENDS Integers, FiniteSets

CONSTANTS
    L1_SETS, L2_SETS, ASSOC,
    NUM_MSHRS, MISS_PENALTY,
    Blocks,         \* the blocks of data and text the program touches ...
    TextBlocks,     \* ... and those it fetches instructions from
    Loads,          \* sequence numbers of the loads
    MaxWrites       \* bound on the number of stores

ASSUME GeometryAssumption ==
    /\ L1_SETS \in Nat \ {0} /\ L2_SETS \in Nat \ {0} /\ ASSOC \in Nat \ {0}
    /\ NUM_MSHRS \in Nat \ {0} /\ MISS_PENALTY \in Nat \ {0}
    /\ Blocks \subseteq Nat /\ TextBlocks \subseteq Blocks
    /\ Loads \subseteq Nat /\ MaxWrites \in Nat

Ways == 0 .. ASSOC - 1
MSHRIndex == 1 .. NUM_MSHRS
NoBlock == -1       \* as pc_block: prf.pc >= end_pc, nothing left to fetch

VARIABLES
    l1, l2, mem,    \* the two levels and the backing storage
    lost,           \* history: blocks of which a dirty L1 line was invalidated
    latest,         \* history: what a flat memory would hold (-O0)
    store,          \* the committed store at the head of the store queue
    writes,         \* the number of stores so far
    mshrs,          \* d_nbc
    loads,          \* what became of each load
    pc_block,       \* the block fetch_stage wants
    stalled,        \* fetch_stage missed in the last cycle
    stage           \* where in the cycle the core is

memVars == <<l1, l2, mem, lost>>
vars == <<memVars, latest, store, writes, mshrs, loads, pc_block, stalled, stage>>

Hierarchy == [l1 |-> l1, l2 |-> l2, mem |-> mem, lost |-> lost]
Becomes(h) == l1' = h.l1 /\ l2' = h.l2 /\ mem' = h.mem /\ lost' = h.lost

InvalidLine == [valid |-> FALSE, block |-> 0, dirty |-> FALSE, replBits |-> 0, data |-> 0]
EmptyCache(sets) == [i \in 0 .. sets - 1 |-> [w \in Ways |-> InvalidLine]]

Init ==
    /\ l1 = EmptyCache(L1_SETS) /\ l2 = EmptyCache(L2_SETS)
    /\ mem = [b \in Blocks |-> 0] /\ latest = mem /\ lost = {}
    /\ store = [pending |-> FALSE, block |-> 0, value |-> 0] /\ writes = 0
    /\ mshrs = [i \in MSHRIndex |-> [valid |-> FALSE, block |-> 0, countdown |-> 0,
                                     fill_pending |-> FALSE, targets |-> {}]]
    /\ loads = [s \in Loads |-> [state |-> "idle", block |-> 0, value |-> 0]]
    /\ pc_block \in TextBlocks /\ stalled = FALSE
    /\ stage = "commit"

----------------------------------------------------------------------------
(* NBCacheLevel: a cache maps an index to its ways.                        *)
(* (A definition whose name ends in _Bug is a plausible mistake in the one *)
(* that follows it, kept to show that some property notices.)              *)

Index(cache, b) == b % Cardinality(DOMAIN cache)
HitWays(cache, b) ==
    {w \in Ways : cache[Index(cache, b)][w].valid /\ cache[Index(cache, b)][w].block = b}
Has(cache, b) == HitWays(cache, b) # {}
FirstWay(S) == CHOOSE w \in S : \A v \in S : w <= v
LineOf(cache, b) == cache[Index(cache, b)][FirstWay(HitWays(cache, b))]

\* updateReplacementBits
UpdateReplacementBits(cache, i, way) ==
    LET set == cache[i]
    IN [cache EXCEPT ![i] =
          [w \in Ways |->
              IF w = way THEN [set[w] EXCEPT !.replBits = ASSOC - 1]
              ELSE IF set[w].valid /\ set[w].replBits > set[way].replBits
                THEN [set[w] EXCEPT !.replBits = @ - 1]
              ELSE set[w]]]

\* read and write, on a hit
Touch(cache, b) == UpdateReplacementBits(cache, Index(cache, b), FirstWay(HitWays(cache, b)))
Update(cache, b, value) ==
    [cache EXCEPT ![Index(cache, b)] =
        [w \in Ways |-> IF w \in HitWays(cache, b)
                          THEN [@[w] EXCEPT !.data = value, !.dirty = TRUE] ELSE @[w]]]
\* An access that hits: op is a value to write, or NoValue for a read.
NoValue == -1
HitBy(cache, b, op) ==
    IF op = NoValue THEN Touch(cache, b) ELSE Update(Touch(cache, b), b, op)

WriteBackLine_Bug(cache, line) == cache
\* writeBackLine
WriteBackLine(cache, line) == Update(cache, line.block, line.data)

InvalidateLine_Bug(cache, b) == cache
\* invalidateLine
InvalidateLine(cache, b) ==
    [cache EXCEPT ![Index(cache, b)] =
        [w \in Ways |-> IF w \in HitWays(cache, b) THEN [@[w] EXCEPT !.valid = FALSE]
                                                   ELSE @[w]]]

\* The victim of replace: an invalid way, else the first of the oldest ways.
Victim(set) ==
    LET free == {w \in Ways : ~set[w].valid}
        oldest == {w \in Ways : \A v \in Ways : set[w].replBits <= set[v].replBits}
    IN FirstWay(IF free # {} THEN free ELSE oldest)

NewLineBits_Bug == 0
NewLineBits == ASSOC - 1
\* replace; access calls it only after a miss, so its early return for a block
\* that is already there is never taken.
Replace(cache, b, data) ==
    LET i == Index(cache, b)
        way == Victim(cache[i])
        line == [valid |-> TRUE, block |-> b, dirty |-> FALSE,
                 replBits |-> NewLineBits, data |-> data]
    IN [cache |-> UpdateReplacementBits([cache EXCEPT ![i][way] = line], i, way),
        evicted |-> cache[i][way]]

----------------------------------------------------------------------------
(* MemoryOOO::access: each call brings the block one level closer.         *)

FillL1_Bug(h, b, op) == [h EXCEPT !.l2 = HitBy(h.l2, b, op)]
\* L2 hit: a write is also done in L2; the line goes to L1, which writes back
\* the line it evicts.
FillL1(h, b, op) ==
    LET l2hit == HitBy(h.l2, b, op)
        r == Replace(h.l1, b, LineOf(l2hit, b).data)
    IN [h EXCEPT !.l1 = r.cache,
                 !.l2 = IF r.evicted.valid /\ r.evicted.dirty
                          THEN WriteBackLine(l2hit, r.evicted) ELSE l2hit]

\* L2 miss: the line goes to L2; the line L2 evicts is invalidated in L1,
\* dirty or not, and L2's copy is written to memory.
FillL2(h, b) ==
    LET r == Replace(h.l2, b, h.mem[b])
        e == r.evicted
        inL1 == e.valid /\ Has(h.l1, e.block)
    IN [h EXCEPT !.l1 = IF e.valid THEN InvalidateLine(h.l1, e.block) ELSE h.l1,
                 !.l2 = r.cache,
                 !.mem = IF e.valid /\ e.dirty THEN [@ EXCEPT ![e.block] = e.data] ELSE @,
                 !.lost = IF inL1 /\ LineOf(h.l1, e.block).dirty THEN @ \cup {e.block} ELSE @]

Access(h, b, op) ==
    IF Has(h.l1, b) THEN [h EXCEPT !.l1 = HitBy(h.l1, b, op)]
    ELSE IF Has(h.l2, b) THEN FillL1(h, b, op)
    ELSE FillL2(h, b)
\* It answers true, with the word read, only on an L1 hit.
Answers(h, b) == Has(h.l1, b)
Word(h, b) == LineOf(h.l1, b).data

----------------------------------------------------------------------------
(* NonBlockingCache                                                        *)

\* The loop of checkReady: at most four accesses, until one answers.
SafetyLimit_Bug == 2
SafetyLimit == 4
Walk(h, b) ==
    LET missed[n \in 0 .. SafetyLimit - 1] ==      \* the caches after n misses
            IF n = 0 THEN h
            ELSE IF Answers(missed[n - 1], b) THEN missed[n - 1]
            ELSE Access(missed[n - 1], b, NoValue)
        last == missed[SafetyLimit - 1]
    IN [hierarchy |-> Access(last, b, NoValue), done |-> Answers(last, b)]

StillCounting_Bug(m) == ~m.fill_pending /\ m.countdown >= 0
StillCounting(m) == ~m.fill_pending /\ m.countdown > 0
\* checkReady for one MSHR; s holds the caches, the MSHRs and the loads.
Service(s, i) ==
    LET m == s.mshrs[i]
        walk == Walk(s.hierarchy, m.block)
    IN IF ~m.valid THEN s
       ELSE IF StillCounting(m) THEN [s EXCEPT !.mshrs[i].countdown = @ - 1]
       ELSE IF ~walk.done
         THEN [s EXCEPT !.hierarchy = walk.hierarchy, !.mshrs[i].fill_pending = TRUE]
       ELSE [hierarchy |-> Access(walk.hierarchy, m.block, NoValue),
             mshrs |-> [s.mshrs EXCEPT ![i].valid = FALSE, ![i].fill_pending = FALSE,
                                       ![i].targets = {}],
             loads |-> [t \in Loads |->
                          IF t \in m.targets
                            THEN [s.loads[t] EXCEPT !.state = "answered",
                                                    !.value = Word(walk.hierarchy, m.block)]
                            ELSE s.loads[t]]]

\* checkReady, one MSHR after the other, and the responses memory_stage takes
\* from it.
CheckReady ==
    LET served[n \in 0 .. NUM_MSHRS] ==           \* the first n MSHRs
            IF n = 0 THEN [hierarchy |-> Hierarchy, mshrs |-> mshrs, loads |-> loads]
            ELSE Service(served[n - 1], n)
        s == served[NUM_MSHRS]
    IN /\ stage = "memory" /\ stage' = "drain"
       /\ Becomes(s.hierarchy) /\ mshrs' = s.mshrs /\ loads' = s.loads
       /\ UNCHANGED <<latest, store, writes, pc_block, stalled>>

MergeTarget_Bug(i, s) == mshrs
MergeTarget(i, s) == [mshrs EXCEPT ![i].targets = @ \cup {s}]
Merging(b) == {i \in MSHRIndex : mshrs[i].valid /\ mshrs[i].block = b}
Open == {i \in MSHRIndex : ~mshrs[i].valid}

\* allocateMSHR: join the MSHR of the block, else take the first free one.
AllocateMSHR(s, b) ==
    IF Merging(b) # {} THEN mshrs' = MergeTarget(FirstWay(Merging(b)), s)
    ELSE /\ Open # {}
         /\ mshrs' = [mshrs EXCEPT ![FirstWay(Open)] =
                        [valid |-> TRUE, block |-> b, countdown |-> MISS_PENALTY - 1,
                         fill_pending |-> FALSE, targets |-> {s}]]

Dropped_Bug(m, branch_seq) == {}
\* The targets of an MSHR that squash erases.
Dropped(m, branch_seq) == {s \in m.targets : s > branch_seq}
SquashMSHR(m, branch_seq) ==
    LET left == m.targets \ Dropped(m, branch_seq)
    IN IF ~m.valid THEN m
       ELSE IF left = {} THEN [m EXCEPT !.valid = FALSE, !.fill_pending = FALSE,
                                        !.targets = {}]
       ELSE [m EXCEPT !.targets = left]

----------------------------------------------------------------------------
(* The stages of a cycle, in the order of out_of_order_advance.            *)

\* One turn of the loop in evict_commited_stores: the store leaves the queue
\* when its access answers true.
DrainStore ==
    /\ store.pending
    /\ Becomes(Access(Hierarchy, store.block, store.value))
    /\ store' = [store EXCEPT !.pending = ~Answers(Hierarchy, store.block)]
    /\ latest' = IF Answers(Hierarchy, store.block)
                   THEN [latest EXCEPT ![store.block] = store.value] ELSE latest

\* The next store, committed now or earlier, reaches the head of the queue.
NextStore(b) ==
    /\ stage \in {"commit", "drain"}
    /\ ~store.pending /\ writes < MaxWrites
    /\ store' = [pending |-> TRUE, block |-> b, value |-> writes + 1]
    /\ writes' = writes + 1
    /\ UNCHANGED <<memVars, latest, mshrs, loads, pc_block, stalled, stage>>

\* commit_stage drains after each instruction it commits, and ends.
CommitStage ==
    /\ stage = "commit"
    /\ \/ DrainStore /\ UNCHANGED stage
       \/ stage' = "memory" /\ UNCHANGED <<memVars, latest, store>>
    /\ UNCHANGED <<writes, mshrs, loads, pc_block, stalled>>

\* memory_stage drains once more; the drain ends at the first miss.
MemoryStage ==
    /\ stage = "drain"
    /\ \/ DrainStore /\ stage' = IF store'.pending THEN "execute" ELSE "drain"
       \/ ~store.pending /\ stage' = "execute" /\ UNCHANGED <<memVars, latest, store>>
    /\ UNCHANGED <<writes, mshrs, loads, pc_block, stalled>>

\* allocateMSHR finds neither an MSHR of the block nor a free one.
Refused(b) == ~Has(l1, b) /\ Merging(b) = {} /\ Open = {}

Retries_Bug(s, b) == FALSE
\* The unit of a refused load is not ready: it executes the load again in the
\* next cycle.
Retries(s, b) == loads[s].state = "refused" /\ loads[s].block = b

\* execute_stage, a load that no queued store answers: the L1 probe, else an
\* MSHR, else the unit keeps the load.
ExecuteLoad(s, b) ==
    /\ stage = "execute"
    /\ loads[s].state = "idle" \/ Retries(s, b)
    /\ \/ /\ Has(l1, b)
          /\ l1' = Touch(l1, b)
          /\ loads' = [loads EXCEPT ![s] = [state |-> "answered", block |-> b,
                                            value |-> Word(Hierarchy, b)]]
          /\ UNCHANGED mshrs
       \/ /\ ~Has(l1, b)
          /\ AllocateMSHR(s, b)
          /\ loads' = [loads EXCEPT ![s] = [state |-> "waiting", block |-> b, value |-> 0]]
          /\ UNCHANGED l1
       \/ /\ Refused(b) /\ loads[s].state = "idle"
          /\ loads' = [loads EXCEPT ![s] = [state |-> "refused", block |-> b, value |-> 0]]
          /\ UNCHANGED <<l1, mshrs>>
    /\ UNCHANGED <<l2, mem, lost, latest, store, writes, pc_block, stalled, stage>>

\* Every unit has had its turn: the loads still refused were refused again.
\* (While the stage lasts no MSHR is freed and L1 gets no new block.)
Retried == \A s \in Loads, b \in Blocks : Retries(s, b) => Refused(b)

\* perform_squash at the end of execute_stage: younger loads are gone, and
\* fetch goes on elsewhere.
Squash(branch_seq, target) ==
    /\ stage = "execute" /\ stage' = "fetch" /\ Retried
    /\ mshrs' = [i \in MSHRIndex |-> SquashMSHR(mshrs[i], branch_seq)]
    /\ loads' = [s \in Loads |-> IF s > branch_seq /\ loads[s].state # "answered"
                                   THEN [loads[s] EXCEPT !.state = "squashed"] ELSE loads[s]]
    /\ pc_block' = target
    /\ UNCHANGED <<memVars, latest, store, writes, stalled>>

ExecuteStage ==
    /\ stage = "execute" /\ stage' = "fetch" /\ Retried
    /\ UNCHANGED <<memVars, latest, store, writes, mshrs, loads, pc_block, stalled>>

\* fetch_stage: an access a cycle until the first miss.  The instructions of
\* one cycle come from one block, or from two when they cross into the next or
\* when the block the program continues in is another one.
FetchStage ==
    LET first == Access(Hierarchy, pc_block, NoValue)
    IN /\ stage = "fetch" /\ stage' = "commit"
       /\ \/ /\ pc_block = NoBlock
             /\ stalled' = FALSE
             /\ UNCHANGED <<memVars, pc_block>>
          \/ /\ pc_block # NoBlock /\ ~Answers(Hierarchy, pc_block)
             /\ Becomes(first)
             /\ stalled' = TRUE /\ pc_block' = pc_block
          \/ /\ pc_block # NoBlock /\ Answers(Hierarchy, pc_block)
             /\ Becomes(first)
             /\ stalled' = FALSE /\ pc_block' \in TextBlocks \cup {NoBlock}
          \/ /\ pc_block # NoBlock /\ Answers(Hierarchy, pc_block)
             /\ pc_block' \in TextBlocks \ {pc_block}
             /\ ~Answers(first, pc_block')
             /\ Becomes(Access(first, pc_block', NoValue))
             /\ stalled' = FALSE
       /\ UNCHANGED <<latest, store, writes, mshrs, loads>>

Next ==
    \/ \E b \in Blocks : NextStore(b)
    \/ CommitStage \/ CheckReady \/ MemoryStage
    \/ \E s \in Loads, b \in Blocks : ExecuteLoad(s, b)
    \/ \E s \in Loads, b \in TextBlocks : Squash(s, b)
    \/ ExecuteStage \/ FetchStage

Spec == Init /\ [][Next]_vars

\* Every stage ends: out_of_order_advance is called in a loop and none of the
\* functions it calls waits for anything.  Before it ends, execute_stage takes
\* every unit that is not ready, one with a refused load included.
Stages == {"commit", "memory", "drain", "execute", "fetch"}
StageEnds == stage' \in Stages \ {stage}
UnitRetries == \E s \in Loads, b \in Blocks : Retries(s, b) /\ ExecuteLoad(s, b)
FairSpec == Spec /\ WF_stage(StageEnds) /\ WF_vars(UnitRetries)
----------------------------------------------------------------------------
Line == [valid : BOOLEAN, block : Blocks \cup {0}, dirty : BOOLEAN,
         replBits : Ways, data : 0 .. MaxWrites]
CacheOf(sets) == [0 .. sets - 1 -> [Ways -> Line]]

(***************************************************************************)
(* Types of the variables.                                                 *)
(***************************************************************************)
TypeOK ==
    /\ l1 \in CacheOf(L1_SETS) /\ l2 \in CacheOf(L2_SETS)
    /\ mem \in [Blocks -> 0 .. MaxWrites] /\ latest \in [Blocks -> 0 .. MaxWrites]
    /\ lost \subseteq Blocks
    /\ store \in [pending : BOOLEAN, block : Blocks \cup {0}, value : 0 .. MaxWrites]
    /\ writes \in 0 .. MaxWrites
    /\ mshrs \in [MSHRIndex -> [valid : BOOLEAN, block : Blocks \cup {0},
                                countdown : 0 .. MISS_PENALTY - 1,
                                fill_pending : BOOLEAN, targets : SUBSET Loads]]
    /\ loads \in [Loads -> [state : {"idle", "refused", "waiting", "answered", "squashed"},
                            block : Blocks \cup {0}, value : 0 .. MaxWrites]]
    /\ pc_block \in TextBlocks \cup {NoBlock} /\ stalled \in BOOLEAN
    /\ stage \in Stages

\* "model an inclusive hierarchy" (memory.cpp, which memory_ooo.cpp follows): a
\* block in L1 is in L2 too, and no level holds a block twice.  Otherwise
\* writeBackLine, which looks for the line in L2, would write nowhere.
Inclusive ==
    \A b \in Blocks : /\ Has(l1, b) => Has(l2, b)
                      /\ Cardinality(HitWays(l1, b)) <= 1
                      /\ Cardinality(HitWays(l2, b)) <= 1

\* What an access that is repeated until it answers would read.
Presented(b) ==
    IF Has(l1, b) THEN LineOf(l1, b).data
    ELSE IF Has(l2, b) THEN LineOf(l2, b).data
    ELSE mem[b]
\* A store under way may have been done in L2 before it is done in L1.
Expected(b) ==
    {latest[b]} \cup (IF store.pending /\ store.block = b THEN {store.value} ELSE {})

\* Except for one mechanism, the caches are invisible: any block, read at any
\* time and wherever it is by then, holds the last store to it.  Lines go up
\* and down, dirty lines are written back and stores retry in the middle of it.
\* The exception is a line that L2 evicts while L1 holds it dirty.
OnlyInclusionLosesWrites ==
    \A b \in Blocks \ lost : Presented(b) \in Expected(b)

\* The caches are invisible, as they are at -O0, which "was used to verify
\* correctness for other optimization levels" (README.md): what is read is what
\* was written last.
HierarchyIsFlatMemory == \A b \in Blocks : Presented(b) \in Expected(b)

\* The replacement bits order nothing: replace gives a new line the bits of the
\* most recently used one before updateReplacementBits compares, so all valid
\* lines of a set hold the same bits at all times, and the victim of a set
\* once full is way 0 for ever.
ReplacementOrdersNothing ==
    \A c \in {l1, l2} : \A i \in DOMAIN c : \A w \in Ways :
        c[i][w].valid => c[i][w].replBits = ASSOC - 1

\* Every load that waits is a target of exactly one MSHR, of its own block,
\* and every MSHR in use has a target and no other MSHR has its block, through
\* merging, squashes that empty an MSHR and its reuse.  The four accesses of
\* checkReady are enough: no MSHR is left waiting with fill_pending set.
MSHRsMatchLoads ==
    /\ \A s \in Loads : loads[s].state = "waiting" =>
          \E i \in MSHRIndex : /\ mshrs[i].valid /\ mshrs[i].block = loads[s].block
                               /\ s \in mshrs[i].targets
    /\ \A i, j \in MSHRIndex : mshrs[i].valid /\ mshrs[j].valid =>
          /\ mshrs[i].targets # {} /\ ~mshrs[i].fill_pending
          /\ \A s \in mshrs[i].targets : loads[s].state = "waiting"
          /\ i # j => mshrs[i].block # mshrs[j].block

\* The word a load is answered with, on a hit or after the wait in an MSHR, is
\* what memory holds at that moment, though other fills of the same cycle and
\* stores to the block go on meanwhile; a squashed load is not answered.
AnswersAreCurrent ==
    [][\A s \in Loads :
         loads[s].state # "answered" /\ loads'[s].state = "answered" =>
            /\ loads[s].state # "squashed"
            /\ loads'[s].block \notin lost' =>
                 loads'[s].value \in Expected(loads'[s].block)]_vars

\* No load waits for ever, in an MSHR or in its unit for one, though MSHRs are
\* merged, squashed and reused and other loads take the one that becomes free.
EveryMissAnswered ==
    \A s \in Loads :
        loads[s].state \in {"refused", "waiting"} ~> loads[s].state \in {"answered", "squashed"}

\* A committed store gets into the caches: MemoryOOO::access "walks one level
\* per call (mem->L2, L2->L1, L1 hit), returning true only on the final L1 hit".
StoresDrain == store.pending ~> ~store.pending

\* Instruction fetch is not stalled for ever.
FetchProceeds == []<>~stalled
=============================================================================
