--------------------------- MODULE BlockingCaches ---------------------------
(***************************************************************************)
(* The caches of the -O1 processor: classes Cache and Memory (memory.h,    *)
(* memory.cpp) above level 0.  A miss is not remembered: the caller        *)
(* repeats the access every cycle until it answers, while each level       *)
(* counts its miss penalty down in the one counter it has.                 *)
(*                                                                         *)
(* The state is one record, of the two levels, the memory below and two    *)
(* further fields: stale, what the frame of Memory::access holds of the    *)
(* line L1 evicted last, and lost, the blocks of which L1 had a word that  *)
(* L2 had not when L1's line was invalidated (a history field).  An        *)
(* address is the block it lies in and a line's data is one value.         *)
(***************************************************************************)
EXTENDS Integers, FiniteSets

CONSTANTS
    L1_SETS, L2_SETS, ASSOC,
    L1_PENALTY, L2_PENALTY,
    Blocks,         \* natural numbers
    Values          \* 0 among them

Ways == 0 .. ASSOC - 1
Line == [valid : BOOLEAN, block : Blocks \cup {0}, dirty : BOOLEAN,
         replBits : Ways, data : Values]
CacheOf(sets, penalty) == [line : [0 .. sets - 1 -> [Ways -> Line]],
                           missCountdown : 0 .. penalty - 1]
Hierarchy == [l1 : CacheOf(L1_SETS, L1_PENALTY), l2 : CacheOf(L2_SETS, L2_PENALTY),
              mem : [Blocks -> Values], stale : Line, lost : SUBSET Blocks]

InvalidLine == [valid |-> FALSE, block |-> 0, dirty |-> FALSE, replBits |-> 0, data |-> 0]
EmptyCache(sets) ==
    [line |-> [i \in 0 .. sets - 1 |-> [w \in Ways |-> InvalidLine]], missCountdown |-> 0]
Cold(memory) == [l1 |-> EmptyCache(L1_SETS), l2 |-> EmptyCache(L2_SETS), mem |-> memory,
                 stale |-> InvalidLine, lost |-> {}]

----------------------------------------------------------------------------
(* Cache                                                                   *)
(* (A definition whose name ends in _Bug is a plausible mistake in the one *)
(* that follows it, kept to show that some property notices.)              *)

\* getIndex
Index(cache, b) == b % Cardinality(DOMAIN cache.line)
HitWays(cache, b) ==
    {w \in Ways : LET l == cache.line[Index(cache, b)][w] IN l.valid /\ l.block = b}
Has(cache, b) == HitWays(cache, b) # {}
First(S) == CHOOSE w \in S : \A v \in S : w <= v
\* readLine
LineOf(cache, b) == cache.line[Index(cache, b)][First(HitWays(cache, b))]

UpdateReplacementBits(set, way) ==
    [w \in Ways |->
        IF w = way THEN [set[w] EXCEPT !.replBits = ASSOC - 1]
        ELSE IF set[w].valid /\ set[w].replBits > set[way].replBits
          THEN [set[w] EXCEPT !.replBits = @ - 1]
        ELSE set[w]]

\* writeBackLine, and the write of a hit
Update(cache, b, value) ==
    [cache EXCEPT !.line[Index(cache, b)] =
        [w \in Ways |-> IF w \in HitWays(cache, b)
                          THEN [@[w] EXCEPT !.data = value, !.dirty = TRUE] ELSE @[w]]]

InvalidateLine_Bug(cache, b) == cache
InvalidateLine(cache, b) ==
    [cache EXCEPT !.line[Index(cache, b)] =
        [w \in Ways |-> IF w \in HitWays(cache, b) THEN [@[w] EXCEPT !.valid = FALSE]
                                                   ELSE @[w]]]

NewCountdown_Bug(penalty) == penalty
\* The cycle that finds the miss is one of its cycles.
NewCountdown(penalty) == penalty - 1
\* read, with NoValue, or write of a value: the level answers once the penalty
\* of a miss is paid, whoever missed.
NoValue == -1
Probe(cache, penalty, b, value) ==
    IF cache.missCountdown > 0
      THEN [cache |-> [cache EXCEPT !.missCountdown = @ - 1], hit |-> FALSE]
    ELSE IF ~Has(cache, b)
      THEN [cache |-> [cache EXCEPT !.missCountdown = NewCountdown(penalty)], hit |-> FALSE]
    ELSE LET touched == [cache EXCEPT !.line[Index(cache, b)] =
                            UpdateReplacementBits(@, First(HitWays(cache, b)))]
         IN [cache |-> IF value = NoValue THEN touched ELSE Update(touched, b, value),
             hit |-> TRUE]

NewLineBits_Bug == ASSOC - 1
NewLineBits == 0
Victims(set) == {w \in Ways : ~set[w].valid \/ set[w].replBits = 0}
\* replace does nothing if the block is there or if no line may go; else the
\* first line that may go does.  It sets all fields of the new line but the
\* data and the dirty bit, which are those of the line it is given.
Replaces(cache, b) == ~Has(cache, b) /\ Victims(cache.line[Index(cache, b)]) # {}
VictimWay(cache, b) == First(Victims(cache.line[Index(cache, b)]))
Evicted(cache, b) ==
    IF Replaces(cache, b) THEN cache.line[Index(cache, b)][VictimWay(cache, b)]
                          ELSE InvalidLine
Replace(cache, b, newLine) ==
    IF Replaces(cache, b)
      THEN [cache EXCEPT !.line[Index(cache, b)][VictimWay(cache, b)] =
               [valid |-> TRUE, block |-> b, dirty |-> newLine.dirty,
                replBits |-> NewLineBits, data |-> newLine.data]]
      ELSE cache

----------------------------------------------------------------------------
(* Memory::access                                                          *)

WriteBack(cache, line) ==
    IF line.valid /\ line.dirty THEN Update(cache, line.block, line.data) ELSE cache

\* The L2 hit: the line goes to L1, with the dirty bit it has in L2, and the one
\* that leaves L1 is written back.
\* When L1 has the line already, replace does not set evictedLine, which access
\* then reads uninitialized: no write-back, or that of the line which the
\* frame still holds.
FillL1(h, b) ==
    LET evicted == Evicted(h.l1, b)
        filled == [h EXCEPT !.l1 = Replace(@, b, LineOf(h.l2, b))]
    IN IF Replaces(h.l1, b)
         THEN {[filled EXCEPT !.l2 = WriteBack(@, evicted), !.stale = evicted]}
         ELSE {h, [h EXCEPT !.l2 = WriteBack(@, h.stale)]}

\* The L2 miss: the line goes to L2, and the one that leaves L2 is invalidated
\* in L1, dirty or not, and L2's copy of it is written to memory.  The dirty bit
\* of the new line is not initialized.
FillL2(h, b, dirty) ==
    LET e == Evicted(h.l2, b)
        inL1 == e.valid /\ Has(h.l1, e.block)
    IN [h EXCEPT !.l1 = IF e.valid THEN InvalidateLine(@, e.block) ELSE @,
                 !.l2 = Replace(@, b, [dirty |-> dirty, data |-> h.mem[b]]),
                 !.mem = IF e.valid /\ e.dirty THEN [@ EXCEPT ![e.block] = e.data] ELSE @,
                 !.lost = IF inL1 /\ LineOf(h.l1, e.block).data # e.data
                            THEN @ \cup {e.block} ELSE @]

\* What an access may leave, and whether it answers.
Access(h, b, value) ==
    LET in1 == Probe(h.l1, L1_PENALTY, b, value)
        in2 == Probe(h.l2, L2_PENALTY, b, value)
        missed1 == [h EXCEPT !.l1 = in1.cache, !.l2 = in2.cache]
    IN IF in1.hit THEN {[to |-> [h EXCEPT !.l1 = in1.cache], answers |-> TRUE]}
       ELSE {[to |-> g, answers |-> FALSE] :
               g \in IF in2.hit THEN FillL1(missed1, b)
                               ELSE {FillL2(missed1, b, dirty) : dirty \in BOOLEAN}}

\* The word an access that answers reads, wherever the block is.
Presented(h, b) ==
    IF Has(h.l1, b) THEN LineOf(h.l1, b).data
    ELSE IF Has(h.l2, b) THEN LineOf(h.l2, b).data
    ELSE h.mem[b]

----------------------------------------------------------------------------
\* A block in L1 is in L2 too, and no level holds a block twice.
InclusiveIn(h) ==
    \A b \in Blocks : /\ Has(h.l1, b) => Has(h.l2, b)
                      /\ Cardinality(HitWays(h.l1, b)) <= 1
                      /\ Cardinality(HitWays(h.l2, b)) <= 1
\* In every set of either level some line may be replaced.
VictimsIn(h) ==
    \A c \in {h.l1, h.l2} : \A i \in DOMAIN c.line : Victims(c.line[i]) # {}
=============================================================================
