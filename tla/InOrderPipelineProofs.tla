------------------------- MODULE InOrderPipelineProofs -------------------------
(***************************************************************************)
(* Proofs about InOrderPipeline and the caches it uses: that a line for    *)
(* replacement is always found, that main leaves the loop in time at full  *)
(* speed, and that the pipeline runs like the single-cycle processor.      *)
(***************************************************************************)
EXTENDS InOrderPipeline, InstructionSetProofs

----------------------------------------------------------------------------
(* Blocks, ways and sets.                                                  *)

Ways == Caches!Ways
Line == Caches!Line
Has(c, b) == Caches!Has(c, b)
LineOf(c, b) == Caches!LineOf(c, b)
NoValue == Caches!NoValue

LEMMA Sizes ==
    /\ L1_SETS \in Nat \ {0} /\ L2_SETS \in Nat \ {0} /\ ASSOC \in Nat \ {0}
    /\ L1_PENALTY \in Nat \ {0} /\ L2_PENALTY \in Nat \ {0} /\ TEXT_WORDS \in Nat \ {0}
BY PipelineAssumption

LEMMA WaysAreNumbers == Ways \in SUBSET Nat /\ Ways # {} /\ ASSOC - 1 \in Ways /\ 0 \in Ways
BY Sizes DEF Ways, Caches!Ways

LEMMA BlocksAreNumbers == Blocks \in SUBSET Nat
<1>1. \A a \in Word : DataBlock(a) \in Nat
  BY WordLimits DEF DataBlock
<1>2. \A at \in Nat : TextBlock(at) \in Nat
  BY Sizes, Division DEF TextBlock
<1>3. 0 .. MAX_LENGTH + 9 \subseteq Nat
  BY PipelineAssumption
<1> QED
  BY <1>1, <1>2, <1>3 DEF Blocks

LEMMA FirstIsIn ==
    ASSUME NEW S \in SUBSET Nat, S # {}
    PROVE  Caches!First(S) \in S
<1>1. PICK m \in S : \A k \in S : <<k, m>> \notin OpToRel(<, Nat)
  BY NatLessThanWellFounded, WFMin, Zenon
<1>2. \A k \in S : ~(k < m)
  BY <1>1 DEF OpToRel
<1>3. \A k \in S : m <= k
  BY <1>2
<1> QED
  BY <1>3 DEF Caches!First

LEMMA FirstOfOne ==
    ASSUME NEW w \in Nat
    PROVE  Caches!First({w}) = w
BY FirstIsIn

LEMMA IndexInRange ==
    ASSUME NEW sets \in Nat \ {0}, NEW b \in Blocks
    PROVE  b % sets \in 0 .. sets - 1
BY BlocksAreNumbers

----------------------------------------------------------------------------
(* One cache.                                                              *)

Rows(sets) == [0 .. sets - 1 -> [Ways -> Line]]

\* Way w of the set of block b holds b.
At(c, sets, b, w) == c.line[b % sets][w].valid /\ c.line[b % sets][w].block = b

\* Every valid line is in the set of its block, and no set has a block twice.
Placed(c, sets) ==
    \A i \in 0 .. sets - 1, w \in Ways :
        c.line[i][w].valid => c.line[i][w].block \in Blocks /\ c.line[i][w].block % sets = i
Distinct(c, sets) ==
    \A i \in 0 .. sets - 1 : \A w, v \in Ways :
        c.line[i][w].valid /\ c.line[i][v].valid /\ c.line[i][w].block = c.line[i][v].block
            => w = v
\* The ways can be ranked by age, and no line has more bits than its rank: this
\* is what remains of the order that the bits should be.
RankedBy(row, f) ==
    /\ f \in [Ways -> Ways] /\ \A k \in Ways : \E w \in Ways : f[w] = k
    /\ \A w \in Ways : row[w].valid => row[w].replBits <= f[w]
Ranked(row) == \E f : RankedBy(row, f)
AllRanked(c, sets) == \A i \in 0 .. sets - 1 : Ranked(c.line[i])

Sound(c, sets) ==
    /\ c.line \in Rows(sets) /\ Placed(c, sets) /\ Distinct(c, sets) /\ AllRanked(c, sets)

\* The same but for the replacement bits.
Agree(l, m) == l.valid = m.valid /\ l.block = m.block /\ l.dirty = m.dirty /\ l.data = m.data
\* Both caches hold block a alike, or both do not.
Like(c, d, a) ==
    /\ Has(d, a) <=> Has(c, a)
    /\ Has(c, a) => /\ LineOf(d, a).data = LineOf(c, a).data
                    /\ LineOf(d, a).dirty = LineOf(c, a).dirty

LEMMA HitWaysAre ==
    ASSUME NEW sets \in Nat \ {0}, NEW c, c.line \in Rows(sets), NEW b \in Blocks
    PROVE  /\ Caches!Index(c, b) = b % sets
           /\ Caches!HitWays(c, b) = {w \in Ways : At(c, sets, b, w)}
           /\ Has(c, b) <=> \E w \in Ways : At(c, sets, b, w)
<1>1. DOMAIN c.line = 0 .. sets - 1
  BY DEF Rows
<1>2. Cardinality(0 .. sets - 1) = sets
  BY FS_Interval
<1>3. Caches!Index(c, b) = b % sets
  <2>1. Caches!Index(c, b) = b % Cardinality(DOMAIN c.line)
    BY DEF Caches!Index, Caches!Cardinality, Cardinality
  <2> QED
    BY <1>1, <1>2, <2>1, Zenon
<1>4. Caches!HitWays(c, b) = {w \in Ways : At(c, sets, b, w)}
  BY <1>3 DEF Caches!HitWays, At, Ways
<1> QED
  BY <1>3, <1>4 DEF Has, Caches!Has

\* The one way that holds a block.
LEMMA OneWay ==
    ASSUME NEW sets \in Nat \ {0}, NEW c, c.line \in Rows(sets), Distinct(c, sets),
           NEW b \in Blocks, NEW w \in Ways, At(c, sets, b, w)
    PROVE  Has(c, b) /\ Caches!HitWays(c, b) = {w} /\ LineOf(c, b) = c.line[b % sets][w]
<1>1. b % sets \in 0 .. sets - 1 /\ w \in Nat
  BY IndexInRange, WaysAreNumbers
<1>2. Caches!Index(c, b) = b % sets /\ Caches!HitWays(c, b) = {v \in Ways : At(c, sets, b, v)}
  BY HitWaysAre
<1>3. \A v \in Ways : At(c, sets, b, v) => v = w
  BY <1>1 DEF Distinct, At
<1>4. Caches!HitWays(c, b) = {w}
  BY <1>2, <1>3
<1> QED
  BY <1>1, <1>2, <1>4, FirstOfOne DEF Has, LineOf, Caches!Has, Caches!LineOf

LEMMA LineHeld ==
    ASSUME NEW sets \in Nat \ {0}, NEW c, c.line \in Rows(sets), Distinct(c, sets),
           NEW b \in Blocks, Has(c, b)
    PROVE  /\ LineOf(c, b) \in Line /\ LineOf(c, b).valid /\ LineOf(c, b).block = b
           /\ \E w \in Ways : /\ At(c, sets, b, w) /\ Caches!HitWays(c, b) = {w}
                              /\ LineOf(c, b) = c.line[b % sets][w]
<1>1. b % sets \in 0 .. sets - 1
  BY IndexInRange
<1>2. PICK w \in Ways : At(c, sets, b, w)
  BY HitWaysAre
<1>3. Caches!HitWays(c, b) = {w} /\ LineOf(c, b) = c.line[b % sets][w]
  BY <1>2, OneWay
<1>4. c.line[b % sets][w] \in Line
  BY <1>1 DEF Rows
<1> QED
  BY <1>2, <1>3, <1>4 DEF At

\* Caches that differ in way w of set i only, and in replacement bits.
Differ(c, d, sets, i, w) ==
    /\ c.line \in Rows(sets) /\ d.line \in Rows(sets)
    /\ \A k \in 0 .. sets - 1, u \in Ways : k # i \/ u # w => Agree(c.line[k][u], d.line[k][u])

\* A line that may be put into way w of set i.
Fits(c, sets, i, w, line) ==
    line.valid => /\ line.block \in Blocks /\ line.block % sets = i
                  /\ \A u \in Ways : c.line[i][u].valid /\ c.line[i][u].block = line.block => u = w

LEMMA ChangeSound ==
    ASSUME NEW sets \in Nat \ {0}, NEW c, Placed(c, sets), Distinct(c, sets), NEW d,
           NEW i \in 0 .. sets - 1, NEW w \in Ways, Differ(c, d, sets, i, w),
           Fits(c, sets, i, w, d.line[i][w])
    PROVE  Placed(d, sets) /\ Distinct(d, sets)
<1>1. Placed(d, sets)
  BY DEF Placed, Fits, Differ, Agree
<1>2. Distinct(d, sets)
  <2> SUFFICES ASSUME NEW k \in 0 .. sets - 1, NEW u \in Ways, NEW v \in Ways,
                      d.line[k][u].valid, d.line[k][v].valid,
                      d.line[k][u].block = d.line[k][v].block
               PROVE  u = v
    BY Zenon DEF Distinct
  <2>1. CASE k # i \/ (u # w /\ v # w)
    BY <2>1 DEF Distinct, Differ, Agree
  <2>2. CASE k = i /\ u = w /\ v # w
    BY <2>2 DEF Fits, Differ, Agree
  <2>3. CASE k = i /\ u # w /\ v = w
    BY <2>3 DEF Fits, Differ, Agree
  <2> QED
    BY <2>1, <2>2, <2>3
<1> QED
  BY <1>1, <1>2

\* What the cache then holds: the new line, not the old one, and the rest.
LEMMA ChangeHolds ==
    ASSUME NEW sets \in Nat \ {0}, NEW c, Placed(c, sets), Distinct(c, sets), NEW d,
           NEW i \in 0 .. sets - 1, NEW w \in Ways, Differ(c, d, sets, i, w),
           Fits(c, sets, i, w, d.line[i][w]), NEW a \in Blocks
    PROVE  LET new == d.line[i][w].valid /\ d.line[i][w].block = a
               old == c.line[i][w].valid /\ c.line[i][w].block = a
           IN /\ new => Has(d, a) /\ LineOf(d, a) = d.line[i][w]
              /\ ~new /\ old => ~Has(d, a)
              /\ ~new /\ ~old => Like(c, d, a)
<1> DEFINE new == d.line[i][w].valid /\ d.line[i][w].block = a
           old == c.line[i][w].valid /\ c.line[i][w].block = a
<1>1. a % sets \in 0 .. sets - 1 /\ c.line \in Rows(sets) /\ d.line \in Rows(sets)
  BY IndexInRange DEF Differ
<1>2. Placed(d, sets) /\ Distinct(d, sets)
  BY ChangeSound
<1>3. ASSUME new PROVE Has(d, a) /\ LineOf(d, a) = d.line[i][w]
  <2>1. a % sets = i /\ At(d, sets, a, w)
    BY <1>3 DEF At, Fits
  <2> QED
    BY <1>1, <1>2, <2>1, OneWay
<1>4. ASSUME ~new, old PROVE ~Has(d, a)
  <2>1. a % sets = i
    BY <1>4 DEF Placed
  <2>2. ASSUME NEW u \in Ways, At(d, sets, a, u) PROVE FALSE
    <3>1. CASE u = w
      BY <1>4, <2>1, <2>2, <3>1 DEF At
    <3>2. CASE u # w
      <4>1. c.line[i][u].valid /\ c.line[i][u].block = a
        BY <2>1, <2>2, <3>2 DEF At, Differ, Agree
      <4> QED
        BY <1>4, <3>2, <4>1 DEF Distinct
    <3> QED
      BY <3>1, <3>2
  <2> QED
    BY <1>1, <2>2, HitWaysAre
<1>5. ASSUME ~new, ~old PROVE Like(c, d, a)
  <2>1. \A u \in Ways : At(d, sets, a, u) <=> At(c, sets, a, u)
    BY <1>1, <1>5 DEF At, Differ, Agree
  <2>2. \A u \in Ways : At(c, sets, a, u) => Agree(c.line[a % sets][u], d.line[a % sets][u])
    BY <1>1, <1>5 DEF At, Differ
  <2>3. Has(d, a) <=> Has(c, a)
    BY <1>1, <2>1, HitWaysAre
  <2>4. ASSUME Has(c, a)
        PROVE  LineOf(d, a).data = LineOf(c, a).data /\ LineOf(d, a).dirty = LineOf(c, a).dirty
    <3>1. PICK u \in Ways : At(c, sets, a, u)
      BY <1>1, <2>4, HitWaysAre
    <3>2. LineOf(c, a) = c.line[a % sets][u]
      BY <1>1, <3>1, OneWay
    <3>3. LineOf(d, a) = d.line[a % sets][u]
      BY <1>1, <1>2, <2>1, <3>1, OneWay
    <3> QED
      BY <2>2, <3>1, <3>2, <3>3 DEF Agree
  <2> QED
    BY <2>3, <2>4 DEF Like
<1> QED
  BY <1>3, <1>4, <1>5

----------------------------------------------------------------------------
(* What the operations do to one cache.                                    *)

Good(c, sets, penalty) ==
    c \in Caches!CacheOf(sets, penalty) /\ Placed(c, sets) /\ Distinct(c, sets)
    /\ AllRanked(c, sets)

\* After a change of way w of set i that makes c into d: the new line is held,
\* the old one is not, and the rest is as it was.
Now(c, d, i, w) ==
    \A a \in Blocks :
        LET new == d.line[i][w].valid /\ d.line[i][w].block = a
            old == c.line[i][w].valid /\ c.line[i][w].block = a
        IN /\ new => Has(d, a) /\ LineOf(d, a) = d.line[i][w]
           /\ ~new /\ old => ~Has(d, a)
           /\ ~new /\ ~old => Like(c, d, a)

PutRow(c, i, row) == [c EXCEPT !.line[i] = row]

LEMMA PutIs ==
    ASSUME NEW sets \in Nat \ {0}, NEW penalty \in Nat \ {0},
           NEW c, Good(c, sets, penalty), NEW i \in 0 .. sets - 1, NEW w \in Ways,
           NEW row \in [Ways -> Line], \A u \in Ways : u # w => Agree(c.line[i][u], row[u]),
           Fits(c, sets, i, w, row[w]), Ranked(row)
    PROVE  LET d == PutRow(c, i, row)
           IN /\ Good(d, sets, penalty) /\ Now(c, d, i, w)
              /\ d.line[i] = row /\ d.missCountdown = c.missCountdown
<1> DEFINE d == PutRow(c, i, row)
<1>1. /\ c \in [line : Rows(sets), missCountdown : 0 .. penalty - 1]
      /\ Placed(c, sets) /\ Distinct(c, sets) /\ AllRanked(c, sets)
  BY DEF Good, Caches!CacheOf, Rows, Ways, Line
<1>2. /\ d \in [line : Rows(sets), missCountdown : 0 .. penalty - 1]
      /\ d.line[i] = row /\ d.missCountdown = c.missCountdown
      /\ \A k \in 0 .. sets - 1 : k # i => d.line[k] = c.line[k]
  BY <1>1 DEF PutRow, Rows
<1> HIDE DEF d
<1>3. Differ(c, d, sets, i, w)
  BY <1>1, <1>2 DEF Differ, Agree
<1>4. Fits(c, sets, i, w, d.line[i][w])
  BY <1>2
<1>5. Placed(d, sets) /\ Distinct(d, sets)
  BY <1>1, <1>3, <1>4, ChangeSound
<1>6. AllRanked(d, sets)
  BY <1>1, <1>2 DEF AllRanked
<1>7. Now(c, d, i, w)
  <2> SUFFICES ASSUME NEW a \in Blocks
               PROVE  LET new == d.line[i][w].valid /\ d.line[i][w].block = a
                          old == c.line[i][w].valid /\ c.line[i][w].block = a
                      IN /\ new => Has(d, a) /\ LineOf(d, a) = d.line[i][w]
                         /\ ~new /\ old => ~Has(d, a)
                         /\ ~new /\ ~old => Like(c, d, a)
    BY Zenon DEF Now
  <2> QED
    BY <1>1, <1>3, <1>4, ChangeHolds
<1>8. Good(d, sets, penalty)
  BY <1>2, <1>5, <1>6 DEF Good, Caches!CacheOf, Rows, Ways, Line
<1> QED
  BY <1>2, <1>7, <1>8 DEF d

LEMMA LineFields ==
    /\ Line = [valid : BOOLEAN, block : Blocks \cup {0}, dirty : BOOLEAN,
               replBits : Ways, data : Word]
    /\ Ways = 0 .. ASSOC - 1
BY DEF Line, Caches!Line, Ways, Caches!Ways

\* A line with fewer bits, or an invalid one, does not disturb the ranks.
LEMMA RankedKept ==
    ASSUME NEW row \in [Ways -> Line], Ranked(row), NEW new \in [Ways -> Line],
           \A w \in Ways : new[w].valid =>
               (row[w].valid /\ new[w].replBits = row[w].replBits) \/ new[w].replBits = 0
    PROVE  Ranked(new)
<1>1. PICK f : RankedBy(row, f)
  BY DEF Ranked
<1>2. \A w \in Ways : f[w] \in Nat /\ 0 <= f[w]
  <2>1. \A w \in Ways : f[w] \in 0 .. ASSOC - 1
    BY <1>1, LineFields DEF RankedBy
  <2> QED
    BY <2>1
<1>3. RankedBy(new, f)
  BY <1>1, <1>2 DEF RankedBy
<1> QED
  BY <1>3 DEF Ranked

\* Someone has rank 0, and may be replaced.
LEMMA RankedHasVictim ==
    ASSUME NEW row \in [Ways -> Line], Ranked(row)
    PROVE  Caches!Victims(row) # {}
<1>1. PICK f : RankedBy(row, f)
  BY DEF Ranked
<1>2. PICK w \in Ways : f[w] = 0
  BY <1>1, WaysAreNumbers DEF RankedBy
<1>3. row[w].replBits \in Nat /\ row[w].valid \in BOOLEAN
  BY LineFields, WaysAreNumbers
<1>4. row[w].valid => row[w].replBits = 0
  BY <1>1, <1>2, <1>3 DEF RankedBy
<1> QED
  BY <1>4 DEF Caches!Victims, Ways

\* updateReplacementBits: the way gets the highest rank, those above it move down.
LEMMA TouchedRow ==
    ASSUME NEW row \in [Ways -> Line], Ranked(row), NEW way \in Ways, row[way].valid
    PROVE  LET new == Caches!UpdateReplacementBits(row, way)
           IN new \in [Ways -> Line] /\ Ranked(new) /\ \A w \in Ways : Agree(row[w], new[w])
<1> DEFINE new == Caches!UpdateReplacementBits(row, way)
<1>1. \A w \in Ways : new[w] =
          IF w = way THEN [row[w] EXCEPT !.replBits = ASSOC - 1]
          ELSE IF row[w].valid /\ row[w].replBits > row[way].replBits
            THEN [row[w] EXCEPT !.replBits = @ - 1]
          ELSE row[w]
  BY DEF Caches!UpdateReplacementBits, Ways
<1>2. new = [w \in Ways |-> new[w]]
  BY DEF Caches!UpdateReplacementBits, Ways
<1> HIDE DEF new
<1>3. \A w \in Ways : row[w].replBits \in 0 .. ASSOC - 1 /\ row[w].replBits \in Nat
  BY LineFields, Sizes
<1>4. ASSUME NEW w \in Ways
      PROVE  /\ new[w] \in Line /\ Agree(row[w], new[w])
             /\ new[w].replBits = IF w = way THEN ASSOC - 1
                                  ELSE IF row[w].valid /\ row[w].replBits > row[way].replBits
                                    THEN row[w].replBits - 1
                                  ELSE row[w].replBits
  <2>1. CASE w = way
    <3>1. ASSOC - 1 \in Ways
      BY WaysAreNumbers
    <3>2. new[w] = [row[w] EXCEPT !.replBits = ASSOC - 1]
      BY <1>1, <2>1
    <3> QED
      BY <2>1, <3>1, <3>2, LineFields DEF Agree
  <2>2. CASE w # way /\ row[w].valid /\ row[w].replBits > row[way].replBits
    <3>1. row[w].replBits - 1 \in 0 .. ASSOC - 1
      BY <1>3, <2>2, Sizes
    <3> QED
      BY ZenonT(30), <1>1, <1>3, <2>2, <3>1, LineFields DEF Agree
  <2>3. CASE w # way /\ ~(row[w].valid /\ row[w].replBits > row[way].replBits)
    BY <1>1, <2>3 DEF Agree
  <2> QED
    BY <2>1, <2>2, <2>3
<1>5. new \in [Ways -> Line]
  BY <1>2, <1>4
<1>6. PICK f : RankedBy(row, f)
  BY DEF Ranked
<1> DEFINE g == [w \in Ways |-> IF w = way THEN ASSOC - 1
                                ELSE IF f[w] > f[way] THEN f[w] - 1 ELSE f[w]]
<1>7. \A w \in Ways : f[w] \in 0 .. ASSOC - 1
  BY <1>6, LineFields DEF RankedBy
<1>8. g \in [Ways -> Ways]
  <2>1. \A w \in Ways : (IF w = way THEN ASSOC - 1
                         ELSE IF f[w] > f[way] THEN f[w] - 1 ELSE f[w]) \in 0 .. ASSOC - 1
    BY <1>7, Sizes
  <2> QED
    BY <2>1, LineFields
<1>9. ASSUME NEW k \in Ways PROVE \E w \in Ways : g[w] = k
  <2>1. k \in 0 .. ASSOC - 1
    BY LineFields
  <2>2. CASE k = ASSOC - 1
    BY <2>2
  <2>3. CASE k < f[way]
    <3>1. PICK w \in Ways : f[w] = k
      BY <1>6 DEF RankedBy
    <3> QED
      BY <1>7, <2>1, <2>3, <3>1
  <2>4. CASE k # ASSOC - 1 /\ ~(k < f[way])
    <3>1. k + 1 \in Ways
      BY <2>1, <2>4, LineFields, Sizes
    <3>2. PICK w \in Ways : f[w] = k + 1
      BY <1>6, <3>1 DEF RankedBy
    <3> QED
      BY <1>7, <2>1, <2>4, <3>2
  <2> QED
    BY <2>2, <2>3, <2>4
<1>10. ASSUME NEW w \in Ways, new[w].valid PROVE new[w].replBits <= g[w]
  <2>1. row[w].valid
    BY <1>4, <1>10 DEF Agree
  <2>2. row[w].replBits <= f[w] /\ row[way].replBits <= f[way]
    BY <1>6, <2>1 DEF RankedBy
  <2> QED
    BY <1>3, <1>4, <1>7, <2>1, <2>2, Sizes
<1>11. RankedBy(new, g)
  BY <1>8, <1>9, <1>10, Zenon DEF RankedBy
<1> QED
  BY <1>4, <1>5, <1>11 DEF Ranked, new

\* A hit brings the line to the highest rank, and changes nothing else.
LEMMA TouchIs ==
    ASSUME NEW sets \in Nat \ {0}, NEW penalty \in Nat \ {0}, NEW c, Good(c, sets, penalty),
           NEW b \in Blocks, Has(c, b)
    PROVE  LET d == [c EXCEPT !.line[Caches!Index(c, b)] =
                        Caches!UpdateReplacementBits(@, Caches!First(Caches!HitWays(c, b)))]
           IN /\ Good(d, sets, penalty) /\ d.missCountdown = c.missCountdown
              /\ \A a \in Blocks : Like(c, d, a)
<1>1. /\ c.line \in Rows(sets) /\ Distinct(c, sets) /\ AllRanked(c, sets)
      /\ b % sets \in 0 .. sets - 1
  BY IndexInRange DEF Good, Caches!CacheOf, Rows, Ways, Line
<1>2. PICK w \in Ways : At(c, sets, b, w) /\ Caches!HitWays(c, b) = {w}
  BY <1>1, LineHeld
<1>3. w \in Nat /\ Caches!First(Caches!HitWays(c, b)) = w
  BY <1>2, WaysAreNumbers, FirstOfOne
<1> DEFINE i == b % sets
           row == Caches!UpdateReplacementBits(c.line[i], w)
           d == PutRow(c, i, row)
<1>4. c.line[i] \in [Ways -> Line] /\ Ranked(c.line[i]) /\ c.line[i][w].valid
      /\ c.line[i][w].block = b
  BY <1>1, <1>2 DEF Rows, AllRanked, At
<1>5. row \in [Ways -> Line] /\ Ranked(row) /\ \A u \in Ways : Agree(c.line[i][u], row[u])
  BY <1>4, TouchedRow
<1>6. Fits(c, sets, i, w, row[w])
  BY <1>1, <1>4, <1>5 DEF Fits, Agree, Distinct
<1>7. Caches!Index(c, b) = i
  BY <1>1, HitWaysAre
<1>8. [c EXCEPT !.line[Caches!Index(c, b)] =
           Caches!UpdateReplacementBits(@, Caches!First(Caches!HitWays(c, b)))] = d
  BY <1>3, <1>7, Zenon DEF PutRow
<1>9. row[w].valid /\ row[w].block = b /\ Agree(c.line[i][w], row[w])
  BY <1>4, <1>5 DEF Agree
<1>10. i \in 0 .. sets - 1
  BY <1>1
<1> HIDE DEF row, i
<1>11. /\ Good(d, sets, penalty) /\ Now(c, d, i, w)
       /\ d.line[i] = row /\ d.missCountdown = c.missCountdown
  BY <1>5, <1>6, <1>10, PutIs
<1> HIDE DEF d
<1>12. ASSUME NEW a \in Blocks PROVE Like(c, d, a)
  <2>1. CASE a = b
    <3>1. Has(d, b) /\ LineOf(d, b) = row[w]
      BY <1>9, <1>11 DEF Now
    <3>2. LineOf(c, b) = c.line[i][w]
      BY <1>1, <1>2, OneWay DEF i
    <3> QED
      BY <1>9, <2>1, <3>1, <3>2 DEF Like, Agree
  <2>2. CASE a # b
    BY <1>4, <1>9, <1>11, <2>2 DEF Now, i
  <2> QED
    BY <2>1, <2>2
<1> QED
  BY <1>8, <1>11, <1>12, Zenon

\* A write to a line that is there; one that is not changes nothing.
Updated(c, d, b, value) ==
    /\ \A a \in Blocks : a # b \/ ~Has(c, b) => Like(c, d, a)
    /\ Has(c, b) => Has(d, b) /\ LineOf(d, b).data = value /\ LineOf(d, b).dirty

\* A line that is there no longer.
Invalidated(c, d, b) ==
    ~Has(d, b) /\ \A a \in Blocks : a # b => Like(c, d, a)

LEMMA SameRow ==
    ASSUME NEW sets \in Nat \ {0}, NEW penalty \in Nat \ {0}, NEW c, Good(c, sets, penalty),
           NEW i \in 0 .. sets - 1, NEW row, row = c.line[i]
    PROVE  PutRow(c, i, row) = c
<1>1. c \in [line : Rows(sets), missCountdown : 0 .. penalty - 1]
  BY DEF Good, Caches!CacheOf, Rows, Ways, Line
<1> QED
  BY <1>1 DEF PutRow, Rows

LEMMA LikeItself == ASSUME NEW c, NEW a PROVE Like(c, c, a)
BY DEF Like

LEMMA ClearedLine ==
    ASSUME NEW l \in Line, NEW m, m = [l EXCEPT !.valid = FALSE]
    PROVE  m \in Line /\ ~m.valid
BY LineFields

LEMMA UpdateIs ==
    ASSUME NEW sets \in Nat \ {0}, NEW penalty \in Nat \ {0}, NEW c, Good(c, sets, penalty),
           NEW b \in Blocks, NEW value \in Word
    PROVE  LET d == Caches!Update(c, b, value)
           IN /\ Good(d, sets, penalty) /\ d.missCountdown = c.missCountdown
              /\ Updated(c, d, b, value)
<1>1. /\ c.line \in Rows(sets) /\ Distinct(c, sets) /\ AllRanked(c, sets)
      /\ b % sets \in 0 .. sets - 1
  BY IndexInRange DEF Good, Caches!CacheOf, Rows, Ways, Line
<1> DEFINE i == b % sets
           row == [w \in Ways |-> IF w \in Caches!HitWays(c, b)
                                    THEN [c.line[i][w] EXCEPT !.data = value, !.dirty = TRUE]
                                    ELSE c.line[i][w]]
           d == PutRow(c, i, row)
<1>2. Caches!Index(c, b) = i
  BY <1>1, HitWaysAre
<1>3. Caches!Update(c, b, value) = d
  BY <1>2 DEF Caches!Update, PutRow, Ways
<1>4. i \in 0 .. sets - 1 /\ c.line[i] \in [Ways -> Line] /\ Ranked(c.line[i])
  BY <1>1 DEF Rows, AllRanked
<1>5. ASSUME ~Has(c, b)
      PROVE  Good(d, sets, penalty) /\ d.missCountdown = c.missCountdown /\ Updated(c, d, b, value)
  <2>1. Caches!HitWays(c, b) = {}
    BY <1>5 DEF Has, Caches!Has
  <2>2. row = c.line[i]
    BY <1>4, <2>1
  <2>3. d = c
    BY <1>4, <2>2, SameRow
  <2> QED
    BY <1>5, <2>3, LikeItself DEF Updated
<1>6. ASSUME Has(c, b)
      PROVE  Good(d, sets, penalty) /\ d.missCountdown = c.missCountdown /\ Updated(c, d, b, value)
  <2>1. PICK w \in Ways : At(c, sets, b, w) /\ Caches!HitWays(c, b) = {w}
    BY <1>1, <1>6, LineHeld
  <2>2. /\ c.line[i][w] \in Line /\ c.line[i][w].valid /\ c.line[i][w].block = b
        /\ row[w] = [c.line[i][w] EXCEPT !.data = value, !.dirty = TRUE]
        /\ \A u \in Ways : u # w => row[u] = c.line[i][u]
        /\ row = [u \in Ways |-> row[u]]
    BY <1>4, <2>1 DEF At
  <2> HIDE DEF row
  <2>3. /\ row[w] \in Line /\ row[w].valid /\ row[w].block = b /\ row[w].data = value
        /\ row[w].dirty /\ row[w].replBits = c.line[i][w].replBits
    <3>1. c.line[i][w] \in Line
      BY <1>4
    <3>2. /\ row[w] \in Line /\ (row[w].valid <=> c.line[i][w].valid)
          /\ row[w].block = c.line[i][w].block /\ row[w].data = value
          /\ row[w].dirty /\ row[w].replBits = c.line[i][w].replBits
      <4> DEFINE l == c.line[i][w]
                 m == row[w]
      <4>1. l \in Line /\ m = [l EXCEPT !.data = value, !.dirty = TRUE]
        BY <2>2, <3>1
      <4> HIDE DEF l, m
      <4>2. /\ m \in Line /\ (m.valid <=> l.valid) /\ m.block = l.block /\ m.data = value
            /\ m.dirty /\ m.replBits = l.replBits
        BY <4>1, LineFields
      <4> QED
        BY <4>2 DEF l, m
    <3> QED
      BY <2>2, <3>2, Zenon
  <2>4. row \in [Ways -> Line]
    BY <1>4, <2>2, <2>3
  <2>5. Ranked(row)
    <3>1. \A u \in Ways : row[u].valid =>
              (c.line[i][u].valid /\ row[u].replBits = c.line[i][u].replBits) \/ row[u].replBits = 0
      BY <2>2, <2>3
    <3> QED
      BY <1>4, <2>4, <3>1, RankedKept
  <2>6. Fits(c, sets, i, w, row[w])
    BY <1>1, <1>4, <2>2, <2>3 DEF Fits, Distinct
  <2>7. \A u \in Ways : u # w => Agree(c.line[i][u], row[u])
    BY <2>2 DEF Agree
  <2> HIDE DEF i
  <2>8. /\ Good(d, sets, penalty) /\ Now(c, d, i, w)
        /\ d.line[i] = row /\ d.missCountdown = c.missCountdown
    BY <1>4, <2>4, <2>5, <2>6, <2>7, PutIs
  <2> HIDE DEF d
  <2>9. Has(d, b) /\ LineOf(d, b).data = value /\ LineOf(d, b).dirty
    BY <2>3, <2>8 DEF Now
  <2>10. \A a \in Blocks : a # b => Like(c, d, a)
    BY <2>2, <2>3, <2>8 DEF Now
  <2> QED
    BY <1>6, <2>8, <2>9, <2>10 DEF Updated
<1> QED
  BY <1>3, <1>5, <1>6, Zenon

LEMMA InvalidateIs ==
    ASSUME NEW sets \in Nat \ {0}, NEW penalty \in Nat \ {0}, NEW c, Good(c, sets, penalty),
           NEW b \in Blocks
    PROVE  LET d == Caches!InvalidateLine(c, b)
           IN /\ Good(d, sets, penalty) /\ d.missCountdown = c.missCountdown
              /\ Invalidated(c, d, b)
<1>1. /\ c.line \in Rows(sets) /\ Distinct(c, sets) /\ AllRanked(c, sets)
      /\ b % sets \in 0 .. sets - 1
  BY IndexInRange DEF Good, Caches!CacheOf, Rows, Ways, Line
<1> DEFINE i == b % sets
           row == [w \in Ways |-> IF w \in Caches!HitWays(c, b)
                                    THEN [c.line[i][w] EXCEPT !.valid = FALSE]
                                    ELSE c.line[i][w]]
           d == PutRow(c, i, row)
<1>2. Caches!Index(c, b) = i
  BY <1>1, HitWaysAre
<1>3. Caches!InvalidateLine(c, b) = d
  BY <1>2 DEF Caches!InvalidateLine, PutRow, Ways
<1>4. i \in 0 .. sets - 1 /\ c.line[i] \in [Ways -> Line] /\ Ranked(c.line[i])
  BY <1>1 DEF Rows, AllRanked
<1>5. ASSUME ~Has(c, b)
      PROVE  Good(d, sets, penalty) /\ d.missCountdown = c.missCountdown /\ Invalidated(c, d, b)
  <2>1. Caches!HitWays(c, b) = {}
    BY <1>5 DEF Has, Caches!Has
  <2>2. row = c.line[i]
    BY <1>4, <2>1
  <2>3. d = c
    BY <1>4, <2>2, SameRow
  <2> QED
    BY <1>5, <2>3, LikeItself DEF Invalidated
<1>6. ASSUME Has(c, b)
      PROVE  Good(d, sets, penalty) /\ d.missCountdown = c.missCountdown /\ Invalidated(c, d, b)
  <2>1. PICK w \in Ways : At(c, sets, b, w) /\ Caches!HitWays(c, b) = {w}
    BY <1>1, <1>6, LineHeld
  <2>2. /\ c.line[i][w] \in Line /\ c.line[i][w].valid /\ c.line[i][w].block = b
        /\ row[w] = [c.line[i][w] EXCEPT !.valid = FALSE]
        /\ \A u \in Ways : u # w => row[u] = c.line[i][u]
        /\ row = [u \in Ways |-> row[u]]
    BY <1>4, <2>1 DEF At
  <2> HIDE DEF row
  <2>3. row[w] \in Line /\ ~row[w].valid
    <3>1. c.line[i][w] \in Line
      BY <1>4
    <3> QED
      BY <2>2, <3>1, ClearedLine
  <2>4. row \in [Ways -> Line]
    BY <1>4, <2>2, <2>3
  <2>5. Ranked(row)
    <3>1. \A u \in Ways : row[u].valid =>
              (c.line[i][u].valid /\ row[u].replBits = c.line[i][u].replBits) \/ row[u].replBits = 0
      BY <2>2, <2>3
    <3> QED
      BY <1>4, <2>4, <3>1, RankedKept
  <2>6. Fits(c, sets, i, w, row[w])
    BY <2>3 DEF Fits
  <2>7. \A u \in Ways : u # w => Agree(c.line[i][u], row[u])
    BY <2>2 DEF Agree
  <2> HIDE DEF i
  <2>8. /\ Good(d, sets, penalty) /\ Now(c, d, i, w)
        /\ d.line[i] = row /\ d.missCountdown = c.missCountdown
    BY <1>4, <2>4, <2>5, <2>6, <2>7, PutIs
  <2> HIDE DEF d
  <2>9. ~Has(d, b)
    BY <2>2, <2>3, <2>8 DEF Now
  <2>10. \A a \in Blocks : a # b => Like(c, d, a)
    BY <2>2, <2>3, <2>8 DEF Now
  <2> QED
    BY <2>8, <2>9, <2>10 DEF Invalidated
<1> QED
  BY <1>3, <1>5, <1>6, Zenon

\* replace, and the line that goes: one that was held, or none.
Replaced(c, d, b, data) ==
    LET e == Caches!Evicted(c, b)
    IN /\ e \in Line
       /\ Caches!Replaces(c, b) <=> ~Has(c, b)
       /\ Has(c, b) => d = c /\ ~e.valid
       /\ ~Has(c, b) =>
            /\ Has(d, b) /\ LineOf(d, b).data = data
            /\ e.valid => /\ e.block \in Blocks /\ e.block # b /\ ~Has(d, e.block)
                          /\ Has(c, e.block) /\ LineOf(c, e.block) = e
            /\ \A a \in Blocks : a # b /\ ~(e.valid /\ a = e.block) => Like(c, d, a)

LEMMA NewLine ==
    ASSUME NEW b \in Blocks, NEW dirty \in BOOLEAN, NEW data \in Word
    PROVE  LET m == [valid |-> TRUE, block |-> b, dirty |-> dirty,
                     replBits |-> Caches!NewLineBits, data |-> data]
           IN /\ m \in Line /\ m.valid /\ m.block = b /\ m.data = data
              /\ m.replBits = 0
BY LineFields, WaysAreNumbers DEF Caches!NewLineBits

LEMMA InvalidLineIs == Caches!InvalidLine \in Line /\ ~Caches!InvalidLine.valid
BY LineFields, WaysAreNumbers, WordLimits DEF Caches!InvalidLine

LEMMA ReplaceIs ==
    ASSUME NEW sets \in Nat \ {0}, NEW penalty \in Nat \ {0}, NEW c, Good(c, sets, penalty),
           NEW b \in Blocks, NEW newLine, newLine.dirty \in BOOLEAN, newLine.data \in Word
    PROVE  LET d == Caches!Replace(c, b, newLine)
           IN /\ Good(d, sets, penalty) /\ d.missCountdown = c.missCountdown
              /\ Replaced(c, d, b, newLine.data)
<1>1. /\ c.line \in Rows(sets) /\ Distinct(c, sets) /\ Placed(c, sets) /\ AllRanked(c, sets)
      /\ b % sets \in 0 .. sets - 1
  BY IndexInRange DEF Good, Caches!CacheOf, Rows, Ways, Line
<1> DEFINE i == b % sets
           w == Caches!VictimWay(c, b)
           line == [valid |-> TRUE, block |-> b, dirty |-> newLine.dirty,
                    replBits |-> Caches!NewLineBits, data |-> newLine.data]
           row == [c.line[i] EXCEPT ![w] = line]
           d == PutRow(c, i, row)
           e == Caches!Evicted(c, b)
<1>2. Caches!Index(c, b) = i
  BY <1>1, HitWaysAre
<1>3. i \in 0 .. sets - 1 /\ c.line[i] \in [Ways -> Line] /\ Ranked(c.line[i])
  BY <1>1 DEF Rows, AllRanked
<1>4. Caches!Victims(c.line[i]) # {} /\ Caches!Victims(c.line[i]) \in SUBSET Nat
  BY <1>3, RankedHasVictim, WaysAreNumbers DEF Caches!Victims, Ways
<1>5. w \in Ways
  <2>1. w \in Caches!Victims(c.line[i])
    BY <1>2, <1>4, FirstIsIn DEF Caches!VictimWay
  <2> QED
    BY <2>1 DEF Caches!Victims, Ways
<1>6. Caches!Replaces(c, b) <=> ~Has(c, b)
  BY <1>2, <1>4 DEF Caches!Replaces, Has
<1>7. ASSUME Has(c, b)
      PROVE  LET g == Caches!Replace(c, b, newLine)
             IN /\ Good(g, sets, penalty) /\ g.missCountdown = c.missCountdown
                /\ Replaced(c, g, b, newLine.data)
  <2>1. Caches!Replace(c, b, newLine) = c /\ e = Caches!InvalidLine
    BY <1>6, <1>7 DEF Caches!Replace, Caches!Evicted
  <2> QED
    BY <1>6, <1>7, <2>1, InvalidLineIs DEF Replaced
<1>8. ASSUME ~Has(c, b)
      PROVE  LET g == Caches!Replace(c, b, newLine)
             IN /\ Good(g, sets, penalty) /\ g.missCountdown = c.missCountdown
                /\ Replaced(c, g, b, newLine.data)
  <2>1. e = c.line[i][w]
    BY <1>2, <1>6, <1>8 DEF Caches!Evicted
  <2>2. Caches!Replace(c, b, newLine) = d
    BY <1>2, <1>6, <1>8 DEF Caches!Replace, PutRow
  <2>3. /\ line \in Line /\ line.valid /\ line.block = b /\ line.data = newLine.data
        /\ line.replBits = 0
    BY NewLine
  <2> HIDE DEF line, w
  <2>4. row \in [Ways -> Line] /\ row[w] = line /\ \A u \in Ways : u # w => row[u] = c.line[i][u]
    BY <1>3, <1>5, <2>3
  <2> HIDE DEF row
  <2>5. Ranked(row)
    <3>1. \A u \in Ways : row[u].valid =>
              (c.line[i][u].valid /\ row[u].replBits = c.line[i][u].replBits) \/ row[u].replBits = 0
      BY <2>3, <2>4
    <3> QED
      BY <1>3, <2>4, <3>1, RankedKept
  <2>6. Fits(c, sets, i, w, row[w])
    <3>1. \A u \in Ways : ~At(c, sets, b, u)
      BY <1>1, <1>8, HitWaysAre
    <3> QED
      BY <2>3, <2>4, <3>1 DEF Fits, At
  <2>7. \A u \in Ways : u # w => Agree(c.line[i][u], row[u])
    BY <2>4 DEF Agree
  <2>8. /\ e \in Line
        /\ e.valid => /\ e.block \in Blocks /\ e.block % sets = i /\ At(c, sets, e.block, w)
    BY <1>1, <1>3, <1>5, <2>1 DEF Placed, At
  <2>9. e.valid => e.block # b /\ Has(c, e.block) /\ LineOf(c, e.block) = e
    <3>1. ASSUME e.valid PROVE e.block # b /\ Has(c, e.block) /\ LineOf(c, e.block) = e
      <4>1. Has(c, e.block) /\ LineOf(c, e.block) = c.line[i][w]
        BY <1>1, <1>5, <2>8, <3>1, OneWay
      <4> QED
        BY <1>8, <2>1, <4>1
    <3> QED
      BY <3>1
  <2> HIDE DEF i, e
  <2>10. /\ Good(d, sets, penalty) /\ Now(c, d, i, w)
         /\ d.line[i] = row /\ d.missCountdown = c.missCountdown
    BY <1>3, <1>5, <2>4, <2>5, <2>6, <2>7, PutIs
  <2> HIDE DEF d
  <2>11. Has(d, b) /\ LineOf(d, b).data = newLine.data
    BY <2>3, <2>4, <2>10 DEF Now
  <2>12. e.valid => ~Has(d, e.block)
    BY <2>1, <2>3, <2>4, <2>8, <2>9, <2>10 DEF Now
  <2>13. \A a \in Blocks : a # b /\ ~(e.valid /\ a = e.block) => Like(c, d, a)
    BY <2>1, <2>3, <2>4, <2>10 DEF Now
  <2>14. Replaced(c, d, b, newLine.data)
    BY <1>6, <1>8, <2>8, <2>9, <2>11, <2>12, <2>13 DEF Replaced, e
  <2> QED
    BY <2>2, <2>10, <2>14
<1> QED
  BY <1>7, <1>8

\* read and write: only with the penalty of all misses paid does a block that is
\* there answer, and only its line can be changed.
Probed(c, p, b, value) ==
    /\ p.hit <=> c.missCountdown = 0 /\ Has(c, b)
    /\ p.hit => p.cache.missCountdown = 0
    /\ ~p.hit => p.cache.line = c.line
    /\ p.hit /\ value = NoValue => \A a \in Blocks : Like(c, p.cache, a)
    /\ p.hit /\ value # NoValue => Updated(c, p.cache, b, value)

LEMMA CountdownIs ==
    ASSUME NEW sets \in Nat \ {0}, NEW penalty \in Nat \ {0}, NEW c, Good(c, sets, penalty),
           NEW n \in 0 .. penalty - 1
    PROVE  LET d == [c EXCEPT !.missCountdown = n]
           IN Good(d, sets, penalty) /\ d.line = c.line
<1>1. /\ c \in [line : Rows(sets), missCountdown : 0 .. penalty - 1]
      /\ Placed(c, sets) /\ Distinct(c, sets) /\ AllRanked(c, sets)
  BY DEF Good, Caches!CacheOf, Rows, Ways, Line
<1> DEFINE d == [c EXCEPT !.missCountdown = n]
<1>2. d \in [line : Rows(sets), missCountdown : 0 .. penalty - 1] /\ d.line = c.line
  BY <1>1
<1> HIDE DEF d
<1>3. d \in Caches!CacheOf(sets, penalty)
  BY <1>2 DEF Caches!CacheOf, Rows, Ways, Line
<1>4. Placed(d, sets) /\ Distinct(d, sets) /\ AllRanked(d, sets)
  BY <1>1, <1>2 DEF Placed, Distinct, AllRanked
<1> QED
  BY <1>2, <1>3, <1>4 DEF Good, d

LEMMA SameLines ==
    ASSUME NEW c, NEW d, d.line = c.line, NEW a
    PROVE  (Has(d, a) <=> Has(c, a)) /\ LineOf(d, a) = LineOf(c, a) /\ Like(c, d, a)
BY DEF Like, Has, LineOf, Caches!Has, Caches!LineOf, Caches!HitWays, Caches!Index

LEMMA ProbeIs ==
    ASSUME NEW sets \in Nat \ {0}, NEW penalty \in Nat \ {0}, NEW c, Good(c, sets, penalty),
           NEW b \in Blocks, NEW value \in Word \cup {NoValue}
    PROVE  LET p == Caches!Probe(c, penalty, b, value)
           IN Good(p.cache, sets, penalty) /\ p.hit \in BOOLEAN /\ Probed(c, p, b, value)
<1> DEFINE p == Caches!Probe(c, penalty, b, value)
           fewer == [c EXCEPT !.missCountdown = c.missCountdown - 1]
           more == [c EXCEPT !.missCountdown = Caches!NewCountdown(penalty)]
           touched == [c EXCEPT !.line[Caches!Index(c, b)] =
                          Caches!UpdateReplacementBits(@, Caches!First(Caches!HitWays(c, b)))]
<1>1. c.missCountdown \in 0 .. penalty - 1
  BY DEF Good, Caches!CacheOf
<1>2. ASSUME c.missCountdown > 0
      PROVE  Good(p.cache, sets, penalty) /\ p.hit \in BOOLEAN /\ Probed(c, p, b, value)
  <2>1. p = [cache |-> fewer, hit |-> FALSE]
    BY <1>2 DEF Caches!Probe
  <2>2. c.missCountdown - 1 \in 0 .. penalty - 1
    BY <1>1, <1>2
  <2>3. Good(fewer, sets, penalty) /\ fewer.line = c.line
    BY <2>2, CountdownIs
  <2> HIDE DEF p, fewer
  <2>4. p.cache = fewer /\ p.hit \in BOOLEAN /\ ~p.hit
    BY <2>1
  <2> QED
    BY <1>2, <2>3, <2>4 DEF Probed
<1>3. ASSUME c.missCountdown = 0, ~Has(c, b)
      PROVE  Good(p.cache, sets, penalty) /\ p.hit \in BOOLEAN /\ Probed(c, p, b, value)
  <2>1. p = [cache |-> more, hit |-> FALSE]
    BY <1>3 DEF Caches!Probe, Has
  <2>2. Caches!NewCountdown(penalty) \in 0 .. penalty - 1
    BY DEF Caches!NewCountdown
  <2>3. Good(more, sets, penalty) /\ more.line = c.line
    BY <2>2, CountdownIs
  <2> HIDE DEF p, more
  <2>4. p.cache = more /\ p.hit \in BOOLEAN /\ ~p.hit
    BY <2>1
  <2> QED
    BY <1>3, <2>3, <2>4 DEF Probed
<1>4. ASSUME c.missCountdown = 0, Has(c, b)
      PROVE  Good(p.cache, sets, penalty) /\ p.hit \in BOOLEAN /\ Probed(c, p, b, value)
  <2>1. p = [cache |-> IF value = NoValue THEN touched ELSE Caches!Update(touched, b, value),
             hit |-> TRUE]
    BY <1>4 DEF Caches!Probe, Has, Caches!NoValue, NoValue
  <2>2. /\ Good(touched, sets, penalty) /\ touched.missCountdown = c.missCountdown
        /\ \A a \in Blocks : Like(c, touched, a)
    BY <1>4, TouchIs
  <2> HIDE DEF touched
  <2>3. CASE value = NoValue
    BY <1>4, <2>1, <2>2, <2>3 DEF Probed
  <2>4. CASE value # NoValue
    <3> DEFINE d == Caches!Update(touched, b, value)
    <3>1. value \in Word
      BY <2>4
    <3>2. /\ Good(d, sets, penalty) /\ d.missCountdown = touched.missCountdown
          /\ Updated(touched, d, b, value)
      BY <2>2, <3>1, UpdateIs
    <3> HIDE DEF d
    <3>3. Updated(c, d, b, value)
      <4>1. \A a \in Blocks : a # b => Like(c, d, a)
        BY <2>2, <3>2 DEF Updated, Like
      <4>2. Has(touched, b)
        BY <1>4, <2>2 DEF Like
      <4> QED
        BY <1>4, <3>2, <4>1, <4>2 DEF Updated
    <3>4. p = [cache |-> d, hit |-> TRUE]
      BY <2>1, <2>4 DEF d
    <3> QED
      BY <1>4, <2>2, <2>4, <3>2, <3>3, <3>4 DEF Probed
  <2> QED
    BY <2>3, <2>4
<1>5. c.missCountdown > 0 \/ c.missCountdown = 0
  BY <1>1
<1> QED
  BY <1>2, <1>3, <1>4, <1>5

----------------------------------------------------------------------------
(* What an access does to both levels.                                     *)

\* What is below L1.
Below(h, a) == IF Has(h.l2, a) THEN LineOf(h.l2, a).data ELSE h.mem[a]
Shown(h, a) == Caches!Presented(h, a)

\* Both levels are sound, and L2 has what L1 has.
Room(h) ==
    /\ h \in Caches!Hierarchy
    /\ Good(h.l1, L1_SETS, L1_PENALTY) /\ Good(h.l2, L2_SETS, L2_PENALTY)
    /\ \A a \in Blocks : Has(h.l1, a) => Has(h.l2, a)
    /\ h.stale.valid => h.stale.block \in Blocks

\* A clean line is what is below it; so is the dirty line that the frame of
\* Memory::access still holds, whose write-back repeats what L2 has.
Coherent(h) ==
    \A a \in Blocks :
        /\ Has(h.l1, a) /\ ~LineOf(h.l1, a).dirty => LineOf(h.l1, a).data = Below(h, a)
        /\ Has(h.l2, a) /\ ~LineOf(h.l2, a).dirty => LineOf(h.l2, a).data = h.mem[a]
        /\ h.stale.valid /\ h.stale.dirty /\ h.stale.block = a =>
             Below(h, a) = h.stale.data

Keeps(h, g) == \A a \in Blocks : Shown(g, a) = Shown(h, a)

LEMMA ShownIs ==
    ASSUME NEW h, NEW a
    PROVE  Shown(h, a) = IF Has(h.l1, a) THEN LineOf(h.l1, a).data ELSE Below(h, a)
BY DEF Shown, Below, Has, LineOf, Caches!Presented

\* The fields of the record.
LEMMA HierarchyFields ==
    ASSUME NEW h \in Caches!Hierarchy
    PROVE  /\ h.l1 \in Caches!CacheOf(L1_SETS, L1_PENALTY)
           /\ h.l2 \in Caches!CacheOf(L2_SETS, L2_PENALTY)
           /\ h.mem \in [Blocks -> Word] /\ h.stale \in Line /\ h.lost \in SUBSET Blocks
           /\ h = [l1 |-> h.l1, l2 |-> h.l2, mem |-> h.mem, stale |-> h.stale, lost |-> h.lost]
BY DEF Caches!Hierarchy, Line

LEMMA BothLevels ==
    ASSUME NEW h \in Caches!Hierarchy, NEW x, NEW y, NEW g, g = [h EXCEPT !.l1 = x, !.l2 = y]
    PROVE  g = [l1 |-> x, l2 |-> y, mem |-> h.mem, stale |-> h.stale, lost |-> h.lost]
<1>1. h = [l1 |-> h.l1, l2 |-> h.l2, mem |-> h.mem, stale |-> h.stale, lost |-> h.lost]
  BY HierarchyFields
<1> QED
  BY <1>1

LEMMA HeldIsWord ==
    ASSUME NEW h, Room(h), NEW a \in Blocks
    PROVE  /\ Has(h.l1, a) => LineOf(h.l1, a) \in Line
           /\ Has(h.l2, a) => LineOf(h.l2, a) \in Line
           /\ Below(h, a) \in Word /\ Shown(h, a) \in Word
<1>1. /\ h.mem \in [Blocks -> Word]
      /\ h.l1.line \in Rows(L1_SETS) /\ Distinct(h.l1, L1_SETS)
      /\ h.l2.line \in Rows(L2_SETS) /\ Distinct(h.l2, L2_SETS)
  BY HierarchyFields DEF Room, Good, Caches!CacheOf, Rows, Ways, Line
<1>2. Has(h.l1, a) => LineOf(h.l1, a) \in Line
  BY <1>1, LineHeld, Sizes
<1>3. Has(h.l2, a) => LineOf(h.l2, a) \in Line
  BY <1>1, LineHeld, Sizes
<1>4. \A l \in Line : l.data \in Word
  BY LineFields
<1>5. Below(h, a) \in Word
  BY <1>1, <1>3, <1>4 DEF Below
<1> QED
  BY <1>2, <1>3, <1>4, <1>5, ShownIs

LEMMA WriteBackIs ==
    ASSUME NEW sets \in Nat \ {0}, NEW penalty \in Nat \ {0}, NEW c, Good(c, sets, penalty),
           NEW l \in Line, l.valid => l.block \in Blocks
    PROVE  LET d == Caches!WriteBack(c, l)
           IN /\ Good(d, sets, penalty)
              /\ \A a \in Blocks :
                   IF l.valid /\ l.dirty /\ a = l.block /\ Has(c, a)
                     THEN Has(d, a) /\ LineOf(d, a).data = l.data /\ LineOf(d, a).dirty
                     ELSE Like(c, d, a)
<1>1. CASE ~(l.valid /\ l.dirty)
  BY <1>1, LikeItself DEF Caches!WriteBack
<1>2. CASE l.valid /\ l.dirty
  <2> DEFINE d == Caches!Update(c, l.block, l.data)
  <2>1. l.data \in Word
    BY LineFields
  <2>2. Good(d, sets, penalty) /\ Updated(c, d, l.block, l.data)
    BY <1>2, <2>1, UpdateIs
  <2>3. Caches!WriteBack(c, l) = d
    BY <1>2 DEF Caches!WriteBack
  <2> HIDE DEF d
  <2> QED
    BY <1>2, <2>2, <2>3 DEF Updated
<1> QED
  BY <1>1, <1>2

Faithful(h, g) == Coherent(h) => Coherent(g) /\ Keeps(h, g)

\* The line of L1 that goes back to L2.
LEMMA FillL1Is ==
    ASSUME NEW h, Room(h), NEW b \in Blocks, Has(h.l2, b), NEW g \in Caches!FillL1(h, b)
    PROVE  Room(g) /\ g.lost = h.lost /\ Faithful(h, g)
<1> DEFINE e == Caches!Evicted(h.l1, b)
           newLine == LineOf(h.l2, b)
           v == newLine.data
           l1 == Caches!Replace(h.l1, b, newLine)
<1>1. /\ h.l1 \in Caches!CacheOf(L1_SETS, L1_PENALTY) /\ h.l2 \in Caches!CacheOf(L2_SETS, L2_PENALTY)
      /\ h.mem \in [Blocks -> Word] /\ h.stale \in Line /\ h.lost \in SUBSET Blocks
      /\ h = [l1 |-> h.l1, l2 |-> h.l2, mem |-> h.mem, stale |-> h.stale, lost |-> h.lost]
  BY HierarchyFields DEF Room
<1>2. v \in Word /\ newLine.dirty \in BOOLEAN
  BY HeldIsWord, LineFields
<1>3. Good(l1, L1_SETS, L1_PENALTY) /\ Replaced(h.l1, l1, b, v)
  BY <1>2, Sizes, ReplaceIs DEF Room
<1> HIDE DEF l1, v, newLine
<1>4. CASE Caches!Replaces(h.l1, b)
  <2> DEFINE l2 == Caches!WriteBack(h.l2, e)
  <2>1. g = [[h EXCEPT !.l1 = l1] EXCEPT !.l2 = Caches!WriteBack(@, e), !.stale = e]
    BY <1>4 DEF Caches!FillL1, l1, newLine, LineOf
  <2>2. g = [l1 |-> l1, l2 |-> l2, mem |-> h.mem, stale |-> e, lost |-> h.lost]
    BY <1>1, <2>1
  <2>3. e \in Line /\ ~Has(h.l1, b) /\ (e.valid => e.block \in Blocks)
    BY <1>3, <1>4 DEF Replaced
  <2>4. /\ Good(l2, L2_SETS, L2_PENALTY)
        /\ \A a \in Blocks :
             IF e.valid /\ e.dirty /\ a = e.block /\ Has(h.l2, a)
               THEN Has(l2, a) /\ LineOf(l2, a).data = e.data /\ LineOf(l2, a).dirty
               ELSE Like(h.l2, l2, a)
    BY <2>3, Sizes, WriteBackIs DEF Room
  <2> HIDE DEF l2
  <2>5. /\ Has(l1, b) /\ LineOf(l1, b).data = v
        /\ e.valid => /\ e.block \in Blocks /\ e.block # b /\ ~Has(l1, e.block)
                      /\ Has(h.l1, e.block) /\ LineOf(h.l1, e.block) = e
        /\ \A a \in Blocks : a # b /\ ~(e.valid /\ a = e.block) => Like(h.l1, l1, a)
    BY <1>3, <2>3 DEF Replaced
  <2> HIDE DEF e
  <2>6. \A a \in Blocks : (Has(l2, a) <=> Has(h.l2, a)) /\ (Has(h.l1, a) => Has(h.l2, a))
    BY <2>4 DEF Like, Room
  <2>7. \A a \in Blocks : Has(l1, a) => Has(l2, a)
    BY <2>5, <2>6 DEF Like
  <2>8. Room(g)
    <3>1. g \in Caches!Hierarchy
      BY <1>1, <1>3, <2>2, <2>3, <2>4 DEF Caches!Hierarchy, Good, Line
    <3> QED
      BY <1>3, <2>2, <2>3, <2>4, <2>7, <3>1 DEF Room
  <2>9. ASSUME Coherent(h) PROVE Coherent(g) /\ Keeps(h, g)
    <3> SUFFICES ASSUME NEW a \in Blocks
                 PROVE  /\ Has(l1, a) /\ ~LineOf(l1, a).dirty => LineOf(l1, a).data = Below(g, a)
                        /\ Has(l2, a) /\ ~LineOf(l2, a).dirty => LineOf(l2, a).data = h.mem[a]
                        /\ e.valid /\ e.dirty /\ e.block = a => Below(g, a) = e.data
                        /\ Shown(g, a) = Shown(h, a)
      BY <2>2 DEF Coherent, Keeps
    <3>1. /\ Has(h.l1, a) /\ ~LineOf(h.l1, a).dirty => LineOf(h.l1, a).data = Below(h, a)
          /\ Has(h.l2, a) /\ ~LineOf(h.l2, a).dirty => LineOf(h.l2, a).data = h.mem[a]
      BY <2>9 DEF Coherent
    <3>2. /\ Below(g, a) = IF Has(l2, a) THEN LineOf(l2, a).data ELSE h.mem[a]
          /\ Below(h, a) = IF Has(h.l2, a) THEN LineOf(h.l2, a).data ELSE h.mem[a]
          /\ Shown(g, a) = IF Has(l1, a) THEN LineOf(l1, a).data ELSE Below(g, a)
          /\ Shown(h, a) = IF Has(h.l1, a) THEN LineOf(h.l1, a).data ELSE Below(h, a)
      BY <2>2, ShownIs DEF Below
    <3>3. CASE a = b
      <4>1. Like(h.l2, l2, a)
        BY <2>4, <2>5, <3>3
      <4> QED
        BY <2>3, <2>5, <3>1, <3>2, <3>3, <4>1 DEF Like, v, newLine
    <3>4. CASE e.valid /\ a = e.block
      <4>1. Has(h.l1, a) /\ LineOf(h.l1, a) = e /\ ~Has(l1, a) /\ Has(h.l2, a)
        BY <2>5, <2>6, <3>4
      <4>2. CASE e.dirty
        <5>1. Has(l2, a) /\ LineOf(l2, a).data = e.data /\ LineOf(l2, a).dirty
          BY <2>4, <3>4, <4>1, <4>2
        <5> QED
          BY <3>2, <4>1, <5>1
      <4>3. CASE ~e.dirty
        <5>1. Like(h.l2, l2, a)
          BY <2>4, <4>3
        <5> QED
          BY <3>1, <3>2, <4>1, <4>3, <5>1 DEF Like
      <4> QED
        BY <4>2, <4>3
    <3>5. CASE a # b /\ ~(e.valid /\ a = e.block)
      <4>1. Like(h.l1, l1, a)
        BY <2>5, <3>5
      <4>2. Like(h.l2, l2, a)
        BY <2>4, <3>5
      <4> QED
        BY <3>1, <3>2, <3>5, <4>1, <4>2 DEF Like
    <3> QED
      BY <3>3, <3>4, <3>5
  <2> QED
    BY <2>2, <2>8, <2>9 DEF Faithful
<1>5. CASE ~Caches!Replaces(h.l1, b)
  <2>1. g = h \/ g = [h EXCEPT !.l2 = Caches!WriteBack(@, h.stale)]
    BY <1>5 DEF Caches!FillL1
  <2>2. CASE g = h
    BY <2>2 DEF Faithful, Keeps
  <2>3. CASE g = [h EXCEPT !.l2 = Caches!WriteBack(@, h.stale)]
    <3> DEFINE l2 == Caches!WriteBack(h.l2, h.stale)
               s == h.stale
    <3>1. g = [l1 |-> h.l1, l2 |-> l2, mem |-> h.mem, stale |-> s, lost |-> h.lost]
      BY <1>1, <2>3
    <3>2. /\ Good(l2, L2_SETS, L2_PENALTY)
          /\ \A a \in Blocks :
               IF s.valid /\ s.dirty /\ a = s.block /\ Has(h.l2, a)
                 THEN Has(l2, a) /\ LineOf(l2, a).data = s.data /\ LineOf(l2, a).dirty
                 ELSE Like(h.l2, l2, a)
      BY <1>1, Sizes, WriteBackIs DEF Room
    <3> HIDE DEF l2, s
    <3>3. \A a \in Blocks : Has(l2, a) <=> Has(h.l2, a)
      BY <3>2 DEF Like
    <3>4. Room(g)
      <4>1. g \in Caches!Hierarchy
        BY <1>1, <3>1, <3>2 DEF Caches!Hierarchy, Good, Line, s
      <4> QED
        BY <3>1, <3>2, <3>3, <4>1 DEF Room, s
    <3>5. ASSUME Coherent(h) PROVE Coherent(g) /\ Keeps(h, g)
      <4> SUFFICES ASSUME NEW a \in Blocks
                   PROVE  /\ Has(h.l1, a) /\ ~LineOf(h.l1, a).dirty => LineOf(h.l1, a).data = Below(g, a)
                          /\ Has(l2, a) /\ ~LineOf(l2, a).dirty => LineOf(l2, a).data = h.mem[a]
                          /\ s.valid /\ s.dirty /\ s.block = a => Below(g, a) = s.data
                          /\ Shown(g, a) = Shown(h, a)
        BY <3>1 DEF Coherent, Keeps
      <4>1. /\ Has(h.l1, a) /\ ~LineOf(h.l1, a).dirty => LineOf(h.l1, a).data = Below(h, a)
            /\ Has(h.l2, a) /\ ~LineOf(h.l2, a).dirty => LineOf(h.l2, a).data = h.mem[a]
            /\ s.valid /\ s.dirty /\ s.block = a => Below(h, a) = s.data
        BY <3>5 DEF Coherent, s
      <4>2. /\ Below(g, a) = IF Has(l2, a) THEN LineOf(l2, a).data ELSE h.mem[a]
            /\ Below(h, a) = IF Has(h.l2, a) THEN LineOf(h.l2, a).data ELSE h.mem[a]
            /\ Shown(g, a) = IF Has(h.l1, a) THEN LineOf(h.l1, a).data ELSE Below(g, a)
            /\ Shown(h, a) = IF Has(h.l1, a) THEN LineOf(h.l1, a).data ELSE Below(h, a)
        BY <3>1, ShownIs DEF Below
      <4>3. CASE s.valid /\ s.dirty /\ a = s.block /\ Has(h.l2, a)
        <5>1. Has(l2, a) /\ LineOf(l2, a).data = s.data /\ LineOf(l2, a).dirty
          BY <3>2, <4>3
        <5> QED
          BY <4>1, <4>2, <4>3, <5>1
      <4>4. CASE ~(s.valid /\ s.dirty /\ a = s.block /\ Has(h.l2, a))
        <5>1. Like(h.l2, l2, a)
          BY <3>2, <4>4
        <5> QED
          BY <4>1, <4>2, <5>1 DEF Like
      <4> QED
        BY <4>3, <4>4
    <3> QED
      BY <3>1, <3>4, <3>5 DEF Faithful
  <2> QED
    BY <2>1, <2>2, <2>3
<1> QED
  BY <1>4, <1>5

\* The line of L2 that goes, and is invalidated in L1.
LEMMA FillL2Is ==
    ASSUME NEW h, Room(h), NEW b \in Blocks, NEW dirty \in BOOLEAN
    PROVE  LET g == Caches!FillL2(h, b, dirty)
           IN Room(g) /\ h.lost \subseteq g.lost /\ (g.lost = {} => Faithful(h, g))
<1> DEFINE g == Caches!FillL2(h, b, dirty)
           e == Caches!Evicted(h.l2, b)
           v == h.mem[b]
           l1 == IF e.valid THEN Caches!InvalidateLine(h.l1, e.block) ELSE h.l1
           newLine == [dirty |-> dirty, data |-> v]
           l2 == Caches!Replace(h.l2, b, newLine)
           mem == IF e.valid /\ e.dirty THEN [h.mem EXCEPT ![e.block] = e.data] ELSE h.mem
           gone == e.valid /\ Has(h.l1, e.block) /\ LineOf(h.l1, e.block).data # e.data
           lost == IF gone THEN h.lost \cup {e.block} ELSE h.lost
<1>1. /\ h.l1 \in Caches!CacheOf(L1_SETS, L1_PENALTY) /\ h.l2 \in Caches!CacheOf(L2_SETS, L2_PENALTY)
      /\ h.mem \in [Blocks -> Word] /\ h.stale \in Line /\ h.lost \in SUBSET Blocks
      /\ h = [l1 |-> h.l1, l2 |-> h.l2, mem |-> h.mem, stale |-> h.stale, lost |-> h.lost]
  BY HierarchyFields DEF Room
<1>2. g = [h EXCEPT !.l1 = IF e.valid THEN Caches!InvalidateLine(@, e.block) ELSE @,
                    !.l2 = Caches!Replace(@, b, [dirty |-> dirty, data |-> h.mem[b]]),
                    !.mem = IF e.valid /\ e.dirty THEN [h.mem EXCEPT ![e.block] = e.data] ELSE @,
                    !.lost = IF gone THEN @ \cup {e.block} ELSE @]
  BY DEF Caches!FillL2, Has, LineOf
<1>3. g = [l1 |-> l1, l2 |-> l2, mem |-> mem, stale |-> h.stale, lost |-> lost]
  <2> HIDE DEF g, e, gone
  <2> QED
    BY <1>1, <1>2
<1>4. v \in Word /\ newLine.dirty \in BOOLEAN /\ newLine.data = v
  BY <1>1
<1> HIDE DEF newLine
<1>5. Good(l2, L2_SETS, L2_PENALTY) /\ Replaced(h.l2, l2, b, v)
  BY <1>4, Sizes, ReplaceIs DEF Room
<1> HIDE DEF l2, g
<1>6. /\ e \in Line
      /\ Has(h.l2, b) => l2 = h.l2 /\ ~e.valid
      /\ ~Has(h.l2, b) =>
           /\ Has(l2, b) /\ LineOf(l2, b).data = v
           /\ e.valid => /\ e.block \in Blocks /\ e.block # b /\ ~Has(l2, e.block)
                         /\ Has(h.l2, e.block) /\ LineOf(h.l2, e.block) = e
           /\ \A a \in Blocks : a # b /\ ~(e.valid /\ a = e.block) => Like(h.l2, l2, a)
  BY <1>5 DEF Replaced
<1> HIDE DEF e, v
<1>7. CASE Has(h.l2, b)
  <2>1. g = h
    BY <1>1, <1>3, <1>6, <1>7
  <2> QED
    BY <2>1 DEF Faithful, Keeps, g
<1>8. CASE ~Has(h.l2, b)
  <2>1. Good(l1, L1_SETS, L1_PENALTY) /\ (~e.valid => l1 = h.l1)
        /\ (e.valid => Invalidated(h.l1, l1, e.block))
    BY <1>6, <1>8, Sizes, InvalidateIs DEF Room
  <2> HIDE DEF l1
  <2>2. \A a \in Blocks : (e.valid /\ a = e.block => ~Has(l1, a))
                          /\ (~(e.valid /\ a = e.block) => Like(h.l1, l1, a))
    BY <2>1, LikeItself DEF Invalidated
  <2>3. mem \in [Blocks -> Word] /\ lost \in SUBSET Blocks /\ h.lost \subseteq lost
    <3>1. e.valid => e.block \in Blocks /\ e.data \in Word
      BY <1>6, <1>8, LineFields
    <3> QED
      BY <1>1, <3>1
  <2>4. \A a \in Blocks : mem[a] = IF e.valid /\ e.dirty /\ a = e.block THEN e.data ELSE h.mem[a]
    BY <1>1
  <2> HIDE DEF mem
  <2>5. \A a \in Blocks : Has(h.l1, a) => Has(h.l2, a)
    BY DEF Room
  <2>6. \A a \in Blocks : Has(l1, a) => Has(l2, a)
    <3> SUFFICES ASSUME NEW a \in Blocks, Has(l1, a) PROVE Has(l2, a)
      OBVIOUS
    <3>1. ~(e.valid /\ a = e.block) /\ Has(h.l2, a)
      BY <2>2, <2>5 DEF Like
    <3> QED
      BY <1>6, <1>8, <3>1 DEF Like
  <2>7. Room(g)
    <3>1. g \in Caches!Hierarchy
      BY <1>1, <1>3, <1>5, <2>1, <2>3 DEF Caches!Hierarchy, Good, Line
    <3> QED
      BY <1>3, <1>5, <2>1, <2>6, <3>1 DEF Room
  <2>8. ASSUME lost = {}, Coherent(h) PROVE Coherent(g) /\ Keeps(h, g)
    <3> DEFINE s == h.stale
    <3> SUFFICES ASSUME NEW a \in Blocks
                 PROVE  /\ Has(l1, a) /\ ~LineOf(l1, a).dirty => LineOf(l1, a).data = Below(g, a)
                        /\ Has(l2, a) /\ ~LineOf(l2, a).dirty => LineOf(l2, a).data = mem[a]
                        /\ s.valid /\ s.dirty /\ s.block = a => Below(g, a) = s.data
                        /\ Shown(g, a) = Shown(h, a)
      BY <1>3 DEF Coherent, Keeps
    <3>1. /\ Has(h.l1, a) /\ ~LineOf(h.l1, a).dirty => LineOf(h.l1, a).data = Below(h, a)
          /\ Has(h.l2, a) /\ ~LineOf(h.l2, a).dirty => LineOf(h.l2, a).data = h.mem[a]
          /\ s.valid /\ s.dirty /\ s.block = a => Below(h, a) = s.data
      BY <2>8 DEF Coherent
    <3> HIDE DEF s
    <3>2. /\ Below(g, a) = IF Has(l2, a) THEN LineOf(l2, a).data ELSE mem[a]
          /\ Below(h, a) = IF Has(h.l2, a) THEN LineOf(h.l2, a).data ELSE h.mem[a]
          /\ Shown(g, a) = IF Has(l1, a) THEN LineOf(l1, a).data ELSE Below(g, a)
          /\ Shown(h, a) = IF Has(h.l1, a) THEN LineOf(h.l1, a).data ELSE Below(h, a)
      BY <1>3, ShownIs DEF Below
    <3>3. CASE a = b
      <4>1. /\ ~(e.valid /\ a = e.block) /\ ~Has(h.l1, a) /\ Like(h.l1, l1, a)
            /\ mem[a] = h.mem[a] /\ Has(l2, a) /\ LineOf(l2, a).data = h.mem[a]
        BY <1>6, <1>8, <2>2, <2>4, <2>5, <3>3 DEF v
      <4> QED
        BY <1>8, <3>1, <3>2, <3>3, <4>1 DEF Like
    <3>4. CASE e.valid /\ a = e.block
      <4>1. /\ ~Has(l1, a) /\ ~Has(l2, a) /\ Has(h.l2, a) /\ LineOf(h.l2, a) = e
            /\ Has(h.l1, a) => LineOf(h.l1, a).data = e.data
            /\ mem[a] = IF e.dirty THEN e.data ELSE h.mem[a]
        BY <1>6, <1>8, <2>2, <2>4, <2>8, <3>4
      <4>2. mem[a] = e.data
        BY <3>1, <4>1
      <4> QED
        BY <3>1, <3>2, <4>1, <4>2
    <3>5. CASE a # b /\ ~(e.valid /\ a = e.block)
      <4>1. Like(h.l1, l1, a) /\ Like(h.l2, l2, a) /\ mem[a] = h.mem[a]
        BY <1>6, <1>8, <2>2, <2>4, <3>5
      <4> QED
        BY <3>1, <3>2, <4>1 DEF Like
    <3> QED
      BY <3>3, <3>4, <3>5
  <2> QED
    BY <1>3, <2>3, <2>7, <2>8 DEF Faithful, g
<1> QED
  BY <1>7, <1>8

\* Caches whose lines are the same but for replacement bits.
LEMMA LikeCaches ==
    ASSUME NEW h, Room(h), NEW l1, NEW l2, Good(l1, L1_SETS, L1_PENALTY),
           Good(l2, L2_SETS, L2_PENALTY),
           \A a \in Blocks : Like(h.l1, l1, a) /\ Like(h.l2, l2, a),
           NEW g, g = [l1 |-> l1, l2 |-> l2, mem |-> h.mem, stale |-> h.stale, lost |-> h.lost]
    PROVE  Room(g) /\ g.lost = h.lost /\ Faithful(h, g)
<1>1. g \in Caches!Hierarchy
  BY HierarchyFields DEF Room, Caches!Hierarchy, Good, Line
<1>2. Room(g)
  BY <1>1 DEF Room, Like
<1>3. ASSUME NEW a \in Blocks
      PROVE  Below(g, a) = Below(h, a) /\ Shown(g, a) = Shown(h, a)
  BY ShownIs DEF Like, Below
<1>4. Coherent(h) => Coherent(g)
  BY <1>3 DEF Coherent, Like
<1> QED
  BY <1>2, <1>3, <1>4 DEF Faithful, Keeps

Accessed(h, o, b, value) ==
    /\ Room(o.to) /\ h.lost \subseteq o.to.lost /\ o.answers \in BOOLEAN
    /\ o.answers <=> h.l1.missCountdown = 0 /\ Has(h.l1, b)
    /\ o.answers => /\ o.to.l1.missCountdown = 0 /\ Has(o.to.l1, b)
                    /\ o.to.lost = h.lost
    /\ Coherent(h) /\ o.to.lost = {} =>
         /\ Coherent(o.to)
         /\ \A a \in Blocks : Shown(o.to, a) =
                IF o.answers /\ value # NoValue /\ a = b THEN value ELSE Shown(h, a)

LEMMA AccessIs ==
    ASSUME NEW h, Room(h), NEW b \in Blocks, NEW value \in Word \cup {NoValue},
           value = NoValue \/ (h.l1.missCountdown = 0 /\ Has(h.l1, b)),
           NEW o \in Caches!Access(h, b, value)
    PROVE  Accessed(h, o, b, value)
<1> DEFINE in1 == Caches!Probe(h.l1, L1_PENALTY, b, value)
           in2 == Caches!Probe(h.l2, L2_PENALTY, b, value)
           missed1 == [h EXCEPT !.l1 = in1.cache, !.l2 = in2.cache]
<1>1. /\ h.l1 \in Caches!CacheOf(L1_SETS, L1_PENALTY) /\ h.l2 \in Caches!CacheOf(L2_SETS, L2_PENALTY)
      /\ h.mem \in [Blocks -> Word] /\ h.stale \in Line /\ h.lost \in SUBSET Blocks
      /\ h = [l1 |-> h.l1, l2 |-> h.l2, mem |-> h.mem, stale |-> h.stale, lost |-> h.lost]
  BY HierarchyFields DEF Room
<1>2. /\ Good(in1.cache, L1_SETS, L1_PENALTY) /\ in1.hit \in BOOLEAN
      /\ Probed(h.l1, in1, b, value)
  BY Sizes, ProbeIs DEF Room
<1>3. /\ Good(in2.cache, L2_SETS, L2_PENALTY) /\ in2.hit \in BOOLEAN
      /\ Probed(h.l2, in2, b, value)
  BY Sizes, ProbeIs DEF Room
<1>4. /\ in1.hit => o = [to |-> [h EXCEPT !.l1 = in1.cache], answers |-> TRUE]
      /\ ~in1.hit => \E g \in (IF in2.hit THEN Caches!FillL1(missed1, b)
                                          ELSE {Caches!FillL2(missed1, b, dirty) : dirty \in BOOLEAN}) :
                         o = [to |-> g, answers |-> FALSE]
  BY DEF Caches!Access
<1> HIDE DEF in1, in2
<1>5. CASE in1.hit
  <2> DEFINE g == [h EXCEPT !.l1 = in1.cache]
  <2>1. o.to = g /\ o.answers = TRUE
    BY <1>4, <1>5
  <2>2. o.answers \in BOOLEAN /\ o.answers
    BY <2>1
  <2>3. g = [l1 |-> in1.cache, l2 |-> h.l2, mem |-> h.mem, stale |-> h.stale, lost |-> h.lost]
    BY <1>1
  <2> HIDE DEF g
  <2>4. h.l1.missCountdown = 0 /\ Has(h.l1, b) /\ in1.cache.missCountdown = 0
    BY <1>2, <1>5 DEF Probed
  <2>5. CASE value = NoValue
    <3>1. \A a \in Blocks : Like(h.l1, in1.cache, a) /\ Like(h.l2, h.l2, a)
      BY <1>2, <1>5, <2>5, LikeItself DEF Probed
    <3>2. Room(g) /\ g.lost = h.lost /\ Faithful(h, g)
      BY <1>2, <2>3, <3>1, LikeCaches DEF Room
    <3>3. Has(in1.cache, b)
      BY <2>4, <3>1 DEF Like
    <3>4. Coherent(h) => Coherent(g) /\ \A a \in Blocks : Shown(g, a) = Shown(h, a)
      BY <3>2 DEF Faithful, Keeps
    <3>5. g.l1 = in1.cache
      BY <2>3
    <3> QED
      BY <2>1, <2>4, <2>5, <2>2, <3>2, <3>3, <3>4, <3>5 DEF Accessed
  <2>6. CASE value # NoValue
    <3>1. /\ \A a \in Blocks : a # b => Like(h.l1, in1.cache, a)
          /\ Has(in1.cache, b) /\ LineOf(in1.cache, b).data = value /\ LineOf(in1.cache, b).dirty
      BY <1>2, <1>5, <2>4, <2>6 DEF Probed, Updated
    <3>2. Room(g)
      <4>1. g \in Caches!Hierarchy
        BY <1>1, <1>2, <2>3 DEF Caches!Hierarchy, Good, Line
      <4>2. \A a \in Blocks : Has(in1.cache, a) => Has(h.l1, a)
        BY <2>4, <3>1 DEF Like
      <4> QED
        BY <1>2, <2>3, <4>1, <4>2 DEF Room
    <3>3. ASSUME Coherent(h)
          PROVE  Coherent(g) /\ \A a \in Blocks : Shown(g, a) = IF a = b THEN value ELSE Shown(h, a)
      <4>1. \A a \in Blocks : Below(g, a) = Below(h, a)
        BY <2>3 DEF Below
      <4>2. \A a \in Blocks : Shown(g, a) = IF a = b THEN value ELSE Shown(h, a)
        BY <2>3, <3>1, <4>1, ShownIs DEF Like
      <4>3. Coherent(g)
        BY <2>3, <3>1, <3>3, <4>1 DEF Coherent, Like
      <4> QED
        BY <4>2, <4>3
    <3>4. g.l1 = in1.cache /\ g.lost = h.lost
      BY <2>3
    <3> QED
      BY <2>1, <2>4, <2>6, <2>2, <3>1, <3>2, <3>3, <3>4 DEF Accessed
  <2> QED
    BY <2>5, <2>6
<1>6. CASE ~in1.hit
  <2>1. PICK g \in (IF in2.hit THEN Caches!FillL1(missed1, b)
                                ELSE {Caches!FillL2(missed1, b, dirty) : dirty \in BOOLEAN}) :
            o = [to |-> g, answers |-> FALSE]
    BY <1>4, <1>6
  <2>2. missed1 = [l1 |-> in1.cache, l2 |-> in2.cache, mem |-> h.mem, stale |-> h.stale,
                   lost |-> h.lost]
    BY BothLevels DEF Room
  <2> HIDE DEF missed1
  <2>3. \A a \in Blocks : Like(h.l1, in1.cache, a)
    BY <1>2, <1>6, SameLines DEF Probed
  <2>4. value = NoValue
    BY <1>2, <1>6 DEF Probed
  <2>5. \A a \in Blocks : Like(h.l2, in2.cache, a)
    BY <1>3, <2>4, SameLines DEF Probed
  <2>6. Room(missed1) /\ missed1.lost = h.lost /\ Faithful(h, missed1)
    BY <1>2, <1>3, <2>2, <2>3, <2>5, LikeCaches
  <2>7. Room(g) /\ h.lost \subseteq g.lost /\ (g.lost = {} => Faithful(missed1, g))
    <3>1. CASE in2.hit
      <4>1. Has(missed1.l2, b)
        BY <1>3, <2>2, <2>5, <3>1 DEF Probed, Like
      <4>2. g \in Caches!FillL1(missed1, b)
        BY <2>1, <3>1
      <4> QED
        BY <2>6, <4>1, <4>2, FillL1Is
    <3>2. CASE ~in2.hit
      <4>1. PICK dirty \in BOOLEAN : g = Caches!FillL2(missed1, b, dirty)
        BY <2>1, <3>2
      <4> QED
        BY <2>6, <4>1, FillL2Is
    <3> QED
      BY <3>1, <3>2
  <2>8. o.to = g /\ ~o.answers /\ o.answers \in BOOLEAN
    BY <2>1
  <2>9. ~(h.l1.missCountdown = 0 /\ Has(h.l1, b))
    BY <1>2, <1>6 DEF Probed
  <2>10. Coherent(h) /\ g.lost = {} =>
             Coherent(g) /\ \A a \in Blocks : Shown(g, a) = Shown(h, a)
    BY <2>6, <2>7 DEF Faithful, Keeps
  <2> QED
    BY <2>7, <2>8, <2>9, <2>10 DEF Accessed
<1> QED
  BY <1>5, <1>6

----------------------------------------------------------------------------
(* The caches of the pipeline.                                             *)

LEMMA BlocksOfAccesses ==
    /\ \A a \in Word : DataBlock(a) \in Blocks
    /\ \A at \in 0 .. MAX_LENGTH + 9 : TextBlock(at) \in Blocks
BY DEF Blocks

LEMMA MemoryIs == Memory \in [Blocks -> Word]
<1>1. ASSUME NEW b \in Blocks, b % 2 = 1 PROVE b \div 2 \in Word
  <2>1. CASE \E a \in Word : b = DataBlock(a)
    <3>1. PICK a \in Word : b = 2 * a + 1
      BY <2>1 DEF DataBlock
    <3>2. a \in Nat
      BY WordLimits
    <3> QED
      BY <3>1, <3>2
  <2>2. CASE \E at \in 0 .. MAX_LENGTH + 9 : b = TextBlock(at)
    <3>1. PICK at \in 0 .. MAX_LENGTH + 9 : b = 2 * (at \div TEXT_WORDS)
      BY <2>2 DEF TextBlock
    <3>2. at \div TEXT_WORDS \in Int
      BY <3>1, Sizes, Division, PipelineAssumption
    <3> QED
      BY <1>1, <3>1, <3>2
  <2> QED
    BY <2>1, <2>2 DEF Blocks
<1> QED
  BY <1>1, WordLimits, PipelineAssumption DEF Memory

LEMMA EmptyCacheIs ==
    ASSUME NEW sets \in Nat \ {0}, NEW penalty \in Nat \ {0}
    PROVE  LET c == Caches!EmptyCache(sets)
           IN Good(c, sets, penalty) /\ \A b \in Blocks : ~Has(c, b)
<1> DEFINE c == Caches!EmptyCache(sets)
<1>1. /\ c = [line |-> c.line, missCountdown |-> 0] /\ c.line \in Rows(sets)
      /\ \A i \in 0 .. sets - 1, w \in Ways : c.line[i][w] = Caches!InvalidLine
  BY InvalidLineIs DEF Caches!EmptyCache, Rows, Ways
<1> HIDE DEF c
<1>2. \A i \in 0 .. sets - 1, w \in Ways : ~c.line[i][w].valid
  BY <1>1, InvalidLineIs
<1>3. Placed(c, sets) /\ Distinct(c, sets)
  BY <1>2 DEF Placed, Distinct
<1>4. AllRanked(c, sets)
  <2> SUFFICES ASSUME NEW i \in 0 .. sets - 1 PROVE Ranked(c.line[i])
    BY DEF AllRanked
  <2>1. RankedBy(c.line[i], [w \in Ways |-> w])
    BY <1>2 DEF RankedBy
  <2> QED
    BY <2>1 DEF Ranked
<1>5. 0 \in 0 .. penalty - 1
  OBVIOUS
<1>6. Good(c, sets, penalty)
  BY <1>1, <1>3, <1>4, <1>5 DEF Good, Caches!CacheOf, Rows, Ways, Line
<1>7. ASSUME NEW b \in Blocks PROVE ~Has(c, b)
  <2>1. b % sets \in 0 .. sets - 1
    BY IndexInRange
  <2> QED
    BY <1>1, <1>2, <2>1, HitWaysAre DEF At
<1> QED
  BY <1>6, <1>7 DEF c

LEMMA ColdIs ==
    LET h == Caches!Cold(Memory) IN Room(h) /\ Coherent(h) /\ h.lost = {}
                                    /\ \A b \in Blocks : Shown(h, b) = Memory[b]
<1> DEFINE h == Caches!Cold(Memory)
<1>1. h = [l1 |-> Caches!EmptyCache(L1_SETS), l2 |-> Caches!EmptyCache(L2_SETS), mem |-> Memory,
           stale |-> Caches!InvalidLine, lost |-> {}]
  BY DEF Caches!Cold
<1>2. /\ Good(h.l1, L1_SETS, L1_PENALTY) /\ Good(h.l2, L2_SETS, L2_PENALTY)
      /\ \A b \in Blocks : ~Has(h.l1, b) /\ ~Has(h.l2, b)
  BY <1>1, EmptyCacheIs, Sizes
<1>3. h \in Caches!Hierarchy
  BY <1>1, <1>2, MemoryIs, InvalidLineIs DEF Caches!Hierarchy, Good, Line
<1>4. ~h.stale.valid /\ h.mem = Memory /\ h.lost = {}
  BY <1>1, InvalidLineIs
<1> HIDE DEF h
<1>5. Room(h) /\ Coherent(h)
  BY <1>2, <1>3, <1>4 DEF Room, Coherent
<1>6. \A b \in Blocks : Shown(h, b) = Memory[b]
  BY <1>2, <1>4, ShownIs DEF Below
<1> QED
  BY <1>4, <1>5, <1>6 DEF h

\* Sound caches keep room.
LEMMA RoomIsKept ==
    ASSUME NEW h, Room(h)
    PROVE  Caches!InclusiveIn(h) /\ Caches!VictimsIn(h)
<1>1. /\ h.l1.line \in Rows(L1_SETS) /\ Distinct(h.l1, L1_SETS) /\ AllRanked(h.l1, L1_SETS)
      /\ h.l2.line \in Rows(L2_SETS) /\ Distinct(h.l2, L2_SETS) /\ AllRanked(h.l2, L2_SETS)
  BY DEF Room, Good, Caches!CacheOf, Rows, Ways, Line
<1>2. ASSUME NEW sets \in Nat \ {0}, NEW c, c.line \in Rows(sets), Distinct(c, sets),
             NEW b \in Blocks
      PROVE  Cardinality(Caches!HitWays(c, b)) <= 1
  <2>1. CASE Has(c, b)
    <3>1. PICK w \in Ways : Caches!HitWays(c, b) = {w}
      BY <1>2, <2>1, LineHeld
    <3>2. Cardinality({w}) = 1
      BY FS_Singleton
    <3> QED
      BY <3>1, <3>2
  <2>2. CASE ~Has(c, b)
    <3>1. Caches!HitWays(c, b) = {}
      BY <2>2 DEF Has, Caches!Has
    <3>2. Cardinality({}) = 0
      BY FS_EmptySet
    <3> QED
      BY <3>1, <3>2
  <2> QED
    BY <2>1, <2>2
<1>3. ASSUME NEW b \in Blocks
      PROVE  /\ Caches!Has(h.l1, b) => Caches!Has(h.l2, b)
             /\ Caches!Cardinality(Caches!HitWays(h.l1, b)) <= 1
             /\ Caches!Cardinality(Caches!HitWays(h.l2, b)) <= 1
  <2>1. \A S : Caches!Cardinality(S) = Cardinality(S)
    BY DEF Caches!Cardinality, Cardinality
  <2>2. Cardinality(Caches!HitWays(h.l1, b)) <= 1 /\ Cardinality(Caches!HitWays(h.l2, b)) <= 1
    BY <1>1, <1>2, Sizes
  <2>3. Has(h.l1, b) => Has(h.l2, b)
    BY DEF Room
  <2> QED
    BY <2>1, <2>2, <2>3 DEF Has
<1>4. Caches!InclusiveIn(h)
  BY <1>3, Zenon DEF Caches!InclusiveIn
<1>5. ASSUME NEW sets \in Nat \ {0}, NEW c, c.line \in Rows(sets), AllRanked(c, sets)
      PROVE  \A i \in DOMAIN c.line : Caches!Victims(c.line[i]) # {}
  <2> SUFFICES ASSUME NEW i \in 0 .. sets - 1 PROVE Caches!Victims(c.line[i]) # {}
    BY <1>5 DEF Rows
  <2>1. c.line[i] \in [Ways -> Line] /\ Ranked(c.line[i])
    BY <1>5 DEF Rows, AllRanked
  <2> QED
    BY <2>1, RankedHasVictim
<1>6. Caches!VictimsIn(h)
  BY <1>1, <1>5, Sizes DEF Caches!VictimsIn
<1> QED
  BY <1>4, <1>6

----------------------------------------------------------------------------
(* Instructions and the latches that carry them.                           *)

LEMMA FetchIs ==
    ASSUME NEW p \in Programs, NEW at \in Nat
    PROVE  /\ Fetch(p, at) \in Instruction /\ Len(p) \in Nat /\ Len(p) <= MAX_LENGTH
           /\ at >= Len(p) => Fetch(p, at) = Nop
           /\ at < Len(p) => at + 1 \in DOMAIN p /\ Fetch(p, at) = p[at + 1]
<1>1. p \in Seq(Instruction) /\ Len(p) <= MAX_LENGTH
  BY PipelineAssumption
<1>2. Nop \in Instruction
  BY WordLimits DEF Nop, Instruction, Imm, Op, RType, Shifts
<1>3. Len(p) \in Nat /\ DOMAIN p = 1 .. Len(p)
  BY <1>1
<1>4. CASE at < Len(p)
  <2>1. at + 1 \in DOMAIN p /\ p[at + 1] \in Instruction
    BY <1>1, <1>3, <1>4
  <2> QED
    BY <1>1, <1>3, <1>4, <2>1 DEF Fetch
<1>5. CASE at >= Len(p)
  <2>1. at + 1 \notin DOMAIN p
    BY <1>3, <1>5
  <2> QED
    BY <1>1, <1>2, <1>3, <1>5, <2>1 DEF Fetch
<1> QED
  BY <1>3, <1>4, <1>5

\* Where control goes when an instruction of the program redirects it.
LEMMA TargetsAreInText ==
    ASSUME NEW p \in Programs, NEW at \in Nat, NEW i, i = Fetch(p, at), NEW taken \in BOOLEAN,
           NEW value, taken => Decode(i).branch,
           taken \/ Decode(i).jump \/ Decode(i).jump_reg
    PROVE  Target(Decode(i), i, at, taken, value) \in 0 .. Len(p)
<1>1. InText(p) /\ Len(p) \in Nat
  BY FetchIs, PipelineAssumption
<1>2. i \in Instruction /\ i.op \in Branches \cup JType \cup {"jr"}
  BY FetchIs DEF Decode
<1>3. i # Nop
  BY <1>2 DEF Nop, Branches, JType
<1>4. at + 1 \in DOMAIN p /\ i = p[at + 1] /\ (at + 1) - 1 = at
  BY <1>3, FetchIs
<1>5. CASE taken
  <2>1. i.op \in Branches
    BY <1>5 DEF Decode
  <2>2. BranchTarget(p[at + 1], Decode(p[at + 1]), (at + 1) - 1) \in 0 .. Len(p)
    BY <1>1, <1>4, <2>1 DEF InText
  <2>3. Target(Decode(i), i, at, taken, value) = BranchTarget(i, Decode(i), at)
    BY <1>5 DEF Target
  <2> QED
    BY <1>4, <2>2, <2>3
<1>6. CASE ~taken
  <2>1. i.op \in JType \cup {"jr"} /\ Decode(i).jump
    BY <1>6 DEF Decode
  <2>2. i.imm <= Len(p) /\ i.imm \in Nat
    BY <1>1, <1>2, <1>4, <2>1, WordLimits DEF InText, Instruction
  <2>3. Target(Decode(i), i, at, taken, value) = i.imm
    BY <1>6, <2>1 DEF Target
  <2> QED
    BY <1>1, <2>2, <2>3
<1> QED
  BY <1>5, <1>6

LEMMA ControlIs ==
    ASSUME NEW i \in Instruction
    PROVE  Decode(i) \in Control
<1> DEFINE n == [Nop EXCEPT !.op = i.op]
<1>1. n.op = i.op
  BY DEF Nop
<1>2. Decode(i) = Decode(n)
  BY <1>1, Zenon DEF Decode
<1>3. i.op \in Op
  BY DEF Instruction
<1> QED
  BY <1>2, <1>3 DEF Control

LEMMA ControlFields ==
    ASSUME NEW control \in Control
    PROVE  /\ control.branch \in BOOLEAN /\ control.bne \in BOOLEAN
           /\ control.mem_read \in BOOLEAN /\ control.mem_write \in BOOLEAN
           /\ control.reg_write \in BOOLEAN /\ control.byte \in BOOLEAN
           /\ control.jump \in BOOLEAN /\ control.jump_reg \in BOOLEAN
<1>1. CASE control = NoControl
  BY <1>1 DEF NoControl
<1>2. ASSUME NEW op \in Op, control = Decode([Nop EXCEPT !.op = op])
      PROVE  /\ control.branch \in BOOLEAN /\ control.bne \in BOOLEAN
             /\ control.mem_read \in BOOLEAN /\ control.mem_write \in BOOLEAN
             /\ control.reg_write \in BOOLEAN /\ control.byte \in BOOLEAN
             /\ control.jump \in BOOLEAN /\ control.jump_reg \in BOOLEAN
  BY <1>2 DEF Decode
<1> QED
  BY <1>1, <1>2 DEF Control

\* What an instruction, or a bubble, gives.
Carried(i, control) ==
    /\ i \in Instruction
    /\ control = Decode(i) \/ (i = Nop /\ control = NoControl)

LEMMA CarriedGivesWords ==
    ASSUME NEW i, NEW control, Carried(i, control), NEW a \in Word, NEW b \in Word
    PROVE  /\ ALUResult(i, control, a, b) \in Word /\ WriteReg(i, control) \in Reg
           /\ control \in Control
<1>1. CASE control = Decode(i)
  BY <1>1, ALUGivesWords, ControlIs DEF Carried, WriteReg, Instruction
<1>2. CASE i = Nop /\ control = NoControl
  <2>1. ALUResult(i, control, a, b) = (a + b) % 2 ^ WORD_BITS
    BY <1>2 DEF ALUResult, ALUControl, ALU, NoControl
  <2>2. a + b \in Int /\ 2 ^ WORD_BITS \in Nat \ {0}
    BY WordLimits
  <2>3. ALUResult(i, control, a, b) \in Word
    BY <2>1, <2>2, Division DEF Word
  <2>4. WriteReg(i, control) \in Reg
    BY <1>2 DEF WriteReg, Carried, Instruction
  <2> QED
    BY <1>2, <2>3, <2>4 DEF Control
<1> QED
  BY <1>1, <1>2 DEF Carried

----------------------------------------------------------------------------
(* Types, what the first latches hold, and how far the pc has come.        *)

FetchLatch == [pc : Nat, instr : Instruction, live : BOOLEAN]
DecodeLatch == [pc : Nat, instr : Instruction, control : Control,
                read_data_1 : Word, read_data_2 : Word, live : BOOLEAN]
ExecuteLatch == [pc : Nat, control : Control, alu_out : Word, write_data_mem : Word,
                 write_reg : Reg, live : BOOLEAN]
MemoryLatch == [control : Control, alu_out : Word, read_data_mem : Word, write_reg : Reg]

Types ==
    /\ program \in Programs /\ pc \in Nat /\ R \in [Reg -> Word]
    /\ if_id \in FetchLatch /\ id_ex \in DecodeLatch /\ ex_mem \in ExecuteLatch
    /\ mem_wb \in MemoryLatch /\ mem_wb_prev \in MemoryLatch
    /\ load_use_stall \in BOOLEAN /\ memory_stall \in BOOLEAN
    /\ pc_history \in [1 .. HISTORY -> Nat]
    /\ Room(caches)
    /\ stage \in Stages /\ refetched \in BOOLEAN /\ steady \in 0 .. HISTORY

\* What is in IF/ID comes from the word before the pc; a bubble is a Nop.
IfHolds ==
    IF if_id.live THEN if_id.instr = Fetch(program, if_id.pc) /\ pc = if_id.pc + 1
                  ELSE if_id.instr = Nop
\* What is in ID/EX comes from the program, unless it is a Nop.
IdCarries ==
    /\ Carried(id_ex.instr, id_ex.control)
    /\ id_ex.instr = Fetch(program, id_ex.pc) \/ id_ex.instr = Nop
\* The pc advances by one instruction a cycle, unless it goes back into the text.
Remembered ==
    /\ \A k \in 1 .. HISTORY - 1 :
          pc_history[k + 1] <= pc_history[k] + 1 \/ pc_history[k + 1] <= Len(program) + 1
    /\ stage = "writeback" => pc = pc_history[HISTORY]
    /\ stage # "writeback" => Running /\ (pc <= pc_history[HISTORY] \/ pc <= Len(program))

Shape == Types /\ IfHolds /\ IdCarries /\ Remembered

LEMMA ResultIsWord ==
    ASSUME NEW latch \in MemoryLatch
    PROVE  ResultOf(latch) \in Word
BY DEF ResultOf, MemoryLatch

LEMMA NarrowIsWord == \A v \in Word : Narrow(v) \in Word
<1> TAKE v \in Word
<1>1. v \in Int /\ 2 ^ IMM_BITS \in Nat \ {0}
  BY WordLimits
<1>2. v % 2 ^ IMM_BITS \in Imm
  BY <1>1, Division DEF Imm
<1> QED
  BY <1>2, WordLimits DEF Narrow

\* So it does not get far past the text before main leaves the loop.
LEMMA HistoryBounds ==
    ASSUME Shape, Running
    PROVE  pc <= Len(program) + 5 /\ pc_history[HISTORY] <= Len(program) + 5
<1>1. /\ pc_history \in [1 .. 6 -> Nat] /\ HISTORY = 6 /\ Len(program) \in Nat /\ pc \in Nat
      /\ pc_history[1] <= Len(program)
  BY FetchIs DEF Shape, Types, HISTORY, Running
<1>2. \A k \in 1 .. 5 :
          pc_history[k + 1] <= pc_history[k] + 1 \/ pc_history[k + 1] <= Len(program) + 1
  <2>1. \A k \in 1 .. HISTORY - 1 :
          pc_history[k + 1] <= pc_history[k] + 1 \/ pc_history[k + 1] <= Len(program) + 1
    BY DEF Shape, Remembered
  <2> QED
    BY <2>1 DEF HISTORY
<1>3. \A k \in 1 .. 6 : pc_history[k] \in Nat
  BY <1>1
<1>4. /\ pc_history[2] <= pc_history[1] + 1 \/ pc_history[2] <= Len(program) + 1
      /\ pc_history[3] <= pc_history[2] + 1 \/ pc_history[3] <= Len(program) + 1
      /\ pc_history[4] <= pc_history[3] + 1 \/ pc_history[4] <= Len(program) + 1
      /\ pc_history[5] <= pc_history[4] + 1 \/ pc_history[5] <= Len(program) + 1
      /\ pc_history[6] <= pc_history[5] + 1 \/ pc_history[6] <= Len(program) + 1
  <2>1. pc_history[1 + 1] <= pc_history[1] + 1 \/ pc_history[1 + 1] <= Len(program) + 1
    BY <1>2
  <2>2. pc_history[2 + 1] <= pc_history[2] + 1 \/ pc_history[2 + 1] <= Len(program) + 1
    BY <1>2
  <2>3. pc_history[3 + 1] <= pc_history[3] + 1 \/ pc_history[3 + 1] <= Len(program) + 1
    BY <1>2
  <2>4. pc_history[4 + 1] <= pc_history[4] + 1 \/ pc_history[4 + 1] <= Len(program) + 1
    BY <1>2
  <2>5. pc_history[5 + 1] <= pc_history[5] + 1 \/ pc_history[5 + 1] <= Len(program) + 1
    BY <1>2
  <2> QED
    BY <2>1, <2>2, <2>3, <2>4, <2>5
<1>5. pc_history[6] <= Len(program) + 5
  <2>1. pc_history[2] \in Nat /\ pc_history[3] \in Nat /\ pc_history[4] \in Nat
        /\ pc_history[5] \in Nat /\ pc_history[6] \in Nat /\ pc_history[1] \in Nat
    BY <1>3
  <2> DEFINE n == Len(program)
  <2>2. pc_history[2] <= n + 1
    BY <1>1, <1>4, <2>1
  <2>3. pc_history[3] <= n + 2
    BY SMTT(30), <1>1, <1>4, <2>1, <2>2
  <2>4. pc_history[4] <= n + 3
    BY SMTT(30), <1>1, <1>4, <2>1, <2>3
  <2>5. pc_history[5] <= n + 4
    BY <1>1, <1>4, <2>1, <2>4
  <2> QED
    BY <1>1, <1>4, <2>1, <2>5
<1>6. pc = pc_history[6] \/ pc <= pc_history[6] \/ pc <= Len(program)
  BY <1>1 DEF Shape, Remembered
<1> QED
  BY <1>1, <1>3, <1>5, <1>6

LEMMA EmptyLatches ==
    /\ Nop \in Instruction /\ Carried(Nop, NoControl) /\ Carried(Nop, Decode(Nop))
    /\ EmptyIF_ID \in FetchLatch /\ EmptyID_EX \in DecodeLatch /\ EmptyEX_MEM \in ExecuteLatch
    /\ EmptyMEM_WB \in MemoryLatch
<1>1. Nop \in Instruction
  BY WordLimits DEF Nop, Instruction, Imm, Op, RType, Shifts
<1>2. NoControl \in Control
  BY DEF Control
<1> QED
  BY <1>1, <1>2, WordLimits DEF Carried, EmptyIF_ID, EmptyID_EX, EmptyEX_MEM, EmptyMEM_WB,
       FetchLatch, DecodeLatch, ExecuteLatch, MemoryLatch

LEMMA ShapeInit == Init => Shape
<1> SUFFICES ASSUME Init PROVE Shape
  OBVIOUS
<1>1. Types
  <2>1. Room(caches)
    BY ColdIs DEF Init
  <2>2. R \in [Reg -> Word]
    BY WordLimits DEF Init
  <2>3. pc_history \in [1 .. HISTORY -> Nat] /\ steady \in 0 .. HISTORY
    BY DEF Init, HISTORY
  <2> QED
    BY <2>1, <2>2, <2>3, EmptyLatches DEF Init, Types, Stages
<1>2. IfHolds /\ IdCarries
  BY EmptyLatches DEF Init, IfHolds, IdCarries, EmptyIF_ID, EmptyID_EX
<1>3. Remembered
  BY DEF Init, Remembered, HISTORY
<1> QED
  BY <1>1, <1>2, <1>3 DEF Shape

----------------------------------------------------------------------------
(* memory_stage and fetch_stage, as far as the caches go.                  *)

Accesses == ex_mem.control.mem_read \/ ex_mem.control.mem_write
Block == DataBlock(ex_mem.alu_out)
\* What goes on to MEM/WB if the access reads v.
PassedOn(v) == [control |-> ex_mem.control, alu_out |-> ex_mem.alu_out,
                read_data_mem |-> IF ex_mem.control.byte THEN Narrow(v) ELSE v,
                write_reg |-> ex_mem.write_reg]

MemoryEffect ==
    /\ Room(caches') /\ caches.lost \subseteq caches'.lost
    /\ \/ /\ memory_stall' = TRUE /\ Accesses /\ ex_mem' = ex_mem /\ mem_wb' = mem_wb
       \/ /\ memory_stall' = FALSE /\ ex_mem' = [ex_mem EXCEPT !.live = FALSE]
          /\ \E v \in Word :
                /\ mem_wb' = PassedOn(v)
                /\ Accesses /\ Coherent(caches) /\ caches'.lost = {} => v = Shown(caches, Block)
    /\ Coherent(caches) /\ caches'.lost = {} =>
         /\ Coherent(caches')
         /\ \A a \in Blocks : Shown(caches', a) =
                IF memory_stall' = FALSE /\ ex_mem.control.mem_write /\ a = Block
                  THEN ex_mem.write_data_mem ELSE Shown(caches, a)

LEMMA NoValueIs == NoValue = -1 /\ NoValue \notin Word
BY WordLimits DEF NoValue, Caches!NoValue

LEMMA MemoryStageIs == ASSUME Types, MemoryStage PROVE MemoryEffect
<1> DEFINE h == caches
           v == ex_mem.write_data_mem
           word(g) == IF Accesses THEN Caches!Presented(g, Block) ELSE 0
           passed(g) == [control |-> ex_mem.control, alu_out |-> ex_mem.alu_out,
                         read_data_mem |-> IF ex_mem.control.byte THEN Narrow(word(g)) ELSE word(g),
                         write_reg |-> ex_mem.write_reg]
           after(g) == IF ex_mem.control.mem_write
                         THEN {o.to : o \in Caches!Access(g, Block, v)} ELSE {g}
<1>1. PICK o \in IF Accesses THEN Caches!Access(caches, Block, Caches!NoValue)
                             ELSE {[to |-> caches, answers |-> TRUE]} :
          \/ /\ ~o.answers /\ memory_stall' = TRUE /\ caches' = o.to
             /\ UNCHANGED <<ex_mem, mem_wb>>
          \/ /\ o.answers /\ memory_stall' = FALSE /\ caches' \in after(o.to)
             /\ mem_wb' = passed(o.to) /\ ex_mem' = [ex_mem EXCEPT !.live = FALSE]
  BY Zenon DEF MemoryStage, Accesses, Block
<1>2. /\ Room(h) /\ v \in Word /\ Block \in Blocks
      /\ ex_mem.control.mem_read \in BOOLEAN /\ ex_mem.control.mem_write \in BOOLEAN
  BY BlocksOfAccesses, ControlFields DEF Types, ExecuteLatch, Block
<1>3. /\ Room(o.to) /\ h.lost \subseteq o.to.lost /\ o.answers \in BOOLEAN
      /\ ~o.answers => Accesses
      /\ o.answers /\ Accesses => o.to.l1.missCountdown = 0 /\ Has(o.to.l1, Block)
      /\ Coherent(h) /\ o.to.lost = {} =>
           Coherent(o.to) /\ \A a \in Blocks : Shown(o.to, a) = Shown(h, a)
  <2>1. CASE Accesses
    <3>1. o \in Caches!Access(h, Block, NoValue)
      BY <1>1, <2>1 DEF NoValue
    <3>2. Accessed(h, o, Block, NoValue)
      BY <1>2, <3>1, AccessIs
    <3> QED
      BY <2>1, <3>2 DEF Accessed
  <2>2. CASE ~Accesses
    <3>1. o = [to |-> h, answers |-> TRUE]
      BY <1>1, <2>2
    <3> QED
      BY <1>2, <2>2, <3>1
  <2> QED
    BY <2>1, <2>2
<1>4. CASE ~o.answers
  <2>1. memory_stall' = TRUE /\ caches' = o.to /\ ex_mem' = ex_mem /\ mem_wb' = mem_wb
    BY <1>1, <1>4
  <2> QED
    BY <1>3, <1>4, <2>1 DEF MemoryEffect
<1>5. CASE o.answers
  <2>1. /\ memory_stall' = FALSE /\ caches' \in after(o.to) /\ mem_wb' = passed(o.to)
        /\ ex_mem' = [ex_mem EXCEPT !.live = FALSE]
    BY <1>1, <1>5
  <2>2. /\ word(o.to) \in Word /\ mem_wb' = PassedOn(word(o.to))
        /\ Accesses => word(o.to) = Shown(o.to, Block)
    <3>1. Shown(o.to, Block) \in Word
      BY <1>2, <1>3, HeldIsWord
    <3> QED
      BY <2>1, <3>1, WordLimits DEF PassedOn, Shown
  <2>3. /\ Room(caches') /\ o.to.lost = caches'.lost
        /\ Coherent(o.to) /\ caches'.lost = {} =>
             /\ Coherent(caches')
             /\ \A a \in Blocks : Shown(caches', a) =
                    IF ex_mem.control.mem_write /\ a = Block THEN v ELSE Shown(o.to, a)
    <3>1. CASE ex_mem.control.mem_write
      <4>1. PICK q \in Caches!Access(o.to, Block, v) : caches' = q.to
        BY <2>1, <3>1
      <4>2. o.to.l1.missCountdown = 0 /\ Has(o.to.l1, Block)
        BY <1>3, <1>5, <3>1 DEF Accesses
      <4>3. Accessed(o.to, q, Block, v)
        BY <1>2, <1>3, <4>2, AccessIs
      <4> QED
        BY <1>2, <3>1, <4>1, <4>2, <4>3, NoValueIs DEF Accessed
    <3>2. CASE ~ex_mem.control.mem_write
      <4>1. caches' = o.to
        BY <2>1, <3>2
      <4> QED
        BY <1>3, <3>2, <4>1
    <3> QED
      BY <3>1, <3>2
  <2>4. Coherent(h) /\ caches'.lost = {} =>
          /\ Coherent(caches')
          /\ \A a \in Blocks : Shown(caches', a) =
                 IF ex_mem.control.mem_write /\ a = Block THEN v ELSE Shown(h, a)
    BY <1>3, <2>3
  <2>5. Accesses /\ Coherent(h) /\ caches'.lost = {} => word(o.to) = Shown(h, Block)
    BY <1>2, <1>3, <2>2, <2>3
  <2>6. h.lost \subseteq caches'.lost
    BY <1>3, <2>3
  <2> HIDE DEF word, passed, after
  <2> QED
    BY <2>1, <2>2, <2>3, <2>4, <2>5, <2>6 DEF MemoryEffect
<1> QED
  BY <1>3, <1>4, <1>5

FetchEffect ==
    LET stalled == load_use_stall \/ memory_stall
    IN /\ Room(caches') /\ caches.lost \subseteq caches'.lost
       /\ \/ stalled /\ pc' = pc /\ if_id' = if_id /\ refetched' = refetched
          \/ /\ ~stalled /\ pc' = pc + 1
             /\ if_id' = [pc |-> pc, instr |-> Fetch(program, pc), live |-> TRUE]
             /\ refetched' = refetched
          \/ /\ ~stalled /\ pc' = pc /\ if_id' = if_id
             /\ refetched' = (refetched \/ if_id.live)
       /\ Coherent(caches) /\ caches'.lost = {} =>
            Coherent(caches') /\ \A a \in Blocks : Shown(caches', a) = Shown(caches, a)

LEMMA FetchStageIs == ASSUME Shape, FetchStage PROVE FetchEffect
<1>1. Room(caches) /\ pc \in Nat /\ refetched \in BOOLEAN /\ program \in Programs
      /\ if_id.live \in BOOLEAN
  BY DEF Shape, Types, FetchLatch
<1>2. CASE load_use_stall \/ memory_stall
  BY <1>1, <1>2 DEF FetchStage, FetchEffect
<1>3. CASE ~(load_use_stall \/ memory_stall)
  <2>1. PICK o \in Caches!Access(caches, TextBlock(pc), Caches!NoValue) :
            /\ caches' = o.to
            /\ pc' = IF o.answers THEN pc + 1 ELSE pc
            /\ if_id' = IF o.answers
                          THEN [pc |-> pc, instr |-> Fetch(program, pc), live |-> TRUE]
                          ELSE if_id
            /\ refetched' = (refetched \/ (~o.answers /\ if_id.live))
    BY <1>3, Zenon DEF FetchStage
  <2>2. Running
    BY DEF Shape, Remembered, FetchStage
  <2>3. pc \in 0 .. MAX_LENGTH + 9
    <3>1. pc <= Len(program) + 5 /\ Len(program) <= MAX_LENGTH /\ Len(program) \in Nat
      BY <1>1, <2>2, HistoryBounds, FetchIs
    <3> QED
      BY <1>1, <3>1, PipelineAssumption
  <2>4. TextBlock(pc) \in Blocks
    BY <2>3, BlocksOfAccesses
  <2>5. Accessed(caches, o, TextBlock(pc), NoValue)
    BY <1>1, <2>1, <2>4, AccessIs DEF NoValue
  <2>6. /\ Room(caches') /\ caches.lost \subseteq caches'.lost /\ o.answers \in BOOLEAN
        /\ Coherent(caches) /\ caches'.lost = {} =>
             Coherent(caches') /\ \A a \in Blocks : Shown(caches', a) = Shown(caches, a)
    BY <2>1, <2>5 DEF Accessed
  <2>7. CASE o.answers
    BY <1>1, <1>3, <2>1, <2>6, <2>7 DEF FetchEffect
  <2>8. CASE ~o.answers
    BY <1>1, <1>3, <2>1, <2>6, <2>8 DEF FetchEffect
  <2> QED
    BY <2>6, <2>7, <2>8
<1> QED
  BY <1>2, <1>3

----------------------------------------------------------------------------
(* Every stage keeps the shape.                                            *)

LEMMA RecordsKeep ==
    /\ \A latch \in FetchLatch : latch.live \in BOOLEAN /\ latch.pc \in Nat /\ latch.instr \in Instruction
    /\ \A latch \in DecodeLatch : [latch EXCEPT !.live = FALSE] \in DecodeLatch
    /\ \A latch \in ExecuteLatch : [latch EXCEPT !.live = FALSE] \in ExecuteLatch
BY DEF FetchLatch, DecodeLatch, ExecuteLatch

\* What is forwarded is a word.
LEMMA ForwardedIsWord ==
    ASSUME Types, NEW r, NEW d \in Word
    PROVE  Forwarded(r, d) \in Word
<1>1. ex_mem.alu_out \in Word /\ ResultOf(mem_wb_prev) \in Word
  BY ResultIsWord DEF Types, ExecuteLatch
<1> QED
  BY <1>1 DEF Forwarded

ReadData1 == Forwarded(id_ex.instr.rs, id_ex.read_data_1)
ReadData2 == Forwarded(id_ex.instr.rt, id_ex.read_data_2)
Result == ALUResult(id_ex.instr, id_ex.control, ReadData1, ReadData2)
Taken == id_ex.control.branch /\ (id_ex.control.bne <=> Result # 0)
Redirects == Taken \/ id_ex.control.jump \/ id_ex.control.jump_reg
ToEX_MEM == [pc |-> id_ex.pc, control |-> id_ex.control, alu_out |-> Result,
             write_data_mem |-> ReadData2, write_reg |-> WriteReg(id_ex.instr, id_ex.control),
             live |-> id_ex.live]

LEMMA ExecuteStageIs ==
    ASSUME Shape, ExecuteStage
    PROVE  /\ ReadData1 \in Word /\ ReadData2 \in Word /\ ToEX_MEM \in ExecuteLatch
           /\ \/ /\ memory_stall /\ UNCHANGED <<pc, if_id, id_ex, ex_mem, steady>>
              \/ /\ ~memory_stall /\ ex_mem' = ToEX_MEM /\ Redirects
                 /\ pc' = Target(id_ex.control, id_ex.instr, id_ex.pc, Taken, ReadData1)
                 /\ pc' \in 0 .. Len(program)
                 /\ id_ex.instr = Fetch(program, id_ex.pc) /\ id_ex.control = Decode(id_ex.instr)
                 /\ if_id' = EmptyIF_ID /\ id_ex' = EmptyID_EX /\ steady' = 0
              \/ /\ ~memory_stall /\ ex_mem' = ToEX_MEM /\ ~Redirects
                 /\ id_ex' = [id_ex EXCEPT !.live = FALSE] /\ UNCHANGED <<pc, if_id, steady>>
<1>1. /\ id_ex.pc \in Nat /\ id_ex.instr \in Instruction /\ id_ex.read_data_1 \in Word
      /\ id_ex.read_data_2 \in Word /\ id_ex.live \in BOOLEAN /\ program \in Programs
      /\ Carried(id_ex.instr, id_ex.control)
  BY DEF Shape, Types, DecodeLatch, IdCarries
<1>2. ReadData1 \in Word /\ ReadData2 \in Word
  BY <1>1, ForwardedIsWord DEF Shape, ReadData1, ReadData2
<1>3. Result \in Word /\ id_ex.control \in Control /\ WriteReg(id_ex.instr, id_ex.control) \in Reg
  BY <1>1, <1>2, CarriedGivesWords DEF Result
<1>4. ToEX_MEM \in ExecuteLatch
  BY <1>1, <1>2, <1>3 DEF ToEX_MEM, ExecuteLatch
<1>5. \/ /\ memory_stall /\ UNCHANGED <<pc, if_id, id_ex, ex_mem, steady>>
      \/ /\ ~memory_stall /\ ex_mem' = ToEX_MEM /\ Redirects
         /\ pc' = Target(id_ex.control, id_ex.instr, id_ex.pc, Taken, ReadData1)
         /\ if_id' = EmptyIF_ID /\ id_ex' = EmptyID_EX /\ steady' = 0
      \/ /\ ~memory_stall /\ ex_mem' = ToEX_MEM /\ ~Redirects
         /\ id_ex' = [id_ex EXCEPT !.live = FALSE] /\ UNCHANGED <<pc, if_id, steady>>
  BY Zenon DEF ExecuteStage, ToEX_MEM, Redirects, Taken, Result, ReadData1, ReadData2
<1>6. ASSUME Redirects
      PROVE  /\ id_ex.instr = Fetch(program, id_ex.pc) /\ id_ex.control = Decode(id_ex.instr)
             /\ Target(id_ex.control, id_ex.instr, id_ex.pc, Taken, ReadData1) \in 0 .. Len(program)
  <2>1. id_ex.control # NoControl
    BY <1>6 DEF Redirects, Taken, NoControl
  <2>2. id_ex.control = Decode(id_ex.instr)
    BY <1>1, <2>1 DEF Carried
  <2>3. id_ex.instr # Nop
    <3>1. Nop.op = "sll"
      BY DEF Nop
    <3>2. ~Decode(Nop).branch /\ ~Decode(Nop).jump /\ ~Decode(Nop).jump_reg
      BY <3>1 DEF Decode, JType, Branches
    <3> QED
      BY <1>6, <2>2, <3>2 DEF Redirects, Taken
  <2>4. id_ex.instr = Fetch(program, id_ex.pc)
    BY <2>3 DEF Shape, IdCarries
  <2>5. Taken \in BOOLEAN /\ (Taken => Decode(id_ex.instr).branch)
        /\ (Taken \/ Decode(id_ex.instr).jump \/ Decode(id_ex.instr).jump_reg)
    <3>1. id_ex.control.branch \in BOOLEAN
      BY <1>3, ControlFields
    <3> QED
      BY <1>6, <2>2, <3>1 DEF Redirects, Taken
  <2> QED
    BY <1>1, <2>2, <2>4, <2>5, TargetsAreInText
<1> QED
  BY <1>2, <1>4, <1>5, <1>6

LEMMA ShapeExecute == ASSUME Shape, ExecuteStage PROVE Shape'
<1>1. /\ Types /\ IfHolds /\ IdCarries /\ Remembered /\ Len(program) \in Nat
      /\ stage = "execute" /\ stage' = "decode"
      /\ UNCHANGED <<program, R, mem_wb, mem_wb_prev, stalls, pc_history, caches, refetched>>
  BY FetchIs DEF Shape, Types, ExecuteStage
<1>2. pc \in Nat /\ if_id \in FetchLatch /\ id_ex \in DecodeLatch /\ ex_mem \in ExecuteLatch
      /\ steady \in 0 .. HISTORY
  BY <1>1 DEF Types
<1>3. (Running => Running') /\ Running
  BY <1>1 DEF Running, Remembered
<1>4. CASE memory_stall /\ UNCHANGED <<pc, if_id, id_ex, ex_mem, steady>>
  BY <1>1, <1>3, <1>4 DEF Shape, Types, Stages, stalls, IfHolds, IdCarries, Remembered, Room, Running
<1>5. CASE /\ ~memory_stall /\ ex_mem' = ToEX_MEM /\ Redirects /\ ToEX_MEM \in ExecuteLatch
           /\ pc' \in 0 .. Len(program) /\ if_id' = EmptyIF_ID /\ id_ex' = EmptyID_EX /\ steady' = 0
  <2>1. Types'
    BY <1>1, <1>5, EmptyLatches DEF Types, Stages, stalls, HISTORY
  <2>2. IfHolds' /\ IdCarries'
    BY <1>5, EmptyLatches DEF IfHolds, IdCarries, EmptyIF_ID, EmptyID_EX
  <2>3. Remembered'
    BY <1>1, <1>3, <1>5 DEF Remembered
  <2> QED
    BY <2>1, <2>2, <2>3 DEF Shape
<1>6. CASE /\ ~memory_stall /\ ex_mem' = ToEX_MEM /\ ToEX_MEM \in ExecuteLatch
           /\ id_ex' = [id_ex EXCEPT !.live = FALSE] /\ UNCHANGED <<pc, if_id, steady>>
  <2>1. Types'
    BY <1>1, <1>2, <1>6, RecordsKeep DEF Types, Stages, stalls
  <2>2. id_ex'.instr = id_ex.instr /\ id_ex'.control = id_ex.control /\ id_ex'.pc = id_ex.pc
    BY <1>2, <1>6 DEF DecodeLatch
  <2>3. IfHolds' /\ IdCarries'
    BY <1>1, <1>6, <2>2 DEF IfHolds, IdCarries
  <2>4. Remembered'
    BY <1>1, <1>3, <1>6 DEF Remembered
  <2> QED
    BY <2>1, <2>3, <2>4 DEF Shape
<1> QED
  BY <1>4, <1>5, <1>6, ExecuteStageIs

LEMMA ShapeOthers ==
    ASSUME Shape, WritebackStage \/ MemoryStage \/ DecodeStage \/ UNCHANGED vars
    PROVE  Shape'
<1>1. /\ Types /\ IfHolds /\ IdCarries /\ Remembered
  BY DEF Shape
<1>2. CASE WritebackStage
  <2>1. Types'
    <3>1. R' \in [Reg -> Word]
      <4>1. ResultOf(mem_wb) \in Word /\ mem_wb.write_reg \in Reg /\ R \in [Reg -> Word]
        BY <1>1, ResultIsWord DEF Types, MemoryLatch
      <4> QED
        BY <1>2, <4>1 DEF WritebackStage
    <3> QED
      BY <1>1, <1>2, <3>1 DEF WritebackStage, Types, Stages, stalls, history
  <2>2. IfHolds' /\ IdCarries'
    BY <1>1, <1>2 DEF WritebackStage, IfHolds, IdCarries
  <2>3. Remembered'
    BY <1>1, <1>2 DEF WritebackStage, Remembered, Types, Running
  <2> QED
    BY <2>1, <2>2, <2>3 DEF Shape
<1>3. CASE MemoryStage
  <2>1. MemoryEffect
    BY <1>1, <1>3, MemoryStageIs
  <2>2. Room(caches') /\ memory_stall' \in BOOLEAN /\ ex_mem' \in ExecuteLatch
        /\ mem_wb' \in MemoryLatch
    <3>1. \A v \in Word : PassedOn(v) \in MemoryLatch
      BY <1>1, NarrowIsWord DEF PassedOn, MemoryLatch, ExecuteLatch, Types
    <3> QED
      BY <1>1, <2>1, <3>1, RecordsKeep DEF MemoryEffect, Types
  <2>3. Types'
    BY <1>1, <1>3, <2>2 DEF MemoryStage, Types, Stages, history
  <2>4. IfHolds' /\ IdCarries'
    BY <1>1, <1>3 DEF MemoryStage, IfHolds, IdCarries
  <2>5. Remembered'
    BY <1>1, <1>3 DEF MemoryStage, Remembered, Running
  <2> QED
    BY <2>3, <2>4, <2>5 DEF Shape
<1>4. CASE DecodeStage
  <2>1. /\ if_id.instr \in Instruction /\ if_id.pc \in Nat /\ if_id.live \in BOOLEAN
        /\ Decode(if_id.instr) \in Control /\ R[if_id.instr.rs] \in Word /\ R[if_id.instr.rt] \in Word
    <3>1. if_id.instr \in Instruction /\ if_id.pc \in Nat /\ if_id.live \in BOOLEAN /\ R \in [Reg -> Word]
      BY <1>1, RecordsKeep DEF Types
    <3>2. if_id.instr.rs \in Reg /\ if_id.instr.rt \in Reg
      BY <3>1 DEF Instruction
    <3> QED
      BY <3>1, <3>2, ControlIs
  <2>2. \/ id_ex' = id_ex \/ id_ex' = EmptyID_EX
        \/ id_ex' = [pc |-> if_id.pc, instr |-> if_id.instr, control |-> Decode(if_id.instr),
                     read_data_1 |-> R[if_id.instr.rs], read_data_2 |-> R[if_id.instr.rt],
                     live |-> if_id.live]
    BY <1>4 DEF DecodeStage
  <2>3. id_ex' \in DecodeLatch
    BY <1>1, <2>1, <2>2, EmptyLatches DEF DecodeLatch, Types
  <2>4. IdCarries'
    <3>1. CASE id_ex' = id_ex
      BY <1>1, <1>4, <3>1 DEF IdCarries, DecodeStage
    <3>2. CASE id_ex' = EmptyID_EX
      BY <3>2, EmptyLatches DEF IdCarries, EmptyID_EX
    <3>3. CASE id_ex' = [pc |-> if_id.pc, instr |-> if_id.instr, control |-> Decode(if_id.instr),
                     read_data_1 |-> R[if_id.instr.rs], read_data_2 |-> R[if_id.instr.rt],
                     live |-> if_id.live]
      <4>1. id_ex'.pc = if_id.pc /\ id_ex'.instr = if_id.instr /\ id_ex'.control = Decode(if_id.instr)
        BY <3>3
      <4>2. program' = program
        BY <1>4 DEF DecodeStage
      <4>3. if_id.instr = Fetch(program, if_id.pc) \/ if_id.instr = Nop
        BY <1>1 DEF IfHolds
      <4> QED
        BY <2>1, <4>1, <4>2, <4>3 DEF IdCarries, Carried
    <3> QED
      BY <2>2, <3>1, <3>2, <3>3
  <2>5. load_use_stall' \in BOOLEAN
    <3>1. id_ex.control \in Control
      BY <1>1 DEF Types, DecodeLatch
    <3>2. LoadUse \in BOOLEAN
      BY <3>1, ControlFields DEF LoadUse
    <3> QED
      BY <1>1, <1>4, <3>2 DEF DecodeStage, Types
  <2>6. Types'
    BY <1>1, <1>4, <2>3, <2>5 DEF DecodeStage, Types, Stages, history
  <2>7. IfHolds' /\ Remembered'
    BY <1>1, <1>4 DEF DecodeStage, IfHolds, Remembered, Running
  <2> QED
    BY <2>4, <2>6, <2>7 DEF Shape
<1>5. CASE UNCHANGED vars
  BY <1>1, <1>5 DEF vars, latches, stalls, history, Shape, Types, IfHolds, IdCarries, Remembered, Running
<1> QED
  BY <1>2, <1>3, <1>4, <1>5

LEMMA ShapeFetch == ASSUME Shape, FetchStage PROVE Shape'
<1>1. /\ Types /\ IfHolds /\ IdCarries /\ Remembered /\ Len(program) \in Nat /\ pc \in Nat
      /\ stage = "fetch" /\ stage' = "writeback" /\ Running /\ if_id \in FetchLatch
      /\ UNCHANGED <<program, R, id_ex, ex_mem, mem_wb, mem_wb_prev, stalls>>
      /\ pc_history' = [k \in 1 .. HISTORY |-> IF k < HISTORY THEN pc_history[k + 1] ELSE pc']
      /\ steady \in 0 .. HISTORY
      /\ steady' = IF load_use_stall \/ memory_stall THEN 0
                   ELSE IF steady < HISTORY THEN steady + 1 ELSE steady
  BY FetchIs DEF Shape, Types, Remembered, FetchStage
<1>2. FetchEffect
  BY FetchStageIs
<1>3. /\ Room(caches') /\ refetched' \in BOOLEAN
      /\ \/ pc' = pc /\ if_id' = if_id
         \/ pc' = pc + 1 /\ if_id' = [pc |-> pc, instr |-> Fetch(program, pc), live |-> TRUE]
  BY <1>1, <1>2, RecordsKeep DEF FetchEffect, Types
<1>4. Fetch(program, pc) \in Instruction
  BY <1>1, FetchIs DEF Types
<1>5. pc' \in Nat /\ if_id' \in FetchLatch /\ IfHolds'
  <2>1. CASE pc' = pc /\ if_id' = if_id
    BY <1>1, <2>1 DEF IfHolds
  <2>2. CASE pc' = pc + 1 /\ if_id' = [pc |-> pc, instr |-> Fetch(program, pc), live |-> TRUE]
    BY <1>1, <1>4, <2>2 DEF IfHolds, FetchLatch
  <2> QED
    BY <1>3, <2>1, <2>2
<1>6. steady' \in 0 .. HISTORY
  BY <1>1 DEF HISTORY
<1>7. /\ pc_history' \in [1 .. HISTORY -> Nat] /\ pc_history'[HISTORY] = pc'
      /\ \A k \in 1 .. HISTORY - 1 : pc_history'[k] = pc_history[k + 1]
  BY <1>1, <1>5 DEF Types, HISTORY
<1>8. Types'
  BY <1>1, <1>3, <1>5, <1>6, <1>7 DEF Types, Stages, stalls
<1>9. IdCarries'
  BY <1>1 DEF IdCarries
<1>10. Remembered'
  <2>1. ASSUME NEW k \in 1 .. HISTORY - 1
        PROVE  pc_history'[k + 1] <= pc_history'[k] + 1 \/ pc_history'[k + 1] <= Len(program) + 1
    <3>1. CASE k < HISTORY - 1
      <4>1. k + 1 \in 1 .. HISTORY - 1 /\ k \in 1 .. HISTORY - 1
        BY <3>1 DEF HISTORY
      <4>2. pc_history'[k + 1] = pc_history[(k + 1) + 1] /\ pc_history'[k] = pc_history[k + 1]
        BY <1>7, <4>1
      <4> QED
        BY <1>1, <4>1, <4>2 DEF Remembered
    <3>2. CASE k = HISTORY - 1
      <4>1. pc_history'[k] = pc_history[HISTORY] /\ pc_history'[k + 1] = pc'
        BY <1>7, <3>2 DEF HISTORY
      <4>2. pc <= pc_history[HISTORY] \/ pc <= Len(program)
        BY <1>1 DEF Remembered
      <4>3. pc_history[HISTORY] \in Nat
        BY <1>1 DEF Types, HISTORY
      <4> QED
        BY <1>1, <1>3, <4>1, <4>2, <4>3
    <3> QED
      BY <3>1, <3>2 DEF HISTORY
  <2> QED
    BY <1>1, <1>7, <2>1 DEF Remembered
<1> QED
  BY <1>5, <1>8, <1>9, <1>10 DEF Shape

LEMMA ShapeStep == ASSUME Shape, [Next]_vars PROVE Shape'
<1>1. CASE Halted
  <2>1. UNCHANGED vars
    BY <1>1 DEF Halted
  <2> QED
    BY <2>1, ShapeOthers
<1> QED
  BY <1>1, ShapeExecute, ShapeFetch, ShapeOthers DEF Next

(***************************************************************************)
(* The latches carry what the program's text holds, the pc stays within    *)
(* six words of the text, and both caches are sound: no block twice in a  *)
(* set, what L1 has L2 has too, and replacement bits that leave a victim.  *)
(***************************************************************************)
THEOREM PipelineTracked == Spec => []Shape
<1>1. Init => Shape
  BY ShapeInit
<1>2. Shape /\ [Next]_vars => Shape'
  BY ShapeStep
<1> QED
  BY <1>1, <1>2, PTL DEF Spec

(***************************************************************************)
(* Every variable keeps its type, for every program whose branches stay in *)
(* the text.                                                               *)
(***************************************************************************)
THEOREM PipelineTypeCorrect == Spec => []TypeOK
<1>1. Shape => TypeOK
  BY DEF Shape, Types, TypeOK, Room, FetchLatch, DecodeLatch, ExecuteLatch, MemoryLatch
<1> QED
  BY <1>1, PipelineTracked, PTL

(***************************************************************************)
(* replace always finds a line with replacement bits 0, and a block in L1  *)
(* is in L2: for every geometry, whatever addresses the program uses.  An  *)
(* invalidated line keeps its bits and is then passed over by              *)
(* updateReplacementBits, so that the bits are no longer an order; that    *)
(* they stay below one is what leaves a victim.                            *)
(***************************************************************************)
THEOREM AVictimIsAlwaysFound == Spec => []CachesKeepRoom
<1>1. Shape => CachesKeepRoom
  BY RoomIsKept DEF Shape, Types, CachesKeepRoom
<1> QED
  BY <1>1, PipelineTracked, PTL

----------------------------------------------------------------------------
(* Register 0, and how the pipeline drains.                                *)

\* Stages of a cycle in which memory_stage did not stall: what was in EX/MEM is
\* in MEM/WB, what was in ID/EX is in EX/MEM, what is in IF/ID is in ID/EX.
Passed == stage = "execute" /\ ~memory_stall
Executed == stage = "decode" /\ ~memory_stall
Decoded == stage = "fetch" /\ ~memory_stall

WritesZero(latch) == Writes(latch) /\ latch.write_reg = 0

ZeroStays ==
    /\ R[0] = 0
    /\ id_ex.instr.rs = 0 => id_ex.read_data_1 = 0
    /\ id_ex.instr.rt = 0 => id_ex.read_data_2 = 0
    /\ WritesZero(ex_mem) => ~ex_mem.control.mem_read /\ ex_mem.alu_out = 0
    /\ WritesZero(mem_wb) => ResultOf(mem_wb) = 0
    /\ WritesZero(mem_wb_prev) => ResultOf(mem_wb_prev) = 0

\* A latch that is not live, or is of an instruction past the text, has a Nop.
Idle(latch) == latch.live => latch.pc >= Len(program)
Bubbles ==
    /\ id_ex.live => id_ex.instr = Fetch(program, id_ex.pc)
    /\ ~Executed /\ ~id_ex.live => id_ex.instr = Nop
    /\ Executed => ~id_ex.live
    /\ ~Passed /\ Idle(ex_mem) /\ Writes(ex_mem) => ex_mem.write_reg = 0

\* The pc j cycles ago was past the text and nothing has delayed the pipeline
\* since: then the stages that this has reached are idle.
Reached(j, moved) == IF moved THEN j + 1 ELSE j
DrainedTo(j) ==
    /\ pc > Len(program)
    /\ Reached(j, Decoded /\ ~load_use_stall) >= 1 => Idle(id_ex)
    /\ Reached(j, Decoded \/ Executed) >= 2 => Idle(ex_mem)
    /\ Reached(j, Decoded \/ Executed \/ Passed) >= 3 /\ Writes(mem_wb) => mem_wb.write_reg = 0
Draining ==
    \A j \in 0 .. HISTORY - 1 :
        steady >= j + 1 /\ pc_history[HISTORY - j] > Len(program) => DrainedTo(j)

Drain == Shape /\ ZeroStays /\ Bubbles /\ Draining

LEMMA NopGivesZero ==
    ASSUME NEW a \in Word
    PROVE  /\ ALUResult(Nop, Decode(Nop), a, 0) = 0
           /\ \A control : WriteReg(Nop, control) = 0
           /\ ~Decode(Nop).mem_read /\ ~Decode(Nop).mem_write /\ ~Decode(Nop).branch
<1>1. /\ Nop.op = "sll" /\ Nop.imm = 0 /\ Nop.rt = 0 /\ Nop.rd = 0
  BY DEF Nop
<1>2. /\ Decode(Nop).shift /\ ~Decode(Nop).ALU_src /\ Decode(Nop).ALU_op = 2
      /\ ~Decode(Nop).mem_read /\ ~Decode(Nop).mem_write /\ ~Decode(Nop).branch
  <2>1. Nop.op \in RType \ {"jr"} /\ Nop.op \in Shifts
    BY <1>1 DEF RType, Shifts
  <2>2. ~(Nop.op \in LoadOps \cup StoreOps \cup ImmediateOps) /\ Nop.op \notin Branches
    BY <1>1 DEF LoadOps, StoreOps, ImmediateOps, Branches
  <2> QED
    BY <2>1, <2>2 DEF Decode
<1>3. ALUControl(2, "sll") = "sll"
  BY DEF ALUControl
<1>4. ALUResult(Nop, Decode(Nop), a, 0) = ALU("sll", 0, 0)
  BY <1>1, <1>2, <1>3 DEF ALUResult
<1>5. ALU("sll", 0, 0) = (0 * 2 ^ 0) % 2 ^ WORD_BITS
  BY DEF ALU
<1>6. 2 ^ 0 \in Nat /\ 2 ^ WORD_BITS \in Nat \ {0}
  BY WordLimits, TwoToThe
<1>7. 0 * 2 ^ 0 = 0
  BY <1>6
<1>8. 0 % 2 ^ WORD_BITS = 0
  BY <1>6
<1> QED
  BY <1>1, <1>2, <1>4, <1>5, <1>7, <1>8 DEF WriteReg

LEMMA DrainInit == Init => Drain
<1> SUFFICES ASSUME Init PROVE Drain
  OBVIOUS
<1>1. ZeroStays
  BY WordLimits DEF Init, ZeroStays, WritesZero, Writes, EmptyID_EX, EmptyEX_MEM, EmptyMEM_WB, NoControl
<1>2. Bubbles
  BY DEF Init, Bubbles, EmptyID_EX, EmptyEX_MEM, Executed, Passed, Writes, NoControl
<1>3. Draining
  BY DEF Init, Draining, HISTORY
<1> QED
  BY <1>1, <1>2, <1>3, ShapeInit DEF Drain

LEMMA SameLatch ==
    /\ \A latch \in ExecuteLatch :
          LET m == [latch EXCEPT !.live = FALSE]
          IN /\ m.control = latch.control /\ m.alu_out = latch.alu_out /\ m.pc = latch.pc
             /\ m.write_reg = latch.write_reg /\ m.live = FALSE
    /\ \A latch \in DecodeLatch :
          LET m == [latch EXCEPT !.live = FALSE]
          IN /\ m.control = latch.control /\ m.instr = latch.instr /\ m.pc = latch.pc
             /\ m.read_data_1 = latch.read_data_1 /\ m.read_data_2 = latch.read_data_2
             /\ m.live = FALSE
BY DEF ExecuteLatch, DecodeLatch

LEMMA ZeroStep ==
    ASSUME \A p \in Programs : KeepsZero(p), Shape, ZeroStays, [Next]_vars
    PROVE  ZeroStays'
<1>1. /\ ex_mem \in ExecuteLatch /\ id_ex \in DecodeLatch /\ mem_wb \in MemoryLatch
      /\ R \in [Reg -> Word] /\ if_id \in FetchLatch /\ program \in Programs /\ 0 \in Reg
  BY WordLimits DEF Shape, Types
<1>2. CASE WritebackStage
  <2>1. mem_wb_prev' = mem_wb /\ UNCHANGED <<mem_wb, ex_mem, id_ex>>
    BY <1>2 DEF WritebackStage
  <2>2. R'[0] = 0
    BY <1>1, <1>2 DEF WritebackStage, ZeroStays, WritesZero
  <2> QED
    BY <2>1, <2>2 DEF ZeroStays, WritesZero, Writes, ResultOf
<1>3. CASE MemoryStage
  <2>1. MemoryEffect /\ UNCHANGED <<R, id_ex, mem_wb_prev>>
    BY <1>3, MemoryStageIs DEF Shape, MemoryStage
  <2>2. CASE ex_mem' = ex_mem /\ mem_wb' = mem_wb
    BY <2>1, <2>2 DEF ZeroStays, WritesZero, Writes, ResultOf
  <2>3. ASSUME ex_mem' = [ex_mem EXCEPT !.live = FALSE], NEW v \in Word, mem_wb' = PassedOn(v)
        PROVE  ZeroStays'
    <3>1. ex_mem'.control = ex_mem.control /\ ex_mem'.alu_out = ex_mem.alu_out
          /\ ex_mem'.write_reg = ex_mem.write_reg
      BY <1>1, <2>3, SameLatch
    <3>2. mem_wb'.control = ex_mem.control /\ mem_wb'.alu_out = ex_mem.alu_out
          /\ mem_wb'.write_reg = ex_mem.write_reg
      BY <2>3 DEF PassedOn
    <3> QED
      BY <2>1, <3>1, <3>2 DEF ZeroStays, WritesZero, Writes, ResultOf
  <2> QED
    BY <2>1, <2>2, <2>3 DEF MemoryEffect
<1>4. CASE ExecuteStage
  <2>1. UNCHANGED <<R, mem_wb, mem_wb_prev>>
    BY <1>4 DEF ExecuteStage
  <2>2. ASSUME WritesZero(ToEX_MEM) PROVE ~ToEX_MEM.control.mem_read /\ ToEX_MEM.alu_out = 0
    <3>1. ToEX_MEM.control = id_ex.control /\ ToEX_MEM.alu_out = Result
          /\ ToEX_MEM.write_reg = WriteReg(id_ex.instr, id_ex.control)
      BY DEF ToEX_MEM
    <3>2. id_ex.control.reg_write /\ WriteReg(id_ex.instr, id_ex.control) = 0
      BY <2>2, <3>1 DEF WritesZero, Writes
    <3>3. id_ex.control = Decode(id_ex.instr)
      BY <3>2 DEF Shape, IdCarries, Carried, NoControl
    <3>4. id_ex.instr = Nop
      <4>1. CASE id_ex.instr = Fetch(program, id_ex.pc) /\ id_ex.instr # Nop
        <5>1. id_ex.pc \in Nat
          BY <1>1 DEF DecodeLatch
        <5>2. id_ex.pc + 1 \in DOMAIN program /\ id_ex.instr = program[id_ex.pc + 1]
          BY <1>1, <4>1, <5>1, FetchIs
        <5> QED
          BY <1>1, <3>2, <3>3, <5>2 DEF KeepsZero
      <4> QED
        BY <4>1 DEF Shape, IdCarries
    <3>5. id_ex.read_data_2 = 0 /\ id_ex.instr.rt = 0
      BY <3>4 DEF ZeroStays, Nop
    <3>6. ReadData2 = 0
      BY <3>5 DEF ReadData2, Forwarded
    <3>7. ReadData1 \in Word
      BY <1>4, ExecuteStageIs
    <3> QED
      BY <3>1, <3>3, <3>4, <3>6, <3>7, NopGivesZero DEF Result
  <2>3. CASE UNCHANGED <<id_ex, ex_mem>>
    BY <2>1, <2>3 DEF ZeroStays, WritesZero, Writes, ResultOf
  <2>4. CASE ex_mem' = ToEX_MEM /\ id_ex' = EmptyID_EX
    BY <2>1, <2>2, <2>4 DEF ZeroStays, WritesZero, Writes, ResultOf, EmptyID_EX
  <2>5. CASE ex_mem' = ToEX_MEM /\ id_ex' = [id_ex EXCEPT !.live = FALSE]
    <3>1. id_ex'.instr = id_ex.instr /\ id_ex'.read_data_1 = id_ex.read_data_1
          /\ id_ex'.read_data_2 = id_ex.read_data_2
      BY <1>1, <2>5, SameLatch
    <3> QED
      BY <2>1, <2>2, <2>5, <3>1 DEF ZeroStays, WritesZero, Writes, ResultOf
  <2> QED
    BY <1>4, <2>3, <2>4, <2>5, ExecuteStageIs
<1>5. CASE DecodeStage
  <2>1. UNCHANGED <<R, mem_wb, mem_wb_prev, ex_mem>>
    BY <1>5 DEF DecodeStage
  <2>2. /\ id_ex'.instr.rs = 0 => id_ex'.read_data_1 = 0
        /\ id_ex'.instr.rt = 0 => id_ex'.read_data_2 = 0
    BY <1>5 DEF DecodeStage, ZeroStays, EmptyID_EX
  <2> QED
    BY <2>1, <2>2 DEF ZeroStays, WritesZero, Writes, ResultOf
<1>6. CASE FetchStage
  BY <1>6 DEF FetchStage, ZeroStays, WritesZero, Writes, ResultOf
<1>7. CASE UNCHANGED vars
  BY <1>7 DEF vars, latches, ZeroStays, WritesZero, Writes, ResultOf
<1> QED
  BY <1>2, <1>3, <1>4, <1>5, <1>6, <1>7 DEF Next, Halted

LEMMA BubblesStep ==
    ASSUME Shape, Bubbles, [Next]_vars
    PROVE  Bubbles'
<1>1. /\ ex_mem \in ExecuteLatch /\ id_ex \in DecodeLatch /\ program \in Programs
      /\ memory_stall \in BOOLEAN /\ stage \in Stages /\ id_ex.live \in BOOLEAN
  BY DEF Shape, Types, DecodeLatch
<1>2. CASE WritebackStage
  <2>1. stage = "writeback" /\ stage' = "memory" /\ UNCHANGED <<program, ex_mem, id_ex, memory_stall>>
    BY <1>2 DEF WritebackStage, stalls
  <2> QED
    BY <2>1 DEF Bubbles, Executed, Passed, Idle, Writes
<1>3. CASE MemoryStage
  <2>1. MemoryEffect /\ stage = "memory" /\ stage' = "execute" /\ UNCHANGED <<program, id_ex>>
    BY <1>3, MemoryStageIs DEF Shape, MemoryStage
  <2>2. (memory_stall' = TRUE /\ ex_mem' = ex_mem) \/ memory_stall' = FALSE
    BY <2>1 DEF MemoryEffect
  <2> QED
    BY <2>1, <2>2 DEF Bubbles, Executed, Passed, Idle, Writes
<1>4. CASE ExecuteStage
  <2>1. stage = "execute" /\ stage' = "decode" /\ UNCHANGED <<program, memory_stall>>
    BY <1>4 DEF ExecuteStage, stalls
  <2>2. CASE memory_stall /\ UNCHANGED <<id_ex, ex_mem>>
    BY <2>1, <2>2 DEF Bubbles, Executed, Passed, Idle, Writes
  <2>3. ASSUME ~memory_stall, ex_mem' = ToEX_MEM,
               id_ex' = EmptyID_EX \/ id_ex' = [id_ex EXCEPT !.live = FALSE]
        PROVE  Bubbles'
    <3>1. id_ex'.live = FALSE
      <4>1. CASE id_ex' = EmptyID_EX
        BY <4>1 DEF EmptyID_EX
      <4>2. CASE id_ex' = [id_ex EXCEPT !.live = FALSE]
        BY <1>1, <4>2, SameLatch
      <4> QED
        BY <2>3, <4>1, <4>2
    <3>2. /\ ToEX_MEM.pc = id_ex.pc /\ ToEX_MEM.live = id_ex.live
          /\ ToEX_MEM.write_reg = WriteReg(id_ex.instr, id_ex.control)
      BY DEF ToEX_MEM
    <3>3. ASSUME Idle(ToEX_MEM) PROVE ToEX_MEM.write_reg = 0
      <4>1. id_ex.pc \in Nat
        BY <1>1 DEF DecodeLatch
      <4>2. id_ex.instr = Nop
        <5>1. CASE id_ex.live
          BY <1>1, <3>2, <3>3, <4>1, <5>1, FetchIs DEF Idle, Bubbles
        <5>2. CASE ~id_ex.live
          BY <2>1, <5>2 DEF Bubbles, Executed
        <5> QED
          BY <5>1, <5>2
      <4> QED
        BY <3>2, <4>2, NopGivesZero, WordLimits
    <3>4. Executed' /\ ~Passed'
      BY <2>1, <2>3 DEF Executed, Passed
    <3> QED
      BY <2>1, <2>3, <3>1, <3>3, <3>4 DEF Bubbles, Idle, Writes
  <2> QED
    BY <1>4, <2>2, <2>3, ExecuteStageIs
<1>5. CASE DecodeStage
  <2>1. stage = "decode" /\ stage' = "fetch" /\ UNCHANGED <<program, memory_stall, ex_mem>>
    BY <1>5 DEF DecodeStage
  <2>2. CASE memory_stall /\ id_ex' = id_ex
    BY <2>1, <2>2 DEF Bubbles, Executed, Passed, Idle, Writes
  <2>3. CASE id_ex' = EmptyID_EX
    BY <2>1, <2>3 DEF Bubbles, Executed, Passed, Idle, Writes, EmptyID_EX
  <2>4. CASE id_ex' = [pc |-> if_id.pc, instr |-> if_id.instr, control |-> Decode(if_id.instr),
                       read_data_1 |-> R[if_id.instr.rs], read_data_2 |-> R[if_id.instr.rt],
                       live |-> if_id.live]
    BY <2>1, <2>4 DEF Bubbles, Executed, Passed, Idle, Writes, Shape, IfHolds
  <2> QED
    BY <1>5, <2>2, <2>3, <2>4 DEF DecodeStage
<1>6. CASE FetchStage
  BY <1>6 DEF FetchStage, Bubbles, Executed, Passed, Idle, Writes, stalls
<1>7. CASE UNCHANGED vars
  BY <1>7 DEF vars, latches, stalls, Bubbles, Executed, Passed, Idle, Writes
<1> QED
  BY <1>2, <1>3, <1>4, <1>5, <1>6, <1>7 DEF Next, Halted

LEMMA DrainingStep ==
    ASSUME Shape, Bubbles, Draining, [Next]_vars
    PROVE  Draining'
<1>1. /\ ex_mem \in ExecuteLatch /\ id_ex \in DecodeLatch /\ if_id \in FetchLatch
      /\ program \in Programs /\ memory_stall \in BOOLEAN /\ load_use_stall \in BOOLEAN
      /\ pc \in Nat /\ steady \in 0 .. 6 /\ HISTORY = 6 /\ Len(program) \in Nat
  BY FetchIs DEF Shape, Types, HISTORY
<1>2. ASSUME UNCHANGED <<program, steady, pc_history>>, NEW j \in 0 .. HISTORY - 1,
             steady' >= j + 1, pc_history'[HISTORY - j] > Len(program')
      PROVE  DrainedTo(j)
  BY <1>2 DEF Draining
<1>3. CASE WritebackStage
  <2>1. /\ stage = "writeback" /\ stage' = "memory"
        /\ UNCHANGED <<program, steady, pc_history, pc, id_ex, ex_mem, mem_wb, memory_stall,
                       load_use_stall>>
    BY <1>3 DEF WritebackStage, stalls, history
  <2> QED
    BY <1>2, <2>1 DEF Draining, DrainedTo, Reached, Idle, Executed, Passed, Decoded, Writes
<1>4. CASE MemoryStage
  <2>1. /\ MemoryEffect /\ stage = "memory" /\ stage' = "execute"
        /\ UNCHANGED <<program, steady, pc_history, pc, id_ex>>
    BY <1>4, MemoryStageIs DEF Shape, MemoryStage, history
  <2>2. CASE memory_stall' = TRUE /\ ex_mem' = ex_mem /\ mem_wb' = mem_wb
    BY <1>2, <2>1, <2>2 DEF Draining, DrainedTo, Reached, Idle, Executed, Passed, Decoded, Writes
  <2>3. ASSUME memory_stall' = FALSE, ex_mem' = [ex_mem EXCEPT !.live = FALSE],
               NEW v \in Word, mem_wb' = PassedOn(v)
        PROVE  Draining'
    <3>1. ex_mem'.live = FALSE
      BY <1>1, <2>3, SameLatch
    <3>2. /\ Writes(mem_wb') <=> Writes(ex_mem)
          /\ mem_wb'.write_reg = ex_mem.write_reg
      BY <2>3 DEF PassedOn, Writes
    <3>3. Idle(ex_mem) => (Writes(mem_wb') => mem_wb'.write_reg = 0)
      BY <2>1, <3>2 DEF Bubbles, Passed
    <3>4. ASSUME NEW j \in 0 .. HISTORY - 1, DrainedTo(j) PROVE DrainedTo(j)'
      BY <1>1, <2>1, <2>3, <3>1, <3>3, <3>4
         DEF DrainedTo, Reached, Idle, Executed, Passed, Decoded, Writes
    <3> QED
      BY <1>2, <2>1, <3>4 DEF Draining
  <2> QED
    BY <2>1, <2>2, <2>3 DEF MemoryEffect
<1>5. CASE ExecuteStage
  <2>1. /\ stage = "execute" /\ stage' = "decode"
        /\ UNCHANGED <<program, pc_history, mem_wb, memory_stall, load_use_stall>>
    BY <1>5 DEF ExecuteStage, stalls
  <2>2. CASE memory_stall /\ UNCHANGED <<pc, if_id, id_ex, ex_mem, steady>>
    BY <1>2, <2>1, <2>2 DEF Draining, DrainedTo, Reached, Idle, Executed, Passed, Decoded, Writes
  <2>3. CASE steady' = 0
    BY <2>3 DEF Draining, HISTORY
  <2>4. ASSUME ~memory_stall, ex_mem' = ToEX_MEM, id_ex' = [id_ex EXCEPT !.live = FALSE],
               UNCHANGED <<pc, steady>>
        PROVE  Draining'
    <3>1. id_ex'.live = FALSE
      BY <1>1, <2>4, SameLatch
    <3>2. (ex_mem'.live <=> id_ex.live) /\ ex_mem'.pc = id_ex.pc
      BY <2>4 DEF ToEX_MEM
    <3>3. ASSUME NEW j \in 0 .. HISTORY - 1, DrainedTo(j) PROVE DrainedTo(j)'
      BY <1>1, <2>1, <2>4, <3>1, <3>2, <3>3
         DEF DrainedTo, Reached, Idle, Executed, Passed, Decoded, Writes
    <3> QED
      BY <1>2, <2>1, <2>4, <3>3 DEF Draining
  <2> QED
    BY <1>5, <2>2, <2>3, <2>4, ExecuteStageIs
<1>6. CASE DecodeStage
  <2>1. /\ stage = "decode" /\ stage' = "fetch"
        /\ UNCHANGED <<program, steady, pc_history, pc, ex_mem, mem_wb, memory_stall>>
    BY <1>6 DEF DecodeStage, history
  <2>2. CASE memory_stall /\ UNCHANGED <<id_ex, load_use_stall>>
    BY <1>2, <2>1, <2>2 DEF Draining, DrainedTo, Reached, Idle, Executed, Passed, Decoded, Writes
  <2>3. CASE ~memory_stall
    <3>1. CASE id_ex' = EmptyID_EX
      <4>1. id_ex'.live = FALSE
        BY <3>1 DEF EmptyID_EX
      <4>2. ASSUME NEW j \in 0 .. HISTORY - 1, DrainedTo(j) PROVE DrainedTo(j)'
        BY <1>1, <2>1, <2>3, <4>1, <4>2
           DEF DrainedTo, Reached, Idle, Executed, Passed, Decoded, Writes
      <4> QED
        BY <1>2, <2>1, <4>2 DEF Draining
    <3>2. ASSUME id_ex'.pc = if_id.pc, id_ex'.live <=> if_id.live PROVE Draining'
      <4>1. if_id.live => pc = if_id.pc + 1
        BY DEF Shape, IfHolds
      <4>2. if_id.pc \in Nat
        BY <1>1 DEF FetchLatch
      <4>3. pc > Len(program) => (id_ex'.live => id_ex'.pc >= Len(program))
        BY <1>1, <3>2, <4>1, <4>2
      <4>4. ASSUME NEW j \in 0 .. HISTORY - 1, DrainedTo(j) PROVE DrainedTo(j)'
        BY <1>1, <2>1, <2>3, <4>3, <4>4
           DEF DrainedTo, Reached, Idle, Executed, Passed, Decoded, Writes
      <4> QED
        BY <1>2, <2>1, <4>4 DEF Draining
    <3> QED
      BY <1>6, <2>3, <3>1, <3>2 DEF DecodeStage
  <2> QED
    BY <1>6, <2>2, <2>3 DEF DecodeStage
<1>7. CASE FetchStage
  <2>1. /\ stage = "fetch" /\ stage' = "writeback"
        /\ UNCHANGED <<program, id_ex, ex_mem, mem_wb, memory_stall, load_use_stall>>
        /\ steady' = IF load_use_stall \/ memory_stall THEN 0
                     ELSE IF steady < HISTORY THEN steady + 1 ELSE steady
        /\ pc_history' = [k \in 1 .. HISTORY |->
                              IF k < HISTORY THEN pc_history[k + 1] ELSE pc']
    BY <1>7 DEF FetchStage, stalls
  <2>2. pc' = pc \/ pc' = pc + 1
    BY <1>7, FetchStageIs DEF FetchEffect
  <2>3. CASE load_use_stall \/ memory_stall
    BY <2>1, <2>3 DEF Draining, HISTORY
  <2>4. ASSUME ~load_use_stall, ~memory_stall, NEW k \in 0 .. HISTORY - 1,
               steady' >= k + 1, pc_history'[HISTORY - k] > Len(program)
        PROVE  DrainedTo(k)'
    <3>1. CASE k = 0
      <4>1. pc_history'[HISTORY] = pc'
        BY <1>1, <2>1
      <4>2. pc' > Len(program)
        BY <1>1, <2>4, <3>1, <4>1
      <4> QED
        BY <2>1, <3>1, <4>2 DEF DrainedTo, Reached, Executed, Passed, Decoded
    <3>2. CASE k # 0
      <4> DEFINE j == k - 1
      <4>1. j \in 0 .. HISTORY - 1 /\ k = j + 1 /\ HISTORY - k \in 1 .. HISTORY
            /\ HISTORY - k < HISTORY /\ (HISTORY - k) + 1 = HISTORY - j
        BY <1>1, <3>2
      <4>2. pc_history'[HISTORY - k] = pc_history[HISTORY - j]
        BY <2>1, <4>1
      <4>3. steady >= j + 1
        BY <1>1, <2>1, <2>4, <3>2
      <4>4. DrainedTo(j)
        BY <2>4, <4>1, <4>2, <4>3 DEF Draining
      <4>5. Decoded
        BY <2>1, <2>4 DEF Decoded
      <4>6. ~Decoded' /\ ~Executed' /\ ~Passed'
        BY <2>1 DEF Decoded, Executed, Passed
      <4> QED
        BY <1>1, <2>1, <2>2, <2>4, <4>1, <4>4, <4>5, <4>6 DEF DrainedTo, Reached, Idle, Writes
    <3> QED
      BY <3>1, <3>2
  <2> QED
    BY <2>1, <2>3, <2>4 DEF Draining
<1>8. CASE UNCHANGED vars
  BY <1>8 DEF vars, latches, stalls, history, Draining, DrainedTo, Reached, Idle, Executed, Passed,
     Decoded, Writes
<1> QED
  BY <1>3, <1>4, <1>5, <1>6, <1>7, <1>8 DEF Next, Halted

\* The pc that main reads is five cycles old, and in five cycles at full speed
\* all five stages have been reached.
LEMMA DrainGivesExit == ASSUME Drain PROVE ExitsDrainedAtFullSpeed
<1> SUFFICES ASSUME stage = "writeback", ~Running, steady = HISTORY
             PROVE  OldestPC >= Len(program) /\ R = ArchR
  BY DEF ExitsDrainedAtFullSpeed
<1>1. /\ if_id \in FetchLatch /\ Len(program) \in Nat /\ pc_history[1] \in Nat
      /\ pc \in Nat /\ mem_wb \in MemoryLatch /\ R \in [Reg -> Word]
  BY FetchIs DEF Drain, Shape, Types, HISTORY
<1>2. DrainedTo(5)
  <2>1. 5 \in 0 .. HISTORY - 1 /\ steady >= 5 + 1 /\ HISTORY - 5 = 1
    BY DEF HISTORY
  <2>2. pc_history[1] > Len(program)
    BY <1>1 DEF Running
  <2>3. pc_history[HISTORY - 5] > Len(program)
    BY <2>1, <2>2
  <2> QED
    BY <2>1, <2>3 DEF Drain, Draining
<1>3. pc > Len(program) /\ Idle(id_ex) /\ Idle(ex_mem) /\ (Writes(mem_wb) => mem_wb.write_reg = 0)
  BY <1>2 DEF DrainedTo, Reached
<1>4. if_id.live => if_id.pc >= Len(program)
  <2>1. if_id.live => pc = if_id.pc + 1
    BY DEF Drain, Shape, IfHolds
  <2>2. if_id.pc \in Nat
    BY <1>1 DEF FetchLatch
  <2> QED
    BY <1>1, <1>3, <2>1, <2>2
<1>5. OldestPC >= Len(program)
  <2>1. CASE ex_mem.live
    BY <1>3, <2>1 DEF OldestPC, Idle
  <2>2. CASE ~ex_mem.live /\ id_ex.live
    BY <1>3, <2>2 DEF OldestPC, Idle
  <2>3. CASE ~ex_mem.live /\ ~id_ex.live /\ if_id.live
    BY <1>4, <2>3 DEF OldestPC
  <2>4. CASE ~ex_mem.live /\ ~id_ex.live /\ ~if_id.live
    <3>1. OldestPC = pc
      BY <2>4 DEF OldestPC
    <3> QED
      BY <1>1, <1>3, <3>1
  <2> QED
    BY <2>1, <2>2, <2>3, <2>4
<1>6. R = ArchR
  <2>1. CASE ~Writes(mem_wb)
    BY <2>1 DEF ArchR
  <2>2. CASE Writes(mem_wb)
    <3>1. mem_wb.write_reg = 0 /\ ResultOf(mem_wb) = 0 /\ R[0] = 0
      BY <1>3, <2>2 DEF Drain, ZeroStays, WritesZero
    <3>2. ArchR = [R EXCEPT ![0] = 0]
      BY <2>2, <3>1 DEF ArchR
    <3> QED
      BY <1>1, <3>1, <3>2
  <2> QED
    BY <2>1, <2>2
<1> QED
  BY <1>5, <1>6

(***************************************************************************)
(* The loop of main leaves with the pipeline drained and the last result   *)
(* in the registers, if the six cycles that pc_history spans had no taken  *)
(* branch and no stall but those of fetch: for every program that keeps    *)
(* register 0 zero.  (regfile.h lets it be written, and the last result    *)
(* could then be one for register 0 that has not arrived.)                 *)
(***************************************************************************)
THEOREM DrainedAtFullSpeed ==
    ASSUME \A p \in Programs : KeepsZero(p)
    PROVE  Spec => []ExitsDrainedAtFullSpeed
<1>1. Init => Drain
  BY DrainInit
<1>2. Drain /\ [Next]_vars => Drain'
  BY ShapeStep, ZeroStep, BubblesStep, DrainingStep DEF Drain
<1>3. Drain => ExitsDrainedAtFullSpeed
  BY DrainGivesExit
<1> QED
  BY <1>1, <1>2, <1>3, PTL DEF Spec

----------------------------------------------------------------------------
(* The pipeline and the single-cycle processor.                            *)

\* What decode_stage and execute_stage have put into ID/EX and EX/MEM.
Carries ==
    /\ id_ex.live => id_ex.control = Decode(id_ex.instr)
    /\ ~Passed /\ ~ex_mem.live => ~ex_mem.control.mem_write
    /\ Executed => /\ id_ex.control.mem_read <=> ex_mem.control.mem_read
                   /\ ex_mem.control.mem_read => ex_mem.write_reg = id_ex.instr.rt
    /\ Passed => /\ ~ex_mem.live
                 /\ mem_wb.control = ex_mem.control /\ mem_wb.alu_out = ex_mem.alu_out
                 /\ mem_wb.write_reg = ex_mem.write_reg

\* The snapshot of MEM/WB is what has reached the registers.
WrittenBack ==
    /\ stage # "writeback" /\ Writes(mem_wb_prev) =>
          R[mem_wb_prev.write_reg] = ResultOf(mem_wb_prev)
    /\ stage = "memory" \/ (stage # "writeback" /\ memory_stall) => mem_wb_prev = mem_wb

\* An operand in ID/EX is the register's value unless that has been written
\* since, by the one instruction that forwarding takes from the snapshot.
Behind == IF stage = "writeback" THEN mem_wb ELSE mem_wb_prev
OperandRead(r, d) ==
    r # 0 /\ d # R[r] => Writes(Behind) /\ Behind.write_reg = r /\ ~Decoded
OperandsRead ==
    /\ OperandRead(id_ex.instr.rs, id_ex.read_data_1)
    /\ OperandRead(id_ex.instr.rt, id_ex.read_data_2)

\* No instruction follows a load of an operand of its own immediately.
NoLoadUse ==
    ~Executed /\ ex_mem.control.mem_read =>
        \A r \in {id_ex.instr.rs, id_ex.instr.rt} : r # 0 => r # ex_mem.write_reg

\* What is in EX/MEM was computed from the registers as all older instructions
\* leave them.
Computed ==
    ex_mem.live =>
        LET i == Fetch(program, ex_mem.pc)
        IN /\ ex_mem.control = Decode(i) /\ ex_mem.write_reg = WriteReg(i, Decode(i))
           /\ ex_mem.alu_out = ALUResult(i, Decode(i), ArchR[i.rs], ArchR[i.rt])
           /\ ex_mem.write_data_mem = ArchR[i.rt]

\* The instructions in the latches follow each other, but for one that fetch
\* has left to be decoded again.
NextOf(e) ==
    IF e.control.branch /\ (e.control.bne <=> e.alu_out # 0)
      THEN BranchTarget(Fetch(program, e.pc), e.control, e.pc) ELSE e.pc + 1
YoungPC == IF if_id.live THEN if_id.pc ELSE pc
MiddlePC == IF id_ex.live THEN id_ex.pc ELSE YoungPC
InSequence ==
    /\ id_ex.live /\ ~Decoded => YoungPC = id_ex.pc + 1 \/ (refetched /\ YoungPC = id_ex.pc)
    /\ id_ex.live /\ Decoded => if_id.live /\ if_id.pc = id_ex.pc
    /\ Decoded /\ ~load_use_stall /\ ~id_ex.live => ~if_id.live
    /\ Decoded /\ load_use_stall => ~id_ex.live
    /\ ex_mem.live => MiddlePC = NextOf(ex_mem) \/ (refetched /\ MiddlePC = ex_mem.pc)

\* As long as no newer word of L1 was dropped, memory is what the caches present.
InMemory == caches.lost = {} => Coherent(caches)

InStep ==
    /\ Shape /\ ZeroStays /\ Bubbles
    /\ Carries /\ WrittenBack /\ OperandsRead /\ NoLoadUse /\ Computed /\ InSequence /\ InMemory

LEMMA InStepInit == Init => InStep
<1> SUFFICES ASSUME Init PROVE InStep
  OBVIOUS
<1>1. Shape /\ ZeroStays /\ Bubbles
  BY DrainInit DEF Drain
<1>2. Carries /\ NoLoadUse /\ Computed
  BY DEF Init, Carries, NoLoadUse, Computed, Executed, Passed, EmptyID_EX, EmptyEX_MEM, NoControl
<1>3. WrittenBack /\ OperandsRead
  BY DEF Init, WrittenBack, OperandsRead, OperandRead, EmptyID_EX, EmptyMEM_WB, Writes, NoControl, Nop
<1>4. InSequence
  BY DEF Init, InSequence, Decoded, EmptyID_EX, EmptyEX_MEM
<1>5. InMemory
  BY ColdIs DEF Init, InMemory
<1> QED
  BY <1>1, <1>2, <1>3, <1>4, <1>5 DEF InStep

LEMMA NopCarries ==
    ASSUME NEW control, Carried(Nop, control)
    PROVE  /\ ~control.mem_read /\ ~control.mem_write /\ ~control.branch
           /\ ~control.jump /\ ~control.jump_reg
<1>1. CASE control = NoControl
  BY <1>1 DEF NoControl
<1>2. CASE control = Decode(Nop)
  <2>1. Nop.op = "sll"
    BY DEF Nop
  <2> QED
    BY <1>2, <2>1 DEF Decode, LoadOps, StoreOps, Branches, JType
<1> QED
  BY <1>1, <1>2 DEF Carried

\* What the fields of control_t say of an opcode.
LEMMA DecodeIs ==
    ASSUME NEW i
    PROVE  LET control == Decode(i)
           IN /\ control.mem_read <=> i.op \in LoadOps
              /\ control.mem_to_reg <=> i.op \in LoadOps
              /\ control.mem_write <=> i.op \in StoreOps
              /\ control.byte <=> i.op \in {"lbu", "sb"}
              /\ control.branch <=> i.op \in Branches
              /\ control.bne <=> i.op = "bne"
              /\ control.jump <=> i.op \in JType \cup {"jr"}
              /\ control.jump_reg <=> i.op = "jr"
              /\ control.link <=> i.op = "jal"
              /\ control.mem_read => ~control.branch /\ ~control.jump /\ ~control.jump_reg
<1>1. /\ Decode(i).mem_read <=> i.op \in LoadOps
      /\ Decode(i).mem_to_reg <=> i.op \in LoadOps
      /\ Decode(i).mem_write <=> i.op \in StoreOps
      /\ Decode(i).byte <=> i.op \in {"lbu", "sb"}
      /\ Decode(i).branch <=> i.op \in Branches
      /\ Decode(i).bne <=> i.op = "bne"
      /\ Decode(i).jump <=> i.op \in JType \cup {"jr"}
      /\ Decode(i).jump_reg <=> i.op = "jr"
      /\ Decode(i).link <=> i.op = "jal"
  BY DEF Decode
<1>2. i.op \in LoadOps => i.op \notin Branches \cup JType \cup {"jr"}
  BY DEF LoadOps, Branches, JType
<1> QED
  BY <1>1, <1>2

\* The fields of what execute_stage passes on, and of ID/EX after it.
LEMMA ToEX_MEMIs ==
    /\ ToEX_MEM.pc = id_ex.pc /\ ToEX_MEM.control = id_ex.control /\ ToEX_MEM.alu_out = Result
    /\ ToEX_MEM.write_data_mem = ReadData2 /\ (ToEX_MEM.live <=> id_ex.live)
    /\ ToEX_MEM.write_reg = WriteReg(id_ex.instr, id_ex.control)
BY DEF ToEX_MEM

LEMMA CarriesStep ==
    ASSUME Shape, Bubbles, Carries, [Next]_vars
    PROVE  Carries'
<1>1. /\ ex_mem \in ExecuteLatch /\ id_ex \in DecodeLatch /\ memory_stall \in BOOLEAN
      /\ Carried(id_ex.instr, id_ex.control)
  BY DEF Shape, Types, IdCarries
<1>2. CASE WritebackStage
  <2>1. stage = "writeback" /\ stage' = "memory" /\ UNCHANGED <<mem_wb, ex_mem, id_ex>>
    BY <1>2 DEF WritebackStage
  <2> QED
    BY <2>1 DEF Carries, Executed, Passed
<1>3. CASE MemoryStage
  <2>1. MemoryEffect /\ stage = "memory" /\ stage' = "execute" /\ UNCHANGED id_ex
    BY <1>3, MemoryStageIs DEF Shape, MemoryStage
  <2>2. CASE memory_stall' = TRUE /\ ex_mem' = ex_mem /\ mem_wb' = mem_wb
    BY <2>1, <2>2 DEF Carries, Executed, Passed
  <2>3. ASSUME memory_stall' = FALSE, ex_mem' = [ex_mem EXCEPT !.live = FALSE],
               NEW v \in Word, mem_wb' = PassedOn(v)
        PROVE  Carries'
    <3>1. /\ ex_mem'.control = ex_mem.control /\ ex_mem'.alu_out = ex_mem.alu_out
          /\ ex_mem'.write_reg = ex_mem.write_reg /\ ex_mem'.live = FALSE
      BY <1>1, <2>3, SameLatch
    <3>2. /\ mem_wb'.control = ex_mem.control /\ mem_wb'.alu_out = ex_mem.alu_out
          /\ mem_wb'.write_reg = ex_mem.write_reg
      BY <2>3 DEF PassedOn
    <3> QED
      BY <2>1, <2>3, <3>1, <3>2 DEF Carries, Executed, Passed
  <2> QED
    BY <2>1, <2>2, <2>3 DEF MemoryEffect
<1>4. CASE ExecuteStage
  <2>1. stage = "execute" /\ stage' = "decode" /\ UNCHANGED <<mem_wb, memory_stall>>
    BY <1>4 DEF ExecuteStage, stalls
  <2>2. CASE memory_stall /\ UNCHANGED <<id_ex, ex_mem>>
    BY <2>1, <2>2 DEF Carries, Executed, Passed
  <2>3. ASSUME ~memory_stall, ex_mem' = ToEX_MEM, id_ex'.live = FALSE,
               id_ex'.control.mem_read <=> id_ex.control.mem_read,
               id_ex.control.mem_read => id_ex'.instr = id_ex.instr
        PROVE  Carries'
    <3>1. ~id_ex.live => ~ToEX_MEM.control.mem_write
      <4>1. ~id_ex.live => id_ex.instr = Nop
        BY <2>1 DEF Bubbles, Executed
      <4> QED
        BY <1>1, <4>1, NopCarries, ToEX_MEMIs
    <3>2. id_ex.control.mem_read => ToEX_MEM.write_reg = id_ex.instr.rt
      <4>1. id_ex.control.mem_read => id_ex.control = Decode(id_ex.instr)
        BY <1>1 DEF Carried, NoControl
      <4>2. Decode(id_ex.instr).mem_read => ~Decode(id_ex.instr).reg_dest
        BY DEF Decode, LoadOps, RType, Shifts
      <4> QED
        BY <4>1, <4>2, ToEX_MEMIs DEF WriteReg
    <3> QED
      BY <2>1, <2>3, <3>1, <3>2, ToEX_MEMIs DEF Carries, Executed, Passed
  <2>4. CASE ~memory_stall /\ ex_mem' = ToEX_MEM /\ Redirects /\ id_ex' = EmptyID_EX
    <3>1. ~id_ex.control.mem_read
      <4>1. id_ex.control.branch \/ id_ex.control.jump \/ id_ex.control.jump_reg
        BY <2>4 DEF Redirects, Taken
      <4>2. id_ex.control = Decode(id_ex.instr)
        BY <1>1, <4>1 DEF Carried, NoControl
      <4> QED
        BY <4>1, <4>2, DecodeIs
    <3>2. id_ex'.live = FALSE /\ ~id_ex'.control.mem_read
      BY <2>4 DEF EmptyID_EX, NoControl
    <3> QED
      BY <2>3, <2>4, <3>1, <3>2
  <2>5. CASE ~memory_stall /\ ex_mem' = ToEX_MEM /\ id_ex' = [id_ex EXCEPT !.live = FALSE]
    <3>1. id_ex'.live = FALSE /\ id_ex'.control = id_ex.control /\ id_ex'.instr = id_ex.instr
      BY <1>1, <2>5, SameLatch
    <3> QED
      BY <2>3, <2>5, <3>1
  <2> QED
    BY <1>4, <2>2, <2>4, <2>5, ExecuteStageIs
<1>5. CASE DecodeStage
  <2>1. stage = "decode" /\ stage' = "fetch" /\ UNCHANGED <<mem_wb, ex_mem, memory_stall>>
    BY <1>5 DEF DecodeStage
  <2>2. id_ex' = id_ex \/ id_ex' = EmptyID_EX \/ id_ex'.control = Decode(id_ex'.instr)
    BY <1>5 DEF DecodeStage
  <2>3. EmptyID_EX.live = FALSE
    BY DEF EmptyID_EX
  <2> QED
    BY <2>1, <2>2, <2>3 DEF Carries, Executed, Passed
<1>6. CASE FetchStage
  <2>1. stage = "fetch" /\ stage' = "writeback" /\ UNCHANGED <<mem_wb, ex_mem, id_ex>>
    BY <1>6 DEF FetchStage
  <2> QED
    BY <2>1 DEF Carries, Executed, Passed
<1>7. CASE UNCHANGED vars
  BY <1>7 DEF vars, latches, stalls, Carries, Executed, Passed
<1> QED
  BY <1>2, <1>3, <1>4, <1>5, <1>6, <1>7 DEF Next, Halted

LEMMA WrittenBackStep ==
    ASSUME Shape, WrittenBack, [Next]_vars
    PROVE  WrittenBack'
<1>1. /\ mem_wb \in MemoryLatch /\ R \in [Reg -> Word] /\ memory_stall \in BOOLEAN
  BY DEF Shape, Types
<1>2. CASE WritebackStage
  <2>1. stage' = "memory" /\ mem_wb_prev' = mem_wb /\ mem_wb' = mem_wb
    BY <1>2 DEF WritebackStage
  <2>2. Writes(mem_wb) => R'[mem_wb.write_reg] = ResultOf(mem_wb)
    BY <1>1, <1>2 DEF WritebackStage, MemoryLatch
  <2> QED
    BY <2>1, <2>2 DEF WrittenBack, Writes, ResultOf
<1>3. CASE MemoryStage
  <2>1. MemoryEffect /\ stage = "memory" /\ stage' = "execute" /\ UNCHANGED <<R, mem_wb_prev>>
    BY <1>3, MemoryStageIs DEF Shape, MemoryStage
  <2>2. memory_stall' => mem_wb' = mem_wb
    BY <2>1 DEF MemoryEffect
  <2> QED
    BY <2>1, <2>2 DEF WrittenBack, Writes, ResultOf
<1>4. CASE ExecuteStage \/ DecodeStage
  <2>1. stage # "writeback" /\ stage' \notin {"writeback", "memory"}
        /\ UNCHANGED <<R, mem_wb, mem_wb_prev, memory_stall>>
    BY <1>4 DEF ExecuteStage, DecodeStage, stalls
  <2> QED
    BY <2>1 DEF WrittenBack, Writes, ResultOf
<1>5. CASE FetchStage
  BY <1>5 DEF FetchStage, WrittenBack
<1>6. CASE UNCHANGED vars
  BY <1>6 DEF vars, latches, stalls, WrittenBack, Writes, ResultOf
<1> QED
  BY <1>2, <1>3, <1>4, <1>5, <1>6 DEF Next, Halted

LEMMA OperandsStep ==
    ASSUME Shape, WrittenBack, OperandsRead, [Next]_vars
    PROVE  OperandsRead'
<1>1. /\ mem_wb \in MemoryLatch /\ R \in [Reg -> Word] /\ memory_stall \in BOOLEAN
      /\ id_ex \in DecodeLatch /\ if_id \in FetchLatch
      /\ Nop.rs = 0 /\ Nop.rt = 0
  BY DEF Shape, Types, Nop
<1>2. CASE WritebackStage
  <2>1. stage = "writeback" /\ stage' = "memory" /\ mem_wb_prev' = mem_wb /\ id_ex' = id_ex
    BY <1>2 DEF WritebackStage
  <2>2. ASSUME NEW r \in Reg PROVE R'[r] = R[r] \/ (Writes(mem_wb) /\ mem_wb.write_reg = r)
    BY <1>1, <1>2 DEF WritebackStage
  <2>3. Behind = mem_wb /\ ~Decoded /\ ~Decoded' /\ Behind' = mem_wb
    BY <2>1 DEF Behind, Decoded
  <2>4. id_ex.instr.rs \in Reg /\ id_ex.instr.rt \in Reg
    BY <1>1 DEF DecodeLatch, Instruction
  <2>5. (Writes(Behind))' <=> Writes(mem_wb)
    BY <2>3 DEF Writes
  <2> QED
    BY <2>1, <2>2, <2>3, <2>4, <2>5 DEF OperandsRead, OperandRead
<1>3. CASE MemoryStage
  <2>1. stage = "memory" /\ stage' = "execute" /\ UNCHANGED <<R, id_ex, mem_wb_prev>>
    BY <1>3 DEF MemoryStage
  <2> QED
    BY <2>1 DEF OperandsRead, OperandRead, Behind, Writes, Decoded
<1>4. CASE ExecuteStage
  <2>1. stage = "execute" /\ stage' = "decode" /\ UNCHANGED <<R, mem_wb_prev>>
    BY <1>4 DEF ExecuteStage
  <2>2. CASE id_ex' = EmptyID_EX
    BY <1>1, <2>2 DEF OperandsRead, OperandRead, EmptyID_EX
  <2>3. CASE id_ex' = id_ex
    BY <2>1, <2>3 DEF OperandsRead, OperandRead, Behind, Writes, Decoded
  <2>4. CASE id_ex' = [id_ex EXCEPT !.live = FALSE]
    <3>1. id_ex'.instr = id_ex.instr /\ id_ex'.read_data_1 = id_ex.read_data_1
          /\ id_ex'.read_data_2 = id_ex.read_data_2
      BY <1>1, <2>4, SameLatch
    <3> QED
      BY <2>1, <3>1 DEF OperandsRead, OperandRead, Behind, Writes, Decoded
  <2> QED
    BY <1>4, <2>2, <2>3, <2>4, ExecuteStageIs
<1>5. CASE DecodeStage
  <2>1. stage = "decode" /\ stage' = "fetch" /\ UNCHANGED <<R, mem_wb_prev, memory_stall>>
    BY <1>5 DEF DecodeStage
  <2>2. CASE memory_stall /\ id_ex' = id_ex
    BY <2>1, <2>2 DEF OperandsRead, OperandRead, Behind, Writes, Decoded
  <2>3. CASE id_ex' = EmptyID_EX
    BY <1>1, <2>3 DEF OperandsRead, OperandRead, EmptyID_EX
  <2>4. CASE id_ex' = [pc |-> if_id.pc, instr |-> if_id.instr, control |-> Decode(if_id.instr),
                       read_data_1 |-> R[if_id.instr.rs], read_data_2 |-> R[if_id.instr.rt],
                       live |-> if_id.live]
    BY <2>1, <2>4 DEF OperandsRead, OperandRead
  <2> QED
    BY <1>5, <2>2, <2>3, <2>4 DEF DecodeStage
<1>6. CASE FetchStage
  <2>1. /\ stage = "fetch" /\ stage' = "writeback"
        /\ UNCHANGED <<R, id_ex, mem_wb, mem_wb_prev, memory_stall>>
    BY <1>6 DEF FetchStage, stalls
  <2>2. CASE Decoded
    BY <2>1, <2>2 DEF OperandsRead, OperandRead
  <2>3. CASE ~Decoded
    <3>1. mem_wb_prev = mem_wb
      BY <1>1, <2>1, <2>3 DEF Decoded, WrittenBack
    <3>2. Behind' = Behind /\ ~Decoded'
      BY <2>1, <3>1 DEF Behind, Decoded
    <3> QED
      BY <2>1, <2>3, <3>2 DEF OperandsRead, OperandRead, Writes
  <2> QED
    BY <2>2, <2>3
<1>7. CASE UNCHANGED vars
  BY <1>7 DEF vars, latches, stalls, OperandsRead, OperandRead, Behind, Writes, Decoded
<1> QED
  BY <1>2, <1>3, <1>4, <1>5, <1>6, <1>7 DEF Next, Halted

LEMMA NoLoadUseStep ==
    ASSUME Shape, Carries, NoLoadUse, [Next]_vars
    PROVE  NoLoadUse'
<1>1. /\ ex_mem \in ExecuteLatch /\ id_ex \in DecodeLatch /\ memory_stall \in BOOLEAN
      /\ Nop.rs = 0 /\ Nop.rt = 0
  BY DEF Shape, Types, Nop
<1>2. CASE WritebackStage
  BY <1>2 DEF WritebackStage, NoLoadUse, Executed
<1>3. CASE MemoryStage
  <2>1. MemoryEffect /\ stage = "memory" /\ stage' = "execute" /\ UNCHANGED id_ex
    BY <1>3, MemoryStageIs DEF Shape, MemoryStage
  <2>2. ex_mem'.control = ex_mem.control /\ ex_mem'.write_reg = ex_mem.write_reg
    BY <1>1, <2>1, SameLatch DEF MemoryEffect
  <2> QED
    BY <2>1, <2>2 DEF NoLoadUse, Executed
<1>4. CASE ExecuteStage
  <2>1. stage = "execute" /\ stage' = "decode" /\ UNCHANGED memory_stall
    BY <1>4 DEF ExecuteStage, stalls
  <2>2. CASE memory_stall
    <3>1. UNCHANGED <<id_ex, ex_mem>>
      BY <1>4, <2>2 DEF ExecuteStage
    <3> QED
      BY <2>1, <3>1 DEF NoLoadUse, Executed
  <2>3. CASE ~memory_stall
    BY <2>1, <2>3 DEF NoLoadUse, Executed
  <2> QED
    BY <2>2, <2>3
<1>5. CASE DecodeStage
  <2>1. stage = "decode" /\ stage' = "fetch" /\ UNCHANGED <<ex_mem, memory_stall>>
    BY <1>5 DEF DecodeStage
  <2>2. CASE memory_stall
    <3>1. UNCHANGED <<id_ex, ex_mem>>
      BY <1>5, <2>2 DEF DecodeStage
    <3> QED
      BY <2>1, <2>2, <3>1 DEF NoLoadUse, Executed
  <2>3. CASE ~memory_stall /\ LoadUse
    <3>1. id_ex' = EmptyID_EX
      BY <1>5, <2>3 DEF DecodeStage
    <3>2. id_ex'.instr = Nop
      BY <3>1 DEF EmptyID_EX
    <3> QED
      BY <1>1, <3>2 DEF NoLoadUse
  <2>4. CASE ~memory_stall /\ ~LoadUse
    <3>1. id_ex'.instr = if_id.instr
      BY <1>5, <2>4 DEF DecodeStage
    <3>2. ex_mem.control.mem_read => ex_mem.write_reg \notin {if_id.instr.rs, if_id.instr.rt}
      BY <2>1, <2>4 DEF Carries, Executed, LoadUse
    <3> QED
      BY <2>1, <3>1, <3>2 DEF NoLoadUse
  <2> QED
    BY <2>2, <2>3, <2>4
<1>6. CASE FetchStage
  BY <1>6 DEF FetchStage, NoLoadUse, Executed
<1>7. CASE UNCHANGED vars
  BY <1>7 DEF vars, latches, stalls, NoLoadUse, Executed
<1> QED
  BY <1>2, <1>3, <1>4, <1>5, <1>6, <1>7 DEF Next, Halted

\* What the programmer sees of the registers changes in memory_stage only.
LEMMA ArchRKept ==
    ASSUME Shape, Next \/ UNCHANGED vars, ~MemoryStage
    PROVE  ArchR' = ArchR
<1>1. mem_wb \in MemoryLatch /\ R \in [Reg -> Word]
  BY DEF Shape, Types
<1>2. CASE WritebackStage
  <2>1. R' = ArchR /\ mem_wb' = mem_wb
    BY <1>2 DEF WritebackStage, ArchR
  <2>2. CASE ~Writes(mem_wb)
    BY <2>1, <2>2 DEF ArchR, Writes
  <2>3. CASE Writes(mem_wb)
    <3>1. R' = [R EXCEPT ![mem_wb.write_reg] = ResultOf(mem_wb)]
      BY <2>1, <2>3 DEF ArchR
    <3>2. ArchR' = [R' EXCEPT ![mem_wb.write_reg] = ResultOf(mem_wb)]
      BY <2>1, <2>3 DEF ArchR, Writes, ResultOf
    <3> QED
      BY <1>1, <2>1, <3>1, <3>2
  <2> QED
    BY <2>2, <2>3
<1>3. CASE UNCHANGED <<R, mem_wb>>
  BY <1>3 DEF ArchR, Writes, ResultOf
<1> QED
  BY <1>2, <1>3 DEF Next, Halted, ExecuteStage, DecodeStage, FetchStage, vars, latches

\* execute_stage gets its operands: forwarding hides that older instructions
\* have not reached the registers.
LEMMA OperandIs ==
    ASSUME Shape, ZeroStays, Carries, WrittenBack, NoLoadUse, stage = "execute", ~memory_stall,
           NEW r \in {id_ex.instr.rs, id_ex.instr.rt}, NEW d, OperandRead(r, d), r = 0 => d = 0
    PROVE  Forwarded(r, d) = ArchR[r]
<1>1. /\ mem_wb \in MemoryLatch /\ mem_wb_prev \in MemoryLatch /\ ex_mem \in ExecuteLatch
      /\ R \in [Reg -> Word] /\ r \in Reg /\ 0 \in Reg
  BY WordLimits DEF Shape, Types, DecodeLatch, Instruction
<1>2. /\ mem_wb.control = ex_mem.control /\ mem_wb.alu_out = ex_mem.alu_out
      /\ mem_wb.write_reg = ex_mem.write_reg
  BY DEF Carries, Passed
<1>3. mem_wb.write_reg \in Reg /\ mem_wb_prev.write_reg \in Reg
  BY <1>1 DEF MemoryLatch
<1>4. CASE r = 0
  <2>1. Forwarded(r, d) = 0
    BY <1>4 DEF Forwarded
  <2>2. ArchR[0] = 0
    <3>1. CASE Writes(mem_wb) /\ mem_wb.write_reg = 0
      BY <1>1, <3>1 DEF ArchR, ZeroStays, WritesZero
    <3>2. CASE ~(Writes(mem_wb) /\ mem_wb.write_reg = 0)
      BY <1>1, <1>3, <3>2 DEF ArchR, ZeroStays
    <3> QED
      BY <3>1, <3>2
  <2> QED
    BY <1>4, <2>1, <2>2
<1>5. CASE r # 0 /\ Writes(ex_mem) /\ ex_mem.write_reg = r
  <2>1. Forwarded(r, d) = ex_mem.alu_out
    BY <1>5 DEF Forwarded
  <2>2. ~ex_mem.control.mem_read
    BY <1>5 DEF NoLoadUse, Executed
  <2>3. Writes(mem_wb) /\ mem_wb.write_reg = r /\ ResultOf(mem_wb) = ex_mem.alu_out
    BY <1>2, <1>5, <2>2 DEF Writes, ResultOf
  <2>4. ArchR = [R EXCEPT ![r] = ex_mem.alu_out]
    BY <2>3 DEF ArchR
  <2> QED
    BY <1>1, <2>1, <2>4
<1>6. CASE r # 0 /\ ~(Writes(ex_mem) /\ ex_mem.write_reg = r)
  <2>1. ArchR[r] = R[r]
    <3>1. ~(Writes(mem_wb) /\ mem_wb.write_reg = r)
      BY <1>2, <1>6 DEF Writes
    <3> QED
      BY <1>1, <1>3, <3>1 DEF ArchR
  <2>2. Writes(mem_wb_prev) /\ mem_wb_prev.write_reg = r => ResultOf(mem_wb_prev) = R[r]
    BY DEF WrittenBack
  <2>3. ~(Writes(mem_wb_prev) /\ mem_wb_prev.write_reg = r) => d = R[r]
    BY <1>6 DEF OperandRead, Behind
  <2> QED
    BY <1>6, <2>1, <2>2, <2>3 DEF Forwarded
<1> QED
  BY <1>4, <1>5, <1>6

LEMMA ComputedStep ==
    ASSUME Shape, ZeroStays, Bubbles, Carries, WrittenBack, OperandsRead, NoLoadUse, Computed,
           [Next]_vars
    PROVE  Computed'
<1>1. /\ ex_mem \in ExecuteLatch /\ memory_stall \in BOOLEAN
  BY DEF Shape, Types
<1>2. CASE UNCHANGED <<program, ex_mem, ArchR>>
  BY <1>2 DEF Computed
<1>3. CASE WritebackStage \/ DecodeStage \/ FetchStage \/ UNCHANGED vars
  <2>1. UNCHANGED <<program, ex_mem>>
    BY <1>3 DEF WritebackStage, DecodeStage, FetchStage, vars, latches
  <2>2. ~MemoryStage
    BY <1>3 DEF WritebackStage, DecodeStage, FetchStage, MemoryStage, vars
  <2> QED
    BY <1>2, <2>1, <2>2, ArchRKept
<1>4. CASE MemoryStage
  <2>1. MemoryEffect /\ program' = program /\ R' = R
    BY <1>4, MemoryStageIs DEF Shape, MemoryStage
  <2>2. CASE ex_mem' = ex_mem /\ mem_wb' = mem_wb
    <3>1. ArchR' = ArchR
      BY <2>1, <2>2 DEF ArchR, Writes, ResultOf
    <3> QED
      BY <1>2, <2>1, <2>2, <3>1
  <2>3. CASE ex_mem' = [ex_mem EXCEPT !.live = FALSE]
    <3>1. ex_mem'.live = FALSE
      BY <1>1, <2>3, SameLatch
    <3> QED
      BY <3>1 DEF Computed
  <2> QED
    BY <2>1, <2>2, <2>3 DEF MemoryEffect
<1>5. CASE ExecuteStage
  <2>1. stage = "execute" /\ program' = program /\ ~MemoryStage
    BY <1>5 DEF ExecuteStage, MemoryStage
  <2>2. ArchR' = ArchR
    BY <1>5, <2>1, ArchRKept DEF Next
  <2>3. CASE ex_mem' = ex_mem
    BY <1>2, <2>1, <2>2, <2>3
  <2>4. ASSUME ~memory_stall, ex_mem' = ToEX_MEM, id_ex.live
        PROVE  Computed'
    <3>1. id_ex.instr = Fetch(program, id_ex.pc) /\ id_ex.control = Decode(id_ex.instr)
      BY <2>4 DEF Bubbles, Carries
    <3>2. ReadData1 = ArchR[id_ex.instr.rs] /\ ReadData2 = ArchR[id_ex.instr.rt]
      <4>1. OperandRead(id_ex.instr.rs, id_ex.read_data_1)
            /\ OperandRead(id_ex.instr.rt, id_ex.read_data_2)
        BY DEF OperandsRead
      <4>2. (id_ex.instr.rs = 0 => id_ex.read_data_1 = 0)
            /\ (id_ex.instr.rt = 0 => id_ex.read_data_2 = 0)
        BY DEF ZeroStays
      <4> QED
        BY <2>1, <2>4, <4>1, <4>2, OperandIs DEF ReadData1, ReadData2
    <3>3. ToEX_MEM.alu_out = ALUResult(id_ex.instr, Decode(id_ex.instr), ArchR[id_ex.instr.rs],
                                       ArchR[id_ex.instr.rt])
      BY <3>1, <3>2, ToEX_MEMIs DEF Result
    <3> QED
      BY <2>1, <2>2, <2>4, <3>1, <3>2, <3>3, ToEX_MEMIs DEF Computed
  <2>5. CASE ex_mem' = ToEX_MEM /\ ~id_ex.live
    BY <2>5, ToEX_MEMIs DEF Computed
  <2> QED
    BY <1>5, <2>3, <2>4, <2>5, ExecuteStageIs
<1> QED
  BY <1>3, <1>4, <1>5 DEF Next, Halted

OldestIs == OldestPC = IF ex_mem.live THEN ex_mem.pc ELSE MiddlePC
LEMMA OldestNow == OldestIs /\ OldestIs'
<1>1. OldestIs
  <2>1. CASE ex_mem.live
    BY <2>1 DEF OldestPC, OldestIs
  <2>2. CASE ~ex_mem.live /\ id_ex.live
    BY <2>2 DEF OldestPC, OldestIs, MiddlePC
  <2>3. CASE ~ex_mem.live /\ ~id_ex.live /\ if_id.live
    BY <2>3 DEF OldestPC, OldestIs, MiddlePC, YoungPC
  <2>4. CASE ~ex_mem.live /\ ~id_ex.live /\ ~if_id.live
    <3>1. OldestPC = pc
      BY <2>4 DEF OldestPC
    <3> QED
      BY <2>4, <3>1 DEF OldestIs, MiddlePC, YoungPC
  <2> QED
    BY <2>1, <2>2, <2>3, <2>4
<1> QED
  BY <1>1, PTL

\* The stages but memory_stage move instructions from latch to latch, and what
\* the programmer takes for the pc stays where it is.
LEMMA SequenceStep ==
    ASSUME Shape, Bubbles, Carries, InSequence, \A p \in Programs : Plain(p), [Next]_vars
    PROVE  InSequence' /\ (~MemoryStage => OldestPC' = OldestPC)
<1>1. /\ ex_mem \in ExecuteLatch /\ id_ex \in DecodeLatch /\ if_id \in FetchLatch
      /\ memory_stall \in BOOLEAN /\ load_use_stall \in BOOLEAN /\ program \in Programs
      /\ id_ex.live \in BOOLEAN /\ if_id.live \in BOOLEAN
  BY DEF Shape, Types, DecodeLatch, FetchLatch
<1>2. CASE WritebackStage
  <2>1. stage = "writeback" /\ stage' = "memory"
        /\ UNCHANGED <<program, pc, if_id, id_ex, ex_mem, refetched>>
    BY <1>2 DEF WritebackStage, history
  <2> QED
    BY <2>1 DEF InSequence, Decoded, YoungPC, MiddlePC, NextOf, OldestPC
<1>3. CASE MemoryStage
  <2>1. MemoryEffect /\ stage = "memory" /\ stage' = "execute"
        /\ UNCHANGED <<program, pc, if_id, id_ex, refetched>>
    BY <1>3, MemoryStageIs DEF Shape, MemoryStage, history
  <2>2. ex_mem' = ex_mem \/ ex_mem'.live = FALSE
    BY <1>1, <2>1, SameLatch DEF MemoryEffect
  <2> QED
    BY <1>3, <2>1, <2>2 DEF InSequence, Decoded, YoungPC, MiddlePC, NextOf
<1>4. CASE ExecuteStage
  <2>1. stage = "execute" /\ stage' = "decode" /\ UNCHANGED <<program, memory_stall, refetched>>
    BY <1>4 DEF ExecuteStage, stalls
  <2>2. CASE memory_stall /\ UNCHANGED <<pc, if_id, id_ex, ex_mem>>
    BY <2>1, <2>2 DEF InSequence, Decoded, YoungPC, MiddlePC, NextOf, OldestPC
  <2>3. CASE /\ ~memory_stall /\ ex_mem' = ToEX_MEM /\ ~Redirects
             /\ id_ex' = [id_ex EXCEPT !.live = FALSE] /\ UNCHANGED <<pc, if_id>>
    <3>1. id_ex'.live = FALSE /\ ~ex_mem.live
      BY <1>1, <2>1, <2>3, SameLatch DEF Carries, Passed
    <3>2. YoungPC' = YoungPC /\ MiddlePC' = YoungPC
      BY <2>3, <3>1 DEF YoungPC, MiddlePC
    <3>3. NextOf(ToEX_MEM) = id_ex.pc + 1
      BY <2>3, ToEX_MEMIs DEF NextOf, Redirects, Taken
    <3>4. (NextOf(ex_mem))' = NextOf(ToEX_MEM)
      BY <2>1, <2>3 DEF NextOf
    <3>5. InSequence'
      BY <2>1, <2>3, <3>1, <3>2, <3>3, <3>4, ToEX_MEMIs DEF InSequence, Decoded
    <3>6. OldestPC = MiddlePC /\ OldestPC' = IF ToEX_MEM.live THEN ToEX_MEM.pc ELSE YoungPC
      BY <2>3, <3>1, <3>2, OldestNow DEF OldestIs
    <3> QED
      BY <3>5, <3>6, ToEX_MEMIs DEF MiddlePC
  <2>4. CASE /\ ~memory_stall /\ ex_mem' = ToEX_MEM /\ Redirects
             /\ pc' = Target(id_ex.control, id_ex.instr, id_ex.pc, Taken, ReadData1)
             /\ id_ex.instr = Fetch(program, id_ex.pc) /\ id_ex.control = Decode(id_ex.instr)
             /\ if_id' = EmptyIF_ID /\ id_ex' = EmptyID_EX
    <3>1. id_ex'.live = FALSE /\ if_id'.live = FALSE /\ ~ex_mem.live
      BY <2>1, <2>4 DEF Carries, Passed, EmptyID_EX, EmptyIF_ID
    <3>2. YoungPC' = pc' /\ MiddlePC' = pc'
      BY <2>4, <3>1 DEF YoungPC, MiddlePC
    <3>3. id_ex.instr # Nop
      BY <1>1, <2>4, NopCarries DEF Redirects, Taken, Shape, IdCarries
    <3>4. id_ex.live
      BY <2>1, <3>3 DEF Bubbles, Executed
    <3>5. Taken
      <4>1. id_ex.pc \in Nat
        BY <1>1 DEF DecodeLatch
      <4>2. id_ex.pc + 1 \in DOMAIN program /\ id_ex.instr = program[id_ex.pc + 1]
        BY <1>1, <2>4, <3>3, <4>1, FetchIs
      <4>3. id_ex.instr.op \notin JType \cup {"jr"}
        BY <1>1, <4>2 DEF Plain
      <4> QED
        BY <2>4, <4>3, DecodeIs DEF Redirects
    <3>6. pc' = BranchTarget(id_ex.instr, id_ex.control, id_ex.pc)
      BY <2>4, <3>5 DEF Target
    <3>7. NextOf(ToEX_MEM) = BranchTarget(id_ex.instr, id_ex.control, id_ex.pc)
      BY <2>4, <3>5, ToEX_MEMIs DEF NextOf, Taken
    <3>8. (NextOf(ex_mem))' = NextOf(ToEX_MEM)
      BY <2>1, <2>4 DEF NextOf
    <3>9. InSequence'
      BY <2>1, <3>1, <3>2, <3>6, <3>7, <3>8 DEF InSequence, Decoded
    <3>10. OldestPC = id_ex.pc /\ OldestPC' = ToEX_MEM.pc
      BY <2>4, <3>1, <3>4, OldestNow, ToEX_MEMIs DEF OldestIs, MiddlePC
    <3> QED
      BY <3>9, <3>10, ToEX_MEMIs
  <2> QED
    BY <1>4, <2>2, <2>3, <2>4, ExecuteStageIs
<1>5. CASE DecodeStage
  <2>1. stage = "decode" /\ stage' = "fetch"
        /\ UNCHANGED <<program, pc, if_id, ex_mem, memory_stall, refetched>>
    BY <1>5 DEF DecodeStage, history
  <2>2. CASE memory_stall /\ UNCHANGED <<id_ex, load_use_stall>>
    BY <2>1, <2>2 DEF InSequence, Decoded, YoungPC, MiddlePC, NextOf, OldestPC
  <2>3. ASSUME ~memory_stall,
               \/ load_use_stall' /\ id_ex'.live = FALSE
               \/ /\ ~load_use_stall' /\ id_ex'.pc = if_id.pc
                  /\ id_ex'.live <=> if_id.live
        PROVE  InSequence' /\ OldestPC' = OldestPC
    <3>1. ~id_ex.live /\ MiddlePC = YoungPC
      BY <2>1, <2>3 DEF Bubbles, Executed, MiddlePC
    <3>2. YoungPC' = YoungPC /\ (NextOf(ex_mem))' = NextOf(ex_mem)
      BY <2>1 DEF YoungPC, NextOf
    <3>3. MiddlePC' = YoungPC
      BY <2>1, <2>3, <3>2 DEF MiddlePC, YoungPC
    <3>4. Decoded'
      BY <2>1, <2>3 DEF Decoded
    <3>5. InSequence'
      BY <2>1, <2>3, <3>1, <3>2, <3>3, <3>4 DEF InSequence
    <3>6. OldestPC' = OldestPC
      BY <2>1, <3>1, <3>3, OldestNow DEF OldestIs
    <3> QED
      BY <3>5, <3>6
  <2>4. CASE ~memory_stall /\ LoadUse
    <3>1. load_use_stall' /\ id_ex' = EmptyID_EX
      BY <1>5, <2>4 DEF DecodeStage
    <3> QED
      BY <2>3, <2>4, <3>1 DEF EmptyID_EX
  <2>5. CASE ~memory_stall /\ ~LoadUse
    <3>1. ~load_use_stall' /\ id_ex'.pc = if_id.pc /\ (id_ex'.live <=> if_id.live)
      BY <1>5, <2>5 DEF DecodeStage
    <3> QED
      BY <2>3, <2>5, <3>1
  <2> QED
    BY <1>5, <2>2, <2>4, <2>5 DEF DecodeStage
<1>6. CASE FetchStage
  <2>1. /\ stage = "fetch" /\ stage' = "writeback"
        /\ UNCHANGED <<program, id_ex, ex_mem, memory_stall, load_use_stall>>
    BY <1>6 DEF FetchStage, stalls
  <2>2. FetchEffect
    BY <1>6, FetchStageIs
  <2>3. (NextOf(ex_mem))' = NextOf(ex_mem) /\ ~Decoded'
    BY <2>1 DEF NextOf, Decoded
  <2>4. CASE (load_use_stall \/ memory_stall) /\ UNCHANGED <<pc, if_id, refetched>>
    <3>1. YoungPC' = YoungPC /\ MiddlePC' = MiddlePC
      BY <2>1, <2>4 DEF YoungPC, MiddlePC
    <3>2. InSequence'
      BY <1>1, <2>1, <2>3, <2>4, <3>1 DEF InSequence, Decoded
    <3> QED
      BY <2>1, <3>1, <3>2, OldestNow DEF OldestIs
  <2>5. ASSUME ~(load_use_stall \/ memory_stall), refetched => refetched',
               \/ YoungPC' = pc
               \/ UNCHANGED <<pc, if_id>> /\ (if_id.live => refetched')
        PROVE  InSequence' /\ OldestPC' = OldestPC
    <3>1. Decoded /\ ~load_use_stall
      BY <2>1, <2>5 DEF Decoded
    <3>2. CASE id_ex.live
      <4>1. if_id.live /\ if_id.pc = id_ex.pc
        BY <3>1, <3>2 DEF InSequence
      <4>2. pc = id_ex.pc + 1
        BY <4>1 DEF Shape, IfHolds
      <4>3. MiddlePC' = MiddlePC /\ MiddlePC = id_ex.pc
        BY <2>1, <3>2 DEF MiddlePC
      <4>4. YoungPC' = id_ex.pc + 1 \/ (refetched' /\ YoungPC' = id_ex.pc)
        BY <2>5, <4>1, <4>2 DEF YoungPC
      <4>5. InSequence'
        BY <2>1, <2>3, <2>5, <4>3, <4>4 DEF InSequence
      <4> QED
        BY <2>1, <4>3, <4>5, OldestNow DEF OldestIs
    <3>3. CASE ~id_ex.live
      <4>1. ~if_id.live
        BY <3>1, <3>3 DEF InSequence
      <4>2. MiddlePC = pc /\ MiddlePC' = pc
        BY <2>1, <2>5, <3>3, <4>1 DEF MiddlePC, YoungPC
      <4>3. InSequence'
        BY <2>1, <2>3, <2>5, <3>3, <4>2 DEF InSequence
      <4> QED
        BY <2>1, <4>2, <4>3, OldestNow DEF OldestIs
    <3> QED
      BY <3>2, <3>3
  <2>6. CASE /\ ~(load_use_stall \/ memory_stall) /\ refetched' = refetched
             /\ if_id' = [pc |-> pc, instr |-> Fetch(program, pc), live |-> TRUE]
    <3>1. YoungPC' = pc
      BY <2>6 DEF YoungPC
    <3> QED
      BY <2>5, <2>6, <3>1
  <2> QED
    BY <2>2, <2>4, <2>5, <2>6 DEF FetchEffect
<1>7. CASE UNCHANGED vars
  BY <1>7 DEF vars, latches, stalls, history, InSequence, Decoded, YoungPC, MiddlePC, NextOf, OldestPC
<1> QED
  BY <1>2, <1>3, <1>4, <1>5, <1>6, <1>7 DEF Next, Halted

\* The levels of the caches.
LEMMA InMemoryStep ==
    ASSUME Shape, InMemory, [Next]_vars
    PROVE  /\ InMemory'
           /\ caches.lost \subseteq caches'.lost
           /\ ~MemoryStage /\ caches'.lost = {} => ArchMem' = ArchMem
<1>1. CASE MemoryStage
  <2>1. MemoryEffect
    BY <1>1, MemoryStageIs DEF Shape
  <2> QED
    BY <1>1, <2>1 DEF MemoryEffect, InMemory
<1>2. CASE FetchStage
  <2>1. FetchEffect
    BY <1>2, FetchStageIs
  <2>2. caches.lost \subseteq caches'.lost /\ InMemory'
    BY <2>1 DEF FetchEffect, InMemory
  <2>3. ASSUME caches'.lost = {} PROVE ArchMem' = ArchMem
    <3>1. \A a \in Blocks : Shown(caches', a) = Shown(caches, a)
      BY <2>1, <2>2, <2>3 DEF FetchEffect, InMemory
    <3>2. \A a \in Word : DataBlock(a) \in Blocks
      BY BlocksOfAccesses
    <3> QED
      BY <3>1, <3>2 DEF ArchMem, Shown
  <2> QED
    BY <2>2, <2>3
<1>3. CASE UNCHANGED caches
  BY <1>3 DEF InMemory, ArchMem
<1> QED
  BY <1>1, <1>2, <1>3 DEF Next, Halted, WritebackStage, ExecuteStage, DecodeStage, vars

LEMMA InStepStep ==
    ASSUME \A p \in Programs : KeepsZero(p) /\ Plain(p), InStep, [Next]_vars
    PROVE  InStep'
BY ShapeStep, ZeroStep, BubblesStep, CarriesStep, WrittenBackStep, OperandsStep, NoLoadUseStep,
   ComputedStep, SequenceStep, InMemoryStep DEF InStep

\* The reference has the same instruction set.
LEMMA SameInstructionSet ==
    /\ \A p, at : Reference!Fetch(p, at) = Fetch(p, at)
    /\ \A i : Reference!Decode(i) = Decode(i)
    /\ \A i, control, a, b : Reference!ALUResult(i, control, a, b) = ALUResult(i, control, a, b)
    /\ \A i, control : Reference!WriteReg(i, control) = WriteReg(i, control)
    /\ \A i, control, at : Reference!BranchTarget(i, control, at) = BranchTarget(i, control, at)
    /\ \A v : Reference!Narrow(v) = Narrow(v)
<1>1. \A p, at : Reference!Fetch(p, at) = Fetch(p, at)
  BY DEF Reference!Fetch, Fetch, Reference!Nop, Nop
<1>2. \A i : Reference!Decode(i) = Decode(i)
  BY DEF Reference!Decode, Decode, Reference!RType, RType, Reference!Shifts, Shifts,
     Reference!JType, JType, Reference!Branches, Branches, Reference!LoadOps, LoadOps,
     Reference!StoreOps, StoreOps, Reference!ImmediateOps, ImmediateOps
<1>3. \A i, control : Reference!Extended(i, control) = Extended(i, control)
  BY DEF Reference!Extended, Extended
<1>4. \A v : Reference!Signed(v) = Signed(v)
  BY DEF Reference!Signed, Signed
<1>5. \A c, op : Reference!ALUControl(c, op) = ALUControl(c, op)
  BY DEF Reference!ALUControl, ALUControl
<1>6. \A v : Reference!OnesOf(v) = OnesOf(v)
  BY DEF Reference!OnesOf, OnesOf, Reference!Bit, Bit
<1>7. \A S : Reference!WithOnes(S) = WithOnes(S)
  BY Zenon DEF Reference!WithOnes, WithOnes, Reference!Word, Word, Reference!OnesOf, OnesOf,
     Reference!Bit, Bit
<1>8. \A c, a, b : Reference!ALU(c, a, b) = ALU(c, a, b)
  BY ZenonT(30), <1>4, <1>6, <1>7 DEF Reference!ALU, ALU
<1>9. \A i, control, a, b : Reference!ALUResult(i, control, a, b) = ALUResult(i, control, a, b)
  BY <1>3, <1>5, <1>8 DEF Reference!ALUResult, ALUResult
<1>10. \A i, control : Reference!WriteReg(i, control) = WriteReg(i, control)
  BY DEF Reference!WriteReg, WriteReg
<1>11. \A i, control, at : Reference!BranchTarget(i, control, at) = BranchTarget(i, control, at)
  BY <1>3, <1>4 DEF Reference!BranchTarget, BranchTarget
<1>12. \A v : Reference!Narrow(v) = Narrow(v)
  BY DEF Reference!Narrow, Narrow
<1> QED
  BY <1>1, <1>2, <1>9, <1>10, <1>11, <1>12

\* What the reference does with an instruction that is no jump and no narrow
\* store.
LEMMA EffectIs ==
    ASSUME NEW i, i.op \notin JType \cup {"jr", "sb"}, program' = program,
           NEW result, result = ALUResult(i, Decode(i), ArchR[i.rs], ArchR[i.rt]),
           ArchMem' = IF Decode(i).mem_write
                        THEN [ArchMem EXCEPT ![result] = ArchR[i.rt]] ELSE ArchMem,
           ArchR' = IF Decode(i).reg_write
                      THEN [ArchR EXCEPT ![WriteReg(i, Decode(i))] =
                               IF Decode(i).mem_read
                                 THEN IF Decode(i).byte THEN Narrow(ArchMem[result]) ELSE ArchMem[result]
                                 ELSE result]
                      ELSE ArchR
    PROVE  Reference!Effect(i)
<1>1. ~Decode(i).link /\ (Decode(i).mem_to_reg <=> Decode(i).mem_read)
  BY DecodeIs DEF JType
<1>2. Decode(i).mem_write => ~Decode(i).byte
  <2>1. i.op \in StoreOps => i.op \notin {"lbu", "sb"}
    BY DEF StoreOps
  <2> QED
    BY <2>1, DecodeIs
<1>3. ArchMem' = IF Decode(i).mem_write
                   THEN [ArchMem EXCEPT ![result] = Reference!Stored(Decode(i), @, ArchR[i.rt])]
                   ELSE ArchMem
  BY <1>2 DEF Reference!Stored
<1>4. \A word : Reference!Loaded(Decode(i), word) = IF Decode(i).byte THEN Narrow(word) ELSE word
  BY SameInstructionSet DEF Reference!Loaded
<1>5. ArchR' = IF Decode(i).reg_write
                 THEN [ArchR EXCEPT ![WriteReg(i, Decode(i))] =
                          IF Decode(i).mem_to_reg
                            THEN Reference!Loaded(Decode(i), ArchMem[result]) ELSE result]
                 ELSE ArchR
  BY <1>1, <1>4
<1> QED
  BY <1>1, <1>3, <1>5, SameInstructionSet DEF Reference!Effect

\* memory_stage, as the programmer sees it.
LEMMA Retires ==
    ASSUME InStep, \A p \in Programs : Plain(p), MemoryStage, caches'.lost = {}
    PROVE  \/ Reference!Advance
           \/ refetched /\ Reference!Repeat
           \/ UNCHANGED <<ArchPC, ArchR, ArchMem>>
<1>1. /\ ex_mem \in ExecuteLatch /\ mem_wb \in MemoryLatch /\ R \in [Reg -> Word]
      /\ program \in Programs /\ Shape
  BY DEF InStep, Shape, Types
<1>2. /\ stage = "memory"
      /\ UNCHANGED <<program, R, pc, if_id, id_ex>>
      /\ MemoryEffect
  BY <1>1, MemoryStageIs DEF MemoryStage, Shape
<1>3. Coherent(caches)
  <2>1. caches.lost = {}
    BY <1>2 DEF MemoryEffect
  <2> QED
    BY <2>1 DEF InStep, InMemory
<1>4. ArchR = R
  <2>1. CASE ~Writes(mem_wb)
    BY <2>1 DEF ArchR
  <2>2. CASE Writes(mem_wb)
    <3>1. mem_wb_prev = mem_wb
      BY <1>2 DEF InStep, WrittenBack
    <3>2. R[mem_wb.write_reg] = ResultOf(mem_wb)
      BY <1>2, <2>2, <3>1 DEF InStep, WrittenBack
    <3>3. ArchR = [R EXCEPT ![mem_wb.write_reg] = ResultOf(mem_wb)]
      BY <2>2 DEF ArchR
    <3> QED
      BY <1>1, <3>2, <3>3
  <2> QED
    BY <2>1, <2>2
<1>5. \A a \in Word : ArchMem'[a] = IF memory_stall' = FALSE /\ ex_mem.control.mem_write
                                       /\ a = ex_mem.alu_out
                                     THEN ex_mem.write_data_mem ELSE ArchMem[a]
  <2>1. \A a \in Blocks : Shown(caches', a) =
            IF memory_stall' = FALSE /\ ex_mem.control.mem_write /\ a = Block
              THEN ex_mem.write_data_mem ELSE Shown(caches, a)
    BY <1>2, <1>3 DEF MemoryEffect
  <2>2. \A a \in Word : DataBlock(a) \in Blocks
    BY BlocksOfAccesses
  <2>3. \A a \in Word : DataBlock(a) = Block <=> a = ex_mem.alu_out
    <3>1. ex_mem.alu_out \in Word
      BY <1>1 DEF ExecuteLatch
    <3>2. ASSUME NEW a \in Word PROVE DataBlock(a) = Block <=> a = ex_mem.alu_out
      <4>1. a \in Nat /\ ex_mem.alu_out \in Nat
        BY <3>1, <3>2, WordLimits
      <4> QED
        BY <4>1 DEF DataBlock, Block
    <3> QED
      BY <3>2
  <2>4. \A a \in Word : ArchMem[a] = Shown(caches, DataBlock(a))
                        /\ ArchMem'[a] = Shown(caches', DataBlock(a))
    BY DEF ArchMem, Shown
  <2> QED
    BY <2>1, <2>2, <2>3, <2>4
<1>6. ArchMem = [a \in Word |-> ArchMem[a]] /\ ArchMem' = [a \in Word |-> ArchMem'[a]]
  BY DEF ArchMem
<1>7. CASE memory_stall' = TRUE /\ ex_mem' = ex_mem /\ mem_wb' = mem_wb
  <2>1. ArchMem' = ArchMem
    BY <1>5, <1>6, <1>7
  <2>2. ArchR' = ArchR
    BY <1>2, <1>7 DEF ArchR, Writes, ResultOf
  <2>3. ArchPC' = ArchPC
    BY <1>2, <1>7 DEF ArchPC, OldestPC
  <2> QED
    BY <2>1, <2>2, <2>3
<1>8. ASSUME memory_stall' = FALSE, ex_mem' = [ex_mem EXCEPT !.live = FALSE],
             NEW v \in Word, mem_wb' = PassedOn(v),
             Accesses => v = Shown(caches, Block)
      PROVE  \/ Reference!Advance
             \/ refetched /\ Reference!Repeat
             \/ UNCHANGED <<ArchPC, ArchR, ArchMem>>
  <2> DEFINE result == ex_mem.alu_out
  <2>1. ArchMem' = IF ex_mem.control.mem_write
                     THEN [ArchMem EXCEPT ![result] = ex_mem.write_data_mem] ELSE ArchMem
    <3>1. CASE ~ex_mem.control.mem_write
      <4>1. \A a \in Word : ArchMem'[a] = ArchMem[a]
        BY <1>5, <3>1
      <4> QED
        BY <1>6, <3>1, <4>1
    <3>2. CASE ex_mem.control.mem_write
      <4>1. \A a \in Word : ArchMem'[a] = IF a = result THEN ex_mem.write_data_mem ELSE ArchMem[a]
        BY <1>5, <1>8, <3>2
      <4> QED
        BY <1>6, <3>2, <4>1
    <3> QED
      BY <3>1, <3>2
  <2>2. ArchR' = IF Writes(ex_mem)
                   THEN [ArchR EXCEPT ![ex_mem.write_reg] =
                            IF ex_mem.control.mem_read
                              THEN IF ex_mem.control.byte THEN Narrow(v) ELSE v ELSE result]
                   ELSE ArchR
    BY <1>2, <1>4, <1>8 DEF ArchR, Writes, ResultOf, PassedOn
  <2>3. OldestPC = (IF ex_mem.live THEN ex_mem.pc ELSE MiddlePC) /\ OldestPC' = MiddlePC
    <3>1. ex_mem'.live = FALSE
      BY <1>1, <1>8, SameLatch
    <3>2. MiddlePC' = MiddlePC
      BY <1>2 DEF MiddlePC, YoungPC
    <3> QED
      BY <3>1, <3>2, OldestNow DEF OldestIs
  <2>4. ASSUME Writes(ex_mem) => ex_mem.write_reg = 0 PROVE ArchR' = ArchR
    <3>1. CASE ~Writes(ex_mem)
      BY <2>2, <3>1
    <3>2. CASE Writes(ex_mem)
      <4>1. ~ex_mem.control.mem_read /\ result = 0 /\ R[0] = 0
        BY <2>4, <3>2 DEF InStep, ZeroStays, WritesZero
      <4>2. ArchR' = [R EXCEPT ![0] = 0]
        BY <1>4, <2>2, <2>4, <3>2, <4>1
      <4> QED
        BY <1>1, <1>4, <4>1, <4>2
    <3> QED
      BY <3>1, <3>2
  <2>5. Idle(ex_mem) => ArchR' = ArchR
    BY <1>2, <2>4 DEF InStep, Bubbles, Passed
  <2>6. CASE ~ex_mem.live
    <3>1. ~ex_mem.control.mem_write
      BY <1>2, <2>6 DEF InStep, Carries, Passed
    <3>2. ArchPC' = ArchPC
      BY <1>2, <2>3, <2>6 DEF ArchPC
    <3> QED
      BY <2>1, <2>5, <2>6, <3>1, <3>2 DEF Idle
  <2>7. CASE ex_mem.live
    <3> DEFINE i == Fetch(program, ex_mem.pc)
    <3>1. /\ ex_mem.control = Decode(i) /\ ex_mem.write_reg = WriteReg(i, Decode(i))
          /\ result = ALUResult(i, Decode(i), ArchR[i.rs], ArchR[i.rt])
          /\ ex_mem.write_data_mem = ArchR[i.rt]
          /\ MiddlePC = NextOf(ex_mem) \/ (refetched /\ MiddlePC = ex_mem.pc)
      BY <2>7 DEF InStep, Computed, InSequence
    <3>2. ex_mem.pc \in Nat /\ Len(program) \in Nat /\ i \in Instruction
      BY <1>1, FetchIs DEF ExecuteLatch
    <3>3. CASE ex_mem.pc > Len(program)
      <4>1. i = Nop
        BY <1>1, <3>2, <3>3, FetchIs
      <4>2. ~ex_mem.control.mem_write /\ ~ex_mem.control.branch
        BY <3>1, <4>1, NopCarries, EmptyLatches
      <4>3. NextOf(ex_mem) = ex_mem.pc + 1
        BY <4>2 DEF NextOf
      <4>4. MiddlePC > Len(program)
        BY <3>1, <3>2, <3>3, <4>3
      <4>5. ArchPC' = ArchPC
        <5>1. OldestPC = ex_mem.pc /\ OldestPC' = MiddlePC /\ program' = program
          BY <1>2, <2>3, <2>7
        <5>2. ArchPC = Len(program) + 1
          BY <3>2, <3>3, <5>1 DEF ArchPC
        <5>3. ~(MiddlePC <= Len(program))
          BY <3>1, <3>2, <3>3, <4>3
        <5>4. ArchPC' = Len(program) + 1
          BY <5>1, <5>3 DEF ArchPC
        <5> QED
          BY <5>2, <5>4
      <4> QED
        BY <2>1, <2>5, <3>2, <3>3, <4>2, <4>5 DEF Idle
    <3>4. CASE ex_mem.pc <= Len(program)
      <4>1. ArchPC = ex_mem.pc /\ Reference!Running
        BY <2>3, <2>7, <3>4 DEF ArchPC, Reference!Running
      <4>2. i.op \notin JType \cup {"jr", "sb"}
        <5>1. CASE i = Nop
          BY <5>1 DEF Nop, JType
        <5>2. CASE i # Nop
          <6>1. ex_mem.pc + 1 \in DOMAIN program /\ i = program[ex_mem.pc + 1]
            BY <1>1, <3>2, <5>2, FetchIs
          <6> QED
            BY <1>1, <6>1 DEF Plain
        <5> QED
          BY <5>1, <5>2
      <4>3. ArchR' = IF Decode(i).reg_write
                       THEN [ArchR EXCEPT ![WriteReg(i, Decode(i))] =
                                IF Decode(i).mem_read
                                  THEN IF Decode(i).byte THEN Narrow(ArchMem[result])
                                                         ELSE ArchMem[result]
                                  ELSE result]
                       ELSE ArchR
        <5>1. ex_mem.control.mem_read => v = ArchMem[result]
          <6>1. result \in Word
            BY <1>1 DEF ExecuteLatch
          <6> QED
            BY <1>8, <6>1 DEF Accesses, ArchMem, Shown, Block
        <5> QED
          BY <2>2, <3>1, <5>1 DEF Writes
      <4>4. Reference!Effect(i)
        <5> HIDE DEF i
        <5> QED
          BY <1>2, <2>1, <3>1, <4>2, <4>3, EffectIs
      <4>5. Reference!Fetch(program, ArchPC) = i
        BY <4>1, SameInstructionSet
      <4>6. CASE MiddlePC = NextOf(ex_mem)
        <5>1. NextOf(ex_mem) <= Len(program) + 1
          <6>1. CASE ex_mem.control.branch /\ (ex_mem.control.bne <=> result # 0)
            <7>1. Target(Decode(i), i, ex_mem.pc, TRUE, 0) \in 0 .. Len(program)
              BY <1>1, <3>1, <3>2, <6>1, TargetsAreInText
            <7>2. Target(Decode(i), i, ex_mem.pc, TRUE, 0) = BranchTarget(i, Decode(i), ex_mem.pc)
              BY DEF Target
            <7>3. NextOf(ex_mem) = BranchTarget(i, Decode(i), ex_mem.pc)
              BY <3>1, <6>1 DEF NextOf
            <7>4. NextOf(ex_mem) \in 0 .. Len(program)
              BY <7>1, <7>2, <7>3
            <7>5. Len(program) \in Nat
              BY <3>2
            <7> QED
              BY <7>4, <7>5
          <6>2. CASE ~(ex_mem.control.branch /\ (ex_mem.control.bne <=> result # 0))
            BY <3>2, <3>4, <6>2 DEF NextOf
          <6> QED
            BY <6>1, <6>2
        <5>2. ArchPC' = NextOf(ex_mem)
          <6>1. OldestPC' = NextOf(ex_mem) /\ program' = program
            BY <1>2, <2>3, <4>6
          <6>2. NextOf(ex_mem) \in Int
            <7>1. BranchTarget(i, Decode(i), ex_mem.pc) \in Int
              BY <3>2, WordLimits, TwoToThe DEF BranchTarget, Signed, Extended, Instruction, Imm
            <7> QED
              BY <3>1, <3>2, <7>1 DEF NextOf
          <6> QED
            BY <3>2, <5>1, <6>1, <6>2 DEF ArchPC
        <5>3. Reference!NextPC(i, Decode(i), result = 0) = NextOf(ex_mem)
          <6>1. ~Decode(i).jump /\ ~Decode(i).jump_reg /\ (Decode(i).bne => Decode(i).branch)
            <7>1. i.op = "bne" => i.op \in Branches
              BY DEF Branches
            <7> QED
              BY <4>2, <7>1, DecodeIs
          <6>2. Reference!NextPC(i, Decode(i), result = 0) =
                    IF \/ Decode(i).branch /\ ~Decode(i).bne /\ result = 0
                       \/ Decode(i).bne /\ ~(result = 0)
                      THEN BranchTarget(i, Decode(i), ArchPC) ELSE ArchPC + 1
            BY <6>1, SameInstructionSet DEF Reference!NextPC
          <6> QED
            BY <3>1, <4>1, <6>1, <6>2 DEF NextOf
        <5>4. Reference!Advance
          BY <3>1, <4>1, <4>4, <4>5, <5>2, <5>3, SameInstructionSet DEF Reference!Advance
        <5> QED
          BY <5>4
      <4>7. CASE refetched /\ MiddlePC = ex_mem.pc
        <5>1. ArchPC' = ArchPC
          BY <1>2, <2>3, <3>4, <4>1, <4>7 DEF ArchPC
        <5>2. Reference!Repeat
          BY <4>1, <4>4, <4>5, <5>1 DEF Reference!Repeat
        <5> QED
          BY <4>7, <5>2
      <4> QED
        BY <3>1, <4>6, <4>7
    <3> QED
      BY <3>2, <3>3, <3>4
  <2> QED
    BY <2>6, <2>7
<1> QED
  BY <1>2, <1>3, <1>7, <1>8 DEF MemoryEffect

(***************************************************************************)
(* -O1 computes what -O0 does, but for instructions that a miss of fetch   *)
(* makes it repeat, and until a newer word of L1 is dropped: forwarding,   *)
(* the load-use stall, stalls of memory and flushes are invisible in any   *)
(* combination, for every geometry of the caches, every penalty and width, *)
(* and every program without jumps and narrow stores (which the two        *)
(* processors do not execute alike) that keeps register 0 zero.            *)
(***************************************************************************)
THEOREM PipelineImplementsSingleCycle ==
    ASSUME \A p \in Programs : KeepsZero(p) /\ Plain(p)
    PROVE  Spec => RunsLikeSingleCycleOrRepeats
<1>1. Init => InStep
  BY InStepInit
<1>2. InStep /\ [Next]_vars => InStep'
  BY InStepStep
<1>3. InStep /\ [Next]_vars =>
        [\/ caches'.lost # {}
         \/ Reference!Advance
         \/ refetched /\ Reference!Repeat]_<<ArchPC, ArchR, ArchMem>>
  <2> SUFFICES ASSUME InStep, [Next]_vars, caches'.lost = {}
               PROVE  \/ Reference!Advance
                      \/ refetched /\ Reference!Repeat
                      \/ UNCHANGED <<ArchPC, ArchR, ArchMem>>
    BY Zenon
  <2>1. CASE MemoryStage
    BY <2>1, Retires
  <2>2. CASE ~MemoryStage
    <3>1. ArchR' = ArchR
      BY <2>2, ArchRKept DEF InStep
    <3>2. OldestPC' = OldestPC /\ program' = program
      <4>1. OldestPC' = OldestPC
        BY <2>2, SequenceStep DEF InStep
      <4>2. program' = program
        BY DEF Next, Halted, WritebackStage, MemoryStage, ExecuteStage, DecodeStage, FetchStage, vars
      <4> QED
        BY <4>1, <4>2
    <3>3. ArchPC' = ArchPC
      BY <3>2 DEF ArchPC
    <3>4. ArchMem' = ArchMem
      BY <2>2, InMemoryStep DEF InStep
    <3> QED
      BY <3>1, <3>3, <3>4
  <2> QED
    BY <2>1, <2>2
<1> QED
  BY <1>1, <1>2, <1>3, PTL DEF Spec, RunsLikeSingleCycleOrRepeats
=============================================================================
