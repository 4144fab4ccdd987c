----------------------- MODULE MemoryHierarchyProofs -----------------------
(***************************************************************************)
(* Proofs about MemoryHierarchy: that both levels stay inclusive, that     *)
(* every load that waits has its MSHR, and that but for the lines lost to  *)
(* inclusion the caches hold what was written last, for every geometry.    *)
(***************************************************************************)
EXTENDS MemoryHierarchy, FiniteSetTheorems, WellFoundedInduction, TLAPS

----------------------------------------------------------------------------
(* The first of a set of ways or MSHRs, and the set a block belongs to.    *)

LEMMA FirstWayIsIn ==
    ASSUME NEW S \in SUBSET Nat, S # {}
    PROVE  FirstWay(S) \in S
<1>1. PICK m \in S : \A k \in S : <<k, m>> \notin OpToRel(<, Nat)
  BY NatLessThanWellFounded, WFMin, Zenon
<1>2. \A k \in S : ~(k < m)
  BY <1>1 DEF OpToRel
<1>3. \A k \in S : m <= k
  BY <1>2
<1> QED
  BY <1>3 DEF FirstWay

LEMMA FirstWayOfOne ==
    ASSUME NEW w \in Nat
    PROVE  FirstWay({w}) = w
BY FirstWayIsIn

LEMMA WaysAreNumbers == Ways \in SUBSET Nat /\ Ways # {} /\ ASSOC - 1 \in Ways
BY GeometryAssumption DEF Ways

LEMMA IndexInRange ==
    ASSUME NEW sets \in Nat \ {0}, NEW b \in Nat
    PROVE  b % sets \in 0 .. sets - 1
OBVIOUS

LEMMA IndexIs ==
    ASSUME NEW sets \in Nat \ {0}, NEW c \in CacheOf(sets), NEW b \in Nat
    PROVE  Index(c, b) = b % sets
<1>1. DOMAIN c = 0 .. sets - 1
  BY DEF CacheOf
<1>2. Cardinality(0 .. sets - 1) = sets
  BY FS_Interval
<1> QED
  BY <1>1, <1>2 DEF Index

----------------------------------------------------------------------------
(* One cache.                                                              *)

\* Way w of the set of block b holds b.
At(c, sets, b, w) == c[b % sets][w].valid /\ c[b % sets][w].block = b

\* Every valid line is in the set of its block, no set has a block twice, and
\* all valid lines carry the bits of the most recently used.
Placed(c, sets) ==
    \A i \in 0 .. sets - 1, w \in Ways :
        c[i][w].valid => /\ c[i][w].block \in Blocks /\ c[i][w].block % sets = i
                         /\ c[i][w].replBits = ASSOC - 1
Distinct(c, sets) ==
    \A i \in 0 .. sets - 1 : \A w, v \in Ways :
        c[i][w].valid /\ c[i][v].valid /\ c[i][w].block = c[i][v].block => w = v
Sound(c, sets) == c \in CacheOf(sets) /\ Placed(c, sets) /\ Distinct(c, sets)

\* Both caches hold block a alike, or both do not.
Like(c, d, a) == (Has(d, a) <=> Has(c, a)) /\ (Has(c, a) => LineOf(d, a) = LineOf(c, a))

LEMMA CacheLines ==
    ASSUME NEW sets \in Nat \ {0}, NEW c \in CacheOf(sets), NEW i \in 0 .. sets - 1, NEW w \in Ways
    PROVE  c[i][w] \in Line
BY DEF CacheOf

LEMMA HitWaysAre ==
    ASSUME NEW sets \in Nat \ {0}, NEW c \in CacheOf(sets), NEW b \in Blocks
    PROVE  HitWays(c, b) = {w \in Ways : At(c, sets, b, w)}
<1>1. Index(c, b) = b % sets
  BY IndexIs, GeometryAssumption
<1> QED
  BY <1>1 DEF HitWays, At

LEMMA HasIs ==
    ASSUME NEW sets \in Nat \ {0}, NEW c \in CacheOf(sets), NEW b \in Blocks
    PROVE  Has(c, b) <=> \E w \in Ways : At(c, sets, b, w)
BY HitWaysAre DEF Has

\* The one way that holds a block.
LEMMA OneWay ==
    ASSUME NEW sets \in Nat \ {0}, NEW c, Sound(c, sets), NEW b \in Blocks,
           NEW w \in Ways, At(c, sets, b, w)
    PROVE  Has(c, b) /\ HitWays(c, b) = {w} /\ LineOf(c, b) = c[b % sets][w]
<1>1. c \in CacheOf(sets) /\ b % sets \in 0 .. sets - 1 /\ w \in Nat
  BY IndexInRange, GeometryAssumption, WaysAreNumbers DEF Sound
<1>2. HitWays(c, b) = {v \in Ways : At(c, sets, b, v)}
  BY <1>1, HitWaysAre
<1>3. \A v \in Ways : At(c, sets, b, v) => v = w
  BY <1>1 DEF Sound, Distinct, At
<1>4. HitWays(c, b) = {w}
  BY <1>2, <1>3
<1>5. Index(c, b) = b % sets
  BY <1>1, IndexIs, GeometryAssumption
<1> QED
  BY <1>1, <1>4, <1>5, FirstWayOfOne DEF Has, LineOf

LEMMA LineHeld ==
    ASSUME NEW sets \in Nat \ {0}, NEW c, Sound(c, sets), NEW b \in Blocks, Has(c, b)
    PROVE  /\ LineOf(c, b) \in Line /\ LineOf(c, b).valid /\ LineOf(c, b).block = b
           /\ LineOf(c, b).replBits = ASSOC - 1
           /\ \E w \in Ways : /\ At(c, sets, b, w) /\ HitWays(c, b) = {w}
                              /\ LineOf(c, b) = c[b % sets][w]
<1>1. c \in CacheOf(sets) /\ b % sets \in 0 .. sets - 1
  BY IndexInRange, GeometryAssumption DEF Sound
<1>2. PICK w \in Ways : At(c, sets, b, w)
  BY <1>1, HasIs
<1>3. HitWays(c, b) = {w} /\ LineOf(c, b) = c[b % sets][w]
  BY <1>2, OneWay
<1>4. c[b % sets][w] \in Line
  BY <1>1, CacheLines
<1>5. c[b % sets][w].replBits = ASSOC - 1
  BY <1>1, <1>2 DEF Sound, Placed, At
<1> QED
  BY <1>2, <1>3, <1>4, <1>5 DEF At

----------------------------------------------------------------------------
(* Putting a line into one way, which is all the operations do.            *)

Put(c, i, w, line) == [c EXCEPT ![i] = [@ EXCEPT ![w] = line]]

LEMMA PutGives ==
    ASSUME NEW sets \in Nat \ {0}, NEW c \in CacheOf(sets),
           NEW i \in 0 .. sets - 1, NEW w \in Ways, NEW line \in Line
    PROVE  /\ Put(c, i, w, line) \in CacheOf(sets)
           /\ Put(c, i, w, line)[i][w] = line
           /\ \A k \in 0 .. sets - 1, u \in Ways :
                 k # i \/ u # w => Put(c, i, w, line)[k][u] = c[k][u]
<1>1. c[i] \in [Ways -> Line]
  BY DEF CacheOf
<1> DEFINE row == [c[i] EXCEPT ![w] = line]
<1>2. row \in [Ways -> Line] /\ row[w] = line /\ \A u \in Ways : u # w => row[u] = c[i][u]
  BY <1>1
<1>3. Put(c, i, w, line) = [c EXCEPT ![i] = row]
  BY DEF Put
<1> HIDE DEF row
<1> QED
  BY <1>2, <1>3 DEF CacheOf

\* Caches with the same lines are the same.
LEMMA CachesEqual ==
    ASSUME NEW sets \in Nat \ {0}, NEW c \in CacheOf(sets), NEW d \in CacheOf(sets),
           \A k \in 0 .. sets - 1, u \in Ways : c[k][u] = d[k][u]
    PROVE  c = d
<1>1. \A k \in 0 .. sets - 1 : c[k] = d[k]
  <2> TAKE k \in 0 .. sets - 1
  <2>1. c[k] \in [Ways -> Line] /\ d[k] \in [Ways -> Line]
    BY DEF CacheOf
  <2> QED
    BY <2>1
<1> QED
  BY <1>1 DEF CacheOf

\* A line that may be put into way w of set i.
Fits(c, sets, i, w, line) ==
    line.valid => /\ line.block \in Blocks /\ line.block % sets = i /\ line.replBits = ASSOC - 1
                  /\ \A u \in Ways : c[i][u].valid /\ c[i][u].block = line.block => u = w

LEMMA PutSound ==
    ASSUME NEW sets \in Nat \ {0}, NEW c, Sound(c, sets),
           NEW i \in 0 .. sets - 1, NEW w \in Ways, NEW line \in Line, Fits(c, sets, i, w, line)
    PROVE  Sound(Put(c, i, w, line), sets)
<1> DEFINE d == Put(c, i, w, line)
<1>1. c \in CacheOf(sets)
  BY DEF Sound
<1>2. /\ d \in CacheOf(sets) /\ d[i][w] = line
      /\ \A k \in 0 .. sets - 1, u \in Ways : k # i \/ u # w => d[k][u] = c[k][u]
  BY <1>1, PutGives
<1> HIDE DEF d
<1>3. Placed(d, sets)
  BY <1>2 DEF Sound, Placed, Fits
<1>4. Distinct(d, sets)
  <2> SUFFICES ASSUME NEW k \in 0 .. sets - 1, NEW u \in Ways, NEW v \in Ways,
                      d[k][u].valid, d[k][v].valid, d[k][u].block = d[k][v].block
               PROVE  u = v
    BY Zenon DEF Distinct
  <2>1. CASE k # i \/ (u # w /\ v # w)
    BY <1>2, <2>1 DEF Sound, Distinct
  <2>2. CASE k = i /\ u = w /\ v # w
    BY <1>2, <2>2 DEF Fits
  <2>3. CASE k = i /\ u # w /\ v = w
    BY <1>2, <2>3 DEF Fits
  <2> QED
    BY <2>1, <2>2, <2>3
<1> QED
  BY <1>2, <1>3, <1>4 DEF Sound, d

\* What the cache then holds: the new line, not the old one, and the rest.
LEMMA PutHolds ==
    ASSUME NEW sets \in Nat \ {0}, NEW c, Sound(c, sets),
           NEW i \in 0 .. sets - 1, NEW w \in Ways, NEW line \in Line, Fits(c, sets, i, w, line),
           NEW a \in Blocks
    PROVE  LET d == Put(c, i, w, line)
               new == line.valid /\ line.block = a
               old == c[i][w].valid /\ c[i][w].block = a
           IN /\ new => Has(d, a) /\ LineOf(d, a) = line
              /\ ~new /\ old => ~Has(d, a)
              /\ ~new /\ ~old => Like(c, d, a)
<1> DEFINE d == Put(c, i, w, line)
           new == line.valid /\ line.block = a
           old == c[i][w].valid /\ c[i][w].block = a
<1>1. c \in CacheOf(sets) /\ a % sets \in 0 .. sets - 1
  BY IndexInRange, GeometryAssumption DEF Sound
<1>2. /\ d \in CacheOf(sets) /\ d[i][w] = line
      /\ \A k \in 0 .. sets - 1, u \in Ways : k # i \/ u # w => d[k][u] = c[k][u]
  BY <1>1, PutGives
<1>3. Sound(d, sets)
  BY PutSound
<1> HIDE DEF d
<1>4. ASSUME new PROVE Has(d, a) /\ LineOf(d, a) = line
  <2>1. a % sets = i /\ At(d, sets, a, w)
    BY <1>2, <1>4 DEF At, Fits
  <2> QED
    BY <1>2, <1>3, <2>1, OneWay
<1>5. ASSUME ~new, old PROVE ~Has(d, a)
  <2>1. a % sets = i
    BY <1>5 DEF Sound, Placed
  <2>2. ASSUME NEW u \in Ways, At(d, sets, a, u) PROVE FALSE
    <3>1. CASE u = w
      BY <1>2, <1>5, <2>1, <2>2, <3>1 DEF At
    <3>2. CASE u # w
      <4>1. c[i][u].valid /\ c[i][u].block = a
        BY <1>2, <2>1, <2>2, <3>2 DEF At
      <4> QED
        BY <1>5, <3>2, <4>1 DEF Sound, Distinct
    <3> QED
      BY <3>1, <3>2
  <2> QED
    BY <1>2, <2>2, HasIs
<1>6. ASSUME ~new, ~old PROVE Like(c, d, a)
  <2>1. \A u \in Ways : At(d, sets, a, u) <=> At(c, sets, a, u)
    BY <1>1, <1>2, <1>6 DEF At
  <2>2. \A u \in Ways : At(c, sets, a, u) => d[a % sets][u] = c[a % sets][u]
    BY <1>1, <1>2, <1>6 DEF At
  <2>3. Has(d, a) <=> Has(c, a)
    BY <1>1, <1>2, <2>1, HasIs
  <2>4. ASSUME Has(c, a) PROVE LineOf(d, a) = LineOf(c, a)
    <3>1. PICK u \in Ways : At(c, sets, a, u)
      BY <1>1, <2>4, HasIs
    <3>2. LineOf(c, a) = c[a % sets][u]
      BY <3>1, OneWay
    <3>3. LineOf(d, a) = d[a % sets][u]
      BY <1>3, <2>1, <3>1, OneWay
    <3> QED
      BY <2>2, <3>1, <3>2, <3>3
  <2> QED
    BY <2>3, <2>4 DEF Like
<1> QED
  BY <1>4, <1>5, <1>6 DEF d

----------------------------------------------------------------------------
(* The operations on one cache.                                            *)

Data == 0 .. MaxWrites

LEMMA RebuiltLine ==
    ASSUME NEW line \in Line
    PROVE  /\ [line EXCEPT !.replBits = line.replBits] = line
           /\ \A v \in Data : /\ [line EXCEPT !.data = v, !.dirty = TRUE] \in Line
                              /\ [line EXCEPT !.data = v, !.dirty = TRUE].valid = line.valid
                              /\ [line EXCEPT !.data = v, !.dirty = TRUE].block = line.block
                              /\ [line EXCEPT !.data = v, !.dirty = TRUE].replBits = line.replBits
                              /\ [line EXCEPT !.data = v, !.dirty = TRUE].data = v
                              /\ [line EXCEPT !.data = v, !.dirty = TRUE].dirty = TRUE
           /\ [line EXCEPT !.valid = FALSE] \in Line
           /\ [line EXCEPT !.valid = FALSE].valid = FALSE
BY DEF Line, Data

\* updateReplacementBits changes nothing.
LEMMA BitsStay ==
    ASSUME NEW sets \in Nat \ {0}, NEW c, Sound(c, sets),
           NEW i \in 0 .. sets - 1, NEW way \in Ways, c[i][way].valid
    PROVE  UpdateReplacementBits(c, i, way) = c
<1>1. c \in CacheOf(sets) /\ c[i] \in [Ways -> Line]
  BY DEF Sound, CacheOf
<1>2. \A w \in Ways : c[i][w].valid => c[i][w].replBits = ASSOC - 1
  BY DEF Sound, Placed
<1> DEFINE bits(w) == IF w = way THEN [c[i][w] EXCEPT !.replBits = ASSOC - 1]
                      ELSE IF c[i][w].valid /\ c[i][w].replBits > c[i][way].replBits
                        THEN [c[i][w] EXCEPT !.replBits = @ - 1]
                      ELSE c[i][w]
<1>3. \A w \in Ways : bits(w) = c[i][w]
  <2> TAKE w \in Ways
  <2>1. c[i][w] \in Line
    BY <1>1
  <2>2. CASE w = way
    <3>1. c[i][w].replBits = ASSOC - 1
      BY <1>2, <2>2
    <3>2. [c[i][w] EXCEPT !.replBits = c[i][w].replBits] = c[i][w]
      BY <2>1, RebuiltLine
    <3> QED
      BY <2>2, <3>1, <3>2
  <2>3. CASE w # way
    <3>1. ASSOC - 1 \in Nat
      BY GeometryAssumption
    <3>2. ~(c[i][w].valid /\ c[i][w].replBits > c[i][way].replBits)
      BY <1>2, <3>1
    <3> QED
      BY <2>3, <3>2
  <2> QED
    BY <2>2, <2>3
<1>4. UpdateReplacementBits(c, i, way) = [c EXCEPT ![i] = [w \in Ways |-> bits(w)]]
  BY DEF UpdateReplacementBits
<1> HIDE DEF bits
<1>5. [w \in Ways |-> bits(w)] = c[i]
  BY <1>1, <1>3
<1> QED
  BY <1>1, <1>4, <1>5 DEF CacheOf

LEMMA TouchChangesNothing ==
    ASSUME NEW sets \in Nat \ {0}, NEW c, Sound(c, sets), NEW b \in Blocks, Has(c, b)
    PROVE  Touch(c, b) = c
<1>1. c \in CacheOf(sets) /\ b % sets \in 0 .. sets - 1 /\ Index(c, b) = b % sets
  BY IndexInRange, IndexIs, GeometryAssumption DEF Sound
<1>2. PICK w \in Ways : At(c, sets, b, w) /\ HitWays(c, b) = {w}
  BY LineHeld
<1>3. FirstWay(HitWays(c, b)) = w
  BY <1>2, FirstWayOfOne, WaysAreNumbers
<1>4. UpdateReplacementBits(c, b % sets, w) = c
  BY <1>1, <1>2, BitsStay DEF At
<1> QED
  BY <1>1, <1>3, <1>4 DEF Touch

\* Block b now holds v, not yet written back; the others are as they were.
Written(c, d, sets, b, v) ==
    /\ Sound(d, sets)
    /\ Has(d, b) /\ LineOf(d, b).data = v /\ LineOf(d, b).dirty
    /\ \A a \in Blocks : a # b => Like(c, d, a)

LEMMA UpdateWrites ==
    ASSUME NEW sets \in Nat \ {0}, NEW c, Sound(c, sets), NEW b \in Blocks, Has(c, b), NEW v \in Data
    PROVE  Written(c, Update(c, b, v), sets, b, v)
<1>1. c \in CacheOf(sets) /\ b % sets \in 0 .. sets - 1 /\ Index(c, b) = b % sets
  BY IndexInRange, IndexIs, GeometryAssumption DEF Sound
<1>2. PICK w \in Ways : At(c, sets, b, w) /\ HitWays(c, b) = {w}
  BY LineHeld
<1> DEFINE i == b % sets
           line == [c[i][w] EXCEPT !.data = v, !.dirty = TRUE]
<1>3. c[i] \in [Ways -> Line] /\ c[i][w] \in Line
  BY <1>1 DEF CacheOf
<1>4. /\ line \in Line /\ line.valid = c[i][w].valid /\ line.block = c[i][w].block
      /\ line.replBits = c[i][w].replBits /\ line.data = v /\ line.dirty = TRUE
  BY <1>3, RebuiltLine
<1>5. Update(c, b, v) = Put(c, i, w, line)
  <2>1. [u \in Ways |-> IF u \in {w} THEN [c[i][u] EXCEPT !.data = v, !.dirty = TRUE] ELSE c[i][u]]
          = [c[i] EXCEPT ![w] = line]
    BY <1>3
  <2> HIDE DEF line
  <2> QED
    BY <1>1, <1>2, <2>1 DEF Update, Put
<1> HIDE DEF line
<1>6. line.valid /\ line.block = b /\ c[i][w].valid /\ c[i][w].block = b
  BY <1>2, <1>4 DEF At
<1>7. Fits(c, sets, i, w, line)
  BY <1>1, <1>2, <1>4, <1>6 DEF Fits, Sound, Placed, Distinct
<1> DEFINE d == Put(c, i, w, line)
<1>8. Sound(d, sets)
  BY <1>1, <1>4, <1>7, PutSound
<1>9. Has(d, b) /\ LineOf(d, b) = line
  BY <1>1, <1>4, <1>6, <1>7, PutHolds
<1>10. \A a \in Blocks : a # b => Like(c, d, a)
  BY <1>1, <1>4, <1>6, <1>7, PutHolds
<1> QED
  BY <1>4, <1>5, <1>8, <1>9, <1>10 DEF Written

LEMMA InvalidateForgets ==
    ASSUME NEW sets \in Nat \ {0}, NEW c, Sound(c, sets), NEW b \in Blocks
    PROVE  LET d == InvalidateLine(c, b)
           IN /\ Sound(d, sets) /\ ~Has(d, b)
              /\ \A a \in Blocks : a # b => Like(c, d, a)
<1>1. c \in CacheOf(sets) /\ b % sets \in 0 .. sets - 1 /\ Index(c, b) = b % sets
  BY IndexInRange, IndexIs, GeometryAssumption DEF Sound
<1> DEFINE i == b % sets
<1>2. c[i] \in [Ways -> Line]
  BY <1>1 DEF CacheOf
<1>3. CASE ~Has(c, b)
  <2>1. HitWays(c, b) = {}
    BY <1>3 DEF Has
  <2>2. [u \in Ways |-> IF u \in {} THEN [c[i][u] EXCEPT !.valid = FALSE] ELSE c[i][u]] = c[i]
    BY <1>2
  <2>3. InvalidateLine(c, b) = c
    BY <1>1, <2>1, <2>2 DEF InvalidateLine, CacheOf
  <2> QED
    BY <1>3, <2>3 DEF Like
<1>4. CASE Has(c, b)
  <2>1. PICK w \in Ways : At(c, sets, b, w) /\ HitWays(c, b) = {w}
    BY <1>4, LineHeld
  <2> DEFINE line == [c[i][w] EXCEPT !.valid = FALSE]
  <2>2. line \in Line /\ line.valid = FALSE
    BY <1>2, RebuiltLine
  <2>3. InvalidateLine(c, b) = Put(c, i, w, line)
    <3>1. [u \in Ways |-> IF u \in {w} THEN [c[i][u] EXCEPT !.valid = FALSE] ELSE c[i][u]]
            = [c[i] EXCEPT ![w] = line]
      BY <1>2
    <3> HIDE DEF line
    <3> QED
      BY <1>1, <2>1, <3>1 DEF InvalidateLine, Put
  <2> HIDE DEF line
  <2>4. Fits(c, sets, i, w, line) /\ c[i][w].valid /\ c[i][w].block = b
    BY <2>1, <2>2 DEF Fits, At
  <2> DEFINE d == Put(c, i, w, line)
  <2>5. Sound(d, sets)
    BY <1>1, <2>2, <2>4, PutSound
  <2>6. ~Has(d, b) /\ \A a \in Blocks : a # b => Like(c, d, a)
    BY <1>1, <2>2, <2>4, PutHolds
  <2> QED
    BY <2>3, <2>5, <2>6
<1> QED
  BY <1>3, <1>4

\* replace evicts a line of the cache, or one that is not valid.
LEMMA VictimIsAWay ==
    ASSUME NEW sets \in Nat \ {0}, NEW c, Sound(c, sets), NEW i \in 0 .. sets - 1
    PROVE  Victim(c[i]) \in Ways
<1> DEFINE free == {w \in Ways : ~c[i][w].valid}
           oldest == {w \in Ways : \A v \in Ways : c[i][w].replBits <= c[i][v].replBits}
<1>1. Victim(c[i]) = FirstWay(IF free # {} THEN free ELSE oldest)
  BY DEF Victim
<1>2. CASE free # {}
  <2>1. FirstWay(free) \in free
    BY <1>2, FirstWayIsIn, WaysAreNumbers
  <2> QED
    BY <1>1, <1>2, <2>1
<1>3. CASE free = {}
  <2>1. \A w \in Ways : c[i][w].replBits = ASSOC - 1
    BY <1>3 DEF Sound, Placed
  <2>2. oldest = Ways
    BY <2>1, GeometryAssumption
  <2>3. FirstWay(oldest) \in oldest
    BY <2>2, FirstWayIsIn, WaysAreNumbers
  <2> QED
    BY <1>1, <1>3, <2>3
<1> QED
  BY <1>2, <1>3

Brought(c, r, sets, b, v) ==
    /\ Sound(r.cache, sets)
    /\ Has(r.cache, b) /\ LineOf(r.cache, b).data = v /\ ~LineOf(r.cache, b).dirty
    /\ r.evicted \in Line
    /\ r.evicted.valid => /\ r.evicted.block \in Blocks /\ r.evicted.block # b
                          /\ Has(c, r.evicted.block) /\ LineOf(c, r.evicted.block) = r.evicted
                          /\ ~Has(r.cache, r.evicted.block)
    /\ \A a \in Blocks : a # b /\ ~(r.evicted.valid /\ a = r.evicted.block) => Like(c, r.cache, a)

LEMMA ReplaceBrings ==
    ASSUME NEW sets \in Nat \ {0}, NEW c, Sound(c, sets), NEW b \in Blocks, ~Has(c, b), NEW v \in Data
    PROVE  Brought(c, Replace(c, b, v), sets, b, v)
<1>1. c \in CacheOf(sets) /\ b % sets \in 0 .. sets - 1 /\ Index(c, b) = b % sets
  BY IndexInRange, IndexIs, GeometryAssumption DEF Sound
<1> DEFINE i == b % sets
           way == Victim(c[i])
           line == [valid |-> TRUE, block |-> b, dirty |-> FALSE, replBits |-> NewLineBits, data |-> v]
           d == Put(c, i, way, line)
           r == Replace(c, b, v)
<1>2. way \in Ways
  BY <1>1, VictimIsAWay
<1>3. /\ line \in Line /\ line.valid /\ line.block = b /\ ~line.dirty /\ line.replBits = ASSOC - 1
      /\ line.data = v
  BY WaysAreNumbers DEF Line, NewLineBits, Data
<1>4. r = [cache |-> UpdateReplacementBits(d, i, way), evicted |-> c[i][way]]
  BY <1>1, Zenon DEF Replace, Put
<1> HIDE DEF way, line
<1>5. \A u \in Ways : ~(c[i][u].valid /\ c[i][u].block = b)
  BY <1>1, HasIs DEF At
<1>6. Fits(c, sets, i, way, line)
  BY <1>1, <1>3, <1>5 DEF Fits
<1>7. Sound(d, sets)
  BY <1>1, <1>2, <1>3, <1>6, PutSound
<1>8. d[i][way].valid
  BY <1>1, <1>2, <1>3, PutGives
<1>9. UpdateReplacementBits(d, i, way) = d
  BY <1>1, <1>2, <1>7, <1>8, BitsStay
<1>10. r.cache = d /\ r.evicted = c[i][way]
  BY <1>4, <1>9
<1>11. c[i][way] \in Line
  BY <1>1, <1>2, CacheLines
<1>12. \A a \in Blocks :
          LET new == line.valid /\ line.block = a
              old == c[i][way].valid /\ c[i][way].block = a
          IN /\ new => Has(d, a) /\ LineOf(d, a) = line
             /\ ~new /\ old => ~Has(d, a)
             /\ ~new /\ ~old => Like(c, d, a)
  BY <1>1, <1>2, <1>3, <1>6, PutHolds
<1>13. ASSUME c[i][way].valid
       PROVE  /\ c[i][way].block \in Blocks /\ c[i][way].block # b
              /\ Has(c, c[i][way].block) /\ LineOf(c, c[i][way].block) = c[i][way]
  <2>1. c[i][way].block \in Blocks /\ c[i][way].block % sets = i
    BY <1>1, <1>2, <1>13 DEF Sound, Placed
  <2>2. At(c, sets, c[i][way].block, way)
    BY <1>13, <2>1 DEF At
  <2> QED
    BY <1>2, <1>5, <1>13, <2>1, <2>2, OneWay
<1> HIDE DEF d, r
<1> QED
  BY <1>3, <1>7, <1>10, <1>11, <1>12, <1>13 DEF Brought, r

----------------------------------------------------------------------------
(* Both levels and memory.                                                 *)

HierarchyType == [l1 : CacheOf(L1_SETS), l2 : CacheOf(L2_SETS),
                  mem : [Blocks -> Data], lost : SUBSET Blocks]

\* What L1 holds L2 holds too, and a clean line is what the level below has.
Coherent(h, b) ==
    /\ Has(h.l1, b) => Has(h.l2, b)
    /\ Has(h.l1, b) /\ ~LineOf(h.l1, b).dirty => LineOf(h.l2, b).data = LineOf(h.l1, b).data
    /\ Has(h.l2, b) /\ ~LineOf(h.l2, b).dirty => h.mem[b] = LineOf(h.l2, b).data

HierarchySound(h) ==
    /\ h \in HierarchyType
    /\ Sound(h.l1, L1_SETS) /\ Sound(h.l2, L2_SETS)
    /\ \A b \in Blocks : Coherent(h, b)

\* Presented, of any hierarchy.
Shown(h, b) ==
    IF Has(h.l1, b) THEN LineOf(h.l1, b).data
    ELSE IF Has(h.l2, b) THEN LineOf(h.l2, b).data
    ELSE h.mem[b]

LEMMA ShownIsData ==
    ASSUME NEW h, HierarchySound(h), NEW b \in Blocks
    PROVE  Shown(h, b) \in Data
<1>1. L1_SETS \in Nat \ {0} /\ L2_SETS \in Nat \ {0}
  BY GeometryAssumption
<1>2. Has(h.l1, b) => LineOf(h.l1, b) \in Line
  BY <1>1, LineHeld DEF HierarchySound
<1>3. Has(h.l2, b) => LineOf(h.l2, b) \in Line
  BY <1>1, LineHeld DEF HierarchySound
<1>4. h.mem[b] \in Data
  BY DEF HierarchySound, HierarchyType
<1>5. \A line \in Line : line.data \in Data
  BY DEF Line, Data
<1> QED
  BY <1>2, <1>3, <1>4, <1>5 DEF Shown

LEMMA UntouchedBlock ==
    ASSUME NEW h, NEW g, NEW a \in Blocks, Coherent(h, a),
           Like(h.l1, g.l1, a), Like(h.l2, g.l2, a), g.mem[a] = h.mem[a]
    PROVE  Coherent(g, a) /\ Shown(g, a) = Shown(h, a)
BY DEF Coherent, Like, Shown

Ops == Data \cup {NoValue}

LEMMA HitByIs ==
    ASSUME NEW sets \in Nat \ {0}, NEW c, Sound(c, sets), NEW b \in Blocks, Has(c, b), NEW op \in Ops
    PROVE  /\ op = NoValue => HitBy(c, b, op) = c
           /\ op # NoValue => op \in Data /\ Written(c, HitBy(c, b, op), sets, b, op)
<1>1. Touch(c, b) = c
  BY TouchChangesNothing
<1>2. ASSUME op # NoValue PROVE op \in Data /\ Written(c, HitBy(c, b, op), sets, b, op)
  <2>1. op \in Data
    BY <1>2 DEF Ops
  <2>2. HitBy(c, b, op) = Update(c, b, op)
    BY <1>1, <1>2 DEF HitBy
  <2> QED
    BY <2>1, <2>2, UpdateWrites
<1> QED
  BY <1>1, <1>2 DEF HitBy

\* What an access of block b does to the whole: all blocks but those it loses
\* show what they did, or what was written, and b comes one level closer.
Moves(h, g, b, op) ==
    /\ HierarchySound(g) /\ h.lost \subseteq g.lost
    /\ \A a \in Blocks \ g.lost :
          Shown(g, a) = Shown(h, a) \/ (a = b /\ op # NoValue /\ Shown(g, a) = op)
    /\ Has(h.l1, b) => /\ g.lost = h.lost /\ Has(g.l1, b)
                       /\ op # NoValue => Shown(g, b) = op
                       /\ op = NoValue => g = h
    /\ ~Has(h.l1, b) /\ Has(h.l2, b) => Has(g.l1, b)
    /\ ~Has(h.l1, b) /\ ~Has(h.l2, b) => Has(g.l2, b)

\* A hierarchy after an access, and its fields.
Rebuilt(h, x, y, m, lo) == [h EXCEPT !.l1 = x, !.l2 = y, !.mem = m, !.lost = lo]

LEMMA NewHierarchy ==
    ASSUME NEW h \in HierarchyType, NEW x \in CacheOf(L1_SETS), NEW y \in CacheOf(L2_SETS),
           NEW m \in [Blocks -> Data], NEW lo \in SUBSET Blocks
    PROVE  /\ Rebuilt(h, x, y, m, lo) \in HierarchyType
           /\ Rebuilt(h, x, y, m, lo).l1 = x /\ Rebuilt(h, x, y, m, lo).l2 = y
           /\ Rebuilt(h, x, y, m, lo).mem = m /\ Rebuilt(h, x, y, m, lo).lost = lo
BY DEF HierarchyType, Rebuilt

LEMMA SameFields ==
    ASSUME NEW h \in HierarchyType, NEW x, NEW y
    PROVE  /\ [h EXCEPT !.l1 = x] = Rebuilt(h, x, h.l2, h.mem, h.lost)
           /\ [h EXCEPT !.l1 = x, !.l2 = y] = Rebuilt(h, x, y, h.mem, h.lost)
           /\ [h EXCEPT !.l1 = h.l1] = h
BY DEF HierarchyType, Rebuilt

LEMMA HitMoves ==
    ASSUME NEW h, HierarchySound(h), NEW b \in Blocks, NEW op \in Ops, Has(h.l1, b)
    PROVE  Moves(h, [h EXCEPT !.l1 = HitBy(h.l1, b, op)], b, op)
<1> DEFINE x == HitBy(h.l1, b, op)
           g == [h EXCEPT !.l1 = x]
<1>1. /\ h \in HierarchyType /\ Sound(h.l1, L1_SETS) /\ Sound(h.l2, L2_SETS)
      /\ h.l2 \in CacheOf(L2_SETS) /\ h.mem \in [Blocks -> Data] /\ h.lost \in SUBSET Blocks
      /\ L1_SETS \in Nat \ {0}
  BY GeometryAssumption DEF HierarchySound, HierarchyType
<1>2. /\ op = NoValue => x = h.l1
      /\ op # NoValue => op \in Data /\ Written(h.l1, x, L1_SETS, b, op)
  BY <1>1, HitByIs
<1>3. Sound(x, L1_SETS) /\ x \in CacheOf(L1_SETS)
  BY <1>1, <1>2 DEF Written, Sound
<1> HIDE DEF x
<1>4. g \in HierarchyType /\ g.l1 = x /\ g.l2 = h.l2 /\ g.mem = h.mem /\ g.lost = h.lost
  <2>1. g = Rebuilt(h, x, h.l2, h.mem, h.lost)
    BY <1>1, SameFields
  <2> HIDE DEF g
  <2> QED
    BY <1>1, <1>3, <2>1, NewHierarchy
<1>5. op = NoValue => g = h
  BY <1>1, <1>2, SameFields
<1> HIDE DEF g
<1>6. ASSUME op = NoValue PROVE Moves(h, g, b, op)
  BY <1>5, <1>6 DEF Moves
<1>7. ASSUME op # NoValue PROVE Moves(h, g, b, op)
  <2>1. Has(g.l1, b) /\ LineOf(g.l1, b).data = op /\ LineOf(g.l1, b).dirty
    BY <1>2, <1>4, <1>7 DEF Written
  <2>2. Coherent(g, b) /\ Shown(g, b) = op
    BY <1>4, <2>1 DEF HierarchySound, Coherent, Shown
  <2>3. ASSUME NEW a \in Blocks, a # b PROVE Coherent(g, a) /\ Shown(g, a) = Shown(h, a)
    <3>1. Like(h.l1, g.l1, a) /\ Coherent(h, a)
      BY <1>2, <1>4, <1>7, <2>3 DEF Written, HierarchySound
    <3>2. Like(h.l2, g.l2, a)
      BY <1>4 DEF Like
    <3> QED
      BY <1>4, <3>1, <3>2, UntouchedBlock
  <2>4. HierarchySound(g)
    BY <1>1, <1>3, <1>4, <2>2, <2>3 DEF HierarchySound
  <2> QED
    BY <1>4, <1>7, <2>1, <2>2, <2>3, <2>4 DEF Moves
<1> QED
  BY <1>6, <1>7 DEF g, x

\* L2 has the block, L1 has not.
LEMMA FillL1Moves ==
    ASSUME NEW h, HierarchySound(h), NEW b \in Blocks, NEW op \in Ops, ~Has(h.l1, b), Has(h.l2, b)
    PROVE  Moves(h, FillL1(h, b, op), b, op)
<1> DEFINE l2hit == HitBy(h.l2, b, op)
           v == LineOf(l2hit, b).data
           r == Replace(h.l1, b, v)
           e == r.evicted
           back == e.valid /\ e.dirty
           y == IF back THEN WriteBackLine(l2hit, e) ELSE l2hit
           g == FillL1(h, b, op)
<1>1. /\ h \in HierarchyType /\ Sound(h.l1, L1_SETS) /\ Sound(h.l2, L2_SETS)
      /\ h.mem \in [Blocks -> Data] /\ h.lost \in SUBSET Blocks
      /\ L1_SETS \in Nat \ {0} /\ L2_SETS \in Nat \ {0}
      /\ \A a \in Blocks : Coherent(h, a)
  BY GeometryAssumption DEF HierarchySound, HierarchyType
<1>2. g = [h EXCEPT !.l1 = r.cache, !.l2 = y]
  BY Zenon DEF FillL1
<1>3. /\ op = NoValue => l2hit = h.l2
      /\ op # NoValue => op \in Data /\ Written(h.l2, l2hit, L2_SETS, b, op)
  BY <1>1, HitByIs
<1> HIDE DEF l2hit
<1>4. /\ Sound(l2hit, L2_SETS) /\ Has(l2hit, b)
      /\ \A a \in Blocks : a # b => Like(h.l2, l2hit, a)
      /\ op # NoValue => LineOf(l2hit, b).data = op /\ LineOf(l2hit, b).dirty
  BY <1>1, <1>3 DEF Written, Like
<1>5. v \in Data
  <2>1. LineOf(l2hit, b) \in Line
    BY <1>1, <1>4, LineHeld
  <2> QED
    BY <2>1 DEF Line, Data
<1> HIDE DEF v
<1>6. Brought(h.l1, r, L1_SETS, b, v)
  BY <1>1, <1>5, ReplaceBrings
<1> HIDE DEF r
<1>7. ASSUME e.valid PROVE Has(h.l2, e.block) /\ Has(l2hit, e.block) /\ e.block \in Blocks /\ e.data \in Data
  <2>1. e.block \in Blocks /\ e.block # b /\ Has(h.l1, e.block) /\ e \in Line
    BY <1>6, <1>7 DEF Brought
  <2>2. Has(h.l2, e.block)
    BY <1>1, <2>1 DEF Coherent
  <2>3. Has(l2hit, e.block)
    BY <1>4, <2>1, <2>2 DEF Like
  <2> QED
    BY <2>1, <2>2, <2>3 DEF Line, Data
<1>8. back => Written(l2hit, y, L2_SETS, e.block, e.data)
  BY <1>1, <1>4, <1>7, UpdateWrites DEF WriteBackLine
<1>9. ~back => y = l2hit
  OBVIOUS
<1> HIDE DEF y
<1>10. Sound(y, L2_SETS) /\ y \in CacheOf(L2_SETS) /\ r.cache \in CacheOf(L1_SETS)
  BY <1>4, <1>6, <1>8, <1>9 DEF Written, Brought, Sound
<1>11. g \in HierarchyType /\ g.l1 = r.cache /\ g.l2 = y /\ g.mem = h.mem /\ g.lost = h.lost
  <2> HIDE DEF g
  <2>1. g = Rebuilt(h, r.cache, y, h.mem, h.lost)
    BY <1>1, <1>2, SameFields
  <2> QED
    BY <1>1, <1>10, <2>1, NewHierarchy
<1> HIDE DEF g
<1>12. Like(l2hit, y, b)
  BY <1>6, <1>8, <1>9 DEF Written, Brought, Like
<1>13. /\ Coherent(g, b) /\ Has(g.l1, b)
       /\ Shown(g, b) = IF op = NoValue THEN Shown(h, b) ELSE op
  <2>1. Has(g.l1, b) /\ LineOf(g.l1, b).data = v /\ ~LineOf(g.l1, b).dirty
    BY <1>6, <1>11 DEF Brought
  <2>2. Has(g.l2, b) /\ LineOf(g.l2, b) = LineOf(l2hit, b)
    BY <1>4, <1>11, <1>12 DEF Like
  <2>3. ~LineOf(l2hit, b).dirty => h.mem[b] = LineOf(l2hit, b).data
    BY <1>1, <1>3, <1>4 DEF Coherent
  <2>4. Coherent(g, b)
    BY <1>11, <2>1, <2>2, <2>3 DEF Coherent, v
  <2> QED
    BY <1>3, <1>4, <2>1, <2>4 DEF Shown, v
<1>14. ASSUME NEW a \in Blocks, a # b PROVE Coherent(g, a) /\ Shown(g, a) = Shown(h, a)
  <2>1. CASE e.valid /\ a = e.block
    <3>1. ~Has(g.l1, a) /\ Has(h.l1, a) /\ LineOf(h.l1, a) = e
      BY <1>6, <1>11, <2>1 DEF Brought
    <3>2. Has(l2hit, a) /\ LineOf(l2hit, a) = LineOf(h.l2, a) /\ Has(h.l2, a)
      BY <1>4, <1>7, <1>14, <2>1 DEF Like
    <3>3. CASE back
      <4>1. Has(g.l2, a) /\ LineOf(g.l2, a).data = e.data /\ LineOf(g.l2, a).dirty
        BY <1>8, <1>11, <2>1, <3>3 DEF Written
      <4> QED
        BY <3>1, <4>1 DEF Coherent, Shown
    <3>4. CASE ~back
      <4>1. g.l2 = l2hit /\ ~e.dirty
        BY <1>9, <1>11, <2>1, <3>4
      <4> QED
        BY <1>1, <1>11, <3>1, <3>2, <4>1 DEF Coherent, Shown
    <3> QED
      BY <3>3, <3>4
  <2>2. CASE ~(e.valid /\ a = e.block)
    <3>1. Like(h.l1, g.l1, a)
      BY <1>6, <1>11, <1>14, <2>2 DEF Brought
    <3>2. Like(l2hit, y, a)
      BY <1>8, <1>9, <2>2 DEF Written, Like
    <3>3. Like(h.l2, g.l2, a)
      BY <1>4, <1>11, <1>14, <3>2 DEF Like
    <3> QED
      BY <1>1, <1>11, <3>1, <3>3, UntouchedBlock
  <2> QED
    BY <2>1, <2>2
<1>15. HierarchySound(g)
  BY <1>6, <1>10, <1>11, <1>13, <1>14 DEF HierarchySound, Brought
<1> QED
  BY <1>11, <1>13, <1>14, <1>15 DEF Moves, g

\* Neither level has the block.
LEMMA FillL2Moves ==
    ASSUME NEW h, HierarchySound(h), NEW b \in Blocks, NEW op \in Ops, ~Has(h.l1, b), ~Has(h.l2, b)
    PROVE  Moves(h, FillL2(h, b), b, op)
<1> DEFINE r == Replace(h.l2, b, h.mem[b])
           e == r.evicted
           x == IF e.valid THEN InvalidateLine(h.l1, e.block) ELSE h.l1
           m == IF e.valid /\ e.dirty THEN [h.mem EXCEPT ![e.block] = e.data] ELSE h.mem
           inL1 == e.valid /\ Has(h.l1, e.block)
           lo == IF inL1 /\ LineOf(h.l1, e.block).dirty THEN h.lost \cup {e.block} ELSE h.lost
           g == FillL2(h, b)
<1>1. /\ h \in HierarchyType /\ Sound(h.l1, L1_SETS) /\ Sound(h.l2, L2_SETS)
      /\ h.mem \in [Blocks -> Data] /\ h.lost \in SUBSET Blocks
      /\ L1_SETS \in Nat \ {0} /\ L2_SETS \in Nat \ {0}
      /\ \A a \in Blocks : Coherent(h, a)
  BY GeometryAssumption DEF HierarchySound, HierarchyType
<1>2. g = [h EXCEPT !.l1 = x, !.l2 = r.cache, !.mem = m, !.lost = lo]
  BY Zenon DEF FillL2
<1>3. Brought(h.l2, r, L2_SETS, b, h.mem[b])
  BY <1>1, ReplaceBrings
<1> HIDE DEF r
<1>4. e.valid => e.block \in Blocks /\ e.block # b /\ e \in Line /\ e.data \in Data
  BY <1>3 DEF Brought, Line, Data
<1>5. /\ Sound(x, L1_SETS)
      /\ e.valid => ~Has(x, e.block)
      /\ \A a \in Blocks : ~(e.valid /\ a = e.block) => Like(h.l1, x, a)
  <2>1. CASE e.valid
    BY <1>1, <1>4, <2>1, InvalidateForgets
  <2>2. CASE ~e.valid
    BY <1>1, <2>2 DEF Like
  <2> QED
    BY <2>1, <2>2
<1>6. /\ m \in [Blocks -> Data]
      /\ e.valid => m[e.block] = IF e.dirty THEN e.data ELSE h.mem[e.block]
      /\ \A a \in Blocks : ~(e.valid /\ a = e.block) => m[a] = h.mem[a]
  BY <1>1, <1>4
<1>7. lo \in SUBSET Blocks /\ h.lost \subseteq lo
  BY <1>1, <1>4
<1> HIDE DEF x, m
<1>8. x \in CacheOf(L1_SETS) /\ r.cache \in CacheOf(L2_SETS)
  BY <1>3, <1>5 DEF Brought, Sound
<1>9. lo = IF inL1 /\ LineOf(h.l1, e.block).dirty THEN h.lost \cup {e.block} ELSE h.lost
  OBVIOUS
<1> HIDE DEF lo
<1>10. g \in HierarchyType /\ g.l1 = x /\ g.l2 = r.cache /\ g.mem = m /\ g.lost = lo
  <2> HIDE DEF g
  <2>1. g = Rebuilt(h, x, r.cache, m, lo)
    BY <1>2 DEF Rebuilt
  <2> QED
    BY <1>1, <1>6, <1>7, <1>8, <2>1, NewHierarchy
<1> HIDE DEF g
<1>11. Coherent(g, b) /\ Has(g.l2, b) /\ Shown(g, b) = Shown(h, b)
  <2>1. Has(g.l2, b) /\ LineOf(g.l2, b).data = h.mem[b]
    BY <1>3, <1>10 DEF Brought
  <2>2. ~Has(g.l1, b)
    BY <1>4, <1>5, <1>10 DEF Like
  <2>3. g.mem[b] = h.mem[b]
    BY <1>4, <1>6, <1>10
  <2> QED
    BY <2>1, <2>2, <2>3 DEF Coherent, Shown
<1>12. ASSUME NEW a \in Blocks, a # b
       PROVE  Coherent(g, a) /\ (a \notin g.lost => Shown(g, a) = Shown(h, a))
  <2>1. CASE e.valid /\ a = e.block
    <3>1. ~Has(g.l1, a) /\ ~Has(g.l2, a) /\ Has(h.l2, a) /\ LineOf(h.l2, a) = e
      BY <1>3, <1>5, <1>10, <2>1 DEF Brought
    <3>2. g.mem[a] = IF e.dirty THEN e.data ELSE h.mem[a]
      BY <1>6, <1>10, <2>1
    <3>3. Coherent(g, a) /\ Shown(g, a) = e.data
      BY <1>1, <3>1, <3>2 DEF Coherent, Shown
    <3>4. a \notin g.lost => ~(Has(h.l1, a) /\ LineOf(h.l1, a).dirty)
      BY <1>9, <1>10, <2>1
    <3> QED
      BY <1>1, <3>1, <3>3, <3>4 DEF Coherent, Shown
  <2>2. CASE ~(e.valid /\ a = e.block)
    <3>1. Like(h.l1, g.l1, a) /\ Like(h.l2, g.l2, a) /\ g.mem[a] = h.mem[a]
      BY <1>3, <1>5, <1>6, <1>10, <1>12, <2>2 DEF Brought
    <3> QED
      BY <1>1, <3>1, UntouchedBlock
  <2> QED
    BY <2>1, <2>2
<1>13. HierarchySound(g)
  BY <1>3, <1>5, <1>10, <1>11, <1>12 DEF HierarchySound, Brought
<1> QED
  BY <1>7, <1>10, <1>11, <1>12, <1>13 DEF Moves, g

LEMMA AccessMoves ==
    ASSUME NEW h, HierarchySound(h), NEW b \in Blocks, NEW op \in Ops
    PROVE  Moves(h, Access(h, b, op), b, op)
BY HitMoves, FillL1Moves, FillL2Moves DEF Access

----------------------------------------------------------------------------
(* checkReady: reads that come one after the other.                        *)

\* After reads, what is not lost shows what it did.
Reads(h, g) ==
    /\ HierarchySound(g) /\ h.lost \subseteq g.lost
    /\ \A a \in Blocks \ g.lost : Shown(g, a) = Shown(h, a)

LEMMA ReadsCompose ==
    ASSUME NEW h, NEW g, NEW k, Reads(h, g), Reads(g, k)
    PROVE  Reads(h, k)
BY DEF Reads

LEMMA ReadsNothing ==
    ASSUME NEW h, HierarchySound(h)
    PROVE  Reads(h, h)
BY DEF Reads

LEMMA AccessReads ==
    ASSUME NEW h, HierarchySound(h), NEW b \in Blocks
    PROVE  /\ Reads(h, Access(h, b, NoValue))
           /\ Has(h.l1, b) => Has(Access(h, b, NoValue).l1, b)
           /\ ~Has(h.l1, b) /\ Has(h.l2, b) => Has(Access(h, b, NoValue).l1, b)
           /\ ~Has(h.l1, b) /\ ~Has(h.l2, b) => Has(Access(h, b, NoValue).l2, b)
<1>1. Moves(h, Access(h, b, NoValue), b, NoValue)
  BY AccessMoves DEF Ops
<1> QED
  BY <1>1 DEF Moves, Reads

\* The loop of checkReady, as a function.
LEMMA WalkSteps ==
    ASSUME NEW h, NEW b
    PROVE  \E m : /\ m[0] = h
                  /\ \A n \in 1 .. 3 : m[n] = IF Answers(m[n - 1], b) THEN m[n - 1]
                                              ELSE Access(m[n - 1], b, NoValue)
                  /\ Walk(h, b) = [hierarchy |-> Access(m[3], b, NoValue), done |-> Answers(m[3], b)]
<1> DEFINE step(x) == IF Answers(x, b) THEN x ELSE Access(x, b, NoValue)
           F(m) == [n \in 0 .. SafetyLimit - 1 |->
                      IF n = 0 THEN h
                      ELSE IF Answers(m[n - 1], b) THEN m[n - 1] ELSE Access(m[n - 1], b, NoValue)]
           missed == CHOOSE m : m = F(m)
           f == [n \in 0 .. 3 |-> IF n = 0 THEN h ELSE IF n = 1 THEN step(h)
                                  ELSE IF n = 2 THEN step(step(h)) ELSE step(step(step(h)))]
<1>1. Walk(h, b) = [hierarchy |-> Access(missed[SafetyLimit - 1], b, NoValue),
                    done |-> Answers(missed[SafetyLimit - 1], b)]
  BY Zenon DEF Walk
<1>2. f = F(f)
  <2>1. \A m : F(m) = [n \in 0 .. 3 |-> IF n = 0 THEN h ELSE step(m[n - 1])]
    BY DEF SafetyLimit
  <2> HIDE DEF F, step
  <2>2. f[0] = h /\ f[1] = step(f[0]) /\ f[2] = step(f[1]) /\ f[3] = step(f[2])
    OBVIOUS
  <2>3. \A n \in 0 .. 3 : f[n] = IF n = 0 THEN h ELSE step(f[n - 1])
    <3>1. \A n \in 0 .. 3 : n = 0 \/ n = 1 \/ n = 2 \/ n = 3
      OBVIOUS
    <3> HIDE DEF f
    <3> QED
      BY <2>2, <3>1
  <2>4. f = [n \in 0 .. 3 |-> f[n]]
    OBVIOUS
  <2> HIDE DEF f
  <2> QED
    BY <2>1, <2>3, <2>4
<1>3. missed = F(missed)
  <2> HIDE DEF F, f
  <2> QED
    BY <1>2, Zenon
<1> HIDE DEF missed
<1>4. missed[0] = h /\ \A n \in 1 .. 3 : missed[n] = IF Answers(missed[n - 1], b) THEN missed[n - 1]
                                                     ELSE Access(missed[n - 1], b, NoValue)
  BY <1>3 DEF SafetyLimit
<1>5. SafetyLimit - 1 = 3
  BY DEF SafetyLimit
<1> QED
  BY <1>1, <1>4, <1>5

\* Four accesses are enough: the first two bring the block up, wherever it is.
LEMMA WalkAnswers ==
    ASSUME NEW h, HierarchySound(h), NEW b \in Blocks
    PROVE  /\ Walk(h, b).done
           /\ Reads(h, Walk(h, b).hierarchy)
           /\ Has(Walk(h, b).hierarchy.l1, b)
<1>1. PICK m : /\ m[0] = h
               /\ \A n \in 1 .. 3 : m[n] = IF Answers(m[n - 1], b) THEN m[n - 1]
                                           ELSE Access(m[n - 1], b, NoValue)
               /\ Walk(h, b) = [hierarchy |-> Access(m[3], b, NoValue), done |-> Answers(m[3], b)]
  BY WalkSteps
<1> DEFINE S(x, y) == y = IF Answers(x, b) THEN x ELSE Access(x, b, NoValue)
<1>2. S(m[0], m[1]) /\ S(m[1], m[2]) /\ S(m[2], m[3])
  <2>1. \A n \in 1 .. 3 : S(m[n - 1], m[n])
    BY <1>1
  <2>2. 1 - 1 = 0 /\ 2 - 1 = 1 /\ 3 - 1 = 2 /\ 1 \in 1 .. 3 /\ 2 \in 1 .. 3 /\ 3 \in 1 .. 3
    OBVIOUS
  <2> HIDE DEF S
  <2> QED
    BY <2>1, <2>2
<1>3. ASSUME NEW x, NEW y, HierarchySound(x), S(x, y)
      PROVE  /\ Reads(x, y) /\ HierarchySound(y)
             /\ Has(x.l1, b) => Has(y.l1, b)
             /\ ~Has(x.l1, b) /\ Has(x.l2, b) => Has(y.l1, b)
             /\ ~Has(x.l1, b) /\ ~Has(x.l2, b) => Has(y.l2, b)
  <2>1. CASE Answers(x, b)
    BY <1>3, <2>1, ReadsNothing DEF Answers
  <2>2. CASE ~Answers(x, b)
    <3>1. y = Access(x, b, NoValue)
      BY <1>3, <2>2
    <3> QED
      BY <1>3, <3>1, AccessReads DEF Reads
  <2> QED
    BY <2>1, <2>2
<1> HIDE DEF S
<1>4. Reads(h, m[1]) /\ Reads(m[1], m[2]) /\ Reads(m[2], m[3])
  BY <1>1, <1>2, <1>3
<1>5. HierarchySound(m[1]) /\ HierarchySound(m[2]) /\ HierarchySound(m[3])
  BY <1>4 DEF Reads
<1>6. Has(m[1].l1, b) \/ Has(m[1].l2, b)
  BY <1>1, <1>2, <1>3
<1>7. Has(m[2].l1, b)
  BY <1>2, <1>3, <1>5, <1>6
<1>8. Has(m[3].l1, b)
  BY <1>2, <1>3, <1>5, <1>7
<1>9. Reads(h, m[3])
  BY <1>4, ReadsCompose
<1>10. Reads(m[3], Access(m[3], b, NoValue)) /\ Has(Access(m[3], b, NoValue).l1, b)
  BY <1>5, <1>8, AccessReads
<1>11. Walk(h, b).hierarchy = Access(m[3], b, NoValue) /\ Walk(h, b).done = Answers(m[3], b)
  BY <1>1
<1> QED
  BY <1>8, <1>9, <1>10, <1>11, ReadsCompose DEF Answers

----------------------------------------------------------------------------
(* MSHRs and the loads that wait in them.                                  *)

MSHRType == [valid : BOOLEAN, block : Blocks \cup {0}, countdown : 0 .. MISS_PENALTY - 1,
             fill_pending : BOOLEAN, targets : SUBSET Loads]
LoadType == [state : {"idle", "refused", "waiting", "answered", "squashed"},
             block : Blocks \cup {0}, value : Data]

\* An MSHR in use waits for its block only, and its targets for it.
InUse(m, L) ==
    /\ m.block \in Blocks /\ m.targets # {} /\ ~m.fill_pending
    /\ \A s \in m.targets : L[s].state = "waiting" /\ L[s].block = m.block
AwaitedIn(M, L, s) ==
    \E i \in MSHRIndex : M[i].valid /\ M[i].block = L[s].block /\ s \in M[i].targets
Matched(M, L) ==
    /\ M \in [MSHRIndex -> MSHRType] /\ L \in [Loads -> LoadType]
    /\ \A i \in MSHRIndex : M[i].valid => InUse(M[i], L)
    /\ \A i, j \in MSHRIndex : M[i].valid /\ M[j].valid /\ M[i].block = M[j].block => i = j
    /\ \A s \in Loads : L[s].state = "waiting" => AwaitedIn(M, L, s)

\* A load is as it was, or has just got what its block showed in h.
Answered(before, after, h, lo) ==
    /\ before.state = "waiting" /\ after.state = "answered"
    /\ after.block = before.block /\ after.block \in Blocks
    /\ after.block \notin lo => after.value = Shown(h, after.block)
Serviced(s, t) ==
    /\ t = [hierarchy |-> t.hierarchy, mshrs |-> t.mshrs, loads |-> t.loads]
    /\ Reads(s.hierarchy, t.hierarchy) /\ Matched(t.mshrs, t.loads)
    /\ \A l \in Loads : t.loads[l] = s.loads[l]
                        \/ Answered(s.loads[l], t.loads[l], s.hierarchy, t.hierarchy.lost)

LEMMA ServicedCompose ==
    ASSUME NEW s, NEW t, NEW u, Serviced(s, t), Serviced(t, u)
    PROVE  Serviced(s, u)
<1>1. Reads(s.hierarchy, u.hierarchy)
  BY ReadsCompose DEF Serviced
<1>2. ASSUME NEW l \in Loads
      PROVE  u.loads[l] = s.loads[l]
             \/ Answered(s.loads[l], u.loads[l], s.hierarchy, u.hierarchy.lost)
  <2>1. t.hierarchy.lost \subseteq u.hierarchy.lost
    BY DEF Serviced, Reads
  <2>2. CASE u.loads[l] = t.loads[l]
    BY <2>1, <2>2 DEF Serviced, Answered
  <2>3. CASE Answered(t.loads[l], u.loads[l], t.hierarchy, u.hierarchy.lost)
    <3>1. t.loads[l] = s.loads[l]
      BY <2>3 DEF Serviced, Answered
    <3>2. \A a \in Blocks \ u.hierarchy.lost : Shown(t.hierarchy, a) = Shown(s.hierarchy, a)
      BY <2>1 DEF Serviced, Reads
    <3> QED
      BY <2>3, <3>1, <3>2 DEF Answered
  <2> QED
    BY <2>2, <2>3 DEF Serviced
<1> QED
  BY <1>1, <1>2 DEF Serviced

\* checkReady for one MSHR.
LEMMA ServiceServes ==
    ASSUME NEW s, s = [hierarchy |-> s.hierarchy, mshrs |-> s.mshrs, loads |-> s.loads],
           HierarchySound(s.hierarchy), Matched(s.mshrs, s.loads), NEW i \in MSHRIndex
    PROVE  Serviced(s, Service(s, i))
<1> DEFINE h == s.hierarchy
           M == s.mshrs
           L == s.loads
           m == M[i]
           walk == Walk(h, m.block)
           t == Service(s, i)
<1>1. M \in [MSHRIndex -> MSHRType] /\ L \in [Loads -> LoadType] /\ m \in MSHRType
  BY DEF Matched
<1>2. Serviced(s, s)
  BY ReadsNothing DEF Serviced
<1>3. CASE ~m.valid
  BY <1>2, <1>3 DEF Service
<1> SUFFICES ASSUME m.valid PROVE Serviced(s, t)
  BY <1>3
<1>4. m.block \in Blocks /\ InUse(m, L) /\ m.targets \in SUBSET Loads
  BY <1>1 DEF Matched, InUse, MSHRType
<1>5. CASE StillCounting(m)
  <2> DEFINE N == [M EXCEPT ![i].countdown = @ - 1]
             n == [m EXCEPT !.countdown = @ - 1]
  <2>1. t = [s EXCEPT !.mshrs[i].countdown = @ - 1]
    BY <1>5 DEF Service
  <2>2. N = [M EXCEPT ![i] = n]
    BY <1>1
  <2>3. t = [hierarchy |-> h, mshrs |-> N, loads |-> L]
    BY <2>1
  <2>4. /\ n \in MSHRType /\ n.valid = m.valid /\ n.block = m.block
        /\ n.fill_pending = m.fill_pending /\ n.targets = m.targets
    <3>1. m.countdown - 1 \in 0 .. MISS_PENALTY - 1
      BY <1>1, <1>5, GeometryAssumption DEF StillCounting, MSHRType
    <3> QED
      BY <1>1, <3>1 DEF MSHRType
  <2> HIDE DEF N, n, t
  <2>5. Matched(N, L)
    <3>1. N \in [MSHRIndex -> MSHRType] /\ \A j \in MSHRIndex :
             /\ N[j].valid = M[j].valid /\ N[j].block = M[j].block
             /\ N[j].fill_pending = M[j].fill_pending /\ N[j].targets = M[j].targets
      BY <1>1, <2>2, <2>4
    <3> QED
      BY <3>1 DEF Matched, InUse, AwaitedIn
  <2> QED
    BY <2>3, <2>5, ReadsNothing DEF Serviced
<1>6. CASE ~StillCounting(m)
  <2>1. walk.done /\ Reads(h, walk.hierarchy) /\ Has(walk.hierarchy.l1, m.block)
    BY <1>4, WalkAnswers
  <2> HIDE DEF walk
  <2> DEFINE g == Access(walk.hierarchy, m.block, NoValue)
             word == Word(walk.hierarchy, m.block)
             n == [m EXCEPT !.valid = FALSE, !.fill_pending = FALSE, !.targets = {}]
             N == [M EXCEPT ![i] = n]
             K == [l \in Loads |-> IF l \in m.targets
                                     THEN [L[l] EXCEPT !.state = "answered", !.value = word]
                                     ELSE L[l]]
  <2>2. t = [hierarchy |-> g,
             mshrs |-> [M EXCEPT ![i].valid = FALSE, ![i].fill_pending = FALSE, ![i].targets = {}],
             loads |-> K]
    BY <1>6, <2>1, Zenon DEF Service, walk
  <2>3. [M EXCEPT ![i].valid = FALSE, ![i].fill_pending = FALSE, ![i].targets = {}] = N
    BY <1>1
  <2>4. t.hierarchy = g /\ t.mshrs = N /\ t.loads = K
        /\ t = [hierarchy |-> t.hierarchy, mshrs |-> t.mshrs, loads |-> t.loads]
    <3>1. t = [hierarchy |-> g, mshrs |-> N, loads |-> K]
      BY <2>2, <2>3, Zenon
    <3> HIDE DEF g, N, K, t
    <3> QED
      BY <3>1
  <2>5. Reads(h, g)
    <3>1. Reads(walk.hierarchy, g)
      BY <1>4, <2>1, AccessReads DEF Reads
    <3> QED
      BY <2>1, <3>1, ReadsCompose
  <2>6. word = Shown(walk.hierarchy, m.block) /\ word \in Data
    BY <1>4, <2>1, ShownIsData DEF Shown, Word, Reads
  <2>7. m.block \notin g.lost => word = Shown(h, m.block)
    <3>1. walk.hierarchy.lost \subseteq g.lost
      BY <1>4, <2>1, AccessReads DEF Reads
    <3> QED
      BY <1>4, <2>1, <2>6, <3>1 DEF Reads
  <2>8. n \in MSHRType /\ ~n.valid
    BY <1>1 DEF MSHRType
  <2> HIDE DEF g, word, n, t
  <2>9. /\ N \in [MSHRIndex -> MSHRType] /\ ~N[i].valid
        /\ \A j \in MSHRIndex : j # i => N[j] = M[j]
    BY <1>1, <2>8
  <2>10. /\ K \in [Loads -> LoadType]
         /\ \A l \in Loads : l \notin m.targets => K[l] = L[l]
         /\ \A l \in m.targets : /\ K[l].state = "answered" /\ K[l].value = word
                                 /\ K[l].block = L[l].block
    <3>1. \A l \in Loads : L[l] \in LoadType
      BY <1>1
    <3>2. \A l \in Loads : LET k == [L[l] EXCEPT !.state = "answered", !.value = word]
                           IN /\ k \in LoadType /\ k.state = "answered" /\ k.value = word
                              /\ k.block = L[l].block
      BY <2>6, <3>1 DEF LoadType
    <3> QED
      BY <1>4, <3>1, <3>2
  <2> HIDE DEF N, K
  <2>11. \A j \in MSHRIndex : M[j].valid /\ j # i => M[j].targets \cap m.targets = {}
    <3> SUFFICES ASSUME NEW j \in MSHRIndex, M[j].valid, j # i, NEW l \in M[j].targets, l \in m.targets
                 PROVE  FALSE
      OBVIOUS
    <3>1. L[l].block = M[j].block /\ L[l].block = m.block
      BY <1>4 DEF Matched, InUse
    <3> QED
      BY <3>1 DEF Matched
  <2>12. Matched(N, K)
    <3>1. ASSUME NEW j \in MSHRIndex, N[j].valid PROVE InUse(N[j], K)
      <4>1. j # i /\ N[j] = M[j] /\ M[j].valid /\ InUse(M[j], L) /\ M[j].targets \in SUBSET Loads
        BY <1>1, <2>9, <3>1 DEF Matched, MSHRType
      <4>2. \A l \in M[j].targets : K[l] = L[l]
        BY <2>10, <2>11, <4>1
      <4> QED
        BY <4>1, <4>2 DEF InUse
    <3>2. ASSUME NEW j \in MSHRIndex, NEW k \in MSHRIndex, N[j].valid, N[k].valid,
                 N[j].block = N[k].block
          PROVE  j = k
      BY <2>9, <3>2 DEF Matched
    <3>3. ASSUME NEW l \in Loads, K[l].state = "waiting" PROVE AwaitedIn(N, K, l)
      <4>1. l \notin m.targets /\ K[l] = L[l] /\ L[l].state = "waiting"
        BY <2>10, <3>3
      <4>2. PICK j \in MSHRIndex : M[j].valid /\ M[j].block = L[l].block /\ l \in M[j].targets
        BY <4>1 DEF Matched, AwaitedIn
      <4>3. j # i
        BY <4>1, <4>2
      <4> QED
        BY <2>9, <4>1, <4>2, <4>3 DEF AwaitedIn
    <3> QED
      BY <2>9, <2>10, <3>1, <3>2, <3>3 DEF Matched
  <2>13. \A l \in Loads : K[l] = L[l] \/ Answered(L[l], K[l], h, g.lost)
    <3> SUFFICES ASSUME NEW l \in m.targets PROVE Answered(L[l], K[l], h, g.lost)
      BY <2>10
    <3> QED
      BY <1>4, <2>7, <2>10 DEF InUse, Answered
  <2> QED
    BY <2>4, <2>5, <2>12, <2>13 DEF Serviced
<1> QED
  BY <1>5, <1>6

\* Induction over the naturals, for a set instead of a predicate.
LEMMA InductiveSet ==
    ASSUME NEW S, 0 \in S, \A n \in Nat : n \in S => n + 1 \in S
    PROVE  \A n \in Nat : n \in S
<1> SUFFICES ASSUME NEW b \in Nat, b \notin S PROVE FALSE
  OBVIOUS
<1> DEFINE T == {n \in Nat : n \notin S}
<1>1. T \in SUBSET Nat /\ T # {}
  OBVIOUS
<1>2. PICK m \in T : \A k \in T : <<k, m>> \notin OpToRel(<, Nat)
  BY <1>1, NatLessThanWellFounded, WFMin, Zenon
<1> HIDE DEF T
<1>3. m \in Nat /\ m \notin S /\ \A k \in T : ~(k < m)
  BY <1>1, <1>2 DEF OpToRel, T
<1>4. m # 0 /\ m - 1 \in Nat /\ m - 1 < m /\ (m - 1) + 1 = m
  BY <1>3
<1>5. m - 1 \in T
  BY <1>3, <1>4 DEF T
<1> QED
  BY <1>3, <1>4, <1>5

\* The function served of CheckReady exists, and its steps are Service.
LEMMA ServedExists ==
    ASSUME NEW start
    PROVE  \A m \in Nat : \E f : f = [n \in 0 .. m |-> IF n = 0 THEN start
                                                       ELSE Service(f[n - 1], n)]
<1> DEFINE Is(f, m) == f = [n \in 0 .. m |-> IF n = 0 THEN start ELSE Service(f[n - 1], n)]
           S == {m \in Nat : \E f : Is(f, m)}
<1>1. 0 \in S
  <2> DEFINE f == [n \in 0 .. 0 |-> start]
  <2>1. Is(f, 0)
    OBVIOUS
  <2> QED
    BY <2>1
<1>2. ASSUME NEW m \in Nat, m \in S PROVE m + 1 \in S
  <2>1. PICK f : Is(f, m)
    BY <1>2
  <2>2. \A n \in 0 .. m : f[n] = IF n = 0 THEN start ELSE Service(f[n - 1], n)
    BY <2>1
  <2> DEFINE g == [n \in 0 .. m + 1 |-> IF n = m + 1 THEN Service(f[m], m + 1) ELSE f[n]]
  <2>3. \A n \in 0 .. m + 1 : g[n] = IF n = 0 THEN start ELSE Service(g[n - 1], n)
    <3>1. \A n \in 0 .. m : g[n] = f[n] /\ n # m + 1
      OBVIOUS
    <3>2. g[m + 1] = Service(f[m], m + 1)
      OBVIOUS
    <3>3. m + 1 # 0 /\ (m + 1) - 1 = m /\ m \in 0 .. m
      OBVIOUS
    <3> HIDE DEF g
    <3> TAKE n \in 0 .. m + 1
    <3>4. CASE n = m + 1
      BY <3>1, <3>2, <3>3, <3>4
    <3>5. CASE n \in 0 .. m
      <4>1. n # 0 => n - 1 \in 0 .. m
        BY <3>5
      <4> QED
        BY <2>2, <3>1, <3>5, <4>1
    <3>6. n = m + 1 \/ n \in 0 .. m
      OBVIOUS
    <3> QED
      BY <3>4, <3>5, <3>6
  <2>4. g = [n \in 0 .. m + 1 |-> g[n]]
    OBVIOUS
  <2> HIDE DEF g
  <2>5. Is(g, m + 1)
    BY <2>3, <2>4
  <2> QED
    BY <2>5
<1> HIDE DEF S
<1>3. \A m \in Nat : m \in S
  BY <1>1, <1>2, InductiveSet
<1> QED
  BY <1>3 DEF S

LEMMA ServedServes ==
    ASSUME NEW start,
           start = [hierarchy |-> start.hierarchy, mshrs |-> start.mshrs, loads |-> start.loads],
           HierarchySound(start.hierarchy), Matched(start.mshrs, start.loads),
           NEW f, f = [n \in 0 .. NUM_MSHRS |-> IF n = 0 THEN start ELSE Service(f[n - 1], n)]
    PROVE  Serviced(start, f[NUM_MSHRS])
<1> DEFINE S == {n \in Nat : n <= NUM_MSHRS => Serviced(start, f[n])}
<1>1. NUM_MSHRS \in Nat
  BY GeometryAssumption
<1>2. \A n \in 0 .. NUM_MSHRS : f[n] = IF n = 0 THEN start ELSE Service(f[n - 1], n)
  OBVIOUS
<1>3. Serviced(start, start)
  BY ReadsNothing DEF Serviced
<1>4. 0 \in S
  <2>1. f[0] = start
    BY <1>1, <1>2
  <2> QED
    BY <1>3, <2>1
<1>5. ASSUME NEW n \in Nat, n \in S PROVE n + 1 \in S
  <2> SUFFICES ASSUME n + 1 <= NUM_MSHRS PROVE Serviced(start, f[n + 1])
    OBVIOUS
  <2>1. n <= NUM_MSHRS /\ n + 1 \in MSHRIndex /\ n + 1 \in 0 .. NUM_MSHRS
        /\ n + 1 # 0 /\ (n + 1) - 1 = n
    BY <1>1 DEF MSHRIndex
  <2>2. Serviced(start, f[n])
    BY <1>5, <2>1
  <2>3. f[n + 1] = Service(f[n], n + 1)
    BY <1>2, <2>1
  <2>4. /\ f[n] = [hierarchy |-> f[n].hierarchy, mshrs |-> f[n].mshrs, loads |-> f[n].loads]
        /\ HierarchySound(f[n].hierarchy) /\ Matched(f[n].mshrs, f[n].loads)
    BY <2>2 DEF Serviced, Reads
  <2> DEFINE x == f[n]
  <2>5. Serviced(x, Service(x, n + 1))
    <3>1. x = [hierarchy |-> x.hierarchy, mshrs |-> x.mshrs, loads |-> x.loads]
          /\ HierarchySound(x.hierarchy) /\ Matched(x.mshrs, x.loads)
      BY <2>4
    <3> HIDE DEF x
    <3> QED
      BY <2>1, <3>1, ServiceServes
  <2> QED
    BY <2>2, <2>3, <2>5, ServicedCompose
<1> HIDE DEF S
<1>6. \A n \in Nat : n \in S
  BY <1>4, <1>5, InductiveSet
<1>7. NUM_MSHRS \in S /\ NUM_MSHRS <= NUM_MSHRS
  BY <1>1, <1>6
<1> QED
  BY <1>7, Zenon DEF S

----------------------------------------------------------------------------
(* The invariant.                                                          *)

OtherTypes ==
    /\ latest \in [Blocks -> Data]
    /\ store \in [pending : BOOLEAN, block : Blocks \cup {0}, value : Data]
    /\ store.pending => store.block \in Blocks
    /\ writes \in Data
    /\ pc_block \in TextBlocks \cup {NoBlock} /\ stalled \in BOOLEAN
    /\ stage \in Stages

MemoryInvariant ==
    /\ HierarchySound(Hierarchy)
    /\ Matched(mshrs, loads)
    /\ OtherTypes
    /\ OnlyInclusionLosesWrites

LEMMA PresentedIsShown == \A b : Presented(b) = Shown(Hierarchy, b)
BY DEF Presented, Shown, Hierarchy

LEMMA BecomesIs ==
    ASSUME NEW g \in HierarchyType, Becomes(g)
    PROVE  Hierarchy' = g
<1>1. g = [l1 |-> g.l1, l2 |-> g.l2, mem |-> g.mem, lost |-> g.lost]
  BY DEF HierarchyType
<1> QED
  BY <1>1 DEF Becomes, Hierarchy

\* Nothing that keeps what is shown disturbs what the reads and the stores see.
LEMMA ReadsKeep ==
    ASSUME MemoryInvariant, NEW g, Reads(Hierarchy, g), Becomes(g), UNCHANGED <<latest, store>>
    PROVE  HierarchySound(Hierarchy)' /\ OnlyInclusionLosesWrites' /\ lost \subseteq lost'
<1>1. Hierarchy' = g /\ lost' = g.lost /\ Hierarchy.lost = lost
  BY BecomesIs DEF Reads, HierarchySound, Becomes, Hierarchy
<1>2. HierarchySound(Hierarchy)'
  BY <1>1 DEF Reads
<1>3. ASSUME NEW b \in Blocks \ lost' PROVE (Presented(b) \in Expected(b))'
  <2>1. b \in Blocks \ lost /\ Shown(g, b) = Shown(Hierarchy, b)
    BY <1>1, <1>3 DEF Reads
  <2>2. Presented(b) \in Expected(b)
    BY <2>1 DEF MemoryInvariant, OnlyInclusionLosesWrites
  <2>3. Presented(b)' = Shown(g, b) /\ Presented(b) = Shown(Hierarchy, b)
    BY <1>1, PresentedIsShown DEF Presented, Shown, Hierarchy
  <2> QED
    BY <2>1, <2>2, <2>3 DEF Expected
<1>4. lost \subseteq lost'
  BY <1>1 DEF Reads
<1> QED
  BY <1>2, <1>3, <1>4 DEF OnlyInclusionLosesWrites

LEMMA NothingKeeps ==
    ASSUME MemoryInvariant, UNCHANGED <<memVars, latest, store>>
    PROVE  HierarchySound(Hierarchy)' /\ OnlyInclusionLosesWrites' /\ lost' = lost
<1>1. Reads(Hierarchy, Hierarchy) /\ Becomes(Hierarchy)
  BY ReadsNothing DEF MemoryInvariant, Becomes, Hierarchy, memVars
<1> QED
  BY <1>1, ReadsKeep DEF memVars

LEMMA CheckReadyServes ==
    ASSUME MemoryInvariant, CheckReady
    PROVE  \E t : /\ Serviced([hierarchy |-> Hierarchy, mshrs |-> mshrs, loads |-> loads], t)
                  /\ Becomes(t.hierarchy) /\ mshrs' = t.mshrs /\ loads' = t.loads
                  /\ stage' = "drain" /\ UNCHANGED <<latest, store, writes, pc_block, stalled>>
<1> DEFINE start == [hierarchy |-> Hierarchy, mshrs |-> mshrs, loads |-> loads]
           F(f) == [n \in 0 .. NUM_MSHRS |-> IF n = 0 THEN start ELSE Service(f[n - 1], n)]
           served == CHOOSE f : f = F(f)
<1>1. /\ Becomes(served[NUM_MSHRS].hierarchy) /\ mshrs' = served[NUM_MSHRS].mshrs
      /\ loads' = served[NUM_MSHRS].loads
      /\ stage' = "drain" /\ UNCHANGED <<latest, store, writes, pc_block, stalled>>
  BY Zenon DEF CheckReady
<1>2. start.hierarchy = Hierarchy /\ start.mshrs = mshrs /\ start.loads = loads
  OBVIOUS
<1>3. start = [hierarchy |-> start.hierarchy, mshrs |-> start.mshrs, loads |-> start.loads]
  OBVIOUS
<1> HIDE DEF start
<1>4. \E f : f = F(f)
  <2>1. NUM_MSHRS \in Nat
    BY GeometryAssumption
  <2>2. \A m \in Nat : \E f : f = [n \in 0 .. m |-> IF n = 0 THEN start ELSE Service(f[n - 1], n)]
    BY ServedExists
  <2> QED
    BY <2>1, <2>2, Zenon
<1>5. served = F(served)
  <2> HIDE DEF F
  <2> QED
    BY <1>4, Zenon
<1> HIDE DEF served
<1>6. Serviced(start, served[NUM_MSHRS])
  BY <1>2, <1>3, <1>5, ServedServes DEF MemoryInvariant
<1> QED
  BY <1>1, <1>6, Zenon DEF start

----------------------------------------------------------------------------
(* Every action keeps the invariant.                                       *)

LEMMA InitSound == Init => MemoryInvariant
<1> SUFFICES ASSUME Init PROVE MemoryInvariant
  OBVIOUS
<1> USE GeometryAssumption
<1>1. ASSUME NEW sets \in Nat \ {0}
      PROVE  Sound(EmptyCache(sets), sets) /\ \A b \in Blocks : ~Has(EmptyCache(sets), b)
  <2> DEFINE c == EmptyCache(sets)
  <2>1. InvalidLine \in Line /\ InvalidLine.valid = FALSE
    BY WaysAreNumbers DEF InvalidLine, Line, Ways
  <2>2. c \in CacheOf(sets) /\ \A i \in 0 .. sets - 1, w \in Ways : c[i][w] = InvalidLine
    BY <2>1 DEF EmptyCache, CacheOf
  <2> HIDE DEF c
  <2>3. Placed(c, sets) /\ Distinct(c, sets)
    BY <2>1, <2>2 DEF Placed, Distinct
  <2>4. ASSUME NEW b \in Blocks PROVE ~Has(c, b)
    <3>1. b % sets \in 0 .. sets - 1
      BY IndexInRange
    <3> QED
      BY <2>1, <2>2, <3>1, HasIs DEF At
  <2> QED
    BY <2>2, <2>3, <2>4 DEF Sound, c
<1>2. /\ Sound(l1, L1_SETS) /\ Sound(l2, L2_SETS)
      /\ \A b \in Blocks : ~Has(l1, b) /\ ~Has(l2, b)
  BY <1>1 DEF Init
<1>3. 0 \in Data /\ mem \in [Blocks -> Data] /\ latest = mem /\ lost = {}
  BY DEF Init, Data
<1>4. HierarchySound(Hierarchy)
  <2>1. Hierarchy.l1 = l1 /\ Hierarchy.l2 = l2 /\ Hierarchy \in HierarchyType
    BY <1>2, <1>3 DEF Hierarchy, HierarchyType, Sound
  <2> QED
    BY <1>2, <2>1 DEF HierarchySound, Coherent
<1>5. Matched(mshrs, loads)
  <2>1. MISS_PENALTY - 1 \in Nat
    OBVIOUS
  <2>2. mshrs \in [MSHRIndex -> MSHRType] /\ \A i \in MSHRIndex : ~mshrs[i].valid
    BY <2>1 DEF Init, MSHRType
  <2>3. loads \in [Loads -> LoadType] /\ \A s \in Loads : loads[s].state = "idle"
    BY <1>3 DEF Init, LoadType
  <2> QED
    BY <2>2, <2>3 DEF Matched
<1>6. OtherTypes
  BY <1>3 DEF Init, OtherTypes, Stages
<1>7. \A b \in Blocks : Presented(b) \in Expected(b)
  BY <1>2, <1>3 DEF Presented, Expected
<1> QED
  BY <1>4, <1>5, <1>6, <1>7 DEF MemoryInvariant, OnlyInclusionLosesWrites

LEMMA NextStoreKeeps ==
    ASSUME MemoryInvariant, NEW b \in Blocks, NextStore(b)
    PROVE  MemoryInvariant'
<1>1. Hierarchy' = Hierarchy /\ UNCHANGED <<mshrs, loads, latest, memVars>> /\ ~store.pending
  BY DEF NextStore, Hierarchy, memVars
<1>2. OtherTypes'
  <2>1. writes + 1 \in Data
    BY GeometryAssumption DEF NextStore, MemoryInvariant, OtherTypes, Data
  <2> QED
    BY <2>1 DEF NextStore, MemoryInvariant, OtherTypes
<1>3. OnlyInclusionLosesWrites'
  <2>1. \A a \in Blocks : Presented(a)' = Presented(a)
    BY <1>1 DEF Presented, Has, HitWays, LineOf, memVars, Index
  <2>2. \A a \in Blocks : Expected(a) = {latest[a]} /\ latest[a] \in Expected(a)'
    BY <1>1 DEF Expected
  <2>3. lost' = lost
    BY <1>1 DEF memVars
  <2> QED
    BY <2>1, <2>2, <2>3 DEF MemoryInvariant, OnlyInclusionLosesWrites
<1> QED
  BY <1>1, <1>2, <1>3 DEF MemoryInvariant

LEMMA DrainStoreKeeps ==
    ASSUME MemoryInvariant, DrainStore
    PROVE  /\ HierarchySound(Hierarchy)' /\ OnlyInclusionLosesWrites'
           /\ latest' \in [Blocks -> Data]
           /\ store' \in [pending : BOOLEAN, block : Blocks \cup {0}, value : Data]
           /\ store'.pending => store'.block \in Blocks
<1> DEFINE b == store.block
           v == store.value
           g == Access(Hierarchy, b, v)
<1>1. /\ b \in Blocks /\ v \in Data /\ v # NoValue /\ v \in Ops
      /\ latest \in [Blocks -> Data] /\ HierarchySound(Hierarchy) /\ store.pending
  BY GeometryAssumption DEF MemoryInvariant, OtherTypes, DrainStore, Data, NoValue, Ops
<1>2. Moves(Hierarchy, g, b, v)
  BY <1>1, AccessMoves
<1>3. /\ Becomes(g)
      /\ store' = [store EXCEPT !.pending = ~Answers(Hierarchy, b)]
      /\ latest' = IF Answers(Hierarchy, b) THEN [latest EXCEPT ![b] = v] ELSE latest
  BY DEF DrainStore
<1> HIDE DEF g
<1>4. Hierarchy' = g /\ lost' = g.lost /\ Hierarchy.lost = lost /\ HierarchySound(g)
  BY <1>2, <1>3, BecomesIs DEF Moves, HierarchySound, Becomes, Hierarchy
<1>5. /\ store' \in [pending : BOOLEAN, block : Blocks \cup {0}, value : Data]
      /\ store'.pending = ~Answers(Hierarchy, b) /\ store'.block = b /\ store'.value = v
  <2>1. store \in [pending : BOOLEAN, block : Blocks \cup {0}, value : Data]
    BY DEF MemoryInvariant, OtherTypes
  <2>2. Answers(Hierarchy, b) \in BOOLEAN
    BY DEF Answers, Has
  <2> QED
    BY <1>3, <2>1, <2>2
<1>6. latest' \in [Blocks -> Data]
  BY <1>1, <1>3
<1>7. ASSUME NEW a \in Blocks \ lost' PROVE (Presented(a) \in Expected(a))'
  <2>1. Presented(a)' = Shown(g, a) /\ Presented(a) = Shown(Hierarchy, a)
    BY <1>4, PresentedIsShown DEF Presented, Shown, Hierarchy
  <2>2. a \in Blocks \ lost /\ Presented(a) \in Expected(a)
    BY <1>2, <1>4, <1>7 DEF Moves, MemoryInvariant, OnlyInclusionLosesWrites
  <2>3. Shown(g, a) = Shown(Hierarchy, a) \/ (a = b /\ Shown(g, a) = v)
    BY <1>2, <1>4, <1>7 DEF Moves
  <2>4. CASE a # b
    <3>1. latest'[a] = latest[a]
      BY <1>1, <1>3, <2>4
    <3> QED
      BY <1>5, <2>1, <2>2, <2>3, <2>4, <3>1 DEF Expected
  <2>5. CASE a = b /\ Answers(Hierarchy, b)
    <3>1. Shown(g, b) = v
      BY <1>1, <1>2, <2>5 DEF Moves, Answers
    <3>2. latest'[b] = v
      BY <1>1, <1>3, <2>5
    <3> QED
      BY <2>1, <2>5, <3>1, <3>2 DEF Expected
  <2>6. CASE a = b /\ ~Answers(Hierarchy, b)
    <3>1. latest' = latest /\ store'.pending
      BY <1>3, <1>5, <2>6
    <3> QED
      BY <1>5, <2>1, <2>2, <2>3, <2>6, <3>1 DEF Expected
  <2> QED
    BY <2>4, <2>5, <2>6
<1>8. OnlyInclusionLosesWrites'
  BY <1>7 DEF OnlyInclusionLosesWrites
<1>9. HierarchySound(Hierarchy)'
  BY <1>4
<1> QED
  BY <1>1, <1>5, <1>6, <1>8, <1>9

LEMMA DrainingStagesKeep ==
    ASSUME MemoryInvariant, CommitStage \/ MemoryStage
    PROVE  MemoryInvariant'
<1>1. UNCHANGED <<writes, mshrs, loads, pc_block, stalled>> /\ stage' \in Stages
  BY DEF CommitStage, MemoryStage, MemoryInvariant, OtherTypes, Stages
<1>2. DrainStore \/ UNCHANGED <<memVars, latest, store>>
  BY DEF CommitStage, MemoryStage
<1>3. /\ HierarchySound(Hierarchy)' /\ OnlyInclusionLosesWrites'
      /\ latest' \in [Blocks -> Data]
      /\ store' \in [pending : BOOLEAN, block : Blocks \cup {0}, value : Data]
      /\ store'.pending => store'.block \in Blocks
  <2>1. CASE DrainStore
    BY <2>1, DrainStoreKeeps
  <2>2. CASE UNCHANGED <<memVars, latest, store>>
    BY <2>2, NothingKeeps DEF MemoryInvariant, OtherTypes
  <2> QED
    BY <1>2, <2>1, <2>2
<1> QED
  BY <1>1, <1>3 DEF MemoryInvariant, OtherTypes

\* What became of the loads in a step: an answer is what its block showed.
LoadsAnswered ==
    \A s \in Loads : \/ loads'[s] = loads[s]
                     \/ loads'[s].state # "answered"
                     \/ /\ loads[s].state # "squashed" /\ loads'[s].block \in Blocks
                        /\ loads'[s].block \notin lost' =>
                              loads'[s].value = Presented(loads'[s].block)

LEMMA CheckReadyKeeps ==
    ASSUME MemoryInvariant, CheckReady
    PROVE  MemoryInvariant' /\ LoadsAnswered /\ lost \subseteq lost'
<1>1. PICK t : /\ Serviced([hierarchy |-> Hierarchy, mshrs |-> mshrs, loads |-> loads], t)
               /\ Becomes(t.hierarchy) /\ mshrs' = t.mshrs /\ loads' = t.loads
               /\ stage' = "drain" /\ UNCHANGED <<latest, store, writes, pc_block, stalled>>
  BY CheckReadyServes
<1>2. Reads(Hierarchy, t.hierarchy) /\ Matched(mshrs', loads')
  BY <1>1 DEF Serviced
<1>3. HierarchySound(Hierarchy)' /\ OnlyInclusionLosesWrites' /\ lost \subseteq lost'
  BY <1>1, <1>2, ReadsKeep
<1>4. OtherTypes'
  BY <1>1 DEF MemoryInvariant, OtherTypes, Stages
<1>5. LoadsAnswered
  <2> SUFFICES ASSUME NEW s \in Loads, loads'[s] # loads[s]
               PROVE  /\ loads[s].state # "squashed" /\ loads'[s].block \in Blocks
                      /\ loads'[s].block \notin lost' =>
                            loads'[s].value = Presented(loads'[s].block)
    BY DEF LoadsAnswered
  <2>1. Answered(loads[s], loads'[s], Hierarchy, t.hierarchy.lost)
    BY <1>1 DEF Serviced
  <2>2. t.hierarchy.lost = lost'
    BY <1>1 DEF Becomes
  <2> QED
    BY <2>1, <2>2, PresentedIsShown DEF Answered
<1> QED
  BY <1>2, <1>3, <1>4, <1>5 DEF MemoryInvariant

LEMMA AllocateKeeps ==
    ASSUME MemoryInvariant, NEW s \in Loads, NEW b \in Blocks,
           loads[s].state # "waiting", AllocateMSHR(s, b),
           loads' = [loads EXCEPT ![s] = [state |-> "waiting", block |-> b, value |-> 0]]
    PROVE  Matched(mshrs, loads)'
<1> DEFINE new == [state |-> "waiting", block |-> b, value |-> 0]
<1>1. /\ mshrs \in [MSHRIndex -> MSHRType] /\ loads \in [Loads -> LoadType]
      /\ \A i \in MSHRIndex : mshrs[i].valid => InUse(mshrs[i], loads)
      /\ \A i, j \in MSHRIndex : mshrs[i].valid /\ mshrs[j].valid
                                   /\ mshrs[i].block = mshrs[j].block => i = j
      /\ \A l \in Loads : loads[l].state = "waiting" => AwaitedIn(mshrs, loads, l)
  BY DEF MemoryInvariant, Matched
<1>2. /\ new \in LoadType /\ new.state = "waiting" /\ new.block = b
      /\ loads' \in [Loads -> LoadType] /\ loads'[s] = new
      /\ \A l \in Loads : l # s => loads'[l] = loads[l]
  <2>1. 0 \in Data
    BY GeometryAssumption DEF Data
  <2>2. new \in LoadType
    BY <2>1 DEF LoadType
  <2> QED
    BY <1>1, <2>2
<1> HIDE DEF new
<1>3. \A i \in MSHRIndex : mshrs[i].valid => s \notin mshrs[i].targets
  BY <1>1 DEF InUse
<1>4. PICK i \in MSHRIndex, m \in MSHRType :
         /\ mshrs' = [mshrs EXCEPT ![i] = m]
         /\ m.valid /\ m.block = b /\ ~m.fill_pending /\ s \in m.targets
         /\ m.targets \subseteq {s} \cup (IF mshrs[i].valid THEN mshrs[i].targets ELSE {})
         /\ mshrs[i].valid => mshrs[i].block = b /\ mshrs[i].targets \subseteq m.targets
         /\ \A j \in MSHRIndex : mshrs[j].valid /\ mshrs[j].block = b => j = i
  <2>1. MSHRIndex \subseteq Nat /\ Merging(b) \subseteq MSHRIndex /\ Open \subseteq MSHRIndex
    BY DEF MSHRIndex, Merging, Open
  <2>2. CASE Merging(b) # {}
    <3> DEFINE i == FirstWay(Merging(b))
               m == [mshrs[i] EXCEPT !.targets = @ \cup {s}]
    <3>1. i \in Merging(b) /\ i \in MSHRIndex
      BY <2>1, <2>2, FirstWayIsIn
    <3>2. mshrs[i].valid /\ mshrs[i].block = b
      BY <3>1 DEF Merging
    <3>3. mshrs' = [mshrs EXCEPT ![i].targets = @ \cup {s}]
      BY <2>2 DEF AllocateMSHR, MergeTarget
    <3> HIDE DEF i
    <3>4. mshrs' = [mshrs EXCEPT ![i] = m]
      BY <1>1, <3>1, <3>3
    <3>5. /\ m \in MSHRType /\ m.valid = mshrs[i].valid /\ m.block = mshrs[i].block
          /\ m.fill_pending = mshrs[i].fill_pending /\ m.targets = mshrs[i].targets \cup {s}
      <4>1. mshrs[i] \in MSHRType
        BY <1>1, <3>1
      <4> QED
        BY <4>1 DEF MSHRType
    <3> HIDE DEF m
    <3>6. ~mshrs[i].fill_pending /\ \A j \in MSHRIndex : mshrs[j].valid /\ mshrs[j].block = b => j = i
      BY <1>1, <3>1, <3>2 DEF InUse
    <3> QED
      BY <3>1, <3>2, <3>4, <3>5, <3>6
  <2>3. CASE Merging(b) = {}
    <3> DEFINE i == FirstWay(Open)
               m == [valid |-> TRUE, block |-> b, countdown |-> MISS_PENALTY - 1,
                     fill_pending |-> FALSE, targets |-> {s}]
    <3>1. Open # {} /\ mshrs' = [mshrs EXCEPT ![i] = m]
      BY <2>3 DEF AllocateMSHR
    <3>2. i \in Open /\ i \in MSHRIndex
      BY <2>1, <3>1, FirstWayIsIn
    <3>3. ~mshrs[i].valid
      BY <3>2 DEF Open
    <3>4. m \in MSHRType /\ m.valid /\ m.block = b /\ ~m.fill_pending /\ m.targets = {s}
      BY GeometryAssumption DEF MSHRType
    <3>5. \A j \in MSHRIndex : ~(mshrs[j].valid /\ mshrs[j].block = b)
      BY <2>3 DEF Merging
    <3> HIDE DEF i, m
    <3> QED
      BY <3>1, <3>2, <3>3, <3>4, <3>5
  <2> QED
    BY <2>2, <2>3
<1>5. /\ mshrs' \in [MSHRIndex -> MSHRType] /\ mshrs'[i] = m
      /\ \A j \in MSHRIndex : j # i => mshrs'[j] = mshrs[j]
  BY <1>1, <1>4
<1>6. ASSUME NEW j \in MSHRIndex, mshrs'[j].valid PROVE InUse(mshrs'[j], loads')
  <2>1. CASE j = i
    <3>1. ASSUME NEW l \in m.targets, l # s PROVE loads'[l].state = "waiting" /\ loads'[l].block = b
      <4>1. mshrs[i].valid /\ l \in mshrs[i].targets /\ mshrs[i].block = b
        BY <1>4, <3>1
      <4>2. l \in Loads
        BY <1>4, <3>1 DEF MSHRType
      <4> QED
        BY <1>1, <1>2, <3>1, <4>1, <4>2 DEF InUse
    <3> QED
      BY <1>2, <1>4, <1>5, <2>1, <3>1 DEF InUse
  <2>2. CASE j # i
    <3>1. mshrs'[j] = mshrs[j] /\ InUse(mshrs[j], loads) /\ s \notin mshrs[j].targets
          /\ mshrs[j].targets \subseteq Loads
      BY <1>1, <1>3, <1>5, <1>6, <2>2 DEF MSHRType
    <3>2. \A l \in mshrs[j].targets : loads'[l] = loads[l]
      BY <1>2, <3>1
    <3> QED
      BY <3>1, <3>2 DEF InUse
  <2> QED
    BY <2>1, <2>2
<1>7. \A j, k \in MSHRIndex : mshrs'[j].valid /\ mshrs'[k].valid
                                /\ mshrs'[j].block = mshrs'[k].block => j = k
  BY <1>1, <1>4, <1>5
<1>8. ASSUME NEW l \in Loads, loads'[l].state = "waiting" PROVE AwaitedIn(mshrs', loads', l)
  <2>1. CASE l = s
    BY <1>2, <1>4, <1>5, <2>1 DEF AwaitedIn
  <2>2. CASE l # s
    <3>1. loads'[l] = loads[l]
      BY <1>2, <2>2
    <3>2. PICK j \in MSHRIndex : mshrs[j].valid /\ mshrs[j].block = loads[l].block /\ l \in mshrs[j].targets
      BY <1>1, <1>8, <3>1 DEF AwaitedIn
    <3>3. CASE j = i
      BY <1>4, <1>5, <3>1, <3>2, <3>3 DEF AwaitedIn
    <3>4. CASE j # i
      BY <1>5, <3>1, <3>2, <3>4 DEF AwaitedIn
    <3> QED
      BY <3>3, <3>4
  <2> QED
    BY <2>1, <2>2
<1> QED
  BY <1>2, <1>5, <1>6, <1>7, <1>8 DEF Matched

\* A load that waits in no MSHR, and will not, may change.
LEMMA UnawaitedKeeps ==
    ASSUME Matched(mshrs, loads), NEW s \in Loads, NEW new \in LoadType,
           loads[s].state # "waiting", new.state # "waiting",
           mshrs' = mshrs, loads' \in [Loads -> LoadType], loads'[s] = new,
           \A l \in Loads : l # s => loads'[l] = loads[l]
    PROVE  Matched(mshrs, loads)'
<1>1. ASSUME NEW i \in MSHRIndex, mshrs[i].valid PROVE InUse(mshrs[i], loads')
  <2>1. InUse(mshrs[i], loads) /\ mshrs[i].targets \subseteq Loads
    BY <1>1 DEF Matched, MSHRType
  <2>2. s \notin mshrs[i].targets
    BY <2>1 DEF InUse
  <2>3. \A l \in mshrs[i].targets : loads'[l] = loads[l]
    BY <2>1, <2>2
  <2> QED
    BY <2>1, <2>3 DEF InUse
<1>2. ASSUME NEW l \in Loads, loads'[l].state = "waiting" PROVE AwaitedIn(mshrs, loads', l)
  <2>1. l # s
    BY <1>2
  <2>2. loads'[l] = loads[l]
    BY <2>1
  <2>3. AwaitedIn(mshrs, loads, l)
    BY <1>2, <2>2 DEF Matched
  <2> QED
    BY <2>2, <2>3 DEF AwaitedIn
<1> QED
  BY <1>1, <1>2 DEF Matched

LEMMA ExecuteLoadKeeps ==
    ASSUME MemoryInvariant, NEW s \in Loads, NEW b \in Blocks, ExecuteLoad(s, b)
    PROVE  MemoryInvariant' /\ LoadsAnswered /\ lost' = lost
<1>1. /\ loads[s].state \in {"idle", "refused"} /\ stage = "execute"
      /\ UNCHANGED <<l2, mem, lost, latest, store, writes, pc_block, stalled, stage>>
  BY DEF ExecuteLoad, Retries
<1>2. OtherTypes'
  BY <1>1 DEF MemoryInvariant, OtherTypes
<1>3. mshrs \in [MSHRIndex -> MSHRType] /\ loads \in [Loads -> LoadType]
  BY DEF MemoryInvariant, Matched
<1>4. ASSUME Has(l1, b), mshrs' = mshrs
      PROVE  MemoryInvariant' /\ LoadsAnswered /\ lost' = lost
  <2> DEFINE word == Word(Hierarchy, b)
             new == [state |-> "answered", block |-> b, value |-> word]
  <2>1. l1' = Touch(l1, b) /\ loads' = [loads EXCEPT ![s] = new]
    BY <1>4, <1>1 DEF ExecuteLoad, Refused
  <2>2. Sound(l1, L1_SETS) /\ L1_SETS \in Nat \ {0}
    BY GeometryAssumption DEF MemoryInvariant, HierarchySound, Hierarchy
  <2>3. l1' = l1
    BY <1>4, <2>1, <2>2, TouchChangesNothing
  <2>4. HierarchySound(Hierarchy)' /\ OnlyInclusionLosesWrites' /\ lost' = lost
    BY <1>1, <2>3, NothingKeeps DEF memVars
  <2>5. word = Presented(b) /\ word \in Data
    <3>1. word = Shown(Hierarchy, b)
      BY <1>4 DEF Word, Shown, Hierarchy
    <3> QED
      BY <3>1, PresentedIsShown, ShownIsData DEF MemoryInvariant
  <2> HIDE DEF word
  <2>6. new \in LoadType /\ new.state = "answered" /\ new.block = b /\ new.value = word
    BY <2>5 DEF LoadType
  <2> HIDE DEF new
  <2>7. /\ loads' \in [Loads -> LoadType] /\ loads'[s] = new
        /\ \A l \in Loads : l # s => loads'[l] = loads[l]
    BY <1>3, <2>1, <2>6
  <2>8. Matched(mshrs, loads)'
    BY <1>1, <1>4, <2>6, <2>7, UnawaitedKeeps DEF MemoryInvariant
  <2>9. LoadsAnswered
    BY <1>1, <2>5, <2>6, <2>7 DEF LoadsAnswered
  <2> QED
    BY <1>2, <2>4, <2>8, <2>9 DEF MemoryInvariant
<1>5. ASSUME AllocateMSHR(s, b), l1' = l1,
             loads' = [loads EXCEPT ![s] = [state |-> "waiting", block |-> b, value |-> 0]]
      PROVE  MemoryInvariant' /\ LoadsAnswered /\ lost' = lost
  <2>1. /\ AllocateMSHR(s, b) /\ l1' = l1
        /\ loads' = [loads EXCEPT ![s] = [state |-> "waiting", block |-> b, value |-> 0]]
    BY <1>5
  <2>2. Matched(mshrs, loads)'
    BY <1>1, <2>1, AllocateKeeps
  <2>3. HierarchySound(Hierarchy)' /\ OnlyInclusionLosesWrites' /\ lost' = lost
    BY <1>1, <2>1, NothingKeeps DEF memVars
  <2>4. LoadsAnswered
    <3>1. \A l \in Loads : loads'[l] = loads[l] \/ loads'[l].state = "waiting"
      BY <1>3, <2>1
    <3> QED
      BY <3>1 DEF LoadsAnswered
  <2> QED
    BY <1>2, <2>2, <2>3, <2>4 DEF MemoryInvariant
<1>6. ASSUME mshrs' = mshrs, l1' = l1,
             loads' = [loads EXCEPT ![s] = [state |-> "refused", block |-> b, value |-> 0]]
      PROVE  MemoryInvariant' /\ LoadsAnswered /\ lost' = lost
  <2> DEFINE new == [state |-> "refused", block |-> b, value |-> 0]
  <2>1. new \in LoadType /\ new.state = "refused"
    <3>1. 0 \in Data
      BY GeometryAssumption DEF Data
    <3> QED
      BY <3>1 DEF LoadType
  <2>2. loads' = [loads EXCEPT ![s] = new]
    BY <1>6
  <2> HIDE DEF new
  <2>3. /\ loads' \in [Loads -> LoadType] /\ loads'[s] = new
        /\ \A l \in Loads : l # s => loads'[l] = loads[l]
    BY <1>3, <2>1, <2>2
  <2>4. Matched(mshrs, loads)'
    BY <1>1, <1>6, <2>1, <2>3, UnawaitedKeeps DEF MemoryInvariant
  <2>5. HierarchySound(Hierarchy)' /\ OnlyInclusionLosesWrites' /\ lost' = lost
    BY <1>1, <1>6, NothingKeeps DEF memVars
  <2>6. LoadsAnswered
    BY <2>1, <2>3 DEF LoadsAnswered
  <2> QED
    BY <1>2, <2>4, <2>5, <2>6 DEF MemoryInvariant
<1> QED
  BY <1>4, <1>5, <1>6 DEF ExecuteLoad

LEMMA SquashKeeps ==
    ASSUME MemoryInvariant, NEW branch_seq \in Loads, NEW target \in TextBlocks,
           Squash(branch_seq, target)
    PROVE  MemoryInvariant' /\ LoadsAnswered /\ lost' = lost
<1>1. /\ mshrs' = [i \in MSHRIndex |-> SquashMSHR(mshrs[i], branch_seq)]
      /\ loads' = [s \in Loads |-> IF s > branch_seq /\ loads[s].state # "answered"
                                     THEN [loads[s] EXCEPT !.state = "squashed"] ELSE loads[s]]
      /\ pc_block' = target /\ stage' = "fetch"
      /\ UNCHANGED <<memVars, latest, store, writes, stalled>>
  BY DEF Squash
<1>2. mshrs \in [MSHRIndex -> MSHRType] /\ loads \in [Loads -> LoadType]
  BY DEF MemoryInvariant, Matched
<1>3. /\ loads' \in [Loads -> LoadType]
      /\ \A s \in Loads : /\ loads'[s] = loads[s] \/ loads'[s].state = "squashed"
                          /\ ~(s > branch_seq) => loads'[s] = loads[s]
                          /\ loads[s].state = "waiting" /\ s > branch_seq
                                => loads'[s].state = "squashed"
  <2>1. \A s \in Loads : /\ loads[s] \in LoadType
                         /\ [loads[s] EXCEPT !.state = "squashed"] \in LoadType
                         /\ [loads[s] EXCEPT !.state = "squashed"].state = "squashed"
    BY <1>2 DEF LoadType
  <2> QED
    BY <1>1, <2>1
<1>4. ASSUME NEW i \in MSHRIndex
      PROVE  LET m == mshrs[i]
                 n == mshrs'[i]
                 left == {s \in m.targets : ~(s > branch_seq)}
             IN /\ n \in MSHRType
                /\ n.valid <=> m.valid /\ left # {}
                /\ n.valid => /\ n.block = m.block /\ n.fill_pending = m.fill_pending
                              /\ n.targets = left
  <2> DEFINE m == mshrs[i]
             left == {s \in m.targets : ~(s > branch_seq)}
  <2>1. m \in MSHRType /\ mshrs'[i] = SquashMSHR(m, branch_seq)
    BY <1>1, <1>2
  <2>2. m.targets \ Dropped(m, branch_seq) = left
    BY DEF Dropped
  <2>3. SquashMSHR(m, branch_seq) =
          IF ~m.valid THEN m
          ELSE IF left = {} THEN [m EXCEPT !.valid = FALSE, !.fill_pending = FALSE, !.targets = {}]
          ELSE [m EXCEPT !.targets = left]
    BY <2>2 DEF SquashMSHR
  <2>4. left \in SUBSET Loads
    BY <2>1 DEF MSHRType
  <2> HIDE DEF left, m
  <2>5. LET n == SquashMSHR(m, branch_seq)
        IN /\ n \in MSHRType
           /\ n.valid <=> m.valid /\ left # {}
           /\ n.valid => n.block = m.block /\ n.fill_pending = m.fill_pending /\ n.targets = left
    <3>1. CASE ~m.valid
      BY <2>1, <2>3, <3>1
    <3>2. CASE m.valid /\ left = {}
      BY <2>1, <2>3, <3>2 DEF MSHRType
    <3>3. CASE m.valid /\ left # {}
      BY <2>1, <2>3, <2>4, <3>3 DEF MSHRType
    <3> QED
      BY <3>1, <3>2, <3>3
  <2> QED
    BY <2>1, <2>5 DEF left, m
<1>5. Matched(mshrs, loads)'
  <2>1. mshrs' \in [MSHRIndex -> MSHRType]
    <3>1. \A i \in MSHRIndex : mshrs'[i] \in MSHRType
      BY <1>4
    <3> QED
      BY <1>1, <3>1
  <2>2. ASSUME NEW i \in MSHRIndex, mshrs'[i].valid PROVE InUse(mshrs'[i], loads')
    <3>1. /\ mshrs[i].valid /\ InUse(mshrs[i], loads)
          /\ mshrs'[i].block = mshrs[i].block /\ mshrs'[i].fill_pending = mshrs[i].fill_pending
          /\ mshrs'[i].targets = {s \in mshrs[i].targets : ~(s > branch_seq)}
          /\ mshrs'[i].targets # {}
      BY <1>4, <2>2 DEF MemoryInvariant, Matched
    <3>2. mshrs[i].targets \subseteq Loads
      BY <1>2 DEF MSHRType
    <3>3. \A s \in mshrs'[i].targets : loads'[s] = loads[s] /\ s \in mshrs[i].targets
      BY <1>3, <3>1, <3>2
    <3> QED
      BY <3>1, <3>3 DEF InUse
  <2>3. ASSUME NEW i \in MSHRIndex, NEW j \in MSHRIndex, mshrs'[i].valid, mshrs'[j].valid,
               mshrs'[i].block = mshrs'[j].block
        PROVE  i = j
    <3>1. mshrs[i].valid /\ mshrs[j].valid /\ mshrs[i].block = mshrs[j].block
      BY <1>4, <2>3
    <3> QED
      BY <3>1 DEF MemoryInvariant, Matched
  <2>4. ASSUME NEW s \in Loads, loads'[s].state = "waiting" PROVE AwaitedIn(mshrs', loads', s)
    <3>1. loads'[s] = loads[s] /\ ~(s > branch_seq)
      BY <1>3, <2>4
    <3>2. PICK i \in MSHRIndex : mshrs[i].valid /\ mshrs[i].block = loads[s].block /\ s \in mshrs[i].targets
      BY <2>4, <3>1 DEF MemoryInvariant, Matched, AwaitedIn
    <3>3. s \in {l \in mshrs[i].targets : ~(l > branch_seq)}
      BY <3>1, <3>2
    <3>4. mshrs'[i].valid
      BY <1>4, <3>2, <3>3
    <3> QED
      BY <1>4, <3>1, <3>2, <3>3, <3>4 DEF AwaitedIn
  <2> QED
    BY <1>3, <2>1, <2>2, <2>3, <2>4 DEF Matched
<1>6. HierarchySound(Hierarchy)' /\ OnlyInclusionLosesWrites' /\ lost' = lost
  BY <1>1, NothingKeeps
<1>7. OtherTypes'
  BY <1>1 DEF MemoryInvariant, OtherTypes, Stages
<1>8. LoadsAnswered
  BY <1>3 DEF LoadsAnswered
<1> QED
  BY <1>5, <1>6, <1>7, <1>8 DEF MemoryInvariant

LEMMA ExecuteStageKeeps ==
    ASSUME MemoryInvariant, ExecuteStage
    PROVE  MemoryInvariant'
<1>1. UNCHANGED <<memVars, latest, store, writes, mshrs, loads, pc_block, stalled>>
      /\ stage' \in Stages
  BY DEF ExecuteStage, Stages
<1>2. HierarchySound(Hierarchy)' /\ OnlyInclusionLosesWrites'
  BY <1>1, NothingKeeps
<1> QED
  BY <1>1, <1>2 DEF MemoryInvariant, OtherTypes

LEMMA FetchStageKeeps ==
    ASSUME MemoryInvariant, FetchStage
    PROVE  MemoryInvariant'
<1> DEFINE first == Access(Hierarchy, pc_block, NoValue)
<1>1. stage' \in Stages /\ UNCHANGED <<latest, store, writes, mshrs, loads>>
  BY DEF FetchStage, Stages
<1>2. stalled' \in BOOLEAN /\ pc_block' \in TextBlocks \cup {NoBlock}
  BY DEF FetchStage, MemoryInvariant, OtherTypes
<1>3. ASSUME pc_block # NoBlock PROVE pc_block \in Blocks /\ Reads(Hierarchy, first)
  <2>1. pc_block \in Blocks
    BY <1>3, GeometryAssumption DEF MemoryInvariant, OtherTypes
  <2> QED
    BY <2>1, AccessReads DEF MemoryInvariant
<1>4. UNCHANGED memVars \/ \E g : Reads(Hierarchy, g) /\ Becomes(g)
  <2>1. CASE pc_block # NoBlock /\ Becomes(first)
    BY <1>3, <2>1
  <2>2. CASE pc_block # NoBlock /\ pc_block' \in TextBlocks /\ Becomes(Access(first, pc_block', NoValue))
    <3>1. pc_block' \in Blocks /\ HierarchySound(first)
      BY <1>3, <2>2, GeometryAssumption DEF Reads
    <3>2. Reads(first, Access(first, pc_block', NoValue))
      BY <3>1, AccessReads
    <3> QED
      BY <1>3, <2>2, <3>2, ReadsCompose
  <2>3. UNCHANGED memVars \/ (pc_block # NoBlock /\ Becomes(first))
        \/ (pc_block # NoBlock /\ pc_block' \in TextBlocks /\ Becomes(Access(first, pc_block', NoValue)))
    BY Zenon DEF FetchStage
  <2> QED
    BY <2>1, <2>2, <2>3
<1>5. HierarchySound(Hierarchy)' /\ OnlyInclusionLosesWrites'
  BY <1>1, <1>4, ReadsKeep, NothingKeeps
<1> QED
  BY <1>1, <1>2, <1>5 DEF MemoryInvariant, OtherTypes

LEMMA StutterKeeps ==
    ASSUME MemoryInvariant, UNCHANGED vars
    PROVE  MemoryInvariant'
<1>1. UNCHANGED <<memVars, latest, store, writes, mshrs, loads, pc_block, stalled, stage>>
  BY DEF vars
<1>2. HierarchySound(Hierarchy)' /\ OnlyInclusionLosesWrites'
  BY <1>1, NothingKeeps
<1> QED
  BY <1>1, <1>2 DEF MemoryInvariant, OtherTypes

LEMMA NextKeeps ==
    ASSUME MemoryInvariant, [Next]_vars
    PROVE  MemoryInvariant'
<1>1. CASE UNCHANGED vars
  BY <1>1, StutterKeeps
<1>2. CASE \E b \in Blocks : NextStore(b)
  BY <1>2, NextStoreKeeps
<1>3. CASE CommitStage \/ MemoryStage
  BY <1>3, DrainingStagesKeep
<1>4. CASE CheckReady
  BY <1>4, CheckReadyKeeps
<1>5. CASE \E s \in Loads, b \in Blocks : ExecuteLoad(s, b)
  BY <1>5, ExecuteLoadKeeps
<1>6. CASE \E s \in Loads, b \in TextBlocks : Squash(s, b)
  BY <1>6, SquashKeeps
<1>7. CASE ExecuteStage
  BY <1>7, ExecuteStageKeeps
<1>8. CASE FetchStage
  BY <1>8, FetchStageKeeps
<1> QED
  BY <1>1, <1>2, <1>3, <1>4, <1>5, <1>6, <1>7, <1>8, Zenon DEF Next

----------------------------------------------------------------------------
(* What follows.                                                           *)

\* The invariant: both caches are sound, no level disagrees with the one below
\* about a clean line, the MSHRs and the waiting loads name each other, and
\* blocks that no eviction lost show the last store to them.
THEOREM MemoryTracked == Spec => []MemoryInvariant
<1>1. Init => MemoryInvariant
  BY InitSound
<1>2. MemoryInvariant /\ [Next]_vars => MemoryInvariant'
  BY NextKeeps
<1> QED
  BY <1>1, <1>2, PTL DEF Spec

\* Caches, MSHRs, loads and the store under way keep their types, for every
\* geometry, number of MSHRs and miss penalty.
THEOREM MemoryTypeCorrect == Spec => []TypeOK
<1>1. MemoryInvariant => TypeOK
  <2> SUFFICES ASSUME MemoryInvariant PROVE TypeOK
    OBVIOUS
  <2>1. /\ l1 \in CacheOf(L1_SETS) /\ l2 \in CacheOf(L2_SETS)
        /\ mem \in [Blocks -> Data] /\ lost \subseteq Blocks
    BY DEF MemoryInvariant, HierarchySound, HierarchyType, Hierarchy
  <2>2. mshrs \in [MSHRIndex -> MSHRType] /\ loads \in [Loads -> LoadType]
    BY DEF MemoryInvariant, Matched
  <2> QED
    BY <2>1, <2>2 DEF TypeOK, MemoryInvariant, OtherTypes, MSHRType, LoadType, Data
<1> QED
  BY <1>1, MemoryTracked, PTL

\* The hierarchy of memory_ooo.cpp is inclusive, and no set holds a block twice:
\* writeBackLine always finds the line it writes to, whatever loads, stores and
\* fetch bring in and evict.
THEOREM HierarchyIsInclusive == Spec => []Inclusive
<1>1. MemoryInvariant => Inclusive
  <2> SUFFICES ASSUME MemoryInvariant PROVE Inclusive
    OBVIOUS
  <2>1. Sound(l1, L1_SETS) /\ Sound(l2, L2_SETS) /\ \A b \in Blocks : Has(l1, b) => Has(l2, b)
    BY DEF MemoryInvariant, HierarchySound, Coherent, Hierarchy
  <2>2. ASSUME NEW sets \in Nat \ {0}, NEW c, Sound(c, sets), NEW b \in Blocks
        PROVE  Cardinality(HitWays(c, b)) <= 1
    <3>1. CASE Has(c, b)
      <4>1. PICK w \in Ways : HitWays(c, b) = {w}
        BY <2>2, <3>1, LineHeld
      <4>2. Cardinality({w}) = 1
        BY FS_Singleton
      <4> QED
        BY <4>1, <4>2
    <3>2. CASE ~Has(c, b)
      BY <3>2, FS_EmptySet DEF Has
    <3> QED
      BY <3>1, <3>2
  <2>3. L1_SETS \in Nat \ {0} /\ L2_SETS \in Nat \ {0}
    BY GeometryAssumption
  <2> QED
    BY <2>1, <2>2, <2>3 DEF Inclusive
<1> QED
  BY <1>1, MemoryTracked, PTL

\* replace gives every new line the bits of the most recently used one, so that
\* updateReplacementBits never changes any, and the victim of a full set is
\* always its first way.
THEOREM ReplacementIsBlind == Spec => []ReplacementOrdersNothing
<1>1. MemoryInvariant => ReplacementOrdersNothing
  <2> SUFFICES ASSUME MemoryInvariant PROVE ReplacementOrdersNothing
    OBVIOUS
  <2>1. Sound(l1, L1_SETS) /\ Sound(l2, L2_SETS)
    BY DEF MemoryInvariant, HierarchySound, Hierarchy
  <2>2. DOMAIN l1 = 0 .. L1_SETS - 1 /\ DOMAIN l2 = 0 .. L2_SETS - 1
    BY <2>1 DEF Sound, CacheOf
  <2> QED
    BY <2>1, <2>2 DEF ReplacementOrdersNothing, Sound, Placed
<1> QED
  BY <1>1, MemoryTracked, PTL

\* Every load that waits has its MSHR and every MSHR in use its loads, and the
\* four accesses of checkReady always answer: fill_pending is never left set.
THEOREM EveryWaitHasItsMSHR == Spec => []MSHRsMatchLoads
<1>1. MemoryInvariant => MSHRsMatchLoads
  BY DEF MemoryInvariant, Matched, InUse, AwaitedIn, MSHRsMatchLoads
<1> QED
  BY <1>1, MemoryTracked, PTL

\* But for the lines that L2 evicts while L1 holds them dirty, the caches are
\* invisible: a block read at any time shows the last store to it.
THEOREM CachesAreInvisible == Spec => []OnlyInclusionLosesWrites
<1>1. MemoryInvariant => OnlyInclusionLosesWrites
  BY DEF MemoryInvariant
<1> QED
  BY <1>1, MemoryTracked, PTL

\* A load is answered, from L1 or by checkReady after other fills of the same
\* cycle, with what a store last left in its block, and never once squashed.
THEOREM LoadsGetCurrentWords == Spec => AnswersAreCurrent
<1> DEFINE Current ==
      \A s \in Loads :
         loads[s].state # "answered" /\ loads'[s].state = "answered" =>
            /\ loads[s].state # "squashed"
            /\ loads'[s].block \notin lost' => loads'[s].value \in Expected(loads'[s].block)
<1>1. ASSUME MemoryInvariant, LoadsAnswered, lost \subseteq lost' PROVE Current
  <2> SUFFICES ASSUME NEW s \in Loads, loads[s].state # "answered", loads'[s].state = "answered"
               PROVE  /\ loads[s].state # "squashed"
                      /\ loads'[s].block \notin lost' => loads'[s].value \in Expected(loads'[s].block)
    OBVIOUS
  <2>1. /\ loads[s].state # "squashed" /\ loads'[s].block \in Blocks
        /\ loads'[s].block \notin lost' => loads'[s].value = Presented(loads'[s].block)
    BY <1>1 DEF LoadsAnswered
  <2> QED
    BY <1>1, <2>1 DEF MemoryInvariant, OnlyInclusionLosesWrites
<1>2. ASSUME MemoryInvariant, [Next]_vars PROVE [Current]_vars
  <2>1. CASE UNCHANGED vars
    BY <2>1
  <2>2. CASE (\E b \in Blocks : NextStore(b)) \/ CommitStage \/ MemoryStage \/ ExecuteStage \/ FetchStage
    <3>1. loads' = loads
      BY <2>2 DEF NextStore, CommitStage, MemoryStage, ExecuteStage, FetchStage
    <3> QED
      BY <3>1
  <2>3. CASE CheckReady
    BY <1>1, <1>2, <2>3, CheckReadyKeeps
  <2>4. CASE \E s \in Loads, b \in Blocks : ExecuteLoad(s, b)
    BY <1>1, <1>2, <2>4, ExecuteLoadKeeps
  <2>5. CASE \E s \in Loads, b \in TextBlocks : Squash(s, b)
    BY <1>1, <1>2, <2>5, SquashKeeps
  <2> QED
    BY <1>2, <2>1, <2>2, <2>3, <2>4, <2>5, Zenon DEF Next
<1>3. AnswersAreCurrent <=> [][Current]_vars
  BY DEF AnswersAreCurrent
<1> HIDE DEF Current
<1> QED
  BY <1>2, <1>3, MemoryTracked, PTL DEF Spec
=============================================================================
