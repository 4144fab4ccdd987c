------------------------- MODULE LoadStoreQueueProofs -------------------------
(***************************************************************************)
(* Proofs about LoadStoreQueue: that the two circular queues follow the    *)
(* window, whatever their sizes, and what follows for memory, for loads    *)
(* and for stores into the text (StoresIntoText).                          *)
(***************************************************************************)
EXTENDS StoresIntoText, FiniteSetTheorems, SequenceTheorems, WellFoundedInduction, TLAPS

----------------------------------------------------------------------------
(* The youngest and the oldest of a set of positions.                      *)

LEMMA OldestIsIn ==
    ASSUME NEW S \in SUBSET Nat, S # {}
    PROVE  Oldest(S) \in S /\ \A j \in S : Oldest(S) <= j
<1>1. PICK m \in S : \A k \in S : <<k, m>> \notin OpToRel(<, Nat)
  BY NatLessThanWellFounded, WFMin, Zenon
<1>2. \A k \in S : ~(k < m)
  BY <1>1 DEF OpToRel
<1>3. \A k \in S : m <= k
  BY <1>2
<1> QED
  BY <1>3 DEF Oldest

LEMMA YoungestIsIn ==
    ASSUME NEW n \in Nat, NEW S \in SUBSET (0 .. n), S # {}
    PROVE  Youngest(S) \in S /\ \A j \in S : j <= Youngest(S)
<1> DEFINE T == {n - k : k \in S}
<1>1. T \in SUBSET Nat /\ T # {}
  <2>1. \A k \in S : k \in 0 .. n /\ n - k \in Nat
    OBVIOUS
  <2> QED
    BY <2>1
<1>2. Oldest(T) \in T /\ \A j \in T : Oldest(T) <= j
  BY <1>1, OldestIsIn
<1>3. PICK k \in S : Oldest(T) = n - k
  BY <1>2
<1>4. \A j \in S : n - j \in T
  OBVIOUS
<1>5. \A j \in S : n - k <= n - j
  BY <1>2, <1>3, <1>4
<1>6. \A j \in S : j <= k
  BY <1>5
<1> QED
  BY <1>6 DEF Youngest

LEMMA YoungestIs ==
    ASSUME NEW S \in SUBSET Int, NEW k \in S, \A j \in S : j <= k
    PROVE  Youngest(S) = k
<1>1. \A j \in S : (\A i \in S : i <= j) => j = k
  OBVIOUS
<1> QED
  BY <1>1 DEF Youngest

LEMMA OldestIs ==
    ASSUME NEW S \in SUBSET Int, NEW k \in S, \A j \in S : k <= j
    PROVE  Oldest(S) = k
<1>1. \A j \in S : (\A i \in S : j <= i) => j = k
  OBVIOUS
<1> QED
  BY <1>1 DEF Oldest

----------------------------------------------------------------------------
(* Counting.                                                               *)

\* A set numbered from 0 to m - 1 without repetition has m elements.
LEMMA Numbered ==
    ASSUME NEW m \in Nat, NEW S, NEW f \in [0 .. m - 1 -> S],
           \A j, k \in 0 .. m - 1 : f[j] = f[k] => j = k,
           \A p \in S : \E k \in 0 .. m - 1 : f[k] = p
    PROVE  IsFiniteSet(S) /\ Cardinality(S) = m
<1>1. IsFiniteSet(0 .. m - 1) /\ Cardinality(0 .. m - 1) = m
  BY FS_Interval
<1> DEFINE A == 0 .. m - 1
<1>2. f \in Bijection(A, S)
  BY DEF Bijection, Injection, Surjection, IsInjective
<1>3. ExistsBijection(A, S)
  BY <1>2, Zenon DEF ExistsBijection
<1> HIDE DEF A
<1>4. IsFiniteSet(A) /\ Cardinality(A) = m
  BY <1>1 DEF A
<1>5. IsFiniteSet(S)
  BY <1>3, <1>4, FS_Bijection
<1>6. Cardinality(S) = Cardinality(A)
  BY <1>3, <1>4, FS_Bijection
<1> QED
  BY <1>4, <1>5, <1>6

\* A set of ages that holds every age below each of its own is an initial segment.
LEMMA PrefixSize ==
    ASSUME NEW n \in Nat, NEW S \in SUBSET (0 .. n - 1),
           \A k \in S : \A j \in 0 .. k : j \in S
    PROVE  /\ Cardinality(S) \in 0 .. n
           /\ \A k \in 0 .. n - 1 : k \in S <=> k < Cardinality(S)
<1>1. IsFiniteSet(0 .. n - 1) /\ Cardinality(0 .. n - 1) = n
  BY FS_Interval
<1>2. IsFiniteSet(S) /\ Cardinality(S) <= n
  BY <1>1, FS_Subset
<1>3. Cardinality(S) \in Nat
  BY <1>2, FS_CardinalityType
<1>4. ASSUME NEW k \in 0 .. n - 1, k \in S PROVE k < Cardinality(S)
  <2>1. IsFiniteSet(0 .. k) /\ Cardinality(0 .. k) = k + 1
    BY FS_Interval
  <2>2. (0 .. k) \subseteq S
    BY <1>4
  <2>3. Cardinality(0 .. k) <= Cardinality(S)
    BY <1>2, <2>2, FS_Subset
  <2> QED
    BY <1>3, <2>1, <2>3
<1>5. ASSUME NEW k \in 0 .. n - 1, k \notin S PROVE ~(k < Cardinality(S))
  <2>1. IsFiniteSet(0 .. k - 1) /\ Cardinality(0 .. k - 1) = k
    BY FS_Interval
  <2>2. \A j \in S : j < k
    BY <1>5
  <2>3. S \subseteq (0 .. k - 1)
    BY <2>2
  <2>4. Cardinality(S) <= Cardinality(0 .. k - 1)
    BY <2>1, <2>3, FS_Subset
  <2> QED
    BY <1>3, <2>1, <2>4
<1> QED
  BY <1>2, <1>3, <1>4, <1>5

----------------------------------------------------------------------------
(* Circular queues.                                                        *)

\* The slot of the entry of age k.
Where(q, k, n) == (q.head + k) % n
Entry == [seq : Nat, instr : Instrs, addr_ready : BOOLEAN, completed : BOOLEAN]
Ring(q, n) == q.tail = Where(q, q.size, n)
InOrder(q, n) == \A j, k \in Ages(q) : j < k => At(q, j, n).seq < At(q, k, n).seq

LEMMA RingValue ==
    ASSUME NEW n \in Nat \ {0}, NEW h \in 0 .. n - 1, NEW k \in 0 .. n
    PROVE  /\ (h + k) % n = IF h + k >= n THEN h + k - n ELSE h + k
           /\ (h + k) % n \in 0 .. n - 1
  BY SMT

LEMMA RingInjective ==
    ASSUME NEW n \in Nat \ {0}, NEW h \in 0 .. n - 1, NEW j \in 0 .. n - 1, NEW k \in 0 .. n - 1,
           (h + j) % n = (h + k) % n
    PROVE  j = k
<1>0. j \in 0 .. n /\ k \in 0 .. n
  OBVIOUS
<1>1. /\ (h + j) % n = IF h + j >= n THEN h + j - n ELSE h + j
      /\ (h + k) % n = IF h + k >= n THEN h + k - n ELSE h + k
  BY <1>0, RingValue, Zenon
<1> QED
  BY <1>1, SMT

LEMMA RingShift ==
    ASSUME NEW n \in Nat \ {0}, NEW h \in 0 .. n - 1, NEW c \in 0 .. n, NEW k \in 0 .. n - c
    PROVE  (((h + c) % n) + k) % n = (h + (k + c)) % n
<1> DEFINE g == (h + c) % n
<1>1. g = (IF h + c >= n THEN h + c - n ELSE h + c) /\ g \in 0 .. n - 1
  BY RingValue, Zenon
<1>2. k \in 0 .. n /\ k + c \in 0 .. n
  OBVIOUS
<1>3. (h + (k + c)) % n = IF h + (k + c) >= n THEN h + (k + c) - n ELSE h + (k + c)
  BY <1>2, RingValue, Zenon
<1> HIDE DEF g
<1>4. (g + k) % n = IF g + k >= n THEN g + k - n ELSE g + k
  BY <1>1, <1>2, RingValue, Zenon
<1> QED
  BY <1>1, <1>3, <1>4, SMT DEF g

LEMMA QueueShape ==
    ASSUME NEW n \in Nat \ {0}, NEW q \in EntryOf(n)
    PROVE  /\ q.entries \in [0 .. n - 1 -> Entry]
           /\ q.head \in 0 .. n - 1 /\ q.tail \in 0 .. n - 1 /\ q.size \in 0 .. n
           /\ \A k \in 0 .. n : Where(q, k, n) \in 0 .. n - 1 /\ At(q, k, n) \in Entry
           /\ \A k \in Int : At(q, k, n) = q.entries[Where(q, k, n)]
<1>1. /\ q.entries \in [0 .. n - 1 -> Entry]
      /\ q.head \in 0 .. n - 1 /\ q.tail \in 0 .. n - 1 /\ q.size \in 0 .. n
  BY DEF EntryOf, Entry, Slots
<1>2. \A k \in 0 .. n : Where(q, k, n) \in 0 .. n - 1
  BY <1>1, RingValue, Zenon DEF Where
<1>3. \A k \in Int : At(q, k, n) = q.entries[Where(q, k, n)]
  BY DEF At, Where
<1>4. \A k \in 0 .. n : At(q, k, n) = q.entries[Where(q, k, n)]
  BY <1>3
<1> QED
  BY <1>1, <1>2, <1>3, <1>4

LEMMA WhereInjective ==
    ASSUME NEW n \in Nat \ {0}, NEW q \in EntryOf(n), NEW j \in 0 .. n - 1, NEW k \in 0 .. n - 1,
           Where(q, j, n) = Where(q, k, n)
    PROVE  j = k
BY QueueShape, RingInjective, Zenon DEF Where

\* What Add, PopHead and Squashed do to a queue, seen by age.
LEMMA Added ==
    ASSUME NEW n \in Nat \ {0}, NEW q \in EntryOf(n), Ring(q, n), q.size < n,
           NEW e \in Entry, NEW r, r = Add(q, e, n)
    PROVE  /\ r \in EntryOf(n) /\ Ring(r, n)
           /\ r.size = q.size + 1 /\ r.head = q.head
           /\ \A k \in Ages(q) : At(r, k, n) = At(q, k, n)
           /\ At(r, q.size, n) = e
           /\ Where(r, q.size, n) = q.tail
<1>1. /\ q.entries \in [0 .. n - 1 -> Entry]
      /\ q.head \in 0 .. n - 1 /\ q.tail \in 0 .. n - 1 /\ q.size \in 0 .. n
      /\ \A k \in 0 .. n : Where(q, k, n) \in 0 .. n - 1
      /\ DOMAIN q = {"entries", "head", "tail", "size"}
  BY QueueShape DEF EntryOf
<1> DEFINE es == [q.entries EXCEPT ![q.tail] = e]
           t == (q.tail + 1) % n
<1>2. r = [entries |-> es, head |-> q.head, tail |-> t, size |-> q.size + 1]
  BY DEF Add, EntryOf
<1>3. es \in [0 .. n - 1 -> Entry] /\ t \in 0 .. n - 1 /\ q.size + 1 \in 0 .. n
  <2>1. es \in [0 .. n - 1 -> Entry]
    BY <1>1
  <2>2. 1 \in 0 .. n
    OBVIOUS
  <2>3. t \in 0 .. n - 1
    BY <1>1, <2>2, RingValue, Zenon
  <2>4. q.size + 1 \in 0 .. n
    <3>1. q.size \in 0 .. n - 1
      BY <1>1
    <3> QED
      BY <3>1
  <2> QED
    BY <2>1, <2>3, <2>4
<1>4. /\ es[q.tail] = e
      /\ \A i \in 0 .. n - 1 : i # q.tail => es[i] = q.entries[i]
  BY <1>1
<1>5. t = (q.head + (1 + q.size)) % n
  <2>1. 1 \in 0 .. n - q.size
    BY <1>1
  <2>2. q.tail = (q.head + q.size) % n /\ q.size + 1 = 1 + q.size
    BY <1>1 DEF Ring, Where
  <2> QED
    <3>1. (((q.head + q.size) % n) + 1) % n = (q.head + (1 + q.size)) % n
      BY <1>1, <2>1, RingShift
    <3> QED
      BY <2>2, <3>1
<1> HIDE DEF es, t
<1>6. /\ r.entries = es /\ r.head = q.head /\ r.tail = t /\ r.size = q.size + 1
  BY <1>2
<1>7. r \in EntryOf(n)
  BY <1>1, <1>2, <1>3 DEF EntryOf, Slots, Entry
<1>8. Ring(r, n)
  <2>1. q.size + 1 = 1 + q.size
    BY <1>1
  <2> QED
    BY <1>5, <1>6, <2>1 DEF Ring, Where
<1>9. \A k \in 0 .. n : At(r, k, n) = es[Where(q, k, n)] /\ Where(r, k, n) = Where(q, k, n)
  BY <1>6 DEF At, Where
<1>10. \A k \in Ages(q) : Where(q, k, n) # q.tail
  <2>1. \A k \in Ages(q) : k \in 0 .. n - 1 /\ q.size \in 0 .. n - 1 /\ k # q.size
    <3>1. q.size \in 0 .. n - 1
      BY <1>1
    <3> QED
      BY <3>1 DEF Ages
  <2> QED
    BY <2>1, WhereInjective DEF Ring
<1>11. \A k \in Ages(q) : At(r, k, n) = At(q, k, n)
  <2>1. \A k \in Ages(q) : k \in 0 .. n
    BY <1>1 DEF Ages
  <2>2. \A k \in Ages(q) : es[Where(q, k, n)] = q.entries[Where(q, k, n)]
    BY <1>1, <1>4, <1>10, <2>1
  <2> QED
    BY <1>9, <2>1, <2>2 DEF At, Where
<1>12. At(r, q.size, n) = e /\ Where(r, q.size, n) = q.tail
  BY <1>1, <1>4, <1>9 DEF Ring
<1> QED
  BY <1>6, <1>7, <1>8, <1>11, <1>12

LEMMA HeadPopped ==
    ASSUME NEW n \in Nat \ {0}, NEW q \in EntryOf(n), Ring(q, n),
           NEW count \in 0 .. q.size, NEW r, r = PopHead(q, count, n)
    PROVE  /\ r \in EntryOf(n) /\ Ring(r, n)
           /\ r.size = q.size - count
           /\ \A k \in Ages(r) : /\ k + count \in Ages(q)
                                 /\ Where(r, k, n) = Where(q, k + count, n)
                                 /\ At(r, k, n) = At(q, k + count, n)
<1>1. /\ q.entries \in [0 .. n - 1 -> Entry]
      /\ q.head \in 0 .. n - 1 /\ q.tail \in 0 .. n - 1 /\ q.size \in 0 .. n
  BY QueueShape
<1> DEFINE h == (q.head + count) % n
<1>2. r = [entries |-> q.entries, head |-> h, tail |-> q.tail, size |-> q.size - count]
  BY DEF PopHead, EntryOf
<1>3. h \in 0 .. n - 1 /\ q.size - count \in 0 .. n /\ count \in 0 .. n
  BY <1>1
<1>4. \A k \in 0 .. q.size - count : (h + k) % n = (q.head + (k + count)) % n
  <2>1. \A k \in 0 .. q.size - count : k \in 0 .. n - count
    BY <1>1
  <2> QED
    BY <1>1, <1>3, <2>1, RingShift
<1> HIDE DEF h
<1>5. r.entries = q.entries /\ r.head = h /\ r.tail = q.tail /\ r.size = q.size - count
  BY <1>2
<1>6. r \in EntryOf(n)
  BY <1>1, <1>2, <1>3 DEF EntryOf, Slots, Entry
<1>7. \A k \in 0 .. q.size - count : Where(r, k, n) = Where(q, k + count, n)
  BY <1>4, <1>5 DEF Where
<1>8. Ring(r, n)
  <2>1. q.size - count \in 0 .. q.size - count /\ (q.size - count) + count = q.size
    BY <1>1
  <2> QED
    BY <1>5, <1>7, <2>1 DEF Ring
<1>9. \A k \in Ages(r) : k \in 0 .. q.size - count /\ k + count \in Ages(q)
  BY <1>1, <1>5 DEF Ages
<1>10. \A k \in Ages(r) : Where(r, k, n) = Where(q, k + count, n)
  BY <1>7, <1>9
<1>11. \A k \in Ages(r) : At(r, k, n) = At(q, k + count, n)
  BY <1>5, <1>10 DEF At, Where
<1> QED
  BY <1>5, <1>6, <1>8, <1>9, <1>10, <1>11

LEMMA TailPopped ==
    ASSUME NEW n \in Nat \ {0}, NEW q \in EntryOf(n), InOrder(q, n),
           NEW seq \in Nat, NEW r, r = Squashed(q, seq, n)
    PROVE  /\ r \in EntryOf(n) /\ Ring(r, n)
           /\ r.size \in 0 .. q.size /\ Ages(r) \subseteq Ages(q)
           /\ \A k \in Ages(q) : k \in Ages(r) <=> At(q, k, n).seq <= seq
           /\ \A k \in Int : Where(r, k, n) = Where(q, k, n) /\ At(r, k, n) = At(q, k, n)
<1>1. /\ q.entries \in [0 .. n - 1 -> Entry]
      /\ q.head \in 0 .. n - 1 /\ q.tail \in 0 .. n - 1 /\ q.size \in 0 .. n
      /\ \A k \in 0 .. n : At(q, k, n) \in Entry
  BY QueueShape
<1> DEFINE stay == {k \in Ages(q) : At(q, k, n).seq <= seq}
           kept == Kept(q, seq, n)
<1>2. kept = IF stay = {} THEN 0 ELSE Youngest(stay) + 1
  BY DEF Kept
<1>3. \A k \in Ages(q) : At(q, k, n).seq \in Nat
  BY <1>1 DEF Ages, Entry
<1>4. kept \in 0 .. q.size /\ \A k \in Ages(q) : k < kept <=> At(q, k, n).seq <= seq
  <2>1. CASE stay = {}
    BY <1>1, <1>2, <2>1 DEF Ages
  <2>2. CASE stay # {}
    <3>1. stay \in SUBSET (0 .. n)
      BY <1>1 DEF Ages
    <3>2. Youngest(stay) \in stay /\ \A j \in stay : j <= Youngest(stay)
      BY <2>2, <3>1, YoungestIsIn
    <3> DEFINE y == Youngest(stay)
    <3>3. /\ y \in 0 .. q.size - 1 /\ At(q, y, n).seq <= seq
          /\ \A j \in Ages(q) : At(q, j, n).seq <= seq => j <= y
      BY <3>2 DEF Ages
    <3>4. kept = y + 1
      BY <1>2, <2>2
    <3> HIDE DEF y
    <3>5. \A k \in Ages(q) : k < y => At(q, k, n).seq < At(q, y, n).seq
      BY <3>3 DEF InOrder, Ages
    <3>6. \A k \in Ages(q) : k <= y => At(q, k, n).seq <= seq
      BY <1>3, <3>3, <3>5 DEF Ages
    <3> QED
      BY <1>1, <3>3, <3>4, <3>6 DEF Ages
  <2> QED
    BY <2>1, <2>2
<1> DEFINE t == (q.head + kept) % n
<1>5. r = [entries |-> q.entries, head |-> q.head, tail |-> t, size |-> kept]
  BY DEF Squashed, EntryOf
<1>6. t \in 0 .. n - 1
  BY <1>1, <1>4
<1> HIDE DEF kept, stay, t
<1>7. r.entries = q.entries /\ r.head = q.head /\ r.tail = t /\ r.size = kept
  BY <1>5
<1>8. r \in EntryOf(n)
  BY SMTT(30), <1>1, <1>4, <1>5, <1>6 DEF EntryOf, Slots, Entry
<1>9. Ring(r, n)
  BY <1>7 DEF Ring, Where, t
<1>10. Ages(r) \subseteq Ages(q)
  BY <1>1, <1>4, <1>7 DEF Ages
<1>11. \A k \in Ages(q) : k \in Ages(r) <=> At(q, k, n).seq <= seq
  BY <1>1, <1>4, <1>7 DEF Ages
<1>12. \A k \in Int : Where(r, k, n) = Where(q, k, n) /\ At(r, k, n) = At(q, k, n)
  BY <1>7 DEF Where, At
<1> QED
  BY <1>4, <1>7, <1>8, <1>9, <1>10, <1>11, <1>12

----------------------------------------------------------------------------
(* The window and a queue of it.                                           *)

Renamed == [seq : Nat, instr : Instrs, stage : Stages, slot : Int, value : Value]
\* IndicesOf for any window p.
Places(p, kind, from) == {i \in from .. Len(p) : p[i].instr.kind = kind}
Increasing(p) == \A i, j \in 1 .. Len(p) : i < j => p[i].seq < p[j].seq
\* The entry of age k is that of p[i].
Holds(p, q, n, k, i) == At(q, k, n).seq = p[i].seq /\ Where(q, k, n) = p[i].slot
\* Every entry is that of an instruction from "from" on, and every instruction
\* from "to" on has its entry.
Tracks(p, q, n, kind, from, to) ==
    /\ q \in EntryOf(n) /\ Ring(q, n) /\ InOrder(q, n)
    /\ \A k \in Ages(q) : \E i \in Places(p, kind, from) : Holds(p, q, n, k, i)
    /\ \A i \in Places(p, kind, to) : \E k \in Ages(q) : Holds(p, q, n, k, i)

\* What an instruction keeps from rename to commit.
SameText(p, r) ==
    /\ Len(r) = Len(p)
    /\ \A i \in 1 .. Len(p) : /\ r[i].seq = p[i].seq /\ r[i].instr = p[i].instr
                              /\ r[i].slot = p[i].slot
SameQueue(q, r, n) ==
    /\ r \in EntryOf(n) /\ r.head = q.head /\ r.tail = q.tail /\ r.size = q.size
    /\ \A k \in Ages(q) : At(r, k, n).seq = At(q, k, n).seq

LEMMA PathShape ==
    ASSUME NEW p \in Seq(Renamed)
    PROVE  /\ Len(p) \in Nat /\ DOMAIN p = 1 .. Len(p)
           /\ \A i \in 1 .. Len(p) : p[i] \in Renamed /\ p[i].seq \in Nat /\ p[i].slot \in Int
                                     /\ p[i].instr \in Instrs
<1>1. Len(p) \in Nat /\ DOMAIN p = 1 .. Len(p) /\ \A i \in 1 .. Len(p) : p[i] \in Renamed
  OBVIOUS
<1> QED
  BY <1>1 DEF Renamed

LEMMA EntryShape ==
    ASSUME NEW n \in Nat \ {0}, NEW q \in EntryOf(n)
    PROVE  /\ q.size \in Nat /\ q.size <= n
           /\ \A k \in Ages(q) : /\ k \in 0 .. n - 1 /\ k \in Nat
                                 /\ At(q, k, n) \in Entry /\ At(q, k, n).seq \in Nat
<1>1. q.size \in 0 .. n /\ \A k \in 0 .. n : At(q, k, n) \in Entry
  BY QueueShape
<1>2. \A k \in Ages(q) : k \in 0 .. n - 1 /\ k \in 0 .. n /\ k \in Nat
  BY <1>1 DEF Ages
<1>3. \A k \in Ages(q) : At(q, k, n) \in Entry
  BY <1>1, <1>2
<1> QED
  BY <1>1, <1>2, <1>3 DEF Entry

\* Steps that rename, commit and squash nothing.
LEMMA TracksSame ==
    ASSUME NEW n \in Nat \ {0}, NEW kind, NEW from \in Nat \ {0}, NEW to \in Nat \ {0},
           NEW p \in Seq(Renamed), NEW q, Tracks(p, q, n, kind, from, to),
           NEW p2 \in Seq(Renamed), SameText(p, p2), NEW q2, SameQueue(q, q2, n)
    PROVE  Tracks(p2, q2, n, kind, from, to)
<1>1. Ages(q2) = Ages(q) /\ \A k \in Ages(q) : At(q2, k, n).seq = At(q, k, n).seq
  BY DEF SameQueue, Ages
<1>2. \A k \in Ages(q) : Where(q2, k, n) = Where(q, k, n)
  BY DEF SameQueue, Where
<1>3. Places(p2, kind, from) = Places(p, kind, from) /\ Places(p2, kind, to) = Places(p, kind, to)
  BY PathShape DEF SameText, Places
<1>4. \A i \in Places(p, kind, from) \cup Places(p, kind, to) : i \in 1 .. Len(p)
  BY PathShape DEF Places
<1>5. \A k \in Ages(q) : \A i \in Places(p, kind, from) \cup Places(p, kind, to) :
        Holds(p, q, n, k, i) => Holds(p2, q2, n, k, i)
  BY <1>1, <1>2, <1>4 DEF SameText, Holds
<1>6. Ring(q2, n)
  BY DEF SameQueue, Ring, Where, Tracks
<1>7. InOrder(q2, n)
  BY <1>1 DEF InOrder, Tracks
<1>8. q2 \in EntryOf(n)
  BY DEF SameQueue
<1> QED
  BY <1>1, <1>3, <1>5, <1>6, <1>7, <1>8 DEF Tracks

\* rename_stage, an instruction that has an entry in this queue.
LEMMA TracksAdd ==
    ASSUME NEW n \in Nat \ {0}, NEW kind, NEW from \in Nat \ {0}, NEW to \in Nat \ {0},
           NEW p \in Seq(Renamed), NEW q, Tracks(p, q, n, kind, from, to),
           from <= Len(p) + 1, to <= Len(p) + 1, q.size < n,
           NEW e \in Renamed, e.instr.kind = kind, e.slot = q.tail,
           \A i \in 1 .. Len(p) : p[i].seq < e.seq,
           NEW x \in Entry, x.seq = e.seq,
           NEW p2, p2 = Append(p, e), NEW q2, q2 = Add(q, x, n)
    PROVE  Tracks(p2, q2, n, kind, from, to)
<1>0. q \in EntryOf(n) /\ Ring(q, n) /\ InOrder(q, n)
  BY DEF Tracks
<1> DEFINE m == Len(p) + 1
<1>1. /\ q2 \in EntryOf(n) /\ Ring(q2, n) /\ q2.size = q.size + 1 /\ q2.head = q.head
      /\ \A k \in Ages(q) : At(q2, k, n) = At(q, k, n)
      /\ At(q2, q.size, n) = x /\ Where(q2, q.size, n) = q.tail
  BY <1>0, Added
<1>2. /\ Len(p2) = m /\ m \in Nat /\ Len(p) \in Nat /\ p2[m] = e
      /\ \A i \in 1 .. Len(p) : p2[i] = p[i]
  BY AppendProperties
<1> HIDE DEF m
<1>3. \A i \in 1 .. m : i \in 1 .. Len(p) \/ i = m
  BY <1>2 DEF m
<1>4. q.size \in Nat /\ Ages(q2) = Ages(q) \cup {q.size} /\ \A k \in Ages(q) : k \in Nat /\ k < q.size
  BY <1>0, <1>1, EntryShape DEF Ages
<1>5. \A k \in Ages(q) : Where(q2, k, n) = Where(q, k, n)
  BY <1>1 DEF Where
<1>6. /\ Places(p2, kind, from) = Places(p, kind, from) \cup {m}
      /\ Places(p2, kind, to) = Places(p, kind, to) \cup {m}
      /\ \A i \in Places(p, kind, from) \cup Places(p, kind, to) : i \in 1 .. Len(p)
  BY <1>2 DEF Places, m
<1>7. Holds(p2, q2, n, q.size, m)
  BY <1>1, <1>2 DEF Holds
<1>8. \A k \in Ages(q) : \A i \in 1 .. Len(p) : Holds(p, q, n, k, i) => Holds(p2, q2, n, k, i)
  BY <1>1, <1>2, <1>5 DEF Holds
<1>9. \A k \in Ages(q2) : \E i \in Places(p2, kind, from) : Holds(p2, q2, n, k, i)
  BY <1>4, <1>6, <1>7, <1>8 DEF Tracks
<1>10. \A i \in Places(p2, kind, to) : \E k \in Ages(q2) : Holds(p2, q2, n, k, i)
  BY <1>4, <1>6, <1>7, <1>8 DEF Tracks
<1>11. InOrder(q2, n)
  <2>1. \A k \in Ages(q) : At(q2, k, n).seq < x.seq
    BY <1>1, <1>6 DEF Tracks, Holds
  <2> QED
    BY <1>0, <1>1, <1>4, <2>1 DEF InOrder
<1> QED
  BY <1>1, <1>9, <1>10, <1>11 DEF Tracks

\* rename_stage, any other instruction.
LEMMA TracksOther ==
    ASSUME NEW n \in Nat \ {0}, NEW kind, NEW from \in Nat \ {0}, NEW to \in Nat \ {0},
           NEW p \in Seq(Renamed), NEW q, Tracks(p, q, n, kind, from, to),
           NEW e \in Renamed, e.instr.kind # kind, NEW p2, p2 = Append(p, e)
    PROVE  Tracks(p2, q, n, kind, from, to)
<1> DEFINE m == Len(p) + 1
<1>1. /\ Len(p2) = m /\ m \in Nat /\ Len(p) \in Nat /\ p2[m] = e
      /\ \A i \in 1 .. Len(p) : p2[i] = p[i]
  BY AppendProperties
<1>2. \A i \in Nat \ {0} : i <= m => i \in 1 .. Len(p) \/ i = m
  BY <1>1
<1>3. /\ Places(p2, kind, from) = Places(p, kind, from)
      /\ Places(p2, kind, to) = Places(p, kind, to)
      /\ \A i \in Places(p, kind, from) \cup Places(p, kind, to) : i \in 1 .. Len(p)
  BY <1>1, <1>2 DEF Places
<1>4. \A k \in Ages(q) : \A i \in 1 .. Len(p) : Holds(p, q, n, k, i) => Holds(p2, q, n, k, i)
  BY <1>1 DEF Holds
<1> QED
  BY <1>3, <1>4 DEF Tracks

\* ReorderBuffer::commit for loads, the drain for stores: the oldest go.
LEMMA TracksPop ==
    ASSUME NEW n \in Nat \ {0}, NEW kind, NEW from \in Nat \ {0}, NEW to \in Nat \ {0},
           NEW p \in Seq(Renamed), NEW q, Tracks(p, q, n, kind, from, to),
           from <= to, NEW from2 \in Nat, from <= from2, NEW to2 \in Nat, to <= to2,
           NEW count \in 0 .. q.size, NEW q2, q2 = PopHead(q, count, n),
           \A k \in Ages(q) : \A i \in Places(p, kind, from) : Holds(p, q, n, k, i) =>
              IF k < count THEN i < to2 ELSE i >= from2
    PROVE  Tracks(p, q2, n, kind, from2, to2)
<1>0. q \in EntryOf(n) /\ Ring(q, n) /\ InOrder(q, n)
  BY DEF Tracks
<1>1. /\ q2 \in EntryOf(n) /\ Ring(q2, n) /\ q2.size = q.size - count
      /\ \A k \in Ages(q2) : /\ k + count \in Ages(q)
                             /\ Where(q2, k, n) = Where(q, k + count, n)
                             /\ At(q2, k, n) = At(q, k + count, n)
  BY <1>0, HeadPopped
<1>2. q.size \in Nat /\ count \in Nat /\ \A k \in Ages(q) : k \in Nat
  BY <1>0, EntryShape
<1>3. \A k \in Ages(q2) : k \in Nat
  BY <1>1, EntryShape
<1>4. \A k \in Ages(q2) : \A i : Holds(p, q2, n, k, i) <=> Holds(p, q, n, k + count, i)
  BY <1>1 DEF Holds
<1>5. \A k \in Ages(q2) : \E i \in Places(p, kind, from2) : Holds(p, q2, n, k, i)
  <2> SUFFICES ASSUME NEW k \in Ages(q2)
               PROVE  \E i \in Places(p, kind, from2) : Holds(p, q2, n, k, i)
    OBVIOUS
  <2>1. PICK i \in Places(p, kind, from) : Holds(p, q, n, k + count, i)
    BY <1>1 DEF Tracks
  <2>2. ~(k + count < count)
    BY <1>2, <1>3
  <2>3. i >= from2
    BY <1>1, <2>1, <2>2
  <2>4. i \in Places(p, kind, from2)
    BY <2>1, <2>3 DEF Places
  <2> QED
    BY <1>4, <2>1, <2>4
<1>6. \A i \in Places(p, kind, to2) : \E k \in Ages(q2) : Holds(p, q2, n, k, i)
  <2> SUFFICES ASSUME NEW i \in Places(p, kind, to2)
               PROVE  \E k \in Ages(q2) : Holds(p, q2, n, k, i)
    OBVIOUS
  <2>1. i \in Places(p, kind, to) /\ i \in Places(p, kind, from) /\ ~(i < to2)
    BY DEF Places
  <2>2. PICK k \in Ages(q) : Holds(p, q, n, k, i)
    BY <2>1 DEF Tracks
  <2>3. ~(k < count)
    BY <2>1, <2>2
  <2>4. k - count \in Ages(q2) /\ (k - count) + count = k
    BY <1>1, <1>2, <2>3 DEF Ages
  <2> QED
    BY <1>4, <2>2, <2>4
<1>7. InOrder(q2, n)
  <2> SUFFICES ASSUME NEW j \in Ages(q2), NEW k \in Ages(q2), j < k
               PROVE  At(q2, j, n).seq < At(q2, k, n).seq
    BY DEF InOrder
  <2>1. j + count < k + count
    BY <1>2, <1>3
  <2> QED
    BY <1>0, <1>1, <2>1 DEF InOrder
<1> QED
  BY <1>1, <1>5, <1>6, <1>7 DEF Tracks

Lesser(i, j) == IF i <= j THEN i ELSE j

\* perform_squash: the window is cut after its first m instructions, those not
\* younger than seq, and the queue likewise.
LEMMA TracksCut ==
    ASSUME NEW n \in Nat \ {0}, NEW kind, NEW from \in Nat \ {0}, NEW to \in Nat \ {0},
           NEW p \in Seq(Renamed), NEW q, Tracks(p, q, n, kind, from, to),
           NEW m \in 0 .. Len(p), NEW seq \in Nat,
           \A i \in 1 .. Len(p) : i <= m <=> p[i].seq <= seq,
           NEW p2, p2 = SubSeq(p, 1, m), NEW q2, q2 = Squashed(q, seq, n),
           NEW from2, from2 = Lesser(from, m + 1), NEW to2, to2 = Lesser(to, m + 1)
    PROVE  Tracks(p2, q2, n, kind, from2, to2)
<1>0. q \in EntryOf(n) /\ Ring(q, n) /\ InOrder(q, n)
  BY DEF Tracks
<1>1. /\ q2 \in EntryOf(n) /\ Ring(q2, n) /\ Ages(q2) \subseteq Ages(q)
      /\ \A k \in Ages(q) : k \in Ages(q2) <=> At(q, k, n).seq <= seq
      /\ \A k \in Int : Where(q2, k, n) = Where(q, k, n) /\ At(q2, k, n) = At(q, k, n)
  BY <1>0, TailPopped
<1>2. Len(p) \in Nat /\ Len(p2) = m /\ m \in Nat /\ \A i \in 1 .. m : p2[i] = p[i]
  BY SubSeqProperties, PathShape
<1>3. \A k \in Ages(q) : k \in Int
  BY <1>0, EntryShape
<1>4. \A k \in Ages(q) : \A i \in 1 .. m : Holds(p, q, n, k, i) <=> Holds(p2, q2, n, k, i)
  BY <1>1, <1>2, <1>3 DEF Holds
<1>5. /\ \A i \in Places(p2, kind, from2) \cup Places(p2, kind, to2) : i \in 1 .. m
      /\ \A i \in 1 .. m : i \in 1 .. Len(p)
      /\ Places(p2, kind, to2) \subseteq Places(p, kind, to)
      /\ \A i \in Places(p, kind, from) : i \in 1 .. Len(p) /\ (i <= m => i \in 1 .. m)
      /\ \A i \in Places(p, kind, from) : i <= m => i \in Places(p2, kind, from2)
  <2>1. m + 1 \in Nat \ {0}
    BY <1>2
  <2>2. /\ from2 \in Nat \ {0} /\ to2 \in Nat \ {0}
        /\ from2 <= from /\ (to2 = to \/ to2 = m + 1)
    BY <2>1 DEF Lesser
  <2> QED
    BY SMTT(30), <1>2, <2>1, <2>2 DEF Places
<1>6. \A k \in Ages(q2) : \E i \in Places(p2, kind, from2) : Holds(p2, q2, n, k, i)
  <2> SUFFICES ASSUME NEW k \in Ages(q2)
               PROVE  \E i \in Places(p2, kind, from2) : Holds(p2, q2, n, k, i)
    OBVIOUS
  <2>1. k \in Ages(q) /\ At(q, k, n).seq <= seq
    BY <1>1
  <2>2. PICK i \in Places(p, kind, from) : Holds(p, q, n, k, i)
    BY <2>1 DEF Tracks
  <2>3. i <= m
    BY <1>5, <2>1, <2>2 DEF Holds
  <2> QED
    BY <1>4, <1>5, <2>1, <2>2, <2>3
<1>7. \A i \in Places(p2, kind, to2) : \E k \in Ages(q2) : Holds(p2, q2, n, k, i)
  <2> SUFFICES ASSUME NEW i \in Places(p2, kind, to2)
               PROVE  \E k \in Ages(q2) : Holds(p2, q2, n, k, i)
    OBVIOUS
  <2>1. i \in 1 .. m /\ i \in Places(p, kind, to) /\ p[i].seq <= seq
    BY <1>5
  <2>2. PICK k \in Ages(q) : Holds(p, q, n, k, i)
    BY <2>1 DEF Tracks
  <2>3. k \in Ages(q2)
    BY <1>1, <2>1, <2>2 DEF Holds
  <2> QED
    BY <1>4, <2>1, <2>2, <2>3
<1>8. InOrder(q2, n)
  BY <1>0, <1>1, <1>3 DEF InOrder
<1> QED
  BY <1>1, <1>6, <1>7, <1>8 DEF Tracks

----------------------------------------------------------------------------
(* What the store queue says of the window besides.                        *)

\* An entry has the instruction's address and is complete once it committed.
StoreFacts(p, q, r) ==
    \A k \in Ages(q) : \A i \in Places(p, "store", 1) :
        At(q, k, STORE_QUEUE_SIZE).seq = p[i].seq =>
            /\ At(q, k, STORE_QUEUE_SIZE).instr = p[i].instr
            /\ At(q, k, STORE_QUEUE_SIZE).completed <=> i <= r
InQueue(p, q, i) == \E k \in Ages(q) : At(q, k, STORE_QUEUE_SIZE).seq = p[i].seq
\* What has left the queue is older than all that is in it.
OldestDrained(p, q) ==
    \A i \in Places(p, "store", 1) :
        InQueue(p, q, i) \/ \A k \in Ages(q) : p[i].seq < At(q, k, STORE_QUEUE_SIZE).seq
LoadsQueued(p, q, r) == Tracks(p, q, LOAD_QUEUE_SIZE, "load", r + 1, r + 1)
StoresQueued(p, q, r) ==
    /\ Tracks(p, q, STORE_QUEUE_SIZE, "store", 1, r + 1)
    /\ StoreFacts(p, q, r) /\ OldestDrained(p, q)

LEMMA SeqOrder ==
    ASSUME NEW p \in Seq(Renamed), Increasing(p), NEW i \in 1 .. Len(p), NEW j \in 1 .. Len(p)
    PROVE  /\ p[i].seq < p[j].seq <=> i < j
           /\ p[i].seq <= p[j].seq <=> i <= j
           /\ p[i].seq = p[j].seq <=> i = j
<1>1. p[i].seq \in Nat /\ p[j].seq \in Nat /\ i \in Int /\ j \in Int
  BY PathShape
<1>2. /\ i < j => p[i].seq < p[j].seq
      /\ j < i => p[j].seq < p[i].seq
  BY DEF Increasing
<1> QED
  BY <1>1, <1>2

\* The positions a queue of stores names.
LEMMA StorePlace ==
    ASSUME NEW p \in Seq(Renamed), NEW q, NEW r \in Nat, StoresQueued(p, q, r), NEW k \in Ages(q)
    PROVE  \E i \in Places(p, "store", 1) :
              /\ i \in 1 .. Len(p) /\ p[i].instr.kind = "store"
              /\ At(q, k, STORE_QUEUE_SIZE).seq = p[i].seq
              /\ At(q, k, STORE_QUEUE_SIZE).instr = p[i].instr
              /\ At(q, k, STORE_QUEUE_SIZE).completed <=> i <= r
<1>1. PICK i \in Places(p, "store", 1) : Holds(p, q, STORE_QUEUE_SIZE, k, i)
  BY DEF StoresQueued, Tracks
<1>2. At(q, k, STORE_QUEUE_SIZE).seq = p[i].seq
  BY <1>1 DEF Holds
<1>3. i \in 1 .. Len(p) /\ p[i].instr.kind = "store"
  BY DEF Places
<1> QED
  BY <1>2, <1>3 DEF StoresQueued, StoreFacts

AgesOrdered(p, q) ==
    \A k, j \in Ages(q) : \A i, g \in Places(p, "store", 1) :
        (/\ At(q, k, STORE_QUEUE_SIZE).seq = p[i].seq
         /\ At(q, j, STORE_QUEUE_SIZE).seq = p[g].seq)
        => (k < j <=> i < g) /\ (k <= j <=> i <= g) /\ (k = j <=> i = g)

\* The ages of a queue are ordered as the positions of their stores.
LEMMA AgeOrder ==
    ASSUME NEW p \in Seq(Renamed), Increasing(p), NEW q, NEW r \in Nat, StoresQueued(p, q, r)
    PROVE  AgesOrdered(p, q)
<1> SUFFICES ASSUME NEW k \in Ages(q), NEW j \in Ages(q),
             NEW i \in Places(p, "store", 1), At(q, k, STORE_QUEUE_SIZE).seq = p[i].seq,
             NEW g \in Places(p, "store", 1), At(q, j, STORE_QUEUE_SIZE).seq = p[g].seq
             PROVE  (k < j <=> i < g) /\ (k <= j <=> i <= g) /\ (k = j <=> i = g)
  BY DEF AgesOrdered
<1>1. /\ STORE_QUEUE_SIZE \in Nat \ {0} /\ q \in EntryOf(STORE_QUEUE_SIZE)
      /\ InOrder(q, STORE_QUEUE_SIZE)
  BY QueuesAssumption DEF StoresQueued, Tracks
<1>2. k \in Nat /\ j \in Nat
  BY <1>1, EntryShape
<1>3. i \in 1 .. Len(p) /\ g \in 1 .. Len(p) /\ i \in Int /\ g \in Int
  BY DEF Places
<1>4. (k < j => i < g) /\ (j < k => g < i)
  <2>1. /\ k < j => p[i].seq < p[g].seq
        /\ j < k => p[g].seq < p[i].seq
    BY <1>1 DEF InOrder
  <2> QED
    BY <1>3, <2>1, SeqOrder
<1>5. k = j => i = g
  BY <1>3, SeqOrder
<1> QED
  BY <1>2, <1>3, <1>4, <1>5

\* The committed stores of the queue are its oldest.
LEMMA CommittedAreOldest ==
    ASSUME NEW p \in Seq(Renamed), Increasing(p), NEW q, NEW r \in Nat, StoresQueued(p, q, r)
    PROVE  /\ Cardinality(CommittedPrefix(q)) \in 0 .. q.size
           /\ \A k \in Ages(q) : /\ k \in CommittedPrefix(q) <=> k < Cardinality(CommittedPrefix(q))
                                 /\ k \in CommittedPrefix(q)
                                       <=> At(q, k, STORE_QUEUE_SIZE).completed
<1>1. STORE_QUEUE_SIZE \in Nat \ {0} /\ q \in EntryOf(STORE_QUEUE_SIZE)
  BY QueuesAssumption DEF StoresQueued, Tracks
<1>2. q.size \in Nat /\ \A k \in Ages(q) : k \in Nat
  BY <1>1, EntryShape
<1>3. ASSUME NEW k \in Ages(q), At(q, k, STORE_QUEUE_SIZE).completed, NEW j \in 0 .. k
      PROVE  At(q, j, STORE_QUEUE_SIZE).completed
  <2>1. j \in Ages(q) /\ j <= k
    BY <1>2 DEF Ages
  <2>2. PICK i \in Places(p, "store", 1) :
            /\ At(q, k, STORE_QUEUE_SIZE).seq = p[i].seq
            /\ At(q, k, STORE_QUEUE_SIZE).completed <=> i <= r
    BY StorePlace
  <2>3. PICK g \in Places(p, "store", 1) :
            /\ At(q, j, STORE_QUEUE_SIZE).seq = p[g].seq
            /\ At(q, j, STORE_QUEUE_SIZE).completed <=> g <= r
    BY <2>1, StorePlace
  <2>4. g <= i
    <3>1. At(q, j, STORE_QUEUE_SIZE).seq = p[g].seq /\ At(q, k, STORE_QUEUE_SIZE).seq = p[i].seq
      BY <2>2, <2>3
    <3>2. AgesOrdered(p, q)
      BY AgeOrder
    <3> QED
      BY <2>1, <3>1, <3>2 DEF AgesOrdered
  <2>5. g \in Int /\ i \in Int
    BY DEF Places
  <2> QED
    BY <1>3, <2>2, <2>3, <2>4, <2>5
<1>4. \A k \in Ages(q) : k \in CommittedPrefix(q) <=> At(q, k, STORE_QUEUE_SIZE).completed
  <2>1. \A k \in Ages(q) : k \in 0 .. k
    BY <1>2
  <2> QED
    BY <1>3, <2>1 DEF CommittedPrefix
<1>5. CommittedPrefix(q) \in SUBSET (0 .. q.size - 1) /\ Ages(q) = 0 .. q.size - 1
  BY DEF CommittedPrefix, Ages
<1>6. \A k \in CommittedPrefix(q) : \A j \in 0 .. k : j \in CommittedPrefix(q)
  <2> SUFFICES ASSUME NEW k \in CommittedPrefix(q), NEW j \in 0 .. k
               PROVE  j \in CommittedPrefix(q)
    OBVIOUS
  <2>1. k \in Ages(q) /\ j \in Ages(q)
    BY <1>2, <1>5
  <2> QED
    BY <1>3, <1>4, <2>1
<1> DEFINE S == CommittedPrefix(q)
<1> HIDE DEF S
<1>7. /\ Cardinality(S) \in 0 .. q.size
      /\ \A k \in 0 .. q.size - 1 : k \in S <=> k < Cardinality(S)
  BY <1>2, <1>5, <1>6, PrefixSize DEF S
<1> QED
  BY <1>4, <1>5, <1>7 DEF S

LEMMA StoresSame ==
    ASSUME NEW p \in Seq(Renamed), NEW q, NEW r \in Nat, StoresQueued(p, q, r),
           NEW p2 \in Seq(Renamed), SameText(p, p2), NEW q2, SameQueue(q, q2, STORE_QUEUE_SIZE),
           \A k \in Ages(q) : /\ At(q2, k, STORE_QUEUE_SIZE).instr = At(q, k, STORE_QUEUE_SIZE).instr
                              /\ At(q2, k, STORE_QUEUE_SIZE).completed
                                    = At(q, k, STORE_QUEUE_SIZE).completed
    PROVE  StoresQueued(p2, q2, r)
<1>1. Tracks(p2, q2, STORE_QUEUE_SIZE, "store", 1, r + 1)
  BY QueuesAssumption, TracksSame DEF StoresQueued
<1>2. /\ Ages(q2) = Ages(q)
      /\ \A k \in Ages(q) : At(q2, k, STORE_QUEUE_SIZE).seq = At(q, k, STORE_QUEUE_SIZE).seq
  BY DEF SameQueue, Ages
<1>3. /\ Places(p2, "store", 1) = Places(p, "store", 1)
      /\ \A i \in Places(p, "store", 1) : p2[i].seq = p[i].seq /\ p2[i].instr = p[i].instr
  BY PathShape DEF SameText, Places
<1>4. StoreFacts(p2, q2, r)
  BY <1>2, <1>3 DEF StoresQueued, StoreFacts
<1>5. OldestDrained(p2, q2)
  BY <1>2, <1>3 DEF StoresQueued, OldestDrained, InQueue
<1> QED
  BY <1>1, <1>4, <1>5 DEF StoresQueued

LEMMA StoresAdd ==
    ASSUME NEW p \in Seq(Renamed), NEW q, NEW r \in 0 .. Len(p), StoresQueued(p, q, r),
           q.size < STORE_QUEUE_SIZE,
           NEW e \in Renamed, e.instr.kind = "store", e.slot = q.tail,
           \A i \in 1 .. Len(p) : p[i].seq < e.seq,
           NEW x \in Entry, x.seq = e.seq, x.instr = e.instr, x.completed = FALSE,
           NEW p2, p2 = Append(p, e), NEW q2, q2 = Add(q, x, STORE_QUEUE_SIZE)
    PROVE  StoresQueued(p2, q2, r)
<1>0. /\ STORE_QUEUE_SIZE \in Nat \ {0} /\ q \in EntryOf(STORE_QUEUE_SIZE)
      /\ Ring(q, STORE_QUEUE_SIZE) /\ r \in Nat /\ r + 1 \in Nat \ {0} /\ 1 \in Nat \ {0}
      /\ 1 <= Len(p) + 1 /\ r + 1 <= Len(p) + 1 /\ Len(p) \in Nat
  BY QueuesAssumption, PathShape DEF StoresQueued, Tracks
<1>1. Tracks(p2, q2, STORE_QUEUE_SIZE, "store", 1, r + 1)
  BY <1>0, TracksAdd DEF StoresQueued
<1> DEFINE m == Len(p) + 1
<1>2. /\ q2.size = q.size + 1
      /\ \A k \in Ages(q) : At(q2, k, STORE_QUEUE_SIZE) = At(q, k, STORE_QUEUE_SIZE)
      /\ At(q2, q.size, STORE_QUEUE_SIZE) = x
  BY <1>0, Added
<1>3. /\ Len(p2) = m /\ m \in Nat /\ p2[m] = e
      /\ \A i \in 1 .. Len(p) : p2[i] = p[i]
  BY AppendProperties
<1>4. q.size \in Nat /\ Ages(q2) = Ages(q) \cup {q.size}
  BY <1>0, <1>2, EntryShape DEF Ages
<1>5. /\ Places(p2, "store", 1) = Places(p, "store", 1) \cup {m}
      /\ \A i \in Places(p, "store", 1) : i \in 1 .. Len(p) /\ p2[i] = p[i] /\ p[i].seq < e.seq
      /\ ~(m <= r)
  BY <1>3, PathShape DEF Places
<1> HIDE DEF m
<1>6. \A k \in Ages(q) : At(q, k, STORE_QUEUE_SIZE).seq < e.seq
  BY <1>5, StorePlace, <1>0
<1>7. \A k \in Ages(q) : At(q, k, STORE_QUEUE_SIZE).seq # e.seq
  BY <1>0, <1>6, EntryShape DEF Renamed
<1>8. \A i \in Places(p, "store", 1) : p[i].seq # e.seq
  BY <1>5, PathShape DEF Renamed
<1>9. StoreFacts(p2, q2, r)
  <2> SUFFICES ASSUME NEW k \in Ages(q2), NEW i \in Places(p2, "store", 1),
                      At(q2, k, STORE_QUEUE_SIZE).seq = p2[i].seq
               PROVE  /\ At(q2, k, STORE_QUEUE_SIZE).instr = p2[i].instr
                      /\ At(q2, k, STORE_QUEUE_SIZE).completed <=> i <= r
    BY DEF StoreFacts
  <2>1. CASE k \in Ages(q) /\ i \in Places(p, "store", 1)
    BY <1>2, <1>5, <2>1 DEF StoresQueued, StoreFacts
  <2>2. CASE k \in Ages(q) /\ i = m
    BY <1>2, <1>3, <1>7, <2>2
  <2>3. CASE k = q.size /\ i \in Places(p, "store", 1)
    BY <1>2, <1>5, <1>8, <2>3
  <2>4. CASE k = q.size /\ i = m
    BY <1>2, <1>3, <1>5, <2>4
  <2> QED
    BY <1>4, <1>5, <2>1, <2>2, <2>3, <2>4
<1>10. OldestDrained(p2, q2)
  <2> SUFFICES ASSUME NEW i \in Places(p2, "store", 1)
               PROVE  InQueue(p2, q2, i) \/ \A k \in Ages(q2) : p2[i].seq < At(q2, k, STORE_QUEUE_SIZE).seq
    BY DEF OldestDrained
  <2>1. CASE i = m
    BY <1>2, <1>3, <1>4, <2>1 DEF InQueue
  <2>2. CASE i \in Places(p, "store", 1) /\ InQueue(p, q, i)
    BY <1>2, <1>4, <1>5, <2>2 DEF InQueue
  <2>3. CASE i \in Places(p, "store", 1) /\ ~InQueue(p, q, i)
    <3>1. \A k \in Ages(q) : p[i].seq < At(q, k, STORE_QUEUE_SIZE).seq
      BY <2>3 DEF StoresQueued, OldestDrained
    <3> QED
      BY <1>2, <1>4, <1>5, <2>3, <3>1
  <2> QED
    BY <1>5, <2>1, <2>2, <2>3
<1> QED
  BY <1>1, <1>9, <1>10 DEF StoresQueued

LEMMA StoresOther ==
    ASSUME NEW p \in Seq(Renamed), NEW q, NEW r \in Nat, StoresQueued(p, q, r),
           NEW e \in Renamed, e.instr.kind # "store", NEW p2, p2 = Append(p, e)
    PROVE  StoresQueued(p2, q, r)
<1>1. Tracks(p2, q, STORE_QUEUE_SIZE, "store", 1, r + 1)
  <2>1. STORE_QUEUE_SIZE \in Nat \ {0} /\ 1 \in Nat \ {0} /\ r + 1 \in Nat \ {0}
    BY QueuesAssumption
  <2> QED
    BY <2>1, TracksOther DEF StoresQueued
<1>2. /\ Len(p2) = Len(p) + 1 /\ Len(p) \in Nat /\ p2[Len(p) + 1] = e
      /\ \A i \in 1 .. Len(p) : p2[i] = p[i]
  BY AppendProperties
<1>3. /\ Places(p2, "store", 1) = Places(p, "store", 1)
      /\ \A i \in Places(p, "store", 1) : p2[i] = p[i]
  BY <1>2 DEF Places
<1>4. StoreFacts(p2, q, r)
  BY ZenonT(30), <1>3 DEF StoresQueued, StoreFacts
<1>5. OldestDrained(p, q)
  BY DEF StoresQueued
<1>6. OldestDrained(p2, q)
  <2> SUFFICES ASSUME NEW i \in Places(p2, "store", 1)
               PROVE  InQueue(p2, q, i) \/ \A k \in Ages(q) : p2[i].seq < At(q, k, STORE_QUEUE_SIZE).seq
    BY DEF OldestDrained
  <2>1. i \in Places(p, "store", 1) /\ p2[i] = p[i]
    BY <1>3
  <2> QED
    BY <1>5, <2>1 DEF OldestDrained, InQueue
<1> QED
  BY <1>1, <1>4, <1>6 DEF StoresQueued

\* commit_stage, whatever is not a store.
LEMMA StoresPassedBy ==
    ASSUME NEW p \in Seq(Renamed), NEW q, NEW r \in 0 .. Len(p) - 1, StoresQueued(p, q, r),
           p[r + 1].instr.kind # "store"
    PROVE  StoresQueued(p, q, r + 1)
<1>1. Len(p) \in Nat /\ r \in Nat
  BY PathShape
<1>2. Places(p, "store", (r + 1) + 1) \subseteq Places(p, "store", r + 1)
  BY <1>1 DEF Places
<1>3. Tracks(p, q, STORE_QUEUE_SIZE, "store", 1, (r + 1) + 1)
  BY <1>2 DEF StoresQueued, Tracks
<1>4. \A i \in Places(p, "store", 1) : i <= r <=> i <= r + 1
  BY <1>1 DEF Places
<1>5. StoreFacts(p, q, r + 1)
  BY <1>4 DEF StoresQueued, StoreFacts
<1> QED
  BY <1>3, <1>5 DEF StoresQueued

\* mark_store_complete, by age.
MarkedEntry(e, seq) == IF e.seq = seq THEN [e EXCEPT !.completed = TRUE] ELSE e

LEMMA Marked ==
    ASSUME sq \in EntryOf(STORE_QUEUE_SIZE), NEW seq \in Nat, NEW q2, q2 = MarkStoreComplete(seq)
    PROVE  /\ q2 \in EntryOf(STORE_QUEUE_SIZE)
           /\ q2.head = sq.head /\ q2.tail = sq.tail /\ q2.size = sq.size
           /\ \A k \in Ages(sq) :
                 At(q2, k, STORE_QUEUE_SIZE) = MarkedEntry(Store(k), seq)
<1> USE DEF MarkedEntry
<1> DEFINE n == STORE_QUEUE_SIZE
           named(i) == \E k \in Ages(sq) : i = Where(sq, k, n) /\ Store(k).seq = seq
           es == [i \in Slots(n) |-> IF named(i) THEN [sq.entries[i] EXCEPT !.completed = TRUE]
                                                 ELSE sq.entries[i]]
<1>1. n \in Nat \ {0} /\ sq \in EntryOf(n)
  BY QueuesAssumption
<1>2. /\ sq.entries \in [0 .. n - 1 -> Entry] /\ sq.head \in 0 .. n - 1 /\ sq.tail \in 0 .. n - 1
      /\ sq.size \in 0 .. n
      /\ \A k \in 0 .. n : Where(sq, k, n) \in 0 .. n - 1
      /\ \A k \in Int : At(sq, k, n) = sq.entries[Where(sq, k, n)]
  BY <1>1, QueueShape
<1>3. q2 = [sq EXCEPT !.entries = es]
  BY Zenon DEF MarkStoreComplete, Where
<1>4. es \in [0 .. n - 1 -> Entry]
  <2>1. \A i \in 0 .. n - 1 : sq.entries[i] \in Entry
    BY <1>2
  <2>2. \A i \in 0 .. n - 1 : [sq.entries[i] EXCEPT !.completed = TRUE] \in Entry
    BY <2>1 DEF Entry
  <2> QED
    BY <2>1, <2>2 DEF Slots
<1>5. \A k \in Ages(sq) : k \in 0 .. n - 1 /\ k \in 0 .. n /\ k \in Int
  BY <1>1, EntryShape
<1>6. \A k \in Ages(sq) : named(Where(sq, k, n)) <=> Store(k).seq = seq
  <2> SUFFICES ASSUME NEW k \in Ages(sq), NEW j \in Ages(sq),
                      Where(sq, k, n) = Where(sq, j, n), Store(j).seq = seq
               PROVE  Store(k).seq = seq
    OBVIOUS
  <2>1. k = j
    BY <1>1, <1>5, WhereInjective
  <2> QED
    BY <2>1
<1>7. \A k \in Ages(sq) : Where(sq, k, n) \in Slots(n) /\ Store(k) = sq.entries[Where(sq, k, n)]
  BY <1>2, <1>5 DEF Slots, Store
<1>8. \A k \in Ages(sq) : es[Where(sq, k, n)]
                            = IF Store(k).seq = seq THEN [Store(k) EXCEPT !.completed = TRUE]
                                                    ELSE Store(k)
  BY <1>6, <1>7
<1> HIDE DEF es
<1>9. q2 = [entries |-> es, head |-> sq.head, tail |-> sq.tail, size |-> sq.size]
  BY <1>3 DEF EntryOf
<1>10. q2 \in EntryOf(n)
  BY <1>2, <1>4, <1>9 DEF EntryOf, Slots, Entry
<1>11. q2.entries = es /\ q2.head = sq.head /\ q2.tail = sq.tail /\ q2.size = sq.size
  BY <1>9
<1>12. \A k \in Ages(sq) : At(q2, k, n) = es[Where(sq, k, n)]
  BY <1>11 DEF At, Where
<1> QED
  BY <1>8, <1>10, <1>11, <1>12

LEMMA StoresMarked ==
    ASSUME NEW p \in Seq(Renamed), Increasing(p), NEW r \in 0 .. Len(p) - 1,
           StoresQueued(p, sq, r), p[r + 1].instr.kind = "store",
           NEW q2, q2 = MarkStoreComplete(p[r + 1].seq)
    PROVE  StoresQueued(p, q2, r + 1)
<1> DEFINE n == STORE_QUEUE_SIZE
<1>1. /\ Len(p) \in Nat /\ r \in Nat /\ r + 1 \in 1 .. Len(p) /\ p[r + 1].seq \in Nat
      /\ sq \in EntryOf(n) /\ n \in Nat \ {0}
  BY PathShape, QueuesAssumption DEF StoresQueued, Tracks
<1>2. /\ q2 \in EntryOf(n)
      /\ q2.head = sq.head /\ q2.tail = sq.tail /\ q2.size = sq.size
      /\ \A k \in Ages(sq) : At(q2, k, n) = MarkedEntry(Store(k), p[r + 1].seq)
  BY <1>1, Marked
<1>3. \A k \in Ages(sq) : Store(k) \in Entry /\ Store(k) = At(sq, k, n)
  BY <1>1, EntryShape DEF Store
<1>4. \A k \in Ages(sq) : /\ At(q2, k, n).seq = At(sq, k, n).seq
                          /\ At(q2, k, n).instr = At(sq, k, n).instr
                          /\ At(q2, k, n).completed
                                <=> At(sq, k, n).completed \/ At(sq, k, n).seq = p[r + 1].seq
  BY <1>2, <1>3 DEF Entry, MarkedEntry
<1>5. Ages(q2) = Ages(sq)
  BY <1>2 DEF Ages
<1>6. SameQueue(sq, q2, n) /\ SameText(p, p)
  BY <1>2, <1>4 DEF SameQueue, SameText
<1>7. Tracks(p, q2, n, "store", 1, r + 1)
  <2>1. 1 \in Nat \ {0} /\ r + 1 \in Nat \ {0}
    BY <1>1
  <2> QED
    BY <1>1, <1>6, <2>1, TracksSame DEF StoresQueued
<1>8. Tracks(p, q2, n, "store", 1, (r + 1) + 1)
  <2>1. Places(p, "store", (r + 1) + 1) \subseteq Places(p, "store", r + 1)
    BY <1>1 DEF Places
  <2> QED
    BY <1>7, <2>1 DEF Tracks
<1>9. \A i \in Places(p, "store", 1) : /\ i <= r + 1 <=> (i <= r \/ i = r + 1)
                                       /\ p[i].seq = p[r + 1].seq <=> i = r + 1
  <2>1. \A i \in Places(p, "store", 1) : i \in 1 .. Len(p) /\ i \in Int
    BY DEF Places
  <2> QED
    BY <1>1, <2>1, SeqOrder
<1>10. StoreFacts(p, q2, r + 1)
  BY <1>4, <1>5, <1>9 DEF StoresQueued, StoreFacts
<1>11. OldestDrained(p, q2)
  BY <1>4, <1>5 DEF StoresQueued, OldestDrained, InQueue
<1> QED
  BY <1>8, <1>10, <1>11 DEF StoresQueued

\* evict_commited_stores: only committed stores leave the queue.
LEMMA StoresDrained ==
    ASSUME NEW p \in Seq(Renamed), Increasing(p), NEW q, NEW r \in Nat, StoresQueued(p, q, r),
           NEW count \in 0 .. Cardinality(CommittedPrefix(q)),
           NEW q2, q2 = PopHead(q, count, STORE_QUEUE_SIZE)
    PROVE  /\ StoresQueued(p, q2, r)
           /\ count \in 0 .. q.size
           /\ \A k \in Ages(q) : k < count => At(q, k, STORE_QUEUE_SIZE).completed
           /\ \A k \in Ages(q2) : /\ k + count \in Ages(q)
                                  /\ At(q2, k, STORE_QUEUE_SIZE) = At(q, k + count, STORE_QUEUE_SIZE)
           /\ \A k \in Ages(q) : k >= count => k - count \in Ages(q2)
<1> DEFINE n == STORE_QUEUE_SIZE
<1>1. n \in Nat \ {0} /\ q \in EntryOf(n) /\ Ring(q, n) /\ InOrder(q, n)
  BY QueuesAssumption DEF StoresQueued, Tracks
<1>2. /\ Cardinality(CommittedPrefix(q)) \in 0 .. q.size
      /\ \A k \in Ages(q) : k < Cardinality(CommittedPrefix(q)) <=> At(q, k, n).completed
  BY CommittedAreOldest
<1>3. q.size \in Nat /\ \A k \in Ages(q) : k \in Nat
  BY <1>1, EntryShape
<1>4. count \in 0 .. q.size /\ \A k \in Ages(q) : k < count => At(q, k, n).completed
  BY <1>2, <1>3
<1>5. /\ q2 \in EntryOf(n) /\ q2.size = q.size - count
      /\ \A k \in Ages(q2) : /\ k + count \in Ages(q)
                             /\ At(q2, k, n) = At(q, k + count, n)
  BY <1>1, <1>4, HeadPopped
<1>6. \A k \in Ages(q) : k >= count => k - count \in Ages(q2) /\ (k - count) + count = k
  BY <1>3, <1>4, <1>5 DEF Ages
<1>7. \A k \in Ages(q) : \A i \in Places(p, "store", 1) : Holds(p, q, n, k, i) =>
        IF k < count THEN i < r + 1 ELSE i >= 1
  <2>1. \A k \in Ages(q) : \A i \in Places(p, "store", 1) : Holds(p, q, n, k, i) =>
          (At(q, k, n).completed <=> i <= r)
    BY DEF StoresQueued, StoreFacts, Holds
  <2>2. \A i \in Places(p, "store", 1) : i \in Int /\ i >= 1
    BY DEF Places
  <2> QED
    BY <1>4, <2>1, <2>2
<1>8. Tracks(p, q2, n, "store", 1, r + 1)
  <2>1. 1 \in Nat \ {0} /\ r + 1 \in Nat \ {0} /\ 1 <= r + 1 /\ 1 <= 1 /\ r + 1 <= r + 1
    OBVIOUS
  <2>2. 1 \in Nat /\ r + 1 \in Nat
    OBVIOUS
  <2> QED
    BY <1>1, <1>4, <1>7, <2>1, <2>2, TracksPop DEF StoresQueued
<1>9. StoreFacts(p, q2, r)
  BY <1>5 DEF StoresQueued, StoreFacts
<1>10. OldestDrained(p, q2)
  <2> SUFFICES ASSUME NEW i \in Places(p, "store", 1), ~InQueue(p, q2, i), NEW k \in Ages(q2)
               PROVE  p[i].seq < At(q2, k, n).seq
    BY DEF OldestDrained
  <2>1. CASE InQueue(p, q, i)
    <3>1. PICK j \in Ages(q) : At(q, j, n).seq = p[i].seq
      BY <2>1 DEF InQueue
    <3>2. j < count
      BY <1>3, <1>4, <1>5, <1>6, <3>1 DEF InQueue
    <3>3. j < k + count /\ k + count \in Ages(q)
      <4>1. k \in Nat
        BY <1>1, <1>5, EntryShape
      <4> QED
        BY <1>3, <1>4, <1>5, <3>2, <4>1
    <3> QED
      BY <1>1, <1>5, <3>1, <3>3 DEF InOrder
  <2>2. CASE ~InQueue(p, q, i)
    <3>1. \A j \in Ages(q) : p[i].seq < At(q, j, n).seq
      BY <2>2 DEF StoresQueued, OldestDrained
    <3> QED
      BY <1>5, <3>1
  <2> QED
    BY <2>1, <2>2
<1> QED
  BY <1>4, <1>5, <1>6, <1>8, <1>9, <1>10 DEF StoresQueued

\* perform_squash.
LEMMA StoresCut ==
    ASSUME NEW p \in Seq(Renamed), NEW q, NEW r \in 0 .. Len(p), StoresQueued(p, q, r),
           NEW m \in 0 .. Len(p), NEW seq \in Nat,
           \A i \in 1 .. Len(p) : i <= m <=> p[i].seq <= seq,
           NEW p2, p2 = SubSeq(p, 1, m), NEW q2, q2 = Squashed(q, seq, STORE_QUEUE_SIZE),
           NEW r2, r2 = IF r <= m THEN r ELSE m
    PROVE  StoresQueued(p2, q2, r2)
<1> DEFINE n == STORE_QUEUE_SIZE
<1>1. /\ n \in Nat \ {0} /\ q \in EntryOf(n) /\ Ring(q, n) /\ InOrder(q, n)
      /\ Len(p) \in Nat /\ m \in Nat /\ r \in Nat /\ r2 \in Nat
  BY QueuesAssumption, PathShape DEF StoresQueued, Tracks
<1>2. Tracks(p2, q2, n, "store", 1, r2 + 1)
  <2>0. Tracks(p, q, n, "store", 1, r + 1)
    BY DEF StoresQueued
  <2>1. 1 \in Nat \ {0} /\ r + 1 \in Nat \ {0} /\ r2 + 1 \in Nat \ {0}
    BY <1>1
  <2>2. 1 = Lesser(1, m + 1) /\ r2 + 1 = Lesser(r + 1, m + 1)
    BY <1>1 DEF Lesser
  <2> QED
    BY <1>1, <2>0, <2>1, <2>2, TracksCut
<1>3. /\ Ages(q2) \subseteq Ages(q)
      /\ \A k \in Ages(q) : k \in Ages(q2) <=> At(q, k, n).seq <= seq
      /\ \A k \in Int : At(q2, k, n) = At(q, k, n)
  BY <1>1, TailPopped
<1>4. \A k \in Ages(q2) : k \in Ages(q) /\ At(q2, k, n) = At(q, k, n)
  BY <1>1, <1>3, EntryShape
<1>5. Len(p2) = m /\ \A i \in 1 .. m : p2[i] = p[i]
  BY <1>1, PathShape, SubSeqProperties
<1>6. \A i \in Places(p2, "store", 1) : /\ i \in 1 .. m /\ i \in 1 .. Len(p) /\ p2[i] = p[i]
                                        /\ i \in Places(p, "store", 1)
                                        /\ i <= r2 <=> i <= r
  BY <1>1, <1>5 DEF Places
<1>7. StoreFacts(p2, q2, r2)
  BY <1>4, <1>6 DEF StoresQueued, StoreFacts
<1>8. OldestDrained(p2, q2)
  <2> SUFFICES ASSUME NEW i \in Places(p2, "store", 1)
               PROVE  InQueue(p2, q2, i) \/ \A k \in Ages(q2) : p2[i].seq < At(q2, k, n).seq
    BY DEF OldestDrained
  <2>1. CASE InQueue(p, q, i)
    <3>1. PICK j \in Ages(q) : At(q, j, n).seq = p[i].seq
      BY <2>1 DEF InQueue
    <3>2. j \in Ages(q2)
      BY <1>3, <1>6, <3>1
    <3> QED
      BY <1>4, <1>6, <3>1, <3>2 DEF InQueue
  <2>2. CASE ~InQueue(p, q, i)
    <3>1. \A j \in Ages(q) : p[i].seq < At(q, j, n).seq
      BY <1>6, <2>2 DEF StoresQueued, OldestDrained
    <3> QED
      BY <1>4, <1>6, <3>1
  <2> QED
    BY <2>1, <2>2
<1> QED
  BY <1>2, <1>7, <1>8 DEF StoresQueued

----------------------------------------------------------------------------
(* The steps of the instructions in flight.                                *)

LEMMA PathUpdated ==
    ASSUME NEW p \in Seq(Renamed), NEW k \in 1 .. Len(p), NEW stage \in Stages,
           NEW value \in Value, NEW r,
           \/ r = [p EXCEPT ![k].stage = stage]
           \/ r = [p EXCEPT ![k].stage = stage, ![k].value = value]
    PROVE  /\ r \in Seq(Renamed) /\ SameText(p, r)
           /\ r[k].stage = stage
           /\ r[k].value = p[k].value \/ r[k].value = value
           /\ \A i \in 1 .. Len(p) : i # k => r[i] = p[i]
<1>1. /\ Len(p) \in Nat /\ DOMAIN p = 1 .. Len(p) /\ p \in [1 .. Len(p) -> Renamed]
      /\ \A i \in 1 .. Len(p) : p[i] \in Renamed
  BY PathShape
<1>2. p[k] \in [seq : Nat, instr : Instrs, stage : Stages, slot : Int, value : Value]
  BY <1>1 DEF Renamed
<1>3. PICK e \in Renamed :
          /\ r = [p EXCEPT ![k] = e]
          /\ e.seq = p[k].seq /\ e.instr = p[k].instr /\ e.slot = p[k].slot /\ e.stage = stage
          /\ e.value = p[k].value \/ e.value = value
  <2>1. CASE r = [p EXCEPT ![k].stage = stage]
    <3> DEFINE e == [p[k] EXCEPT !.stage = stage]
    <3>1. /\ e \in Renamed /\ e.seq = p[k].seq /\ e.instr = p[k].instr /\ e.slot = p[k].slot
          /\ e.stage = stage /\ e.value = p[k].value
      BY <1>2 DEF Renamed
    <3>2. r = [p EXCEPT ![k] = e]
      BY <2>1
    <3> QED
      BY <3>1, <3>2
  <2>2. CASE r = [p EXCEPT ![k].stage = stage, ![k].value = value]
    <3> DEFINE e == [p[k] EXCEPT !.stage = stage, !.value = value]
    <3>1. /\ e \in Renamed /\ e.seq = p[k].seq /\ e.instr = p[k].instr /\ e.slot = p[k].slot
          /\ e.stage = stage /\ e.value = value
      BY <1>2 DEF Renamed
    <3>2. r = [p EXCEPT ![k] = e]
      BY <1>1, <2>2
    <3> QED
      BY <3>1, <3>2
  <2> QED
    BY <2>1, <2>2
<1>4. r \in [1 .. Len(p) -> Renamed]
  BY <1>1, <1>3
<1>5. r \in Seq(Renamed) /\ Len(r) = Len(p)
  BY SMTT(30), <1>1, <1>4
<1>6. r[k] = e /\ \A i \in 1 .. Len(p) : i # k => r[i] = p[i]
  BY <1>1, <1>3
<1>7. SameText(p, r)
  BY <1>3, <1>5, <1>6 DEF SameText
<1> QED
  BY <1>3, <1>5, <1>6, <1>7

\* execute_stage: the address of an entry becomes known.
LEMMA Resolved ==
    ASSUME NEW n \in Nat \ {0}, NEW q \in EntryOf(n), NEW s \in Int,
           NEW r, r = [q EXCEPT !.entries[s].addr_ready = TRUE]
    PROVE  /\ SameQueue(q, r, n)
           /\ \A k \in Ages(q) : /\ At(r, k, n).instr = At(q, k, n).instr
                                 /\ At(r, k, n).completed = At(q, k, n).completed
                                 /\ At(r, k, n).addr_ready
                                       <=> At(q, k, n).addr_ready \/ Where(q, k, n) = s
<1> DEFINE es == [q.entries EXCEPT ![s].addr_ready = TRUE]
<1>1. /\ q.entries \in [0 .. n - 1 -> Entry]
      /\ q.head \in 0 .. n - 1 /\ q.tail \in 0 .. n - 1 /\ q.size \in 0 .. n
      /\ \A k \in 0 .. n : Where(q, k, n) \in 0 .. n - 1
      /\ \A k \in Int : At(q, k, n) = q.entries[Where(q, k, n)]
  BY QueueShape
<1>2. r = [entries |-> es, head |-> q.head, tail |-> q.tail, size |-> q.size]
  BY DEF EntryOf
<1>3. \A i \in 0 .. n - 1 : es[i] = IF i = s THEN [q.entries[i] EXCEPT !.addr_ready = TRUE]
                                             ELSE q.entries[i]
  BY <1>1
<1>4. DOMAIN es = 0 .. n - 1 /\ es = [i \in 0 .. n - 1 |-> es[i]]
  BY <1>1
<1> HIDE DEF es
<1>5. \A i \in 0 .. n - 1 : /\ es[i] \in Entry
                            /\ es[i].seq = q.entries[i].seq /\ es[i].instr = q.entries[i].instr
                            /\ es[i].completed = q.entries[i].completed
                            /\ es[i].addr_ready <=> q.entries[i].addr_ready \/ i = s
  <2> SUFFICES ASSUME NEW i \in 0 .. n - 1
               PROVE  /\ es[i] \in Entry
                      /\ es[i].seq = q.entries[i].seq /\ es[i].instr = q.entries[i].instr
                      /\ es[i].completed = q.entries[i].completed
                      /\ es[i].addr_ready <=> q.entries[i].addr_ready \/ i = s
    OBVIOUS
  <2>1. q.entries[i] \in Entry
    BY <1>1
  <2> QED
    BY <1>3, <2>1 DEF Entry
<1>6. es \in [0 .. n - 1 -> Entry]
  BY <1>4, <1>5
<1>7. r \in EntryOf(n) /\ r.entries = es /\ r.head = q.head /\ r.tail = q.tail /\ r.size = q.size
  <2>1. r \in EntryOf(n)
    <3> DEFINE new == [entries |-> es, head |-> q.head, tail |-> q.tail, size |-> q.size]
    <3>1. es \in [Slots(n) -> Entry] /\ q.head \in Slots(n) /\ q.tail \in Slots(n)
      BY <1>1, <1>6 DEF Slots
    <3>2. new \in EntryOf(n)
      BY <1>1, <3>1 DEF EntryOf, Entry
    <3> HIDE DEF new
    <3>3. r = new
      BY <1>2 DEF new
    <3> QED
      BY <3>2, <3>3
  <2> QED
    BY <1>2, <2>1
<1>8. \A k \in Ages(q) : k \in 0 .. n /\ k \in Int
  BY EntryShape
<1>9. \A k \in Ages(q) : /\ Where(q, k, n) \in 0 .. n - 1
                         /\ At(q, k, n) = q.entries[Where(q, k, n)]
                         /\ At(r, k, n) = es[Where(q, k, n)]
  BY <1>1, <1>7, <1>8 DEF At, Where
<1>10. \A k \in Ages(q) : At(r, k, n).seq = At(q, k, n).seq
  BY <1>5, <1>9
<1>11. SameQueue(q, r, n)
  BY <1>7, <1>10 DEF SameQueue
<1>12. \A k \in Ages(q) : /\ At(r, k, n).instr = At(q, k, n).instr
                          /\ At(r, k, n).completed = At(q, k, n).completed
                          /\ At(r, k, n).addr_ready
                                <=> At(q, k, n).addr_ready \/ Where(q, k, n) = s
  BY <1>5, <1>9
<1> QED
  BY <1>11, <1>12

LEMMA Nothing ==
    ASSUME NEW n \in Nat \ {0}, NEW q \in EntryOf(n), NEW p \in Seq(Renamed)
    PROVE  SameQueue(q, q, n) /\ SameText(p, p)
BY DEF SameQueue, SameText

LEMMA DataIsValue ==
    ASSUME NEW seq \in Nat \cup {Initial}
    PROVE  Data(seq) \in Value
BY DEF Data, Value

LEMMA Sizes ==
    /\ LOAD_QUEUE_SIZE \in Nat \ {0} /\ STORE_QUEUE_SIZE \in Nat \ {0} /\ Initial \in Int
    /\ \A i \in Instrs : i.kind \in Kind /\ i.addr \in Nat /\ Word(i.addr) \in Words
BY QueuesAssumption, MemoryInstrsAssumption DEF Initial, Words

WindowOK ==
    /\ path \in Seq(Renamed) /\ Increasing(path)
    /\ \A k \in 1 .. Len(path) : path[k].seq < next_seq
\* A committed store that is still queued missed, or is behind one that did.
WaitingMissed == \A k \in Ages(sq) : Store(k).completed => Store(k).seq \in missed

(***************************************************************************)
(* The inductive invariant of the queues.                                  *)
(***************************************************************************)
QueueInvariant ==
    /\ TypeOK /\ WindowOK
    /\ LoadsQueued(path, lq, retired) /\ StoresQueued(path, sq, retired)
    /\ WaitingMissed /\ OnlyMissesUndoCommits

\* A step of execute_stage, writeback_stage or memory_stage: nothing enters or
\* leaves a queue, and a squash may be asked for by a branch in flight.
Underway ==
    /\ path' \in Seq(Renamed) /\ SameText(path, path')
    /\ SameQueue(lq, lq', LOAD_QUEUE_SIZE) /\ SameQueue(sq, sq', STORE_QUEUE_SIZE)
    /\ \A k \in Ages(sq) :
          /\ At(sq', k, STORE_QUEUE_SIZE).instr = At(sq, k, STORE_QUEUE_SIZE).instr
          /\ At(sq', k, STORE_QUEUE_SIZE).completed = At(sq, k, STORE_QUEUE_SIZE).completed
    /\ UNCHANGED <<retired, mem, next_seq, missed, undone>>
    /\ \/ UNCHANGED squashVars
       \/ /\ squash_pending' = TRUE
          /\ squash_pending => squash_seq' <= squash_seq
          /\ \/ squash_pending /\ squash_seq' = squash_seq
             \/ \E k \in retired + 1 .. Len(path) : squash_seq' = path[k].seq

InFlightStep(k) ==
    \/ Dispatch(k) \/ Writeback(k) \/ MemoryResponse(k)
    \/ ExecuteLoad(k) \/ ExecuteStore(k) \/ ExecuteBranch(k)

LEMMA NextCases ==
    ASSUME [Next]_vars
    PROVE  \/ UNCHANGED vars
           \/ \E instr \in Instrs : Rename(instr)
           \/ \E k \in retired + 1 .. Len(path) : InFlightStep(k)
           \/ Commit \/ DrainStores \/ PerformSquash
BY DEF Next, Halted, InFlightStep

LEMMA InFlightStepIsUnderway ==
    ASSUME TypeOK, \/ UNCHANGED vars
                   \/ \E k \in retired + 1 .. Len(path) : InFlightStep(k)
    PROVE  Underway
<1>0. /\ path \in Seq(Renamed) /\ retired \in Nat /\ Len(path) \in Nat
      /\ lq \in EntryOf(LOAD_QUEUE_SIZE) /\ sq \in EntryOf(STORE_QUEUE_SIZE)
      /\ mem \in [Words -> Value] /\ next_seq \in Nat
  BY PathShape DEF TypeOK, Renamed
<1>1. /\ SameText(path, path) /\ SameQueue(lq, lq, LOAD_QUEUE_SIZE)
      /\ SameQueue(sq, sq, STORE_QUEUE_SIZE)
  BY <1>0, Sizes, Nothing
<1>2. CASE UNCHANGED vars
  BY <1>0, <1>1, <1>2 DEF vars, squashVars, history, Underway
<1>3. ASSUME NEW k \in retired + 1 .. Len(path), InFlightStep(k) PROVE Underway
  <2>0. k \in 1 .. Len(path) /\ path[k] \in Renamed /\ path[k].instr \in Instrs
        /\ path[k].slot \in Int /\ path[k].seq \in Nat
    BY <1>0, PathShape
  <2>1. ASSUME NEW stage \in Stages, NEW value \in Value,
               \/ path' = [path EXCEPT ![k].stage = stage]
               \/ path' = [path EXCEPT ![k].stage = stage, ![k].value = value]
        PROVE  path' \in Seq(Renamed) /\ SameText(path, path')
    BY <1>0, <2>0, <2>1, PathUpdated
  <2>2. \A v : path' = [path EXCEPT ![k].stage = v] /\ v \in Stages =>
                 path' \in Seq(Renamed) /\ SameText(path, path')
    <3>1. Data(0) \in Value
      BY DataIsValue
    <3> QED
      BY <2>1, <3>1
  <2>3. CASE Dispatch(k)
    BY <1>1, <2>2, <2>3 DEF Dispatch, Underway, squashVars, history, Stages
  <2>4. CASE Writeback(k)
    BY <1>1, <2>2, <2>4 DEF Writeback, Underway, squashVars, history, Stages
  <2>5. CASE MemoryResponse(k)
    <3>1. mem[Word(path[k].instr.addr)] \in Value
      BY <1>0, <2>0, Sizes
    <3>2. path' \in Seq(Renamed) /\ SameText(path, path')
      BY <2>1, <2>5, <3>1 DEF MemoryResponse, Stages
    <3> QED
      BY <1>1, <2>5, <3>2 DEF MemoryResponse, Underway, squashVars, history
  <2>6. CASE ExecuteLoad(k)
    <3>1. mem[Word(path[k].instr.addr)] \in Value
      BY <1>0, <2>0, Sizes
    <3>2. SameQueue(lq, lq', LOAD_QUEUE_SIZE)
      BY <1>0, <2>0, <2>6, Sizes, Resolved DEF ExecuteLoad
    <3>3. path' \in Seq(Renamed) /\ SameText(path, path')
      <4> DEFINE from == ForwardingStores(path[k].seq, path[k].instr)
                 data == Data(Store(Youngest(from)).seq)
      <4>1. CASE from # {} /\ path' = [path EXCEPT ![k].stage = "result", ![k].value = data]
        <5>1. from \in SUBSET (0 .. STORE_QUEUE_SIZE) /\ from \subseteq Ages(sq)
          BY <1>0, Sizes, EntryShape DEF ForwardingStores
        <5>2. Youngest(from) \in Ages(sq)
          BY <4>1, <5>1, Sizes, YoungestIsIn
        <5>3. Store(Youngest(from)).seq \in Nat
          BY <1>0, <5>2, Sizes, EntryShape DEF Store
        <5>4. data \in Value
          BY <5>3, DataIsValue
        <5> HIDE DEF data
        <5> QED
          BY <2>1, <4>1, <5>4 DEF Stages
      <4>2. CASE path' = [path EXCEPT ![k].stage = "result",
                                      ![k].value = mem[Word(path[k].instr.addr)]]
        BY <2>1, <3>1, <4>2 DEF Stages
      <4>3. CASE path' = [path EXCEPT ![k].stage = "mshr"]
        BY <2>2, <4>3 DEF Stages
      <4>4. CASE path' = path
        BY <1>0, <1>1, <4>4
      <4> QED
        BY <2>6, <4>1, <4>2, <4>3, <4>4 DEF ExecuteLoad
    <3> QED
      BY <1>1, <2>6, <3>2, <3>3 DEF ExecuteLoad, Underway, squashVars, history
  <2>7. CASE ExecuteStore(k)
    <3>1. /\ SameQueue(sq, sq', STORE_QUEUE_SIZE)
          /\ \A j \in Ages(sq) :
                /\ At(sq', j, STORE_QUEUE_SIZE).instr = At(sq, j, STORE_QUEUE_SIZE).instr
                /\ At(sq', j, STORE_QUEUE_SIZE).completed = At(sq, j, STORE_QUEUE_SIZE).completed
      <4> DEFINE s == path[k].slot
                 n == STORE_QUEUE_SIZE
      <4>1. s \in Int /\ sq' = [sq EXCEPT !.entries[s].addr_ready = TRUE] /\ n \in Nat \ {0}
            /\ sq \in EntryOf(n)
        BY <1>0, <2>0, <2>7, Sizes DEF ExecuteStore
      <4> HIDE DEF s, n
      <4>2. /\ SameQueue(sq, sq', n)
            /\ \A j \in Ages(sq) : /\ At(sq', j, n).instr = At(sq, j, n).instr
                                    /\ At(sq', j, n).completed = At(sq, j, n).completed
        BY <4>1, Resolved
      <4> QED
        BY <4>2 DEF n
    <3>2. path' \in Seq(Renamed) /\ SameText(path, path')
      BY <2>2, <2>7 DEF ExecuteStore, Stages
    <3> QED
      BY <1>1, <2>7, <3>1, <3>2 DEF ExecuteStore, Underway, squashVars, history
  <2>8. CASE ExecuteBranch(k)
    <3>1. path' \in Seq(Renamed) /\ SameText(path, path')
      BY <2>2, <2>8 DEF ExecuteBranch, Stages
    <3>2. squash_seq \in Nat /\ (squash_pending => squash_seq <= squash_seq)
      BY DEF TypeOK
    <3> QED
      BY <1>1, <2>0, <2>8, <3>1, <3>2 DEF ExecuteBranch, Older, Underway, squashVars, history
  <2> QED
    BY <1>3, <2>3, <2>4, <2>5, <2>6, <2>7, <2>8 DEF InFlightStep
<1> QED
  BY <1>2, <1>3

----------------------------------------------------------------------------
(* Each step keeps the invariant.                                          *)

LEMMA UnderwayKeeps ==
    ASSUME QueueInvariant, Underway
    PROVE  QueueInvariant'
<1> USE DEF QueueInvariant
<1>0. /\ path \in Seq(Renamed) /\ retired \in Nat /\ retired <= Len(path) /\ Len(path) \in Nat
      /\ path' \in Seq(Renamed) /\ SameText(path, path') /\ Len(path') = Len(path)
      /\ next_seq' = next_seq /\ retired' = retired /\ mem' = mem /\ missed' = missed
      /\ undone' = undone
  <2>1. /\ path' \in Seq(Renamed) /\ SameText(path, path')
        /\ UNCHANGED <<retired, mem, next_seq, missed, undone>>
    BY Zenon DEF Underway
  <2> QED
    BY <2>1, PathShape DEF TypeOK, Renamed, SameText
<1>1. \A k \in 1 .. Len(path) : path'[k].seq = path[k].seq /\ path[k].seq \in Nat
  BY <1>0, PathShape DEF SameText
<1>2. WindowOK'
  BY <1>0, <1>1 DEF WindowOK, Increasing
<1>3. LoadsQueued(path', lq', retired')
  <2>1. retired + 1 \in Nat \ {0}
    BY <1>0
  <2> QED
    BY <1>0, <2>1, Sizes, TracksSame DEF LoadsQueued, Underway
<1>4. StoresQueued(path', sq', retired')
  BY <1>0, StoresSame DEF Underway
<1>5. WaitingMissed'
  <2>1. Ages(sq') = Ages(sq)
    BY DEF Underway, SameQueue, Ages
  <2>2. \A k \in Ages(sq) : At(sq', k, STORE_QUEUE_SIZE).seq = At(sq, k, STORE_QUEUE_SIZE).seq
                            /\ At(sq', k, STORE_QUEUE_SIZE).completed
                                  = At(sq, k, STORE_QUEUE_SIZE).completed
    BY DEF Underway, SameQueue
  <2> QED
    BY <1>0, <2>1, <2>2 DEF WaitingMissed, Store
<1>6. squash_pending' \in BOOLEAN /\ squash_seq' \in Nat /\ OnlyMissesUndoCommits'
  <2>1. CASE UNCHANGED squashVars
    <3>1. squash_pending' = squash_pending /\ squash_seq' = squash_seq
      BY <2>1 DEF squashVars
    <3>2. OnlyMissesUndoCommits'
      BY <1>0, <1>1, <3>1 DEF OnlyMissesUndoCommits, SquashSparesCommitted
    <3> QED
      BY <3>1, <3>2 DEF TypeOK
  <2>2. CASE squash_pending /\ squash_pending' = TRUE /\ squash_seq' = squash_seq
    <3>2. OnlyMissesUndoCommits'
      BY <1>0, <1>1, <2>2 DEF OnlyMissesUndoCommits, SquashSparesCommitted
    <3> QED
      BY <2>2, <3>2 DEF TypeOK
  <2>3. CASE squash_pending' = TRUE /\ \E k \in retired + 1 .. Len(path) : squash_seq' = path[k].seq
    <3>1. PICK k \in retired + 1 .. Len(path) : squash_seq' = path[k].seq
      BY <2>3
    <3>2. \A j \in 1 .. retired : j \in 1 .. Len(path) /\ k \in 1 .. Len(path) /\ j < k
      BY <1>0
    <3>3. \A j \in 1 .. retired : path'[j].seq <= squash_seq'
      <4>1. \A j \in 1 .. retired : path[j].seq < path[k].seq
        BY <3>2 DEF WindowOK, Increasing
      <4> QED
        BY <1>1, <3>1, <3>2, <4>1
    <3>4. k \in 1 .. Len(path)
      BY <1>0
    <3> QED
      BY <1>0, <1>1, <2>3, <3>1, <3>3, <3>4 DEF OnlyMissesUndoCommits, SquashSparesCommitted
  <2> QED
    BY <2>1, <2>2, <2>3 DEF Underway
<1>7. TypeOK'
  <2>1. lq' \in EntryOf(LOAD_QUEUE_SIZE) /\ sq' \in EntryOf(STORE_QUEUE_SIZE)
    BY DEF Underway, SameQueue
  <2> QED
    BY <1>0, <1>6, <2>1 DEF TypeOK, Renamed
<1> QED
  BY <1>2, <1>3, <1>4, <1>5, <1>6, <1>7

LEMMA RenameKeeps ==
    ASSUME QueueInvariant, NEW instr \in Instrs, Rename(instr)
    PROVE  QueueInvariant'
<1> USE DEF QueueInvariant
<1> DEFINE x == [seq |-> next_seq, instr |-> instr, addr_ready |-> FALSE, completed |-> FALSE]
           slot == CASE instr.kind = "load" -> lq.tail
                     [] instr.kind = "store" -> sq.tail
                     [] OTHER -> -1
           e == [seq |-> next_seq, instr |-> instr, stage |-> "queued", slot |-> slot,
                 value |-> Data(Initial)]
           m == Len(path) + 1
<1>0. /\ path \in Seq(Renamed) /\ retired \in Nat /\ retired <= Len(path) /\ Len(path) \in Nat
      /\ retired \in 0 .. Len(path)
      /\ lq \in EntryOf(LOAD_QUEUE_SIZE) /\ sq \in EntryOf(STORE_QUEUE_SIZE)
      /\ next_seq \in Nat /\ instr.kind \in {"load", "store", "branch"}
      /\ retired + 1 \in Nat \ {0} /\ retired + 1 <= Len(path) + 1
  BY PathShape, Sizes DEF TypeOK, Renamed, Kind
<1>1. /\ lq.tail \in Int /\ sq.tail \in Int
  BY <1>0, Sizes DEF EntryOf, Slots
<1>2. x \in Entry /\ x.seq = next_seq /\ x.instr = instr /\ x.completed = FALSE
  BY <1>0 DEF Entry
<1>3. /\ e \in Renamed /\ e.seq = next_seq /\ e.instr = instr
      /\ e.instr.kind = "load" => e.slot = lq.tail
      /\ e.instr.kind = "store" => e.slot = sq.tail
  <2>1. slot \in Int
    BY <1>0, <1>1
  <2>2. Data(Initial) \in Value
    BY DataIsValue
  <2> QED
    BY <1>0, <2>1, <2>2 DEF Renamed, Stages
<1>4. /\ path' = Append(path, e) /\ next_seq' = next_seq + 1
      /\ retired' = retired /\ mem' = mem /\ missed' = missed /\ undone' = undone
      /\ squash_pending' = squash_pending /\ squash_seq' = squash_seq /\ ~squash_pending
      /\ IF instr.kind = "load" THEN lq' = Add(lq, x, LOAD_QUEUE_SIZE) /\ lq.size < LOAD_QUEUE_SIZE
                                ELSE lq' = lq
      /\ IF instr.kind = "store" THEN sq' = Add(sq, x, STORE_QUEUE_SIZE)
                                      /\ sq.size < STORE_QUEUE_SIZE
                                 ELSE sq' = sq
  <2>1. lq.size \in Nat /\ sq.size \in Nat
    BY <1>0, Sizes, EntryShape
  <2> QED
    BY <2>1, Zenon DEF Rename, squashVars, history
<1> HIDE DEF x, e
<1>5. \A i \in 1 .. Len(path) : path[i].seq < e.seq
  BY <1>3 DEF WindowOK
<1>6. /\ path' \in Seq(Renamed) /\ Len(path') = m /\ path'[m] = e
      /\ \A i \in 1 .. Len(path) : path'[i] = path[i]
  BY <1>0, <1>3, <1>4, AppendProperties
<1>7. WindowOK'
  <2>1. \A i \in 1 .. Len(path') : i \in 1 .. Len(path) \/ i = m
    BY <1>0, <1>6
  <2>2. \A i \in 1 .. Len(path) : path'[i].seq \in Nat /\ path'[i].seq < next_seq /\ i < m
    BY <1>0, <1>3, <1>5, <1>6, PathShape
  <2>3. \A i \in 1 .. Len(path') : path'[i].seq < next_seq'
    BY <1>0, <1>3, <1>4, <1>6, <2>1, <2>2
  <2>4. Increasing(path')
    <3> SUFFICES ASSUME NEW i \in 1 .. Len(path'), NEW j \in 1 .. Len(path'), i < j
                 PROVE  path'[i].seq < path'[j].seq
      BY DEF Increasing
    <3>1. i \in 1 .. Len(path)
      BY <1>0, <1>6
    <3>2. CASE j = m
      BY <1>3, <1>6, <2>2, <3>1, <3>2
    <3>3. CASE j \in 1 .. Len(path)
      BY <1>6, <3>1, <3>3 DEF WindowOK, Increasing
    <3> QED
      BY <2>1, <3>2, <3>3
  <2> QED
    BY <1>6, <2>3, <2>4 DEF WindowOK
<1>8. LoadsQueued(path', lq', retired')
  <2>1. CASE instr.kind = "load"
    BY <1>0, <1>2, <1>3, <1>4, <1>5, <2>1, Sizes, TracksAdd DEF LoadsQueued
  <2>2. CASE instr.kind # "load"
    BY <1>0, <1>3, <1>4, <2>2, Sizes, TracksOther DEF LoadsQueued
  <2> QED
    BY <2>1, <2>2
<1>9. StoresQueued(path', sq', retired')
  <2>1. CASE instr.kind = "store"
    BY <1>0, <1>2, <1>3, <1>4, <1>5, <2>1, StoresAdd
  <2>2. CASE instr.kind # "store"
    BY <1>0, <1>3, <1>4, <2>2, StoresOther
  <2> QED
    BY <2>1, <2>2
<1>10. WaitingMissed'
  <2>1. CASE instr.kind # "store"
    BY <1>4, <2>1 DEF WaitingMissed, Store
  <2>2. CASE instr.kind = "store"
    <3>1. Ring(sq, STORE_QUEUE_SIZE)
      BY DEF StoresQueued, Tracks
    <3>2. /\ sq'.size = sq.size + 1
          /\ \A k \in Ages(sq) : At(sq', k, STORE_QUEUE_SIZE) = At(sq, k, STORE_QUEUE_SIZE)
          /\ At(sq', sq.size, STORE_QUEUE_SIZE) = x
      BY <1>0, <1>2, <1>4, <2>2, <3>1, Sizes, Added
    <3>3. \A k \in Ages(sq') : k \in Ages(sq) \/ k = sq.size
      <4>1. sq.size \in Nat
        BY <1>0, Sizes, EntryShape
      <4> QED
        BY <3>2, <4>1 DEF Ages
    <3> QED
      BY <1>2, <1>4, <3>2, <3>3 DEF WaitingMissed, Store
  <2> QED
    BY <2>1, <2>2
<1>11. OnlyMissesUndoCommits'
  BY <1>4 DEF OnlyMissesUndoCommits, SquashSparesCommitted
<1>12. TypeOK'
  <2>1. lq' \in EntryOf(LOAD_QUEUE_SIZE) /\ sq' \in EntryOf(STORE_QUEUE_SIZE)
    BY <1>8, <1>9 DEF LoadsQueued, StoresQueued, Tracks
  <2>2. retired' \in 0 .. Len(path')
    BY <1>0, <1>4, <1>6
  <2>3. missed' \subseteq 0 .. next_seq' - 1
    BY <1>0, <1>4 DEF TypeOK
  <2>4. next_seq' \in Nat
    BY <1>0, <1>4
  <2> QED
    BY <1>4, <1>6, <2>1, <2>2, <2>3, <2>4 DEF TypeOK, Renamed
<1> QED
  BY <1>7, <1>8, <1>9, <1>10, <1>11, <1>12

\* evict_commited_stores, on the queue q of the stores up to position r.
LEMMA EvictKeeps ==
    ASSUME QueueInvariant, NEW q, NEW r \in Nat, StoresQueued(path, q, r), NEW count \in Nat,
           Evict(q, count)
    PROVE  /\ StoresQueued(path, sq', r) /\ WaitingMissed'
           /\ mem' \in [Words -> Value]
           /\ missed \subseteq missed' /\ missed' \subseteq 0 .. next_seq - 1
           /\ \/ UNCHANGED squashVars
              \/ /\ squash_pending' = TRUE
                 /\ \E k \in Ages(q) : /\ At(q, k, STORE_QUEUE_SIZE).completed
                                       /\ squash_seq' = At(q, k, STORE_QUEUE_SIZE).seq
<1> DEFINE n == STORE_QUEUE_SIZE
           smc == {k \in 0 .. count - 1 : At(q, k, n).instr.addr < TextEnd}
           to(w) == {k \in 0 .. count - 1 : Word(At(q, k, n).instr.addr) = w}
           late == {At(q, k, n).seq : k \in {j \in CommittedPrefix(q) : j >= count}}
<1>0. /\ n \in Nat \ {0} /\ q \in EntryOf(n) /\ path \in Seq(Renamed) /\ Increasing(path)
      /\ \A i \in 1 .. Len(path) : path[i].seq < next_seq /\ path[i].seq \in Nat
      /\ next_seq \in Nat /\ mem \in [Words -> Value]
  BY Sizes, PathShape DEF QueueInvariant, TypeOK, WindowOK, StoresQueued, Tracks, Renamed
<1>1. /\ count \in 0 .. Cardinality(CommittedPrefix(q))
      /\ sq' = PopHead(q, count, n)
      /\ missed' = missed \cup late
      /\ mem' = [w \in Words |-> IF to(w) = {} THEN mem[w]
                                               ELSE Data(At(q, Youngest(to(w)), n).seq)]
      /\ IF smc # {} /\ (~squash_pending \/ At(q, Oldest(smc), n).seq < squash_seq)
           THEN squash_pending' = TRUE /\ squash_seq' = At(q, Oldest(smc), n).seq
           ELSE UNCHANGED squashVars
  BY Zenon DEF Evict, Older
<1>2. /\ StoresQueued(path, sq', r)
      /\ count \in 0 .. q.size
      /\ \A k \in Ages(q) : k < count => At(q, k, n).completed
      /\ \A k \in Ages(sq') : k + count \in Ages(q) /\ At(sq', k, n) = At(q, k + count, n)
  BY <1>0, <1>1, StoresDrained
<1>3. /\ q.size \in Nat /\ \A k \in Ages(q) : k \in Nat /\ k \in 0 .. n /\ At(q, k, n).seq \in Nat
      /\ \A k \in 0 .. count - 1 : k \in Ages(q) /\ k \in 0 .. n
  <2>1. q.size \in Nat /\ q.size <= n
        /\ \A k \in Ages(q) : k \in Nat /\ k \in 0 .. n - 1 /\ At(q, k, n).seq \in Nat
    BY <1>0, EntryShape
  <2>2. \A k \in 0 .. n - 1 : k \in 0 .. n
    BY <1>0
  <2>3. \A k \in 0 .. count - 1 : k \in Ages(q)
    BY <1>2, <2>1 DEF Ages
  <2> QED
    BY <2>1, <2>2, <2>3
<1> HIDE DEF n
<1>4. WaitingMissed'
  <2> SUFFICES ASSUME NEW k \in Ages(sq'), At(sq', k, n).completed
               PROVE  At(sq', k, n).seq \in missed'
    BY DEF WaitingMissed, Store, n
  <2>1. k + count \in CommittedPrefix(q)
    BY <1>0, <1>2, CommittedAreOldest DEF n
  <2>2. k \in Nat /\ k + count >= count
    <3>1. sq' \in EntryOf(n)
      BY <1>2 DEF StoresQueued, Tracks, n
    <3> QED
      BY <1>0, <3>1, EntryShape
  <2> QED
    BY <1>1, <1>2, <2>1, <2>2
<1>5. mem' \in [Words -> Value]
  <2> SUFFICES ASSUME NEW w \in Words, to(w) # {}
               PROVE  Data(At(q, Youngest(to(w)), n).seq) \in Value
    BY <1>0, <1>1
  <2>1. to(w) \in SUBSET (0 .. n) /\ n \in Nat
    BY <1>0, <1>3
  <2>2. Youngest(to(w)) \in to(w)
    BY <2>1, YoungestIsIn
  <2> QED
    BY <1>3, <2>2, DataIsValue
<1>6. late \subseteq 0 .. next_seq - 1
  <2> SUFFICES ASSUME NEW k \in Ages(q) PROVE At(q, k, n).seq \in 0 .. next_seq - 1
    BY DEF CommittedPrefix
  <2>1. PICK i \in 1 .. Len(path) : At(q, k, n).seq = path[i].seq
    BY <1>0, StorePlace DEF n
  <2> QED
    BY <1>0, <2>1
<1>7. \/ UNCHANGED squashVars
      \/ /\ squash_pending' = TRUE
         /\ \E k \in Ages(q) : At(q, k, n).completed /\ squash_seq' = At(q, k, n).seq
  <2> SUFFICES ASSUME smc # {} PROVE Oldest(smc) \in Ages(q) /\ At(q, Oldest(smc), n).completed
    BY <1>1
  <2>1. Oldest(smc) \in smc
    <3>1. smc \in SUBSET Nat
      OBVIOUS
    <3> QED
      BY <3>1, OldestIsIn
  <2> QED
    BY <1>2, <1>3, <2>1
<1> QED
  BY <1>1, <1>2, <1>4, <1>5, <1>6, <1>7 DEF QueueInvariant, TypeOK, n

LEMMA CommitKeeps ==
    ASSUME QueueInvariant, Commit
    PROVE  QueueInvariant'
<1> USE DEF QueueInvariant
<1> DEFINE r == retired + 1
           seq == path[r].seq
           kind == path[r].instr.kind
           q == IF kind = "store" THEN MarkStoreComplete(seq) ELSE sq
<1>0. /\ path \in Seq(Renamed) /\ Increasing(path) /\ retired \in Nat /\ Len(path) \in Nat
      /\ retired \in 0 .. Len(path) - 1 /\ r \in 1 .. Len(path) /\ r \in Nat \ {0} /\ r + 1 \in Nat \ {0}
      /\ lq \in EntryOf(LOAD_QUEUE_SIZE) /\ sq \in EntryOf(STORE_QUEUE_SIZE)
      /\ seq \in Nat /\ next_seq \in Nat
  <2>1. retired < Len(path)
    BY Zenon DEF Commit
  <2>2. /\ path \in Seq(Renamed) /\ Increasing(path) /\ retired \in 0 .. Len(path)
        /\ lq \in EntryOf(LOAD_QUEUE_SIZE) /\ sq \in EntryOf(STORE_QUEUE_SIZE) /\ next_seq \in Nat
    BY DEF TypeOK, WindowOK
  <2>3. Len(path) \in Nat
    BY <2>2, PathShape
  <2>4. r \in 1 .. Len(path) /\ r \in Nat \ {0} /\ r + 1 \in Nat \ {0} /\ retired \in Nat
        /\ retired \in 0 .. Len(path) - 1
    BY <2>1, <2>2, <2>3
  <2>5. seq \in Nat
    BY <2>2, <2>4, PathShape
  <2> QED
    BY <2>2, <2>3, <2>4, <2>5
<1>1. /\ retired' = r /\ path' = path /\ next_seq' = next_seq /\ undone' = undone /\ ~squash_pending
      /\ IF kind = "load" THEN lq' = PopHead(lq, 1, LOAD_QUEUE_SIZE) ELSE lq' = lq
  BY Zenon DEF Commit
<1>2. \E count \in 0 .. q.size : Evict(q, count)
  BY Zenon DEF Commit, DrainAfterCommit
<1>3. StoresQueued(path, q, r)
  <2>1. CASE kind = "store"
    BY <1>0, <2>1, StoresMarked
  <2>2. CASE kind # "store"
    BY <1>0, <2>2, StoresPassedBy
  <2> QED
    BY <2>1, <2>2
<1>4. \A k \in Ages(q) : k \in Ages(sq) /\ At(q, k, STORE_QUEUE_SIZE).seq = Store(k).seq
  <2>1. CASE kind = "store"
    <3>1. /\ q.size = sq.size
          /\ \A k \in Ages(sq) : At(q, k, STORE_QUEUE_SIZE) = MarkedEntry(Store(k), seq)
      BY <1>0, <2>1, Marked
    <3>2. \A k \in Ages(sq) : Store(k) \in Entry
      BY <1>0, Sizes, EntryShape DEF Store
    <3>3. \A k \in Ages(sq) : MarkedEntry(Store(k), seq).seq = Store(k).seq
      BY <3>2 DEF Entry, MarkedEntry
    <3> QED
      BY <3>1, <3>3 DEF Ages
  <2>2. CASE kind # "store"
    BY <2>2 DEF Store
  <2> QED
    BY <2>1, <2>2
<1> HIDE DEF q
<1>5. q.size \in Nat
  BY <1>3, Sizes, EntryShape DEF StoresQueued, Tracks
<1>6. PICK count \in Nat : Evict(q, count)
  BY <1>2, <1>5
<1>7. /\ StoresQueued(path, sq', r) /\ WaitingMissed'
      /\ mem' \in [Words -> Value]
      /\ missed \subseteq missed' /\ missed' \subseteq 0 .. next_seq - 1
      /\ \/ UNCHANGED squashVars
         \/ /\ squash_pending' = TRUE
            /\ \E k \in Ages(q) : /\ At(q, k, STORE_QUEUE_SIZE).completed
                                  /\ squash_seq' = At(q, k, STORE_QUEUE_SIZE).seq
  BY <1>0, <1>3, <1>6, EvictKeeps
<1>8. LoadsQueued(path', lq', retired')
  <2> DEFINE n == LOAD_QUEUE_SIZE
  <2>0. n \in Nat \ {0} /\ InOrder(lq, n)
        /\ Tracks(path, lq, n, "load", r, r)
    BY Sizes DEF LoadsQueued, Tracks
  <2>1. CASE kind # "load"
    <3>1. Places(path, "load", r + 1) = Places(path, "load", r)
      BY <1>0, <2>1 DEF Places
    <3> QED
      BY <1>1, <2>0, <2>1, <3>1 DEF LoadsQueued, Tracks
  <2>2. CASE kind = "load"
    <3>1. r \in Places(path, "load", r)
      BY <1>0, <2>2 DEF Places
    <3>2. PICK h \in Ages(lq) : Holds(path, lq, n, h, r)
      BY <2>0, <3>1 DEF Tracks
    <3>3. /\ lq.size \in Nat /\ \A k \in Ages(lq) : k \in Nat
          /\ 0 \in Ages(lq)
      <4>1. lq.size \in Nat /\ \A k \in Ages(lq) : k \in Nat
        BY <1>0, <2>0, EntryShape
      <4>2. h < lq.size /\ h >= 0
        BY <3>2, <4>1 DEF Ages
      <4> QED
        BY <4>1, <4>2 DEF Ages
    <3>4. \A k \in Ages(lq) : \A i \in Places(path, "load", r) : Holds(path, lq, n, k, i) =>
             i \in Int /\ i >= r /\ (k = 0 <=> i = r)
      <4> SUFFICES ASSUME NEW k \in Ages(lq), NEW i \in Places(path, "load", r),
                          Holds(path, lq, n, k, i)
                   PROVE  i \in Int /\ i >= r /\ (k = 0 <=> i = r)
        OBVIOUS
      <4>1. i \in 1 .. Len(path) /\ i \in Int /\ i >= r
        BY <1>0 DEF Places
      <4>2. ASSUME h # 0 PROVE FALSE
        <5>1. At(lq, 0, n).seq < At(lq, h, n).seq
          BY <2>0, <3>2, <3>3, <4>2 DEF InOrder
        <5>2. PICK g \in Places(path, "load", r) : Holds(path, lq, n, 0, g)
          BY <2>0, <3>3 DEF Tracks
        <5>3. g \in 1 .. Len(path) /\ g >= r
          BY <1>0 DEF Places
        <5>4. path[g].seq < path[r].seq
          BY <3>2, <5>1, <5>2 DEF Holds
        <5> QED
          BY <1>0, <5>3, <5>4, SeqOrder
      <4>3. At(lq, 0, n).seq = path[r].seq
        BY <3>2, <4>2 DEF Holds
      <4>4. k = 0 => i = r
        BY <1>0, <4>1, <4>3, SeqOrder DEF Holds
      <4>5. k # 0 => path[r].seq < path[i].seq
        BY <2>0, <3>3, <4>3 DEF InOrder, Holds
      <4>6. k # 0 => i # r
        BY <1>0, <4>5
      <4> QED
        BY <4>1, <4>4, <4>6
    <3>5. \A k \in Ages(lq) : \A i \in Places(path, "load", r) : Holds(path, lq, n, k, i) =>
             IF k < 1 THEN i < r + 1 ELSE i >= r + 1
      BY <1>0, <3>3, <3>4
    <3>6. r <= r /\ r <= r + 1 /\ r + 1 \in Nat /\ 1 \in 0 .. lq.size
      BY <1>0, <3>3 DEF Ages
    <3>7. Tracks(path, lq', n, "load", r + 1, r + 1)
      BY <1>0, <1>1, <2>0, <2>2, <3>5, <3>6, TracksPop
    <3> QED
      BY <1>1, <3>7 DEF LoadsQueued
  <2> QED
    BY <2>1, <2>2
<1>9. StoresQueued(path', sq', retired')
  BY <1>1, <1>7
<1>10. squash_pending' \in BOOLEAN /\ squash_seq' \in Nat /\ OnlyMissesUndoCommits'
  <2>1. CASE UNCHANGED squashVars
    BY <1>1, <2>1 DEF TypeOK, squashVars, OnlyMissesUndoCommits, SquashSparesCommitted
  <2>2. CASE squash_pending' = TRUE /\ \E k \in Ages(q) :
                 At(q, k, STORE_QUEUE_SIZE).completed /\ squash_seq' = At(q, k, STORE_QUEUE_SIZE).seq
    <3>1. PICK k \in Ages(q) : /\ At(q, k, STORE_QUEUE_SIZE).completed
                               /\ squash_seq' = At(q, k, STORE_QUEUE_SIZE).seq
      BY <2>2
    <3>2. PICK i \in Places(path, "store", 1) :
              /\ i \in 1 .. Len(path) /\ At(q, k, STORE_QUEUE_SIZE).seq = path[i].seq
              /\ At(q, k, STORE_QUEUE_SIZE).completed <=> i <= r
      BY <1>0, <1>3, StorePlace
    <3>3. squash_seq' = path[i].seq /\ i \in Nat /\ i <= r /\ path[i].seq \in Nat
      BY <1>0, <3>1, <3>2, PathShape
    <3>4. CASE i = r
      <4>1. \A j \in 1 .. r : path[j].seq <= path[i].seq
        BY <1>0, <3>2, <3>4, SeqOrder
      <4> QED
        BY <1>1, <2>2, <3>3, <4>1 DEF OnlyMissesUndoCommits, SquashSparesCommitted
    <3>5. CASE i <= retired
      <4>1. k \in Ages(sq) /\ Store(k).seq = path[i].seq
        BY <1>4, <3>2
      <4>2. Store(k).completed
        BY <3>2, <3>5, <4>1 DEF StoresQueued, StoreFacts, Store
      <4>3. path[i].seq \in missed'
        BY <1>7, <4>1, <4>2 DEF WaitingMissed
      <4> QED
        BY <2>2, <3>3, <4>3 DEF OnlyMissesUndoCommits
    <3> QED
      BY <1>0, <3>1, <3>3, <3>4, <3>5, <2>2
  <2> QED
    BY <1>7, <2>1, <2>2
<1>11. TypeOK'
  <2>1. lq' \in EntryOf(LOAD_QUEUE_SIZE) /\ sq' \in EntryOf(STORE_QUEUE_SIZE)
    BY <1>8, <1>9 DEF LoadsQueued, StoresQueued, Tracks
  <2> QED
    BY <1>0, <1>1, <1>7, <1>10, <2>1 DEF TypeOK, Renamed
<1>12. WindowOK'
  BY <1>0, <1>1 DEF WindowOK
<1> QED
  BY <1>7, <1>8, <1>9, <1>10, <1>11, <1>12

LEMMA DrainKeeps ==
    ASSUME QueueInvariant, DrainStores
    PROVE  QueueInvariant'
<1> USE DEF QueueInvariant
<1>0. /\ path \in Seq(Renamed) /\ retired \in Nat /\ sq \in EntryOf(STORE_QUEUE_SIZE)
      /\ sq.size \in Nat
  BY Sizes, EntryShape DEF TypeOK, Renamed
<1>1. /\ UNCHANGED <<path, retired, lq, next_seq, undone>>
      /\ \E count \in Nat : Evict(sq, count)
  BY <1>0 DEF DrainStores
<1>2. PICK count \in Nat : Evict(sq, count)
  BY <1>1
<1>3. /\ StoresQueued(path, sq', retired) /\ WaitingMissed'
      /\ mem' \in [Words -> Value]
      /\ missed \subseteq missed' /\ missed' \subseteq 0 .. next_seq - 1
      /\ \/ UNCHANGED squashVars
         \/ /\ squash_pending' = TRUE
            /\ \E k \in Ages(sq) : /\ At(sq, k, STORE_QUEUE_SIZE).completed
                                   /\ squash_seq' = At(sq, k, STORE_QUEUE_SIZE).seq
  BY <1>0, <1>2, EvictKeeps
<1>4. squash_pending' \in BOOLEAN /\ squash_seq' \in Nat /\ OnlyMissesUndoCommits'
  <2>1. CASE UNCHANGED squashVars
    BY <1>1, <1>3, <2>1 DEF TypeOK, squashVars, OnlyMissesUndoCommits, SquashSparesCommitted
  <2>2. CASE squash_pending' = TRUE /\ \E k \in Ages(sq) :
                At(sq, k, STORE_QUEUE_SIZE).completed /\ squash_seq' = At(sq, k, STORE_QUEUE_SIZE).seq
    <3>1. squash_seq' \in missed'
      BY <1>3, <2>2 DEF WaitingMissed, Store
    <3>2. squash_seq' \in Nat
      BY <1>0, <2>2, Sizes, EntryShape
    <3> QED
      BY <2>2, <3>1, <3>2 DEF OnlyMissesUndoCommits
  <2> QED
    BY <1>3, <2>1, <2>2
<1>5. TypeOK'
  <2>1. sq' \in EntryOf(STORE_QUEUE_SIZE)
    BY <1>3 DEF StoresQueued, Tracks
  <2> QED
    BY <1>1, <1>3, <1>4, <2>1 DEF TypeOK
<1>6. WindowOK' /\ LoadsQueued(path', lq', retired')
  BY <1>1 DEF WindowOK
<1>7. StoresQueued(path', sq', retired')
  BY <1>1, <1>3
<1> QED
  BY <1>3, <1>4, <1>5, <1>6, <1>7

\* The reorder buffer and the queues are cut at the same instruction.
LEMMA SquashCuts ==
    ASSUME QueueInvariant, PerformSquash
    PROVE  \E m \in 0 .. Len(path) :
              /\ path' = SubSeq(path, 1, m) /\ path' \in Seq(Renamed) /\ Len(path') = m
              /\ \A i \in 1 .. m : path'[i] = path[i]
              /\ \A i \in 1 .. Len(path) : i <= m <=> path[i].seq <= squash_seq
              /\ retired' = IF retired <= m THEN retired ELSE m
              /\ undone' = (undone \/ retired > m)
<1> USE DEF QueueInvariant
<1> DEFINE stay == {k \in DOMAIN path : path[k].seq <= squash_seq}
           m == IF stay = {} THEN 0 ELSE Youngest(stay)
<1>0. /\ path \in Seq(Renamed) /\ Increasing(path) /\ Len(path) \in Nat
      /\ DOMAIN path = 1 .. Len(path)
      /\ \A i \in 1 .. Len(path) : path[i].seq \in Nat /\ path[i] \in Renamed
      /\ squash_seq \in Nat
  BY PathShape DEF TypeOK, WindowOK, Renamed
<1>1. /\ path' = SubSeq(path, 1, m)
      /\ retired' = IF retired <= Len(path') THEN retired ELSE Len(path')
      /\ undone' = (undone \/ retired > Len(path'))
  BY Zenon DEF PerformSquash
<1>2. m \in 0 .. Len(path) /\ \A i \in 1 .. Len(path) : i <= m <=> path[i].seq <= squash_seq
  <2>1. CASE stay = {}
    BY <1>0, <2>1
  <2>2. CASE stay # {}
    <3>1. stay \in SUBSET (0 .. Len(path))
      BY <1>0
    <3>2. m \in stay /\ \A j \in stay : j <= m
      BY <1>0, <2>2, <3>1, YoungestIsIn
    <3>3. /\ m \in 1 .. Len(path) /\ path[m].seq <= squash_seq
          /\ \A i \in 1 .. Len(path) : path[i].seq <= squash_seq => i <= m
      BY <1>0, <3>2
    <3> HIDE DEF m
    <3>4. \A i \in 1 .. Len(path) : i <= m => path[i].seq <= path[m].seq
      BY <1>0, <3>3, SeqOrder
    <3> QED
      BY <1>0, <3>3, <3>4
  <2> QED
    BY <2>1, <2>2
<1> HIDE DEF m
<1>3. /\ path' \in Seq(Renamed) /\ Len(path') = m
      /\ \A i \in 1 .. m : path'[i] = path[i]
  BY <1>0, <1>1, <1>2, SubSeqProperties
<1> QED
  BY <1>1, <1>2, <1>3

LEMMA SquashKeeps ==
    ASSUME QueueInvariant, PerformSquash
    PROVE  QueueInvariant'
<1> USE DEF QueueInvariant
<1>0. /\ path \in Seq(Renamed) /\ Increasing(path) /\ Len(path) \in Nat /\ retired \in 0 .. Len(path)
      /\ lq \in EntryOf(LOAD_QUEUE_SIZE) /\ sq \in EntryOf(STORE_QUEUE_SIZE)
      /\ squash_seq \in Nat /\ retired \in Nat
      /\ InOrder(lq, LOAD_QUEUE_SIZE) /\ InOrder(sq, STORE_QUEUE_SIZE)
  BY PathShape DEF TypeOK, WindowOK, Renamed, LoadsQueued, StoresQueued, Tracks
<1>1. PICK m \in 0 .. Len(path) :
              /\ path' = SubSeq(path, 1, m) /\ path' \in Seq(Renamed) /\ Len(path') = m
              /\ \A i \in 1 .. m : path'[i] = path[i]
              /\ \A i \in 1 .. Len(path) : i <= m <=> path[i].seq <= squash_seq
              /\ retired' = IF retired <= m THEN retired ELSE m
              /\ undone' = (undone \/ retired > m)
  BY SquashCuts
<1>2. /\ lq' = Squashed(lq, squash_seq, LOAD_QUEUE_SIZE)
      /\ sq' = Squashed(sq, squash_seq, STORE_QUEUE_SIZE)
      /\ squash_pending' = FALSE /\ squash_seq' = 0
      /\ mem' = mem /\ next_seq' = next_seq /\ missed' = missed
  BY Zenon DEF PerformSquash
<1>3. StoresQueued(path', sq', retired')
  BY <1>0, <1>1, <1>2, StoresCut
<1>4. LoadsQueued(path', lq', retired')
  <2>1. /\ retired + 1 \in Nat \ {0}
        /\ retired' + 1 = Lesser(retired + 1, m + 1)
    BY <1>0, <1>1 DEF Lesser
  <2>2. Tracks(path, lq, LOAD_QUEUE_SIZE, "load", retired + 1, retired + 1)
    BY DEF LoadsQueued
  <2> QED
    BY <1>0, <1>1, <1>2, <2>1, <2>2, Sizes, TracksCut DEF LoadsQueued
<1>5. WindowOK'
  <2>1. \A i \in 1 .. m : i \in 1 .. Len(path)
    BY <1>0
  <2> QED
    BY <1>1, <1>2, <2>1 DEF WindowOK, Increasing
<1>6. WaitingMissed'
  <2>1. /\ Ages(sq') \subseteq Ages(sq)
        /\ \A k \in Int : At(sq', k, STORE_QUEUE_SIZE) = At(sq, k, STORE_QUEUE_SIZE)
    BY <1>0, <1>2, Sizes, TailPopped
  <2>2. \A k \in Ages(sq) : k \in Int
    BY <1>0, Sizes, EntryShape
  <2> QED
    BY <1>2, <2>1, <2>2 DEF WaitingMissed, Store
<1>7. OnlyMissesUndoCommits'
  BY <1>2 DEF OnlyMissesUndoCommits, SquashSparesCommitted
<1>8. TypeOK'
  <2>1. lq' \in EntryOf(LOAD_QUEUE_SIZE) /\ sq' \in EntryOf(STORE_QUEUE_SIZE)
    BY <1>3, <1>4 DEF LoadsQueued, StoresQueued, Tracks
  <2>2. retired' \in 0 .. Len(path')
    BY <1>0, <1>1
  <2>3. undone' \in BOOLEAN
    BY <1>1 DEF TypeOK
  <2> QED
    BY <1>1, <1>2, <2>1, <2>2, <2>3 DEF TypeOK, Renamed
<1> QED
  BY <1>3, <1>4, <1>5, <1>6, <1>7, <1>8

LEMMA InitQueues ==
    ASSUME Init
    PROVE  QueueInvariant
<1> USE DEF Init
<1>1. UnusedEntry \in Entry
  BY MemoryInstrsAssumption DEF UnusedEntry, Entry
<1>2. \A n \in Nat \ {0} : /\ EmptyQueue(n) \in EntryOf(n) /\ EmptyQueue(n).size = 0
                           /\ Ring(EmptyQueue(n), n)
  <2> SUFFICES ASSUME NEW n \in Nat \ {0}
               PROVE  /\ EmptyQueue(n) \in EntryOf(n) /\ EmptyQueue(n).size = 0
                      /\ Ring(EmptyQueue(n), n)
    OBVIOUS
  <2>1. 0 \in Slots(n) /\ 0 \in 0 .. n /\ (0 + 0) % n = 0
    BY DEF Slots
  <2> QED
    BY <1>1, <2>1 DEF EmptyQueue, EntryOf, Entry, Ring, Where
<1>3. /\ lq \in EntryOf(LOAD_QUEUE_SIZE) /\ Ring(lq, LOAD_QUEUE_SIZE) /\ lq.size = 0
      /\ sq \in EntryOf(STORE_QUEUE_SIZE) /\ Ring(sq, STORE_QUEUE_SIZE) /\ sq.size = 0
  BY <1>2, Sizes
<1>4. Ages(lq) = {} /\ Ages(sq) = {}
  BY <1>3 DEF Ages
<1>5. path \in Seq(Renamed) /\ Len(path) = 0 /\ \A i \in 1 .. Len(path) : FALSE
  OBVIOUS
<1>6. \A kind, from : Places(path, kind, from) = {} \/ ~(from \in Nat \ {0})
  BY <1>5 DEF Places
<1>7. Places(path, "load", 0 + 1) = {} /\ Places(path, "store", 0 + 1) = {}
      /\ Places(path, "store", 1) = {}
  BY <1>6
<1>8. LoadsQueued(path, lq, retired)
  BY <1>3, <1>4, <1>7 DEF LoadsQueued, Tracks, InOrder
<1>9. StoresQueued(path, sq, retired)
  BY <1>3, <1>4, <1>7 DEF StoresQueued, Tracks, InOrder, StoreFacts, OldestDrained
<1>10. [part \in Part |-> Initial] \in Value
  BY DEF Value
<1>11. TypeOK
  <2>1. mem \in [Words -> Value]
    BY <1>10
  <2>2. /\ retired \in 0 .. Len(path) /\ next_seq \in Nat /\ squash_pending \in BOOLEAN
        /\ squash_seq \in Nat /\ missed \subseteq 0 .. next_seq - 1 /\ undone \in BOOLEAN
    <3>1. retired = 0 /\ next_seq = 0 /\ squash_seq = 0 /\ missed = {}
      OBVIOUS
    <3>2. squash_pending = FALSE /\ undone = FALSE
      BY Zenon
    <3>3. 0 \in 0 .. Len(path)
      BY <1>5
    <3> QED
      BY ONLY <3>1, <3>2, <3>3
  <2>3. path \in Seq([seq : Nat, instr : Instrs, stage : Stages, slot : Int, value : Value])
    BY <1>5 DEF Renamed
  <2> QED
    BY <1>3, <2>1, <2>2, <2>3 DEF TypeOK
<1>12. WindowOK
  BY <1>5 DEF WindowOK, Increasing
<1>13. WaitingMissed /\ OnlyMissesUndoCommits
  BY <1>4 DEF WaitingMissed, OnlyMissesUndoCommits, SquashSparesCommitted
<1> QED
  BY <1>8, <1>9, <1>11, <1>12, <1>13 DEF QueueInvariant

LEMMA QueueStep ==
    ASSUME QueueInvariant, [Next]_vars
    PROVE  QueueInvariant'
<1>1. TypeOK
  BY DEF QueueInvariant
<1>2. CASE UNCHANGED vars
  BY <1>1, <1>2, InFlightStepIsUnderway, UnderwayKeeps
<1>3. CASE \E k \in retired + 1 .. Len(path) : InFlightStep(k)
  BY <1>1, <1>3, InFlightStepIsUnderway, UnderwayKeeps
<1>4. CASE \E instr \in Instrs : Rename(instr)
  BY <1>4, RenameKeeps
<1>5. CASE Commit \/ DrainStores \/ PerformSquash
  BY <1>5, CommitKeeps, DrainKeeps, SquashKeeps
<1> QED
  BY <1>2, <1>3, <1>4, <1>5, NextCases

(***************************************************************************)
(* The queues track the window: for every size of the queues, and however  *)
(* commits, drains and squashes interleave, the load queue holds the loads *)
(* of the window and the store queue its stores and the committed ones     *)
(* that still wait for memory, in program order, each in the slot its      *)
(* instruction carries.                                                    *)
(***************************************************************************)
THEOREM QueuesTracked == Spec => []QueueInvariant
<1>1. Init => QueueInvariant
  BY InitQueues
<1>2. QueueInvariant /\ [Next]_vars => QueueInvariant'
  BY QueueStep
<1> QED
  BY <1>1, <1>2, PTL DEF Spec

\* The variables of the memory-ordering machinery have their types: no index
\* leaves a queue, no size passes its capacity or goes below zero.
THEOREM QueueTypes == Spec => []TypeOK
<1>1. QueueInvariant => TypeOK
  BY DEF QueueInvariant
<1> QED
  BY <1>1, QueuesTracked, PTL

\* A squash goes back behind what committed only for a store that missed, or
\* waited behind one that did: commit_stage's drain, "before any of those
\* entries commit", works whenever it reaches memory.
THEOREM CommittedSparedUnlessMissed == Spec => []OnlyMissesUndoCommits
<1>1. QueueInvariant => OnlyMissesUndoCommits
  BY DEF QueueInvariant
<1> QED
  BY <1>1, QueuesTracked, PTL

----------------------------------------------------------------------------
(* The age of an entry is the rank of its instruction.                     *)

LEMMA RankIsAge ==
    ASSUME NEW n \in Nat \ {0}, NEW q \in EntryOf(n), InOrder(q, n),
           NEW p \in Seq(Renamed), Increasing(p), NEW S \in SUBSET (1 .. Len(p)),
           \A k \in Ages(q) : \E i \in S : Holds(p, q, n, k, i),
           \A i \in S : \E k \in Ages(q) : Holds(p, q, n, k, i)
    PROVE  /\ q.size = Cardinality(S)
           /\ \A i \in S : \E k \in Ages(q) : /\ k = Cardinality({j \in S : j < i})
                                              /\ Holds(p, q, n, k, i)
<1> DEFINE f == [k \in 0 .. q.size - 1 |-> CHOOSE i \in S : Holds(p, q, n, k, i)]
<1>1. q.size \in Nat /\ Ages(q) = 0 .. q.size - 1 /\ \A k \in Ages(q) : k \in Nat
  BY EntryShape DEF Ages
<1>2. \A k \in 0 .. q.size - 1 : f[k] \in S /\ Holds(p, q, n, k, f[k])
  BY <1>1
<1>3. f \in [0 .. q.size - 1 -> S]
  BY <1>2
<1> HIDE DEF f
<1>4. \A i, j \in S : /\ i \in 1 .. Len(p) /\ j \in 1 .. Len(p) /\ i \in Int /\ j \in Int
                      /\ p[i].seq < p[j].seq <=> i < j
                      /\ p[i].seq = p[j].seq <=> i = j
  BY SeqOrder
<1>a. \A k \in 0 .. q.size - 1 : f[k] \in Int /\ k \in Int
  <2>1. \A i \in S : i \in Int
    BY <1>4
  <2>2. \A k \in 0 .. q.size - 1 : f[k] \in S
    BY <1>2
  <2>3. \A k \in 0 .. q.size - 1 : f[k] \in Int
    BY <2>1, <2>2
  <2>4. \A k \in 0 .. q.size - 1 : k \in Int
    BY <1>1
  <2> QED
    BY <2>3, <2>4
<1>5. \A j, k \in 0 .. q.size - 1 : j < k <=> f[j] < f[k]
  <2> SUFFICES ASSUME NEW j \in 0 .. q.size - 1, NEW k \in 0 .. q.size - 1
               PROVE  (j < k => f[j] < f[k]) /\ (k < j => f[k] < f[j]) /\ (j = k => f[j] = f[k])
    BY <1>a
  <2>1. /\ j < k => At(q, j, n).seq < At(q, k, n).seq
        /\ k < j => At(q, k, n).seq < At(q, j, n).seq
    BY <1>1 DEF InOrder
  <2>2. At(q, j, n).seq = p[f[j]].seq /\ At(q, k, n).seq = p[f[k]].seq
    BY <1>2 DEF Holds
  <2>3. f[j] \in S /\ f[k] \in S
    BY <1>2
  <2> QED
    BY <1>4, <2>1, <2>2, <2>3
<1>6. \A j, k \in 0 .. q.size - 1 : f[j] = f[k] => j = k
  BY <1>a, <1>5
<1>7. \A i \in S : \E k \in 0 .. q.size - 1 : f[k] = i /\ Holds(p, q, n, k, i)
  <2> SUFFICES ASSUME NEW i \in S
               PROVE  \E k \in 0 .. q.size - 1 : f[k] = i /\ Holds(p, q, n, k, i)
    OBVIOUS
  <2>1. PICK k \in 0 .. q.size - 1 : Holds(p, q, n, k, i)
    BY <1>1
  <2>2. f[k] = i
    BY <1>2, <1>4, <2>1 DEF Holds
  <2> QED
    BY <2>1, <2>2
<1>8. q.size = Cardinality(S)
  <2>1. \A i \in S : \E k \in 0 .. q.size - 1 : f[k] = i
    BY <1>7
  <2> QED
    BY <1>1, <1>3, <1>6, <2>1, Numbered
<1>9. ASSUME NEW i \in S
      PROVE  \E k \in Ages(q) : k = Cardinality({j \in S : j < i}) /\ Holds(p, q, n, k, i)
  <2>1. PICK k \in 0 .. q.size - 1 : f[k] = i /\ Holds(p, q, n, k, i)
    BY <1>7
  <2> DEFINE T == {j \in S : j < i}
             g == [a \in 0 .. k - 1 |-> f[a]]
  <2>2. \A a \in 0 .. k - 1 : a \in 0 .. q.size - 1 /\ a < k
    BY <1>1
  <2>3. \A a \in 0 .. k - 1 : f[a] \in T
    BY <1>2, <1>5, <2>1, <2>2
  <2>4. \A j \in T : \E a \in 0 .. k - 1 : f[a] = j
    <3> SUFFICES ASSUME NEW j \in S, j < i PROVE \E a \in 0 .. k - 1 : f[a] = j
      OBVIOUS
    <3>1. PICK a \in 0 .. q.size - 1 : f[a] = j
      BY <1>7
    <3>2. a < k
      BY <1>5, <2>1, <3>1
    <3> QED
      BY SMTT(30), <1>1, <3>1, <3>2
  <2> HIDE DEF T
  <2>5. g \in [0 .. k - 1 -> T]
    BY <2>3
  <2>6. \A a, b \in 0 .. k - 1 : g[a] = g[b] => a = b
    BY <1>6, <2>2
  <2>7. \A j \in T : \E a \in 0 .. k - 1 : g[a] = j
    BY <2>4
  <2> HIDE DEF g
  <2>8. k \in Nat /\ k \in Ages(q)
    BY <1>1
  <2>9. Cardinality(T) = k
    BY <2>5, <2>6, <2>7, <2>8, Numbered
  <2> QED
    BY <2>1, <2>8, <2>9 DEF T
<1> QED
  BY <1>8, <1>9

LEMMA UndrainedTracked ==
    ASSUME QueueInvariant
    PROVE  /\ UndrainedStores \in SUBSET (1 .. Len(path))
           /\ UndrainedStores \subseteq Places(path, "store", 1)
           /\ \A k \in Ages(sq) : \E i \in UndrainedStores : Holds(path, sq, STORE_QUEUE_SIZE, k, i)
           /\ \A i \in UndrainedStores : \E k \in Ages(sq) : Holds(path, sq, STORE_QUEUE_SIZE, k, i)
<1>0. path \in Seq(Renamed) /\ Increasing(path) /\ StoresQueued(path, sq, retired)
  BY DEF QueueInvariant, WindowOK
<1>1. UndrainedStores = {i \in Places(path, "store", 1) :
                           \E j \in Ages(sq) : Store(j).seq = path[i].seq}
  BY DEF UndrainedStores, IndicesOf, Places
<1>2. \A i \in Places(path, "store", 1) : i \in 1 .. Len(path)
  BY DEF Places
<1>3. \A k \in Ages(sq) : \E i \in Places(path, "store", 1) : Holds(path, sq, STORE_QUEUE_SIZE, k, i)
  BY <1>0 DEF StoresQueued, Tracks
<1>4. \A k \in Ages(sq) : \E i \in UndrainedStores : Holds(path, sq, STORE_QUEUE_SIZE, k, i)
  BY <1>1, <1>3 DEF Holds, Store
<1>5. ASSUME NEW i \in UndrainedStores
      PROVE  \E k \in Ages(sq) : Holds(path, sq, STORE_QUEUE_SIZE, k, i)
  <2>1. PICK k \in Ages(sq) : At(sq, k, STORE_QUEUE_SIZE).seq = path[i].seq
    BY <1>1 DEF Store
  <2>2. PICK g \in Places(path, "store", 1) : Holds(path, sq, STORE_QUEUE_SIZE, k, g)
    BY <1>3
  <2>3. path[g].seq = path[i].seq
    BY <2>1, <2>2 DEF Holds
  <2>4. g = i
    BY <1>0, <1>1, <1>2, <2>3, SeqOrder
  <2> QED
    BY <2>2, <2>4
<1> QED
  BY <1>1, <1>2, <1>4, <1>5

LEMMA FollowWindow ==
    ASSUME QueueInvariant
    PROVE  QueuesFollowWindow
<1> DEFINE L == LOAD_QUEUE_SIZE
           n == STORE_QUEUE_SIZE
           loads == IndicesOf("load", retired + 1)
           rank(i) == Cardinality({j \in loads : j < i})
           order(i) == Cardinality({j \in UndrainedStores : j < i})
<1>0. /\ path \in Seq(Renamed) /\ Increasing(path) /\ retired \in Nat /\ Len(path) \in Nat
      /\ LoadsQueued(path, lq, retired) /\ StoresQueued(path, sq, retired)
      /\ lq \in EntryOf(L) /\ InOrder(lq, L) /\ sq \in EntryOf(n) /\ InOrder(sq, n)
      /\ Ring(lq, L) /\ Ring(sq, n)
  BY PathShape DEF QueueInvariant, TypeOK, WindowOK, LoadsQueued, StoresQueued, Tracks
<1>1. loads = Places(path, "load", retired + 1)
  BY DEF IndicesOf, Places
<1>2. loads \in SUBSET (1 .. Len(path)) /\ \A i \in loads : path[i].instr.kind = "load"
  BY <1>0 DEF IndicesOf
<1> HIDE DEF loads
<1>3. /\ \A k \in Ages(lq) : \E i \in loads : Holds(path, lq, L, k, i)
      /\ \A i \in loads : \E k \in Ages(lq) : Holds(path, lq, L, k, i)
  BY <1>0, <1>1 DEF LoadsQueued, Tracks
<1>4. /\ lq.size = Cardinality(loads)
      /\ \A i \in loads : \E k \in Ages(lq) : k = rank(i) /\ Holds(path, lq, L, k, i)
  BY <1>0, <1>2, <1>3, Sizes, RankIsAge
<1>5. \A i \in loads : /\ path[i].slot = (lq.head + Rank(i, retired + 1)) % L
                       /\ lq.entries[path[i].slot].seq = path[i].seq
  <2> SUFFICES ASSUME NEW i \in loads
               PROVE  /\ path[i].slot = (lq.head + Rank(i, retired + 1)) % L
                      /\ lq.entries[path[i].slot].seq = path[i].seq
    OBVIOUS
  <2>1. Holds(path, lq, L, rank(i), i)
    BY <1>4
  <2>2. Rank(i, retired + 1) = rank(i)
    BY <1>2 DEF Rank, loads
  <2> QED
    BY <2>1, <2>2 DEF Holds, Where, At
<1>6. /\ UndrainedStores \in SUBSET (1 .. Len(path))
      /\ UndrainedStores \subseteq Places(path, "store", 1)
      /\ \A k \in Ages(sq) : \E i \in UndrainedStores : Holds(path, sq, n, k, i)
      /\ \A i \in UndrainedStores : \E k \in Ages(sq) : Holds(path, sq, n, k, i)
  BY UndrainedTracked
<1> DEFINE U == UndrainedStores
<1> HIDE DEF U
<1>7. /\ sq.size = Cardinality(U)
      /\ \A i \in U : \E k \in Ages(sq) : /\ k = Cardinality({j \in U : j < i})
                                          /\ Holds(path, sq, n, k, i)
  <2>1. /\ U \in SUBSET (1 .. Len(path))
        /\ \A k \in Ages(sq) : \E i \in U : Holds(path, sq, n, k, i)
        /\ \A i \in U : \E k \in Ages(sq) : Holds(path, sq, n, k, i)
    BY <1>6 DEF U
  <2> QED
    BY <1>0, <2>1, Sizes, RankIsAge
<1>8. \A i \in UndrainedStores : /\ path[i].slot = (sq.head + order(i)) % n
                                 /\ sq.entries[path[i].slot].seq = path[i].seq
                                 /\ sq.entries[path[i].slot].completed = (i <= retired)
  <2> SUFFICES ASSUME NEW i \in U
               PROVE  /\ path[i].slot = (sq.head + order(i)) % n
                      /\ sq.entries[path[i].slot].seq = path[i].seq
                      /\ sq.entries[path[i].slot].completed = (i <= retired)
    BY DEF U
  <2>1. PICK k \in Ages(sq) : k = order(i) /\ Holds(path, sq, n, k, i)
    BY <1>7 DEF U
  <2>2. path[i].slot = (sq.head + k) % n /\ At(sq, k, n) = sq.entries[path[i].slot]
        /\ At(sq, k, n).seq = path[i].seq
    BY <2>1 DEF Holds, Where, At
  <2>3. At(sq, k, n).completed <=> i <= retired
    BY <1>0, <1>6, <2>2 DEF StoresQueued, StoreFacts, U
  <2>4. At(sq, k, n).completed \in BOOLEAN
    BY <1>0, Sizes, EntryShape DEF Entry
  <2>5. At(sq, k, n).completed = (i <= retired)
    BY <2>3, <2>4
  <2> QED
    BY <2>1, <2>2, <2>5
<1>9. IndicesOf("store", retired + 1) \subseteq UndrainedStores
  <2> SUFFICES ASSUME NEW i \in Places(path, "store", retired + 1)
               PROVE  i \in UndrainedStores
    BY DEF IndicesOf, Places
  <2>1. PICK k \in Ages(sq) : Holds(path, sq, n, k, i)
    BY <1>0 DEF StoresQueued, Tracks
  <2>2. i \in IndicesOf("store", 1)
    BY <1>0 DEF Places, IndicesOf
  <2> QED
    BY <2>1, <2>2 DEF UndrainedStores, Holds, Store
<1>10. lq.tail = (lq.head + lq.size) % L /\ sq.tail = (sq.head + sq.size) % n
  BY <1>0 DEF Ring, Where
<1> QED
  BY <1>4, <1>5, <1>7, <1>8, <1>9, <1>10 DEF QueuesFollowWindow, loads, U

\* The queues are the window's loads and stores in program order, through every
\* wrap-around, commit and squash, and an instruction's index still names its
\* own entry when execute_stage writes it and ReorderBuffer::commit pops it.
THEOREM IndicesNameTheirEntries == Spec => []QueuesFollowWindow
<1>1. QueueInvariant => QueuesFollowWindow
  BY FollowWindow
<1> QED
  BY <1>1, QueuesTracked, PTL

----------------------------------------------------------------------------
(* Memory.  The stores that have left the queue, and what they leave in a  *)
(* word: the last of them.                                                 *)

Drained(p, q) == {i \in Places(p, "store", 1) : ~InQueue(p, q, i)}
StoresTo(p, i, w) == p[i].instr.kind = "store" /\ Word(p[i].instr.addr) = w
\* v is what the stores to w at the positions in S leave there.
LeftBy(p, S, w, v) ==
    \/ (\A i \in S : ~StoresTo(p, i, w)) /\ v = Data(Initial)
    \/ \E i \in S : /\ StoresTo(p, i, w) /\ v = Data(p[i].seq)
                    /\ \A j \in S : StoresTo(p, j, w) => j <= i
MemoryOf(p, q, m) == \A w \in Words : LeftBy(p, Drained(p, q), w, m[w])

LEMMA DrainedCommitted ==
    ASSUME NEW p \in Seq(Renamed), NEW q, NEW r \in Nat, StoresQueued(p, q, r)
    PROVE  \A i \in Drained(p, q) : i \in 1 .. Len(p) /\ i <= r
<1> SUFFICES ASSUME NEW i \in Places(p, "store", 1), ~InQueue(p, q, i)
             PROVE  i \in 1 .. Len(p) /\ i <= r
  BY DEF Drained
<1>1. i \in 1 .. Len(p)
  BY DEF Places
<1>2. ASSUME ~(i <= r) PROVE FALSE
  <2>1. i \in Places(p, "store", r + 1)
    BY <1>1, <1>2 DEF Places
  <2>2. InQueue(p, q, i)
    BY <2>1 DEF StoresQueued, Tracks, Holds, InQueue
  <2> QED
    BY <2>2
<1> QED
  BY <1>1, <1>2

\* The same stores in the same queue leave the same memory.
LEMMA MemorySame ==
    ASSUME NEW p \in Seq(Renamed), NEW q, NEW m, MemoryOf(p, q, m),
           NEW p2, NEW q2, Drained(p2, q2) = Drained(p, q),
           \A i \in Drained(p, q) : p2[i].seq = p[i].seq /\ p2[i].instr = p[i].instr
    PROVE  MemoryOf(p2, q2, m)
<1> SUFFICES ASSUME NEW w \in Words PROVE LeftBy(p2, Drained(p, q), w, m[w])
  BY DEF MemoryOf
<1>1. LeftBy(p, Drained(p, q), w, m[w])
  BY DEF MemoryOf
<1>2. \A i \in Drained(p, q) : StoresTo(p2, i, w) <=> StoresTo(p, i, w)
  BY DEF StoresTo
<1> QED
  BY <1>1, <1>2 DEF LeftBy

\* evict_commited_stores on the queue q.
LEMMA MemoryEvict ==
    ASSUME NEW p \in Seq(Renamed), Increasing(p), NEW q, NEW r \in Nat, StoresQueued(p, q, r),
           MemoryOf(p, q, mem), NEW count \in Nat, Evict(q, count)
    PROVE  MemoryOf(p, sq', mem')
<1> DEFINE n == STORE_QUEUE_SIZE
           to(w) == {k \in 0 .. count - 1 : Word(At(q, k, n).instr.addr) = w}
<1>0. n \in Nat \ {0} /\ q \in EntryOf(n) /\ InOrder(q, n) /\ AgesOrdered(p, q)
  BY Sizes, AgeOrder DEF StoresQueued, Tracks
<1>1. /\ count \in 0 .. Cardinality(CommittedPrefix(q))
      /\ sq' = PopHead(q, count, n)
      /\ mem' = [w \in Words |-> IF to(w) = {} THEN mem[w]
                                               ELSE Data(At(q, Youngest(to(w)), n).seq)]
  BY Zenon DEF Evict
<1>2. /\ count \in 0 .. q.size
      /\ \A k \in Ages(sq') : k + count \in Ages(q) /\ At(sq', k, n) = At(q, k + count, n)
      /\ \A k \in Ages(q) : k >= count => k - count \in Ages(sq')
      /\ sq' \in EntryOf(n)
  BY <1>0, <1>1, StoresDrained DEF StoresQueued, Tracks
<1>3. /\ q.size \in Nat /\ \A k \in Ages(q) : k \in Nat /\ k \in 0 .. n
      /\ \A k \in Ages(sq') : k \in Nat
      /\ \A k \in 0 .. count - 1 : k \in Ages(q) /\ k < count
      /\ \A k \in Ages(q) : k < count => k \in 0 .. count - 1
  <2>1. q.size \in Nat /\ q.size <= n /\ \A k \in Ages(q) : k \in Nat /\ k \in 0 .. n - 1
    BY <1>0, EntryShape
  <2>2. \A k \in Ages(sq') : k \in Nat
    BY <1>0, <1>2, EntryShape
  <2>3. \A k \in 0 .. n - 1 : k \in 0 .. n
    BY <1>0
  <2>4. \A k \in 0 .. count - 1 : k \in Ages(q) /\ k < count
    BY <1>2, <2>1 DEF Ages
  <2> QED
    BY <2>1, <2>2, <2>3, <2>4
<1>4. \A i \in Places(p, "store", 1) : i \in 1 .. Len(p) /\ i \in Int
                                       /\ p[i].instr.kind = "store" /\ p[i].seq \in Nat
  BY PathShape DEF Places
<1>5. \A i \in Places(p, "store", 1) :
         InQueue(p, sq', i) <=> \E k \in Ages(q) : k >= count /\ At(q, k, n).seq = p[i].seq
  <2> SUFFICES ASSUME NEW i \in Places(p, "store", 1)
               PROVE  InQueue(p, sq', i) <=> \E k \in Ages(q) : k >= count /\ At(q, k, n).seq = p[i].seq
    OBVIOUS
  <2>1. ASSUME NEW k \in Ages(sq'), At(sq', k, n).seq = p[i].seq
        PROVE  k + count \in Ages(q) /\ k + count >= count /\ At(q, k + count, n).seq = p[i].seq
    BY <1>2, <1>3, <2>1
  <2>2. ASSUME NEW k \in Ages(q), k >= count, At(q, k, n).seq = p[i].seq
        PROVE  k - count \in Ages(sq') /\ At(sq', k - count, n).seq = p[i].seq
    <3>1. k - count \in Ages(sq') /\ (k - count) + count = k
      BY <1>2, <1>3, <2>2
    <3> QED
      BY <1>2, <2>2, <3>1
  <2> QED
    BY <2>1, <2>2 DEF InQueue
<1> HIDE DEF n
<1>6. \A k \in Ages(q) : \E i \in Places(p, "store", 1) :
          At(q, k, n).seq = p[i].seq /\ At(q, k, n).instr = p[i].instr
  BY StorePlace DEF n
\* A store of age k < count is drained.
<1>7. \A k \in Ages(q) : \A i \in Places(p, "store", 1) :
         k < count /\ At(q, k, n).seq = p[i].seq => i \in Drained(p, sq')
  <2> SUFFICES ASSUME NEW k \in Ages(q), NEW i \in Places(p, "store", 1), k < count,
                      At(q, k, n).seq = p[i].seq, NEW j \in Ages(q), j >= count,
                      At(q, j, n).seq = p[i].seq
               PROVE  FALSE
    BY <1>5 DEF Drained
  <2>1. k < j
    BY <1>3
  <2>2. At(q, k, n).seq < At(q, j, n).seq
    BY <1>0, <2>1 DEF InOrder
  <2> QED
    BY <1>4, <2>2
<1>8. \A i \in Drained(p, q) : i \in Drained(p, sq')
  BY <1>5 DEF Drained, InQueue, n
<1>9. \A i \in Drained(p, sq') : /\ i \in Places(p, "store", 1)
                                 /\ \/ i \in Drained(p, q)
                                    \/ \E k \in 0 .. count - 1 : At(q, k, n).seq = p[i].seq
  <2> SUFFICES ASSUME NEW i \in Places(p, "store", 1), ~InQueue(p, sq', i), InQueue(p, q, i)
               PROVE  \E k \in 0 .. count - 1 : At(q, k, n).seq = p[i].seq
    BY DEF Drained
  <2>1. PICK k \in Ages(q) : At(q, k, n).seq = p[i].seq
    BY DEF InQueue, n
  <2>2. k < count
    BY <1>3, <1>5, <2>1
  <2> QED
    BY <1>3, <2>1, <2>2
<1>10. \A k \in Ages(q) : \A i \in Places(p, "store", 1) :
          At(q, k, n).seq = p[i].seq => At(q, k, n).instr = p[i].instr
  BY DEF StoresQueued, StoreFacts, n
<1> SUFFICES ASSUME NEW w \in Words PROVE LeftBy(p, Drained(p, sq'), w, mem'[w])
  BY DEF MemoryOf
<1>11. CASE to(w) = {}
  <2>1. mem'[w] = mem[w] /\ LeftBy(p, Drained(p, q), w, mem[w])
    BY <1>1, <1>11 DEF MemoryOf
  <2>2. \A i \in Drained(p, sq') : StoresTo(p, i, w) => i \in Drained(p, q)
    BY <1>3, <1>9, <1>10, <1>11 DEF StoresTo
  <2> QED
    BY <1>8, <2>1, <2>2 DEF LeftBy
<1>12. CASE to(w) # {}
  <2> DEFINE y == Youngest(to(w))
  <2>1. to(w) \in SUBSET (0 .. n) /\ n \in Nat
    BY <1>0, <1>3
  <2>2. y \in to(w) /\ \A k \in to(w) : k <= y
    BY <1>12, <2>1, YoungestIsIn
  <2>3. y \in Ages(q) /\ y < count /\ Word(At(q, y, n).instr.addr) = w
    BY <1>3, <2>2
  <2>4. mem'[w] = Data(At(q, y, n).seq)
    BY <1>1, <1>12
  <2>5. \A k \in 0 .. count - 1 : Word(At(q, k, n).instr.addr) = w => k <= y
    BY <2>2
  <2> HIDE DEF y
  <2>6. PICK i \in Places(p, "store", 1) : At(q, y, n).seq = p[i].seq /\ At(q, y, n).instr = p[i].instr
    BY <1>6, <2>3
  <2>7. i \in Drained(p, sq') /\ StoresTo(p, i, w) /\ mem'[w] = Data(p[i].seq)
    BY <1>4, <1>7, <2>3, <2>4, <2>6 DEF StoresTo
  <2>8. ASSUME NEW j \in Drained(p, sq'), StoresTo(p, j, w) PROVE j <= i
    <3>1. j \in Places(p, "store", 1)
      BY <1>9
    <3>2. CASE j \in Drained(p, q)
      <4>1. p[j].seq < p[i].seq
        BY <2>3, <2>6, <3>1, <3>2 DEF Drained, StoresQueued, OldestDrained, n
      <4>2. j < i
        BY <1>4, <3>1, <4>1, SeqOrder
      <4> QED
        BY <1>4, <3>1, <4>2
    <3>3. CASE \E k \in 0 .. count - 1 : At(q, k, n).seq = p[j].seq
      <4>1. PICK k \in 0 .. count - 1 : At(q, k, n).seq = p[j].seq
        BY <3>3
      <4>2. k <= y /\ k \in Ages(q)
        BY <1>3, <1>10, <2>5, <2>8, <3>1, <4>1 DEF StoresTo
      <4> QED
        BY <1>0, <2>3, <2>6, <3>1, <4>1, <4>2 DEF AgesOrdered, n
    <3> QED
      BY <1>9, <3>2, <3>3
  <2> QED
    BY <2>7, <2>8 DEF LeftBy
<1> QED
  BY <1>11, <1>12

\* perform_squash, when it spares what has drained.
LEMMA CutKeepsDrained ==
    ASSUME NEW p \in Seq(Renamed), NEW q, NEW r \in 0 .. Len(p), StoresQueued(p, q, r),
           NEW m \in 0 .. Len(p), NEW seq \in Nat, r <= m,
           \A i \in 1 .. Len(p) : i <= m <=> p[i].seq <= seq
    PROVE  Drained(SubSeq(p, 1, m), Squashed(q, seq, STORE_QUEUE_SIZE)) = Drained(p, q)
<1> DEFINE n == STORE_QUEUE_SIZE
<1>0. PICK p2, q2 : p2 = SubSeq(p, 1, m) /\ q2 = Squashed(q, seq, n)
  OBVIOUS
<1>1. /\ n \in Nat \ {0} /\ q \in EntryOf(n) /\ InOrder(q, n) /\ Len(p) \in Nat /\ r \in Nat
  BY Sizes, PathShape DEF StoresQueued, Tracks
<1>2. /\ Ages(q2) \subseteq Ages(q)
      /\ \A k \in Ages(q) : k \in Ages(q2) <=> At(q, k, n).seq <= seq
      /\ \A k \in Int : At(q2, k, n) = At(q, k, n)
  BY <1>0, <1>1, TailPopped
<1>3. \A k \in Ages(q) : k \in Int
  BY <1>1, EntryShape
<1>4. Len(p2) = m /\ \A i \in 1 .. m : p2[i] = p[i]
  BY <1>0, <1>1, PathShape, SubSeqProperties
<1>5. \A i \in Drained(p, q) : i \in 1 .. m
  BY <1>1, DrainedCommitted
<1>6. \A i \in 1 .. m : InQueue(p2, q2, i) <=> InQueue(p, q, i)
  <2> SUFFICES ASSUME NEW i \in 1 .. m PROVE InQueue(p2, q2, i) <=> InQueue(p, q, i)
    OBVIOUS
  <2>1. p2[i] = p[i] /\ p[i].seq <= seq
    BY <1>1, <1>4
  <2> QED
    BY <1>2, <1>3, <2>1 DEF InQueue
<1>7. \A i \in 1 .. m : i \in Places(p2, "store", 1) <=> i \in Places(p, "store", 1)
  BY <1>1, <1>4 DEF Places
<1>8. \A i \in Drained(p2, q2) : i \in 1 .. m
  BY <1>4 DEF Drained, Places
<1>9. Drained(p2, q2) = Drained(p, q)
  BY <1>5, <1>6, <1>7, <1>8 DEF Drained
<1> QED
  BY <1>0, <1>9

MemoryRight == ~undone => MemoryOf(path, sq, mem)

LEMMA MemoryStep ==
    ASSUME QueueInvariant, MemoryRight, [Next]_vars
    PROVE  MemoryRight'
<1> DEFINE n == STORE_QUEUE_SIZE
<1>0. /\ path \in Seq(Renamed) /\ Increasing(path) /\ retired \in Nat /\ Len(path) \in Nat
      /\ retired \in 0 .. Len(path) /\ squash_seq \in Nat
      /\ StoresQueued(path, sq, retired) /\ sq \in EntryOf(n) /\ Ring(sq, n) /\ n \in Nat \ {0}
      /\ TypeOK
  BY Sizes, PathShape DEF QueueInvariant, TypeOK, WindowOK, StoresQueued, Tracks
<1>1. \A i \in Places(path, "store", 1) : i \in 1 .. Len(path)
  BY DEF Places
<1>2. CASE Underway
  <2>1. /\ SameText(path, path') /\ SameQueue(sq, sq', n) /\ mem' = mem /\ undone' = undone
    BY <1>2 DEF Underway
  <2>2. /\ Places(path', "store", 1) = Places(path, "store", 1)
        /\ \A i \in Places(path, "store", 1) : path'[i].seq = path[i].seq
                                               /\ path'[i].instr = path[i].instr
    BY <1>0, <2>1, PathShape DEF SameText, Places
  <2>3. Drained(path', sq') = Drained(path, sq)
    BY <2>1, <2>2 DEF Drained, InQueue, SameQueue, Ages
  <2>4. MemoryOf(path, sq, mem) => MemoryOf(path', sq', mem)
    BY <1>0, <2>2, <2>3, MemorySame DEF Drained
  <2> QED
    BY <2>1, <2>4 DEF MemoryRight
<1>3. ASSUME NEW instr \in Instrs, Rename(instr) PROVE MemoryRight'
  <2> DEFINE x == [seq |-> next_seq, instr |-> instr, addr_ready |-> FALSE, completed |-> FALSE]
  <2>1. PICK e : path' = Append(path, e) /\ e.seq = next_seq /\ e.instr = instr
    BY <1>3 DEF Rename
  <2>2. /\ mem' = mem /\ undone' = undone
        /\ IF instr.kind = "store" THEN sq' = Add(sq, x, n) /\ sq.size < n ELSE sq' = sq
    <3>1. sq.size \in Nat
      BY <1>0, EntryShape
    <3> QED
      BY <1>3, <3>1, Zenon DEF Rename, history
  <2>3. QueueInvariant'
    BY <1>3, RenameKeeps
  <2>4. /\ Len(path') = Len(path) + 1 /\ path' \in Seq(Renamed)
        /\ \A i \in 1 .. Len(path) : path'[i] = path[i] /\ path[i].seq \in Nat /\ path[i].seq < next_seq
        /\ path'[Len(path) + 1] = e
    <3>1. path' \in Seq(Renamed) /\ \A i \in 1 .. Len(path) : path[i].seq \in Nat /\ path[i].seq < next_seq
      BY <1>0, <2>3, PathShape DEF QueueInvariant, WindowOK
    <3>2. /\ Len(path') = Len(path) + 1 /\ \A i \in 1 .. Len(path) : path'[i] = path[i]
          /\ path'[Len(path) + 1] = e
      BY <1>0, <2>1
    <3> QED
      BY <3>1, <3>2
  <2> HIDE DEF x
  <2>5. \A i \in Places(path, "store", 1) : InQueue(path', sq', i) <=> InQueue(path, sq, i)
    <3>1. CASE instr.kind # "store"
      BY <1>1, <2>2, <2>4, <3>1 DEF InQueue
    <3>2. CASE instr.kind = "store"
      <4>1. x \in Entry /\ x.seq = next_seq
        BY <1>0 DEF x, Entry, TypeOK
      <4>2. /\ sq'.size = sq.size + 1
            /\ \A k \in Ages(sq) : At(sq', k, n) = At(sq, k, n)
            /\ At(sq', sq.size, n) = x
        BY <1>0, <2>2, <3>2, <4>1, Added
      <4>3. sq.size \in Nat /\ Ages(sq') = Ages(sq) \cup {sq.size}
        <5>1. sq.size \in Nat
          BY <1>0, EntryShape
        <5> QED
          BY <4>2, <5>1 DEF Ages
      <4>4. \A i \in Places(path, "store", 1) : path'[i].seq = path[i].seq /\ path[i].seq # next_seq
        <5>1. \A i \in 1 .. Len(path) : path[i].seq # next_seq
          <6>1. next_seq \in Nat
            BY <1>0 DEF TypeOK
          <6> QED
            BY <2>4, <6>1
        <5> QED
          BY <1>1, <2>4, <5>1
      <4> QED
        BY <4>1, <4>2, <4>3, <4>4 DEF InQueue
    <3> QED
      BY <3>1, <3>2
  <2>6. Drained(path', sq') \subseteq 1 .. Len(path)
    <3>1. StoresQueued(path', sq', retired')
      BY <2>3 DEF QueueInvariant
    <3>2. retired' = retired
      BY <1>3 DEF Rename
    <3>3. \A i \in Drained(path', sq') : i <= retired /\ i \in 1 .. Len(path')
      BY <1>0, <2>4, <3>1, <3>2, DrainedCommitted
    <3> QED
      BY <1>0, <2>4, <3>3
  <2>7. \A i \in 1 .. Len(path) : i \in Places(path', "store", 1) <=> i \in Places(path, "store", 1)
    BY <1>0, <2>4 DEF Places
  <2>8. Drained(path', sq') = Drained(path, sq)
    BY <1>1, <2>5, <2>6, <2>7 DEF Drained
  <2>9. MemoryOf(path, sq, mem) => MemoryOf(path', sq', mem)
    BY <1>0, <1>1, <2>4, <2>8, MemorySame DEF Drained
  <2> QED
    BY <2>2, <2>9 DEF MemoryRight
<1>4. CASE Commit
  <2> DEFINE r == retired + 1
             seq == path[r].seq
             kind == path[r].instr.kind
             q == IF kind = "store" THEN MarkStoreComplete(seq) ELSE sq
  <2>1. retired < Len(path) /\ path' = path /\ undone' = undone
    BY <1>4, Zenon DEF Commit
  <2>2. r \in 1 .. Len(path) /\ r \in Nat /\ retired \in 0 .. Len(path) - 1
    BY <1>0, <2>1
  <2>3. seq \in Nat
    BY <1>0, <2>2, PathShape
  <2>4. \E count \in 0 .. q.size : Evict(q, count)
    BY <1>4, Zenon DEF Commit, DrainAfterCommit
  <2>5. StoresQueued(path, q, r)
    <3>1. CASE kind = "store"
      BY <1>0, <2>2, <3>1, StoresMarked
    <3>2. CASE kind # "store"
      BY <1>0, <2>2, <3>2, StoresPassedBy
    <3> QED
      BY <3>1, <3>2
  <2>6. Ages(q) = Ages(sq) /\ \A k \in Ages(sq) : At(q, k, n).seq = At(sq, k, n).seq
    <3>1. CASE kind = "store"
      <4>1. /\ q.size = sq.size
            /\ \A k \in Ages(sq) : At(q, k, n) = MarkedEntry(Store(k), seq)
        BY <1>0, <2>3, <3>1, Marked
      <4>2. \A k \in Ages(sq) : Store(k) \in Entry
        BY <1>0, EntryShape DEF Store
      <4>3. \A k \in Ages(sq) : MarkedEntry(Store(k), seq).seq = Store(k).seq
        BY <4>2 DEF Entry, MarkedEntry
      <4> QED
        BY <4>1, <4>3 DEF Ages, Store
    <3>2. CASE kind # "store"
      BY <3>2
    <3> QED
      BY <3>1, <3>2
  <2> HIDE DEF q
  <2>7. Drained(path, q) = Drained(path, sq)
    BY <2>6 DEF Drained, InQueue
  <2>8. MemoryOf(path, sq, mem) => MemoryOf(path, q, mem)
    BY <2>7 DEF MemoryOf
  <2>9. PICK count \in Nat : Evict(q, count)
    <3>1. q.size \in Nat
      BY <1>0, <2>5, EntryShape DEF StoresQueued, Tracks
    <3> QED
      BY <2>4, <3>1
  <2>10. MemoryOf(path, q, mem) => MemoryOf(path, sq', mem')
    BY <1>0, <2>2, <2>5, <2>9, MemoryEvict
  <2> QED
    BY <2>1, <2>8, <2>10 DEF MemoryRight
<1>5. CASE DrainStores
  <2>1. path' = path /\ undone' = undone
    BY <1>5 DEF DrainStores
  <2>2. PICK count \in Nat : Evict(sq, count)
    <3>1. sq.size \in Nat
      BY <1>0, EntryShape
    <3> QED
      BY <1>5, <3>1 DEF DrainStores
  <2>3. MemoryOf(path, sq, mem) => MemoryOf(path, sq', mem')
    BY <1>0, <2>2, MemoryEvict
  <2> QED
    BY <2>1, <2>3 DEF MemoryRight
<1>6. CASE PerformSquash
  <2>1. PICK m \in 0 .. Len(path) :
              /\ path' = SubSeq(path, 1, m) /\ path' \in Seq(Renamed) /\ Len(path') = m
              /\ \A i \in 1 .. m : path'[i] = path[i]
              /\ \A i \in 1 .. Len(path) : i <= m <=> path[i].seq <= squash_seq
              /\ retired' = IF retired <= m THEN retired ELSE m
              /\ undone' = (undone \/ retired > m)
    BY <1>6, SquashCuts
  <2>2. sq' = Squashed(sq, squash_seq, n) /\ mem' = mem
    BY <1>6, Zenon DEF PerformSquash
  <2>3. SUFFICES ASSUME ~undone, ~(retired > m)
                 PROVE  MemoryOf(path', sq', mem)
    BY <2>1, <2>2 DEF MemoryRight
  <2>4. retired <= m
    BY <1>0, <2>3
  <2>5. Drained(path', sq') = Drained(path, sq)
    <3>1. /\ path \in Seq(Renamed) /\ retired \in 0 .. Len(path) /\ squash_seq \in Nat
          /\ StoresQueued(path, sq, retired) /\ m \in 0 .. Len(path)
      BY <1>0
    <3>2. path' = SubSeq(path, 1, m) /\ sq' = Squashed(sq, squash_seq, n)
      BY <2>1, <2>2
    <3>3. \A i \in 1 .. Len(path) : i <= m <=> path[i].seq <= squash_seq
      BY <2>1
    <3> QED
      BY <2>4, <3>1, <3>2, <3>3, CutKeepsDrained
  <2>6. \A i \in Drained(path, sq) : i \in 1 .. m
    BY <1>0, <2>4, DrainedCommitted
  <2> QED
    BY <1>0, <2>1, <2>3, <2>5, <2>6, MemorySame DEF MemoryRight
<1> QED
  BY <1>0, <1>2, <1>3, <1>4, <1>5, <1>6, NextCases, InFlightStepIsUnderway

LEMMA InitMemory ==
    ASSUME Init
    PROVE  MemoryRight
<1>1. Len(path) = 0 /\ \A w \in Words : mem[w] = Data(Initial)
  BY DEF Init, Data
<1>2. \A i \in Places(path, "store", 1) : FALSE
  BY <1>1 DEF Places
<1> QED
  BY <1>1, <1>2 DEF MemoryRight, MemoryOf, LeftBy, Drained

LEMMA MemoryMeans ==
    ASSUME MemoryRight, path \in Seq(Renamed)
    PROVE  MemoryFollowsProgramOrder
<1> SUFFICES ASSUME ~undone, NEW w \in Words
             PROVE  LET drained == {k \in IndicesOf("store", 1) \ UndrainedStores :
                                      Word(path[k].instr.addr) = w}
                    IN mem[w] = Data(IF drained = {} THEN Initial ELSE path[Youngest(drained)].seq)
  BY DEF MemoryFollowsProgramOrder
<1> DEFINE drained == {k \in IndicesOf("store", 1) \ UndrainedStores :
                          Word(path[k].instr.addr) = w}
<1>1. drained = {i \in Drained(path, sq) : StoresTo(path, i, w)}
  BY DEF Drained, Places, IndicesOf, UndrainedStores, InQueue, StoresTo, Store
<1>2. LeftBy(path, Drained(path, sq), w, mem[w])
  BY DEF MemoryRight, MemoryOf
<1>3. drained \in SUBSET Int
  BY DEF IndicesOf
<1> HIDE DEF drained
<1>4. CASE \A i \in Drained(path, sq) : ~StoresTo(path, i, w)
  BY <1>1, <1>2, <1>4 DEF LeftBy, drained
<1>5. CASE \E i \in Drained(path, sq) : StoresTo(path, i, w)
  <2>1. PICK i \in drained : mem[w] = Data(path[i].seq) /\ \A j \in drained : j <= i
    BY <1>1, <1>2, <1>5 DEF LeftBy
  <2>2. Youngest(drained) = i
    BY <1>3, <2>1, YoungestIs
  <2> QED
    BY <2>1, <2>2 DEF drained
<1> QED
  BY <1>4, <1>5

\* Memory holds, word by word, the last store in program order that is no
\* longer queued: stores drain in order, none is lost and none of a squashed
\* path gets there, for every capacity of the store queue.
THEOREM StoresReachMemoryInOrder == Spec => []MemoryFollowsProgramOrder
<1>1. Init => MemoryRight
  BY InitMemory
<1>2. QueueInvariant /\ MemoryRight /\ [Next]_vars => MemoryRight'
  BY MemoryStep
<1>3. QueueInvariant /\ MemoryRight => MemoryFollowsProgramOrder
  BY MemoryMeans DEF QueueInvariant, WindowOK
<1> QED
  BY <1>1, <1>2, <1>3, QueuesTracked, PTL DEF Spec

----------------------------------------------------------------------------
(* Loads.  try_forward answers from a store of the same address and size   *)
(* only, and nothing holds a load back behind a store it overlaps but does *)
(* not match: what a load reads is shown right for programs whose loads    *)
(* match the stores to the words they read.  (MCLoadStoreQueueMixed is a   *)
(* program of another kind.)                                               *)

MatchedAccesses ==
    \A i, j \in Instrs :
        i.kind = "load" /\ j.kind = "store" /\ Word(i.addr) = Word(j.addr)
            => i.addr = j.addr /\ i.size = j.size

Earlier(p, q, k, i) == At(q, k, STORE_QUEUE_SIZE).seq < p[i].seq
\* A load that left the instruction queue knows the addresses of the stores before it.
ReadyBefore(p, q) ==
    \A i \in Places(p, "load", 1) : p[i].stage # "queued" =>
        \A k \in Ages(q) : Earlier(p, q, k, i) => At(q, k, STORE_QUEUE_SIZE).addr_ready
\* A load that waits for an MSHR has no store to its word before it in the queue.
NoneBefore(p, q) ==
    \A i \in Places(p, "load", 1) : p[i].stage = "mshr" =>
        \A k \in Ages(q) : Earlier(p, q, k, i) =>
            Word(At(q, k, STORE_QUEUE_SIZE).instr.addr) # Word(p[i].instr.addr)
LoadedRight(p, i) == LeftBy(p, 1 .. i - 1, Word(p[i].instr.addr), p[i].value)
Loaded(p) ==
    \A i \in Places(p, "load", 1) : p[i].stage \in {"result", "done"} => LoadedRight(p, i)
LoadInvariant ==
    /\ ReadyBefore(path, sq) /\ NoneBefore(path, sq)
    /\ ~undone => Loaded(path)

LEMMA LeftSame ==
    ASSUME NEW p, NEW p2, NEW S, NEW w, NEW v, LeftBy(p, S, w, v),
           \A i \in S : p2[i].seq = p[i].seq /\ p2[i].instr = p[i].instr
    PROVE  LeftBy(p2, S, w, v)
<1>1. \A i \in S : StoresTo(p2, i, w) <=> StoresTo(p, i, w)
  BY DEF StoresTo
<1> QED
  BY <1>1 DEF LeftBy

\* What is read from memory, when no store before the load is still queued.
LEMMA ReadFromMemory ==
    ASSUME QueueInvariant, MemoryRight, ~undone, NEW i \in retired + 1 .. Len(path),
           NEW w \in Words,
           \A k \in Ages(sq) : Earlier(path, sq, k, i) =>
               Word(At(sq, k, STORE_QUEUE_SIZE).instr.addr) # w
    PROVE  LeftBy(path, 1 .. i - 1, w, mem[w])
<1>0. /\ path \in Seq(Renamed) /\ Increasing(path) /\ retired \in Nat /\ Len(path) \in Nat
      /\ StoresQueued(path, sq, retired) /\ i \in 1 .. Len(path)
  BY PathShape DEF QueueInvariant, TypeOK, WindowOK, Renamed
<1>1. LeftBy(path, Drained(path, sq), w, mem[w])
  BY DEF MemoryRight, MemoryOf
<1>2. \A j \in Drained(path, sq) : j \in 1 .. i - 1
  <2>1. \A j \in Drained(path, sq) : j \in 1 .. Len(path) /\ j <= retired
    BY <1>0, DrainedCommitted
  <2> QED
    BY <1>0, <2>1
<1>3. \A j \in 1 .. i - 1 : StoresTo(path, j, w) => j \in Drained(path, sq)
  <2> SUFFICES ASSUME NEW j \in 1 .. i - 1, StoresTo(path, j, w), InQueue(path, sq, j)
               PROVE  FALSE
    BY <1>0 DEF Drained, Places, StoresTo
  <2>1. PICK k \in Ages(sq) : At(sq, k, STORE_QUEUE_SIZE).seq = path[j].seq
    BY DEF InQueue
  <2>2. j \in Places(path, "store", 1) /\ j \in 1 .. Len(path) /\ j < i
    BY <1>0 DEF Places, StoresTo
  <2>3. At(sq, k, STORE_QUEUE_SIZE).instr = path[j].instr
    BY <1>0, <2>1, <2>2 DEF StoresQueued, StoreFacts
  <2>4. Earlier(path, sq, k, i)
    BY <1>0, <2>1, <2>2 DEF Earlier, Increasing
  <2> QED
    BY <2>3, <2>4 DEF StoresTo
<1> QED
  BY <1>1, <1>2, <1>3 DEF LeftBy

\* What try_forward answers, when the stores before the load have their addresses.
LEMMA Forwarded ==
    ASSUME MatchedAccesses, QueueInvariant, NEW i \in retired + 1 .. Len(path),
           path[i].instr.kind = "load",
           \A k \in Ages(sq) : Earlier(path, sq, k, i) => At(sq, k, STORE_QUEUE_SIZE).addr_ready
    PROVE  LET from == ForwardingStores(path[i].seq, path[i].instr)
               w == Word(path[i].instr.addr)
           IN /\ from = {} => \A k \in Ages(sq) : Earlier(path, sq, k, i) =>
                                 Word(At(sq, k, STORE_QUEUE_SIZE).instr.addr) # w
              /\ from # {} => LeftBy(path, 1 .. i - 1, w, Data(Store(Youngest(from)).seq))
<1> DEFINE n == STORE_QUEUE_SIZE
           from == ForwardingStores(path[i].seq, path[i].instr)
           w == Word(path[i].instr.addr)
<1>0. /\ path \in Seq(Renamed) /\ Increasing(path) /\ retired \in Nat /\ Len(path) \in Nat
      /\ StoresQueued(path, sq, retired) /\ i \in 1 .. Len(path) /\ path[i].instr \in Instrs
      /\ AgesOrdered(path, sq) /\ n \in Nat \ {0} /\ sq \in EntryOf(n)
  <2>1. /\ path \in Seq(Renamed) /\ Increasing(path) /\ retired \in Nat
        /\ StoresQueued(path, sq, retired) /\ sq \in EntryOf(n)
    BY DEF QueueInvariant, TypeOK, WindowOK, Renamed
  <2>2. Len(path) \in Nat
    BY <2>1, PathShape
  <2>3. i \in 1 .. Len(path)
    BY <2>1, <2>2
  <2>4. AgesOrdered(path, sq)
    BY <2>1, AgeOrder
  <2> QED
    BY <2>1, <2>2, <2>3, <2>4, PathShape, Sizes
<1>1. from = {k \in Ages(sq) : /\ Earlier(path, sq, k, i)
                               /\ At(sq, k, n).addr_ready
                               /\ At(sq, k, n).instr.addr = path[i].instr.addr
                               /\ At(sq, k, n).instr.size = path[i].instr.size}
  BY DEF ForwardingStores, Earlier, Store
<1>2. \A k \in Ages(sq) : \E j \in Places(path, "store", 1) :
         /\ j \in 1 .. Len(path) /\ path[j].instr.kind = "store"
         /\ At(sq, k, n).seq = path[j].seq /\ At(sq, k, n).instr = path[j].instr
         /\ path[j].instr \in Instrs
  BY <1>0, StorePlace, PathShape
\* Every earlier store of the queue to the word can be forwarded from.
<1>3. \A k \in Ages(sq) : Earlier(path, sq, k, i) /\ Word(At(sq, k, n).instr.addr) = w => k \in from
  BY <1>0, <1>1, <1>2 DEF MatchedAccesses
<1>4. \A k \in from : k \in Ages(sq) /\ Earlier(path, sq, k, i) /\ Word(At(sq, k, n).instr.addr) = w
  BY <1>1
<1> HIDE DEF from
<1>5. CASE from = {}
  BY <1>3, <1>5 DEF from
<1>6. CASE from # {}
  <2> DEFINE y == Youngest(from)
  <2>1. from \in SUBSET (0 .. n) /\ n \in Nat
    <3>1. \A k \in Ages(sq) : k \in 0 .. n - 1
      BY <1>0, EntryShape
    <3>2. \A k \in 0 .. n - 1 : k \in 0 .. n
      BY <1>0
    <3> QED
      BY <1>0, <1>4, <3>1, <3>2
  <2>2. y \in from /\ \A k \in from : k <= y
    BY <1>6, <2>1, YoungestIsIn
  <2> HIDE DEF y
  <2>3. y \in Ages(sq) /\ Earlier(path, sq, y, i) /\ Word(At(sq, y, n).instr.addr) = w
    BY <1>4, <2>2
  <2>4. PICK j \in Places(path, "store", 1) :
            /\ j \in 1 .. Len(path) /\ path[j].instr.kind = "store"
            /\ At(sq, y, n).seq = path[j].seq /\ At(sq, y, n).instr = path[j].instr
    BY <1>2, <2>3
  <2>5. j < i
    BY <1>0, <2>3, <2>4, SeqOrder DEF Earlier
  <2>6. j \in 1 .. i - 1 /\ StoresTo(path, j, w)
    BY <1>0, <2>3, <2>4, <2>5 DEF StoresTo
  <2>7. ASSUME NEW g \in 1 .. i - 1, StoresTo(path, g, w) PROVE g <= j
    <3>1. g \in Places(path, "store", 1) /\ g \in 1 .. Len(path) /\ g < i
      BY <1>0, <2>7 DEF Places, StoresTo
    <3>2. CASE InQueue(path, sq, g)
      <4>1. PICK k \in Ages(sq) : At(sq, k, n).seq = path[g].seq
        BY <3>2 DEF InQueue
      <4>2. At(sq, k, n).instr = path[g].instr
        BY <1>0, <3>1, <4>1 DEF StoresQueued, StoreFacts
      <4>3. Earlier(path, sq, k, i)
        BY <1>0, <3>1, <4>1 DEF Earlier, Increasing
      <4>4. k <= y
        BY <1>3, <2>2, <2>7, <4>2, <4>3 DEF StoresTo
      <4> QED
        BY <1>0, <2>3, <2>4, <3>1, <4>1, <4>4 DEF AgesOrdered
    <3>3. CASE ~InQueue(path, sq, g)
      <4>1. path[g].seq < path[j].seq
        BY <1>0, <2>3, <2>4, <3>1, <3>3 DEF StoresQueued, OldestDrained
      <4>2. g < j
        BY <1>0, <2>4, <3>1, <4>1, SeqOrder
      <4> QED
        BY <1>0, <2>4, <3>1, <4>2
    <3> QED
      BY <3>2, <3>3
  <2>8. LeftBy(path, 1 .. i - 1, w, Data(At(sq, y, n).seq))
    BY <2>4, <2>6, <2>7 DEF LeftBy
  <2> QED
    BY <1>6, <2>8 DEF y, from, Store
<1> QED
  BY <1>5, <1>6 DEF from

\* The step of the load itself.
LEMMA OwnStep ==
    ASSUME MatchedAccesses, QueueInvariant, MemoryRight, LoadInvariant,
           NEW k \in retired + 1 .. Len(path), InFlightStep(k), path[k].instr.kind = "load"
    PROVE  /\ path'[k].stage # "queued" =>
                 \A a \in Ages(sq) : Earlier(path, sq, a, k) => At(sq, a, STORE_QUEUE_SIZE).addr_ready
           /\ path'[k].stage = "mshr" =>
                 \A a \in Ages(sq) : Earlier(path, sq, a, k) =>
                    Word(At(sq, a, STORE_QUEUE_SIZE).instr.addr) # Word(path[k].instr.addr)
           /\ path'[k].stage \in {"result", "done"} /\ ~undone =>
                 LeftBy(path, 1 .. k - 1, Word(path[k].instr.addr), path'[k].value)
           /\ sq' = sq
           /\ \A i \in 1 .. Len(path) : i # k => path'[i] = path[i]
<1> DEFINE n == STORE_QUEUE_SIZE
           w == Word(path[k].instr.addr)
           Ready == \A a \in Ages(sq) : Earlier(path, sq, a, k) => At(sq, a, n).addr_ready
           Clear == \A a \in Ages(sq) : Earlier(path, sq, a, k) => Word(At(sq, a, n).instr.addr) # w
           Right(v) == LeftBy(path, 1 .. k - 1, w, v)
           Others == \A i \in 1 .. Len(path) : i # k => path'[i] = path[i]
<1>0. /\ path \in Seq(Renamed) /\ retired \in Nat /\ Len(path) \in Nat /\ k \in 1 .. Len(path)
      /\ sq \in EntryOf(n) /\ InOrder(sq, n) /\ n \in Nat \ {0}
      /\ k \in Places(path, "load", 1) /\ w \in Words /\ path[k].seq \in Nat
      /\ mem \in [Words -> Value]
  <2>1. /\ path \in Seq(Renamed) /\ retired \in Nat /\ sq \in EntryOf(n) /\ InOrder(sq, n)
        /\ mem \in [Words -> Value]
    BY DEF QueueInvariant, TypeOK, WindowOK, Renamed, StoresQueued, Tracks
  <2>2. Len(path) \in Nat
    BY <2>1, PathShape
  <2>3. k \in 1 .. Len(path)
    BY <2>1, <2>2
  <2> QED
    BY <2>1, <2>2, <2>3, PathShape, Sizes DEF Places
<1>1. /\ path[k].stage # "queued" => Ready
      /\ path[k].stage = "mshr" => Clear
      /\ ~undone /\ path[k].stage \in {"result", "done"} => Right(path[k].value)
  BY <1>0 DEF LoadInvariant, ReadyBefore, NoneBefore, Loaded, LoadedRight
<1>2. ~undone /\ Clear => Right(mem[w])
  BY <1>0, ReadFromMemory
<1>3. \A s : s \in Stages /\ path' = [path EXCEPT ![k].stage = s] =>
        path'[k].stage = s /\ path'[k].value = path[k].value /\ Others
  <2> SUFFICES ASSUME NEW s \in Stages, path' = [path EXCEPT ![k].stage = s]
               PROVE  path'[k].stage = s /\ path'[k].value = path[k].value /\ Others
    OBVIOUS
  <2>1. path[k] \in Renamed /\ DOMAIN path = 1 .. Len(path)
    BY <1>0, PathShape
  <2> QED
    BY <1>0, <2>1 DEF Renamed
<1>4. \A s, v : path' = [path EXCEPT ![k].stage = s, ![k].value = v] =>
        path'[k].stage = s /\ path'[k].value = v /\ Others
  <2>1. path[k] \in Renamed /\ DOMAIN path = 1 .. Len(path)
    BY <1>0, PathShape
  <2> QED
    BY <1>0, <2>1 DEF Renamed
<1> SUFFICES /\ path'[k].stage # "queued" => Ready
             /\ path'[k].stage = "mshr" => Clear
             /\ path'[k].stage \in {"result", "done"} /\ ~undone => Right(path'[k].value)
             /\ sq' = sq /\ Others
  OBVIOUS
<1> HIDE DEF Clear, Right, Others
<1>5. CASE Dispatch(k)
  <2>1. ~HasUnresolvedEarlierStore(path[k].seq) /\ sq' = sq
        /\ path' = [path EXCEPT ![k].stage = "unit"]
    BY <1>5 DEF Dispatch
  <2>2. Ready
    <3> SUFFICES ASSUME NEW a \in Ages(sq), Earlier(path, sq, a, k), ~At(sq, a, n).addr_ready
                 PROVE  FALSE
      OBVIOUS
    <3>1. a \in Nat /\ At(sq, a, n).seq \in Nat
      BY <1>0, EntryShape
    <3>2. \A j \in 0 .. a : At(sq, j, n).seq < path[k].seq
      <4> SUFFICES ASSUME NEW j \in 0 .. a PROVE At(sq, j, n).seq < path[k].seq
        OBVIOUS
      <4>1. j \in Ages(sq)
        <5>1. sq.size \in Nat
          BY <1>0, EntryShape
        <5> QED
          BY <3>1, <5>1 DEF Ages
      <4>2. At(sq, j, n).seq \in Nat
        BY <1>0, <4>1, EntryShape
      <4>3. CASE j < a
        BY <1>0, <3>1, <4>1, <4>2, <4>3 DEF InOrder, Earlier
      <4>4. CASE j = a
        BY <4>4 DEF Earlier
      <4> QED
        BY <3>1, <4>3, <4>4
    <3> QED
      BY <2>1, <3>2 DEF HasUnresolvedEarlierStore, Store
  <2>3. path'[k].stage = "unit" /\ Others
    BY <1>3, <2>1 DEF Stages
  <2> QED
    BY <2>1, <2>2, <2>3
<1>6. CASE Writeback(k)
  <2>1. path[k].stage = "result" /\ sq' = sq /\ path' = [path EXCEPT ![k].stage = "done"]
    BY <1>6 DEF Writeback
  <2>2. path'[k].stage = "done" /\ path'[k].value = path[k].value /\ Others
    BY <1>3, <2>1 DEF Stages
  <2> QED
    BY <1>1, <2>1, <2>2
<1>7. CASE MemoryResponse(k)
  <2>1. path[k].stage = "mshr" /\ sq' = sq
        /\ path' = [path EXCEPT ![k].stage = "done", ![k].value = mem[w]]
    BY <1>7 DEF MemoryResponse
  <2>2. path'[k].stage = "done" /\ path'[k].value = mem[w] /\ Others
    BY <1>4, <2>1
  <2> QED
    BY <1>1, <1>2, <2>1, <2>2
<1>8. CASE ExecuteLoad(k)
  <2> DEFINE from == ForwardingStores(path[k].seq, path[k].instr)
             data == Data(Store(Youngest(from)).seq)
  <2>1. /\ path[k].stage = "unit" /\ sq' = sq
        /\ \/ from # {} /\ path' = [path EXCEPT ![k].stage = "result", ![k].value = data]
           \/ /\ from = {}
              /\ \/ path' = [path EXCEPT ![k].stage = "result", ![k].value = mem[w]]
                 \/ path' = [path EXCEPT ![k].stage = "mshr"]
                 \/ path' = path
    BY <1>8 DEF ExecuteLoad
  <2>2. Ready
    BY <1>1, <2>1
  <2>3. (from = {} => Clear) /\ (from # {} => Right(data))
    BY <2>2, Forwarded DEF Clear, Right
  <2> HIDE DEF from, data
  <2>4. CASE from # {} /\ path' = [path EXCEPT ![k].stage = "result", ![k].value = data]
    <3>1. path'[k].stage = "result" /\ path'[k].value = data /\ Others
      BY <1>4, <2>4
    <3> QED
      BY <2>1, <2>2, <2>3, <2>4, <3>1
  <2>5. CASE from = {} /\ path' = [path EXCEPT ![k].stage = "result", ![k].value = mem[w]]
    <3>1. path'[k].stage = "result" /\ path'[k].value = mem[w] /\ Others
      BY <1>4, <2>5
    <3> QED
      BY <1>2, <2>1, <2>2, <2>3, <2>5, <3>1
  <2>6. CASE from = {} /\ path' = [path EXCEPT ![k].stage = "mshr"]
    <3>1. path'[k].stage = "mshr" /\ Others
      BY <1>3, <2>6 DEF Stages
    <3> QED
      BY <2>1, <2>2, <2>3, <2>6, <3>1
  <2>7. CASE path' = path
    BY <2>1, <2>2, <2>7 DEF Others
  <2> QED
    BY <2>1, <2>4, <2>5, <2>6, <2>7
<1>9. CASE ExecuteStore(k) \/ ExecuteBranch(k)
  BY <1>9 DEF ExecuteStore, ExecuteBranch
<1> QED
  BY <1>5, <1>6, <1>7, <1>8, <1>9 DEF InFlightStep

\* The steps of other instructions, and a load that does not move.
LEMMA OthersStep ==
    ASSUME QueueInvariant, LoadInvariant, NEW k \in retired + 1 .. Len(path), InFlightStep(k)
    PROVE  /\ \A a \in Ages(sq) : At(sq, a, STORE_QUEUE_SIZE).addr_ready
                                     => At(sq', a, STORE_QUEUE_SIZE).addr_ready
           /\ \A i \in 1 .. Len(path) : i # k => path'[i] = path[i]
<1> DEFINE n == STORE_QUEUE_SIZE
<1>0. /\ path \in Seq(Renamed) /\ DOMAIN path = 1 .. Len(path) /\ path[k].slot \in Int
      /\ sq \in EntryOf(n) /\ n \in Nat \ {0}
  <2>1. path \in Seq(Renamed) /\ retired \in Nat /\ sq \in EntryOf(n)
    BY DEF QueueInvariant, TypeOK, WindowOK, Renamed
  <2>2. Len(path) \in Nat /\ DOMAIN path = 1 .. Len(path)
    BY <2>1, PathShape
  <2>3. k \in 1 .. Len(path)
    BY <2>1, <2>2
  <2> QED
    BY <2>1, <2>2, <2>3, PathShape, Sizes
<1>1. \A i \in 1 .. Len(path) : i # k => path'[i] = path[i]
  <2>1. \/ \E s : path' = [path EXCEPT ![k].stage = s]
        \/ \E s, v : path' = [path EXCEPT ![k].stage = s, ![k].value = v]
        \/ path' = path
    <3>1. CASE Dispatch(k)
      BY <3>1 DEF Dispatch
    <3>2. CASE Writeback(k)
      BY <3>2 DEF Writeback
    <3>3. CASE MemoryResponse(k)
      BY <3>3 DEF MemoryResponse
    <3>4. CASE ExecuteLoad(k)
      BY <3>4, Zenon DEF ExecuteLoad
    <3>5. CASE ExecuteStore(k)
      BY <3>5 DEF ExecuteStore
    <3>6. CASE ExecuteBranch(k)
      BY <3>6 DEF ExecuteBranch
    <3> QED
      BY <3>1, <3>2, <3>3, <3>4, <3>5, <3>6 DEF InFlightStep
  <2>2. CASE \E s : path' = [path EXCEPT ![k].stage = s]
    BY <1>0, <2>2
  <2>3. CASE \E s, v : path' = [path EXCEPT ![k].stage = s, ![k].value = v]
    BY <1>0, <2>3
  <2> QED
    BY <2>1, <2>2, <2>3
<1>2. \A a \in Ages(sq) : At(sq, a, n).addr_ready => At(sq', a, n).addr_ready
  <2>1. CASE ExecuteStore(k)
    <3> DEFINE s == path[k].slot
    <3>1. sq' = [sq EXCEPT !.entries[s].addr_ready = TRUE] /\ s \in Int
      BY <1>0, <2>1 DEF ExecuteStore
    <3> HIDE DEF s, n
    <3> QED
      BY SMTT(30), <1>0, <3>1, Resolved
  <2>2. CASE ~ExecuteStore(k)
    <3>1. sq' = sq
      BY <2>2 DEF InFlightStep, Dispatch, Writeback, MemoryResponse, ExecuteLoad, ExecuteBranch
    <3> QED
      BY <3>1
  <2> QED
    BY <2>1, <2>2
<1> QED
  BY <1>1, <1>2

LEMMA LoadsInFlight ==
    ASSUME MatchedAccesses, QueueInvariant, MemoryRight, LoadInvariant,
           NEW k \in retired + 1 .. Len(path), InFlightStep(k)
    PROVE  LoadInvariant'
<1> DEFINE n == STORE_QUEUE_SIZE
<1>0. Underway
  BY InFlightStepIsUnderway DEF QueueInvariant
<1>1. path \in Seq(Renamed) /\ Len(path) \in Nat
  BY PathShape DEF QueueInvariant, WindowOK
<1>2. /\ Ages(sq') = Ages(sq)
      /\ \A a \in Ages(sq) : /\ At(sq', a, n).seq = At(sq, a, n).seq
                             /\ At(sq', a, n).instr = At(sq, a, n).instr
                             /\ At(sq, a, n).addr_ready => At(sq', a, n).addr_ready
  BY <1>0, OthersStep DEF Underway, SameQueue, Ages
<1>3. /\ Places(path', "load", 1) = Places(path, "load", 1) /\ undone' = undone
      /\ \A i \in 1 .. Len(path) : path'[i].seq = path[i].seq /\ path'[i].instr = path[i].instr
      /\ \A i \in Places(path, "load", 1) : i \in 1 .. Len(path) /\ path[i].instr.kind = "load"
  BY <1>0, <1>1 DEF Underway, SameText, Places
<1>4. \A i \in Places(path, "load", 1) : \A a \in Ages(sq) :
         Earlier(path', sq', a, i) <=> Earlier(path, sq, a, i)
  BY <1>2, <1>3 DEF Earlier
<1>5. \A i \in Places(path, "load", 1) : \A v :
         LeftBy(path, 1 .. i - 1, Word(path[i].instr.addr), v)
           => LeftBy(path', 1 .. i - 1, Word(path'[i].instr.addr), v)
  <2> SUFFICES ASSUME NEW i \in Places(path, "load", 1), NEW v,
                      LeftBy(path, 1 .. i - 1, Word(path[i].instr.addr), v)
               PROVE  LeftBy(path', 1 .. i - 1, Word(path'[i].instr.addr), v)
    OBVIOUS
  <2>1. path'[i].instr = path[i].instr
    BY <1>3
  <2>2. \A j \in 1 .. i - 1 : path'[j].seq = path[j].seq /\ path'[j].instr = path[j].instr
    BY <1>1, <1>3
  <2> QED
    BY <2>1, <2>2, LeftSame
\* What the load at position i is shown to have, before and after the step.
<1>6. ASSUME NEW i \in Places(path, "load", 1)
      PROVE  /\ path'[i].stage # "queued" =>
                   \A a \in Ages(sq) : Earlier(path, sq, a, i) => At(sq, a, n).addr_ready
             /\ path'[i].stage = "mshr" =>
                   \A a \in Ages(sq) : Earlier(path, sq, a, i) =>
                      Word(At(sq, a, n).instr.addr) # Word(path[i].instr.addr)
             /\ path'[i].stage \in {"result", "done"} /\ ~undone =>
                   LeftBy(path, 1 .. i - 1, Word(path[i].instr.addr), path'[i].value)
  <2>1. CASE i = k
    BY <1>3, <2>1, OwnStep
  <2>2. CASE i # k
    <3>1. path'[i] = path[i]
      BY <1>3, <2>2, OthersStep
    <3> QED
      BY <3>1 DEF LoadInvariant, ReadyBefore, NoneBefore, Loaded, LoadedRight
  <2> QED
    BY <2>1, <2>2
<1>7. ReadyBefore(path', sq')
  BY <1>2, <1>3, <1>4, <1>6 DEF ReadyBefore
<1>8. NoneBefore(path', sq')
  BY <1>2, <1>3, <1>4, <1>6 DEF NoneBefore
<1>9. ~undone' => Loaded(path')
  BY <1>3, <1>5, <1>6 DEF Loaded, LoadedRight
<1> QED
  BY <1>7, <1>8, <1>9 DEF LoadInvariant

\* Steps that only drop instructions from the end of the window and entries from
\* the queue.
LEMMA LoadsDrop ==
    ASSUME NEW p \in Seq(Renamed), NEW q, NEW p2 \in Seq(Renamed), NEW q2,
           Len(p2) <= Len(p), \A i \in 1 .. Len(p2) : p2[i] = p[i],
           \A a \in Ages(q2) : \E b \in Ages(q) :
              /\ At(q2, a, STORE_QUEUE_SIZE).seq = At(q, b, STORE_QUEUE_SIZE).seq
              /\ At(q2, a, STORE_QUEUE_SIZE).instr = At(q, b, STORE_QUEUE_SIZE).instr
              /\ At(q2, a, STORE_QUEUE_SIZE).addr_ready = At(q, b, STORE_QUEUE_SIZE).addr_ready
    PROVE  /\ ReadyBefore(p, q) => ReadyBefore(p2, q2)
           /\ NoneBefore(p, q) => NoneBefore(p2, q2)
           /\ Loaded(p) => Loaded(p2)
<1> DEFINE n == STORE_QUEUE_SIZE
<1>0. Len(p) \in Nat /\ Len(p2) \in Nat
  BY PathShape
<1>1. \A i \in Places(p2, "load", 1) : i \in Places(p, "load", 1) /\ p2[i] = p[i] /\ i \in 1 .. Len(p2)
  BY <1>0 DEF Places
<1>2. \A i \in Places(p2, "load", 1) : \A a \in Ages(q2) : Earlier(p2, q2, a, i) =>
         \E b \in Ages(q) : /\ Earlier(p, q, b, i)
                            /\ At(q2, a, n).instr = At(q, b, n).instr
                            /\ At(q2, a, n).addr_ready = At(q, b, n).addr_ready
  BY <1>1 DEF Earlier
<1>3. ReadyBefore(p, q) => ReadyBefore(p2, q2)
  BY <1>1, <1>2 DEF ReadyBefore
<1>4. NoneBefore(p, q) => NoneBefore(p2, q2)
  BY <1>1, <1>2 DEF NoneBefore
<1>5. ASSUME Loaded(p) PROVE Loaded(p2)
  <2> SUFFICES ASSUME NEW i \in Places(p2, "load", 1), p2[i].stage \in {"result", "done"}
               PROVE  LoadedRight(p2, i)
    BY DEF Loaded
  <2>1. LeftBy(p, 1 .. i - 1, Word(p[i].instr.addr), p[i].value)
    BY <1>1, <1>5 DEF Loaded, LoadedRight
  <2>2. \A j \in 1 .. i - 1 : p2[j].seq = p[j].seq /\ p2[j].instr = p[j].instr
    BY <1>0, <1>1
  <2>3. LeftBy(p2, 1 .. i - 1, Word(p[i].instr.addr), p[i].value)
    BY <2>1, <2>2, LeftSame
  <2> QED
    BY <1>1, <2>3 DEF LoadedRight
<1> QED
  BY <1>3, <1>4, <1>5

\* The queue that commit_stage drains from.
LEMMA CommitQueue ==
    ASSUME QueueInvariant, Commit
    PROVE  \E q, count : /\ StoresQueued(path, q, retired + 1) /\ Evict(q, count)
                         /\ Ages(q) = Ages(sq)
                         /\ \A k \in Ages(sq) :
                               /\ At(q, k, STORE_QUEUE_SIZE).seq = Store(k).seq
                               /\ At(q, k, STORE_QUEUE_SIZE).instr = Store(k).instr
                               /\ At(q, k, STORE_QUEUE_SIZE).addr_ready = Store(k).addr_ready
<1> DEFINE n == STORE_QUEUE_SIZE
           r == retired + 1
           seq == path[r].seq
           kind == path[r].instr.kind
           q == IF kind = "store" THEN MarkStoreComplete(seq) ELSE sq
<1>0. /\ path \in Seq(Renamed) /\ Increasing(path) /\ retired \in Nat /\ Len(path) \in Nat
      /\ StoresQueued(path, sq, retired) /\ sq \in EntryOf(n) /\ n \in Nat \ {0}
  BY Sizes, PathShape DEF QueueInvariant, TypeOK, WindowOK, StoresQueued, Tracks
<1>1. retired < Len(path)
  BY Zenon DEF Commit
<1>2. r \in 1 .. Len(path) /\ retired \in 0 .. Len(path) - 1
  BY <1>0, <1>1
<1>3. seq \in Nat
  BY <1>0, <1>2, PathShape
<1>4. \E count \in 0 .. q.size : Evict(q, count)
  BY Zenon DEF Commit, DrainAfterCommit
<1>5. StoresQueued(path, q, r)
  <2>1. CASE kind = "store"
    BY <1>0, <1>2, <2>1, StoresMarked
  <2>2. CASE kind # "store"
    BY <1>0, <1>2, <2>2, StoresPassedBy
  <2> QED
    BY <2>1, <2>2
<1>6. /\ Ages(q) = Ages(sq)
      /\ \A k \in Ages(sq) : /\ At(q, k, n).seq = Store(k).seq
                             /\ At(q, k, n).instr = Store(k).instr
                             /\ At(q, k, n).addr_ready = Store(k).addr_ready
  <2>1. CASE kind = "store"
    <3>1. q.size = sq.size /\ \A k \in Ages(sq) : At(q, k, n) = MarkedEntry(Store(k), seq)
      BY <1>0, <1>3, <2>1, Marked
    <3>2. \A k \in Ages(sq) : Store(k) \in Entry
      BY <1>0, EntryShape DEF Store
    <3>3. \A k \in Ages(sq) : /\ MarkedEntry(Store(k), seq).seq = Store(k).seq
                              /\ MarkedEntry(Store(k), seq).instr = Store(k).instr
                              /\ MarkedEntry(Store(k), seq).addr_ready = Store(k).addr_ready
      BY <3>2 DEF Entry, MarkedEntry
    <3> QED
      BY <3>1, <3>3 DEF Ages
  <2>2. CASE kind # "store"
    BY <2>2 DEF Store
  <2> QED
    BY <2>1, <2>2
<1> HIDE DEF q
<1> QED
  BY <1>4, <1>5, <1>6

LEMMA LoadsStep ==
    ASSUME MatchedAccesses, QueueInvariant, MemoryRight, LoadInvariant, [Next]_vars
    PROVE  LoadInvariant'
<1> DEFINE n == STORE_QUEUE_SIZE
<1>0. /\ path \in Seq(Renamed) /\ Increasing(path) /\ retired \in Nat /\ Len(path) \in Nat
      /\ squash_seq \in Nat /\ next_seq \in Nat
      /\ StoresQueued(path, sq, retired) /\ sq \in EntryOf(n) /\ Ring(sq, n) /\ n \in Nat \ {0}
      /\ InOrder(sq, n)
  BY Sizes, PathShape DEF QueueInvariant, TypeOK, WindowOK, StoresQueued, Tracks
<1>1. CASE UNCHANGED vars
  BY <1>1 DEF vars, history, LoadInvariant
<1>2. ASSUME NEW k \in retired + 1 .. Len(path), InFlightStep(k) PROVE LoadInvariant'
  BY <1>2, LoadsInFlight
<1>3. ASSUME NEW instr \in Instrs, Rename(instr) PROVE LoadInvariant'
  <2> DEFINE x == [seq |-> next_seq, instr |-> instr, addr_ready |-> FALSE, completed |-> FALSE]
             m == Len(path) + 1
  <2>1. PICK e : path' = Append(path, e) /\ e.stage = "queued"
    BY <1>3 DEF Rename
  <2>2. /\ undone' = undone
        /\ IF instr.kind = "store" THEN sq' = Add(sq, x, n) /\ sq.size < n ELSE sq' = sq
    <3>1. sq.size \in Nat
      BY <1>0, EntryShape
    <3> QED
      BY <1>3, <3>1, Zenon DEF Rename, history
  <2>3. /\ Len(path') = m /\ path'[m].stage = "queued"
        /\ \A i \in 1 .. Len(path) : path'[i] = path[i]
    BY <1>0, <2>1
  <2>4. \A i \in Places(path', "load", 1) :
           \/ i \in Places(path, "load", 1) /\ path'[i] = path[i] /\ i \in 1 .. Len(path)
           \/ path'[i].stage = "queued"
    BY <1>0, <2>3 DEF Places
  <2>5. \A i \in 1 .. Len(path) : path[i].seq \in Nat /\ path[i].seq < next_seq
    BY <1>0, PathShape DEF QueueInvariant, WindowOK
  <2>6. \A a \in Ages(sq') :
           \/ a \in Ages(sq) /\ At(sq', a, n) = At(sq, a, n)
           \/ At(sq', a, n).seq = next_seq
    <3>1. CASE instr.kind # "store"
      BY <2>2, <3>1
    <3>2. CASE instr.kind = "store"
      <4>1. x \in Entry /\ x.seq = next_seq
        BY <1>0 DEF Entry
      <4> HIDE DEF x
      <4>2. /\ sq'.size = sq.size + 1
            /\ \A k \in Ages(sq) : At(sq', k, n) = At(sq, k, n)
            /\ At(sq', sq.size, n) = x
        BY <1>0, <2>2, <3>2, <4>1, Added
      <4>3. sq.size \in Nat
        BY <1>0, EntryShape
      <4>4. \A a \in Ages(sq') : a \in Ages(sq) \/ a = sq.size
        BY <4>2, <4>3 DEF Ages
      <4> QED
        BY <4>1, <4>2, <4>4
    <3> QED
      BY <3>1, <3>2
  <2>7. \A i \in 1 .. Len(path) : \A a \in Ages(sq') : Earlier(path', sq', a, i) =>
           /\ a \in Ages(sq) /\ At(sq', a, n) = At(sq, a, n) /\ Earlier(path, sq, a, i)
    <3> SUFFICES ASSUME NEW i \in 1 .. Len(path), NEW a \in Ages(sq'), Earlier(path', sq', a, i)
                 PROVE  a \in Ages(sq) /\ At(sq', a, n) = At(sq, a, n) /\ Earlier(path, sq, a, i)
      OBVIOUS
    <3>1. At(sq', a, n).seq < path[i].seq
      BY <2>3 DEF Earlier
    <3>2. At(sq', a, n).seq # next_seq
      BY <1>0, <2>5, <3>1
    <3> QED
      BY <2>6, <3>1, <3>2 DEF Earlier
  <2>8. ReadyBefore(path', sq')
    BY <2>4, <2>7 DEF LoadInvariant, ReadyBefore
  <2>9. NoneBefore(path', sq')
    BY <2>4, <2>7 DEF LoadInvariant, NoneBefore
  <2>10. ASSUME ~undone PROVE Loaded(path')
    <3> SUFFICES ASSUME NEW i \in Places(path', "load", 1), path'[i].stage \in {"result", "done"}
                 PROVE  LoadedRight(path', i)
      BY DEF Loaded
    <3>1. i \in Places(path, "load", 1) /\ path'[i] = path[i] /\ i \in 1 .. Len(path)
      BY <2>4
    <3>2. LeftBy(path, 1 .. i - 1, Word(path[i].instr.addr), path[i].value)
      BY <2>10, <3>1 DEF LoadInvariant, Loaded, LoadedRight
    <3>3. \A j \in 1 .. i - 1 : path'[j].seq = path[j].seq /\ path'[j].instr = path[j].instr
      BY <1>0, <2>3, <3>1
    <3>4. LeftBy(path', 1 .. i - 1, Word(path[i].instr.addr), path[i].value)
      BY <3>2, <3>3, LeftSame
    <3> QED
      BY <3>1, <3>4 DEF LoadedRight
  <2> QED
    BY <2>2, <2>8, <2>9, <2>10 DEF LoadInvariant
<1>4. CASE Commit
  <2>1. path' = path /\ undone' = undone
    BY <1>4, Zenon DEF Commit
  <2>2. PICK q, count : /\ StoresQueued(path, q, retired + 1) /\ Evict(q, count)
                        /\ Ages(q) = Ages(sq)
                        /\ \A k \in Ages(sq) : /\ At(q, k, n).seq = Store(k).seq
                                               /\ At(q, k, n).instr = Store(k).instr
                                               /\ At(q, k, n).addr_ready = Store(k).addr_ready
    BY <1>4, CommitQueue
  <2>3. count \in 0 .. Cardinality(CommittedPrefix(q)) /\ sq' = PopHead(q, count, n)
    BY <2>2, Zenon DEF Evict
  <2>4. \A k \in Ages(sq') : k + count \in Ages(q) /\ At(sq', k, n) = At(q, k + count, n)
    <3>1. retired + 1 \in Nat
      BY <1>0
    <3> QED
      BY <1>0, <2>2, <2>3, <3>1, StoresDrained
  <2>5. \A a \in Ages(sq') : \E b \in Ages(sq) : /\ At(sq', a, n).seq = At(sq, b, n).seq
                                                 /\ At(sq', a, n).instr = At(sq, b, n).instr
                                                 /\ At(sq', a, n).addr_ready = At(sq, b, n).addr_ready
    BY <2>2, <2>4 DEF Store
  <2>6. Len(path) <= Len(path)
    BY <1>0
  <2> QED
    BY <1>0, <2>1, <2>5, <2>6, LoadsDrop DEF LoadInvariant
<1>5. CASE DrainStores
  <2>1. path' = path /\ undone' = undone
    BY <1>5 DEF DrainStores
  <2>2. PICK count : Evict(sq, count)
    BY <1>5 DEF DrainStores
  <2>3. count \in 0 .. Cardinality(CommittedPrefix(sq)) /\ sq' = PopHead(sq, count, n)
    BY <2>2, Zenon DEF Evict
  <2>4. \A k \in Ages(sq') : k + count \in Ages(sq) /\ At(sq', k, n) = At(sq, k + count, n)
    BY <1>0, <2>3, StoresDrained
  <2>5. Len(path) <= Len(path)
    BY <1>0
  <2> QED
    BY <1>0, <2>1, <2>4, <2>5, LoadsDrop DEF LoadInvariant
<1>6. CASE PerformSquash
  <2>1. PICK m \in 0 .. Len(path) :
              /\ path' \in Seq(Renamed) /\ Len(path') = m
              /\ \A i \in 1 .. m : path'[i] = path[i]
              /\ undone' = (undone \/ retired > m)
    BY <1>6, SquashCuts
  <2>2. sq' = Squashed(sq, squash_seq, n)
    BY <1>6, Zenon DEF PerformSquash
  <2>3. /\ Ages(sq') \subseteq Ages(sq)
        /\ \A k \in Int : At(sq', k, n) = At(sq, k, n)
    BY <1>0, <2>2, TailPopped
  <2>4. \A k \in Ages(sq') : k \in Ages(sq) /\ At(sq', k, n) = At(sq, k, n)
    <3>1. \A k \in Ages(sq) : k \in Int
      BY <1>0, EntryShape
    <3> QED
      BY <2>3, <3>1
  <2>5. Len(path') <= Len(path)
    BY <1>0, <2>1
  <2>6. /\ ReadyBefore(path', sq') /\ NoneBefore(path', sq')
        /\ Loaded(path) => Loaded(path')
    BY <1>0, <2>1, <2>4, <2>5, LoadsDrop DEF LoadInvariant
  <2> QED
    BY <2>1, <2>6 DEF LoadInvariant
<1> QED
  BY <1>1, <1>2, <1>3, <1>4, <1>5, <1>6, NextCases

LEMMA LoadsMean ==
    ASSUME MatchedAccesses, QueueInvariant, LoadInvariant
    PROVE  LoadsFollowProgramOrder
<1> SUFFICES ASSUME ~undone, NEW k \in IndicesOf("load", 1), path[k].stage \in {"result", "done"},
                    NEW part \in Named(path[k].instr.size)
             PROVE  path[k].value[part] = LastWriter(k, Word(path[k].instr.addr), part)
  BY DEF LoadsFollowProgramOrder
<1> DEFINE w == Word(path[k].instr.addr)
           writers == {j \in 1 .. k - 1 : /\ path[j].instr.kind = "store"
                                          /\ Word(path[j].instr.addr) = w
                                          /\ part \in Named(path[j].instr.size)}
<1>0. /\ path \in Seq(Renamed) /\ Len(path) \in Nat /\ k \in 1 .. Len(path)
      /\ path[k].instr.kind = "load" /\ path[k].instr \in Instrs
      /\ k \in Places(path, "load", 1)
  <2>1. path \in Seq(Renamed)
    BY DEF QueueInvariant, WindowOK
  <2> QED
    BY <2>1, PathShape DEF IndicesOf, Places
<1>1. LeftBy(path, 1 .. k - 1, w, path[k].value)
  BY <1>0 DEF LoadInvariant, Loaded, LoadedRight
<1>2. writers = {j \in 1 .. k - 1 : StoresTo(path, j, w)}
  <2>1. \A j \in 1 .. k - 1 : path[j].instr \in Instrs
    BY <1>0, PathShape
  <2> QED
    BY <1>0, <2>1 DEF MatchedAccesses, StoresTo
<1>3. part \in Part
  <2>1. path[k].instr.size \in {"word", "halfword", "byte"}
    BY <1>0, MemoryInstrsAssumption DEF Size
  <2> QED
    BY <2>1 DEF Named, Part
<1>4. LastWriter(k, w, part) = IF writers = {} THEN Initial ELSE path[Youngest(writers)].seq
  BY DEF LastWriter
<1>5. \A v : Data(v)[part] = v
  BY <1>3 DEF Data
<1>6. writers \in SUBSET Int
  OBVIOUS
<1> HIDE DEF writers
<1>7. CASE (\A j \in 1 .. k - 1 : ~StoresTo(path, j, w)) /\ path[k].value = Data(Initial)
  BY <1>2, <1>4, <1>5, <1>7
<1>8. CASE \E j \in 1 .. k - 1 : /\ StoresTo(path, j, w) /\ path[k].value = Data(path[j].seq)
                                 /\ \A g \in 1 .. k - 1 : StoresTo(path, g, w) => g <= j
  <2>1. PICK j \in writers : path[k].value = Data(path[j].seq) /\ \A g \in writers : g <= j
    BY <1>2, <1>8
  <2>2. Youngest(writers) = j
    BY <1>6, <2>1, YoungestIs
  <2> QED
    BY <1>4, <1>5, <2>1, <2>2
<1> QED
  BY <1>1, <1>7, <1>8 DEF LeftBy

\* Every load has what the last store before it in program order put in its word,
\* for every capacity of the queues and every program whose loads and stores of
\* the same word have the same address and size, though loads pass loads and
\* resolved stores, answers come late from MSHRs, and stores reach memory long
\* after they commit.
THEOREM LoadsReadTheLastStore ==
    ASSUME MatchedAccesses
    PROVE  Spec => []LoadsFollowProgramOrder
<1>1. Init => LoadInvariant
  <2>1. SUFFICES ASSUME Init PROVE LoadInvariant
    OBVIOUS
  <2>2. Places(path, "load", 1) = {}
    BY <2>1 DEF Init, Places
  <2> QED
    BY <2>2 DEF LoadInvariant, ReadyBefore, NoneBefore, Loaded
<1>2. QueueInvariant /\ MemoryRight /\ LoadInvariant /\ [Next]_vars => LoadInvariant'
  BY LoadsStep
<1>3. QueueInvariant /\ LoadInvariant => LoadsFollowProgramOrder
  BY LoadsMean
<1>4. Init => MemoryRight
  BY InitMemory
<1>5. QueueInvariant /\ MemoryRight /\ [Next]_vars => MemoryRight'
  BY MemoryStep
<1> QED
  BY <1>1, <1>2, <1>3, <1>4, <1>5, QueuesTracked, PTL DEF Spec

----------------------------------------------------------------------------
(* Stores into the text.                                                   *)

\* evict_commited_stores asks for no younger squash than was asked for, and for
\* one as old as each store into the text that it drains.
LEMMA EvictAsks ==
    ASSUME QueueInvariant, NEW q, NEW r \in Nat, StoresQueued(path, q, r), NEW count \in Nat,
           Evict(q, count)
    PROVE  /\ squash_pending => squash_pending' /\ squash_seq' <= squash_seq
           /\ \A i \in Places(path, "store", 1) :
                 path[i].instr.addr < TextEnd /\ InQueue(path, q, i) /\ ~Queued(sq', path[i].seq)
                    => squash_pending' /\ squash_seq' <= path[i].seq
<1> DEFINE n == STORE_QUEUE_SIZE
           smc == {k \in 0 .. count - 1 : At(q, k, n).instr.addr < TextEnd}
           o == Oldest(smc)
<1>0. /\ n \in Nat \ {0} /\ q \in EntryOf(n) /\ path \in Seq(Renamed) /\ Increasing(path)
      /\ Ring(q, n) /\ InOrder(q, n) /\ StoreFacts(path, q, r) /\ squash_seq \in Nat
  BY Sizes DEF QueueInvariant, TypeOK, WindowOK, StoresQueued, Tracks, Renamed
<1>1. /\ count \in 0 .. Cardinality(CommittedPrefix(q))
      /\ sq' = PopHead(q, count, n)
      /\ IF smc # {} /\ (~squash_pending \/ At(q, o, n).seq < squash_seq)
           THEN squash_pending' = TRUE /\ squash_seq' = At(q, o, n).seq
           ELSE UNCHANGED squashVars
  BY Zenon DEF Evict, Older
<1>2. count \in 0 .. q.size
  BY <1>0, <1>1, StoresDrained
<1>3. /\ sq'.size = q.size - count
      /\ \A k \in Ages(sq') : At(sq', k, n) = At(q, k + count, n)
  BY <1>0, <1>1, <1>2, HeadPopped
<1>4. q.size \in Nat /\ \A k \in Ages(q) : k \in Nat /\ At(q, k, n).seq \in Nat
  BY <1>0, EntryShape
<1>5. smc # {} => o \in smc /\ o \in Ages(q) /\ \A k \in smc : o <= k
  <2>1. smc \in SUBSET Nat
    OBVIOUS
  <2>2. smc # {} => o \in smc /\ \A k \in smc : o <= k
    BY <2>1, OldestIsIn
  <2>3. smc \subseteq Ages(q)
    BY <1>2, <1>4 DEF Ages
  <2> QED
    BY <2>2, <2>3
<1> HIDE DEF o
<1>6. squash_pending => squash_pending' /\ squash_seq' <= squash_seq
  <2>1. CASE smc # {} /\ (~squash_pending \/ At(q, o, n).seq < squash_seq)
    BY <1>0, <1>1, <1>4, <1>5, <2>1
  <2> HIDE DEF smc
  <2>2. CASE ~(smc # {} /\ (~squash_pending \/ At(q, o, n).seq < squash_seq))
    <3>1. (squash_pending' <=> squash_pending) /\ squash_seq' = squash_seq
      BY <1>1, <2>2, Zenon DEF squashVars
    <3> QED
      BY <1>0, <3>1
  <2> QED
    BY <2>1, <2>2
<1>7. ASSUME NEW i \in Places(path, "store", 1), path[i].instr.addr < TextEnd,
             InQueue(path, q, i), ~Queued(sq', path[i].seq)
      PROVE  squash_pending' /\ squash_seq' <= path[i].seq
  <2>1. PICK a \in Ages(q) : At(q, a, n).seq = path[i].seq
    BY <1>7 DEF InQueue
  <2>2. At(q, a, n).instr = path[i].instr
    BY <1>0, <2>1 DEF StoreFacts
  <2>3. a < count
    <3> SUFFICES ASSUME a >= count PROVE FALSE
      BY <1>2, <1>4
    <3>1. a - count \in Ages(sq') /\ (a - count) + count = a
      BY <1>2, <1>3, <1>4 DEF Ages
    <3>2. At(sq', a - count, n).seq = path[i].seq
      BY <1>3, <2>1, <3>1
    <3> QED
      BY <1>7, <3>1, <3>2 DEF Queued
  <2>4. a \in smc
    BY <1>4, <1>7, <2>2, <2>3
  <2>5. smc # {} /\ o \in Ages(q) /\ At(q, o, n).seq <= path[i].seq
    <3>1. o \in Ages(q) /\ o <= a
      BY <1>5, <2>4
    <3> QED
      BY SMTT(30), <1>0, <1>4, <2>1, <2>4, <3>1 DEF InOrder
  <2>6. path[i].seq \in Nat /\ At(q, o, n).seq \in Nat
    BY <1>4, <2>1, <2>5
  <2> HIDE DEF smc
  <2>7. CASE ~squash_pending \/ At(q, o, n).seq < squash_seq
    BY <1>1, <2>5, <2>7
  <2>8. CASE squash_pending /\ ~(At(q, o, n).seq < squash_seq)
    <3>1. squash_pending' /\ squash_seq' = squash_seq
      BY <1>1, <2>8, Zenon DEF squashVars
    <3> QED
      BY <1>0, <2>5, <2>6, <2>8, <3>1
  <2> QED
    BY <2>7, <2>8
<1> QED
  BY <1>6, <1>7

\* A step that keeps the path's instructions and asks for no younger squash.
LEMMA StaleKept ==
    ASSUME QueueInvariant, QueueInvariant', StaleTextIsSquashed, StaleStep,
           squash_pending => squash_pending' /\ squash_seq' <= squash_seq,
           \A k \in DrainedText : squash_pending' /\ squash_seq' <= path[k].seq,
           \A k \in DrainedText : k \in DOMAIN path' /\ path'[k].seq = path[k].seq
    PROVE  StaleTextIsSquashed'
<1>1. /\ path' \in Seq(Renamed) /\ Increasing(path') /\ squash_seq \in Nat /\ squash_seq' \in Nat
  BY DEF QueueInvariant, TypeOK, WindowOK, Renamed
<1> SUFFICES ASSUME NEW seq \in stale' PROVE squash_pending' /\ squash_seq' < seq
  BY DEF StaleTextIsSquashed
<1>2. PICK i \in DOMAIN path' : /\ seq = path'[i].seq
                                /\ path'[i].seq \in stale \/ \E k \in DrainedText : k < i
  BY DEF StaleStep
<1>3. seq \in Nat /\ i \in 1 .. Len(path')
  BY <1>1, <1>2, PathShape
<1>4. CASE path'[i].seq \in stale
  BY <1>1, <1>2, <1>3, <1>4 DEF StaleTextIsSquashed
<1>5. CASE \E k \in DrainedText : k < i
  <2>1. PICK k \in DrainedText : k < i
    BY <1>5
  <2>2. k \in 1 .. Len(path') /\ path'[k].seq \in Nat
    BY <1>1, PathShape
  <2>3. path'[k].seq < path'[i].seq
    BY <1>1, <1>3, <2>1, <2>2 DEF Increasing
  <2> QED
    BY <1>1, <1>2, <1>3, <2>2, <2>3
<1> QED
  BY <1>2, <1>4, <1>5

LEMMA StaleSquashed ==
    ASSUME QueueInvariant, StaleTextIsSquashed, StaleStep, PerformSquash
    PROVE  StaleTextIsSquashed'
<1> DEFINE n == STORE_QUEUE_SIZE
<1>1. /\ n \in Nat \ {0} /\ sq \in EntryOf(n) /\ InOrder(sq, n) /\ squash_seq \in Nat
      /\ path \in Seq(Renamed)
  BY Sizes DEF QueueInvariant, TypeOK, StoresQueued, Tracks, Renamed
<1>2. PICK m \in 0 .. Len(path) :
         /\ Len(path') = m /\ path' \in Seq(Renamed) /\ \A i \in 1 .. m : path'[i] = path[i]
         /\ \A i \in 1 .. Len(path) : i <= m <=> path[i].seq <= squash_seq
  BY SquashCuts
<1>3. /\ Ages(sq') \subseteq Ages(sq)
      /\ \A k \in Ages(sq) : k \in Ages(sq') <=> At(sq, k, n).seq <= squash_seq
      /\ \A k \in Int : At(sq', k, n) = At(sq, k, n)
  <2>1. sq' = Squashed(sq, squash_seq, n)
    BY Zenon DEF PerformSquash
  <2> QED
    BY <1>1, <2>1, TailPopped
<1>4. stale' = {}
  <2> SUFFICES ASSUME NEW i \in DOMAIN path',
                      path'[i].seq \in stale \/ \E k \in DrainedText : k < i
               PROVE  FALSE
    BY DEF StaleStep
  <2>1. i \in 1 .. m /\ i \in 1 .. Len(path) /\ Len(path) \in Nat
    BY <1>1, <1>2, PathShape
  <2>2. path'[i].seq = path[i].seq /\ path[i].seq <= squash_seq /\ path[i].seq \in Nat
    BY <1>1, <1>2, <2>1, PathShape
  <2>3. path'[i].seq \notin stale
    BY <1>1, <2>2 DEF StaleTextIsSquashed
  <2>4. PICK k \in DrainedText : k < i
    BY <2>3
  <2>5. /\ k \in 1 .. Len(path) /\ Queued(sq, path[k].seq) /\ ~Queued(sq', path[k].seq)
    BY <1>1, PathShape DEF DrainedText
  <2>6. path[k].seq <= squash_seq
    BY <1>2, <2>1, <2>4, <2>5
  <2>7. PICK a \in Ages(sq) : At(sq, a, n).seq = path[k].seq
    BY <2>5 DEF Queued
  <2>8. a \in Ages(sq') /\ a \in Int
    BY <1>1, <1>3, <2>6, <2>7, EntryShape
  <2> QED
    BY <1>3, <2>5, <2>7, <2>8 DEF Queued
<1> QED
  BY <1>4 DEF StaleTextIsSquashed

LEMMA StaleNext ==
    ASSUME QueueInvariant, StaleTextIsSquashed, [Next /\ StaleStep]_<<vars, stale>>
    PROVE  StaleTextIsSquashed'
<1> DEFINE n == STORE_QUEUE_SIZE
<1>0. /\ n \in Nat \ {0} /\ sq \in EntryOf(n) /\ path \in Seq(Renamed) /\ Len(path) \in Nat
      /\ DOMAIN path = 1 .. Len(path) /\ StoresQueued(path, sq, retired) /\ Ring(sq, n)
      /\ retired \in Nat /\ next_seq \in Nat /\ squash_seq \in Nat /\ TypeOK
  BY Sizes, PathShape DEF QueueInvariant, TypeOK, StoresQueued, Tracks, Renamed
<1>1. CASE UNCHANGED <<vars, stale>>
  BY <1>1 DEF vars, squashVars, StaleTextIsSquashed
<1>2. ASSUME Next, StaleStep PROVE StaleTextIsSquashed'
  <2>0. QueueInvariant'
    BY <1>2, QueueStep
  <2>1. \A k \in DrainedText : /\ k \in 1 .. Len(path) /\ k \in Places(path, "store", 1)
                               /\ path[k].instr.addr < TextEnd
                               /\ Queued(sq, path[k].seq) /\ ~Queued(sq', path[k].seq)
    BY <1>0 DEF DrainedText, Places
  <2>2. ASSUME UNCHANGED vars \/ \E k \in retired + 1 .. Len(path) : InFlightStep(k)
        PROVE  StaleTextIsSquashed'
    <3>1. Underway
      BY <1>0, <2>2, InFlightStepIsUnderway
    <3>2. \A k \in Ages(sq) : k \in Ages(sq') /\ At(sq', k, n).seq = At(sq, k, n).seq
      BY <3>1 DEF Underway, SameQueue, Ages
    <3>3. DrainedText = {}
      BY <2>1, <3>2 DEF Queued
    <3>4. squash_pending => squash_pending' /\ squash_seq' <= squash_seq
      <4>1. CASE UNCHANGED squashVars
        <5>1. (squash_pending' <=> squash_pending) /\ squash_seq' = squash_seq
          BY <4>1, Zenon DEF squashVars
        <5> QED
          BY <1>0, <5>1
      <4>2. CASE ~UNCHANGED squashVars
        BY <3>1, <4>2, Zenon DEF Underway
      <4> QED
        BY <4>1, <4>2
    <3> QED
      BY <1>2, <2>0, <3>3, <3>4, StaleKept
  <2>3. ASSUME NEW instr \in Instrs, Rename(instr) PROVE StaleTextIsSquashed'
    <3> DEFINE x == [seq |-> next_seq, instr |-> instr, addr_ready |-> FALSE,
                     completed |-> FALSE]
    <3>1. x \in Entry /\ sq.size \in Nat
      BY <1>0, EntryShape DEF Entry
    <3>2. /\ ~squash_pending
          /\ IF instr.kind = "store" THEN sq' = Add(sq, x, n) /\ sq.size < n ELSE sq' = sq
      BY <2>3, Zenon DEF Rename
    <3> HIDE DEF x
    <3>3. \A k \in Ages(sq) : k \in Ages(sq') /\ At(sq', k, n).seq = At(sq, k, n).seq
      <4>1. CASE instr.kind = "store"
        <5>1. sq'.size = sq.size + 1 /\ \A k \in Ages(sq) : At(sq', k, n) = At(sq, k, n)
          BY <1>0, <3>1, <3>2, <4>1, Added
        <5> QED
          BY <3>1, <5>1 DEF Ages
      <4>2. CASE instr.kind # "store"
        BY <3>2, <4>2
      <4> QED
        BY <4>1, <4>2
    <3>4. DrainedText = {}
      BY <2>1, <3>3 DEF Queued
    <3> QED
      BY <1>2, <2>0, <3>2, <3>4, StaleKept
  <2>4. ASSUME Commit \/ DrainStores PROVE StaleTextIsSquashed'
    <3>1. path' = path
      BY <2>4, Zenon DEF Commit, DrainStores
    <3>2. \E q, r, count : /\ r \in Nat /\ count \in Nat
                           /\ StoresQueued(path, q, r) /\ Evict(q, count)
                           /\ \A k \in Ages(sq) : /\ k \in Ages(q)
                                                  /\ At(q, k, n).seq = At(sq, k, n).seq
      <4>1. CASE Commit
        <5>1. PICK q, count : /\ StoresQueued(path, q, retired + 1) /\ Evict(q, count)
                              /\ Ages(q) = Ages(sq)
                              /\ \A k \in Ages(sq) : At(q, k, n).seq = Store(k).seq
          BY <4>1, CommitQueue
        <5>2. count \in 0 .. Cardinality(CommittedPrefix(q))
          BY <5>1, Zenon DEF Evict
        <5> QED
          BY <1>0, <5>1, <5>2 DEF Store
      <4>2. CASE DrainStores
        <5>1. PICK count \in 1 .. sq.size : Evict(sq, count)
          BY <4>2, Zenon DEF DrainStores
        <5> QED
          BY <1>0, <5>1
      <4> QED
        BY <2>4, <4>1, <4>2
    <3>3. PICK q, r, count : /\ r \in Nat /\ count \in Nat
                             /\ StoresQueued(path, q, r) /\ Evict(q, count)
                             /\ \A k \in Ages(sq) : /\ k \in Ages(q)
                                                    /\ At(q, k, n).seq = At(sq, k, n).seq
      BY <3>2
    <3>4. \A k \in DrainedText : InQueue(path, q, k)
      BY <2>1, <3>3 DEF InQueue, Queued
    <3>5. /\ squash_pending => squash_pending' /\ squash_seq' <= squash_seq
          /\ \A k \in DrainedText : squash_pending' /\ squash_seq' <= path[k].seq
      BY <2>1, <3>3, <3>4, EvictAsks
    <3>6. \A k \in DrainedText : k \in DOMAIN path' /\ path'[k].seq = path[k].seq
      BY <1>0, <2>1, <3>1
    <3> QED
      BY <1>2, <2>0, <3>5, <3>6, StaleKept
  <2>5. CASE PerformSquash
    BY <1>2, <2>5, StaleSquashed
  <2> QED
    BY <1>2, <2>2, <2>3, <2>4, <2>5, NextCases
<1> QED
  BY <1>1, <1>2

\* What was fetched behind a store into the text before the store changed the
\* text is squashed, for every size of the queues and however branches and other
\* stores into the text ask for a squash in the meantime.
THEOREM StaleTextSquashed == StaleSpec => []StaleTextIsSquashed
<1>1. StaleInit => QueueInvariant /\ StaleTextIsSquashed
  BY InitQueues DEF StaleInit, StaleTextIsSquashed
<1>2. QueueInvariant /\ StaleTextIsSquashed /\ [Next /\ StaleStep]_<<vars, stale>>
        => QueueInvariant' /\ StaleTextIsSquashed'
  <2>1. [Next /\ StaleStep]_<<vars, stale>> => [Next]_vars
    BY DEF vars
  <2> QED
    BY <2>1, QueueStep, StaleNext
<1> QED
  BY <1>1, <1>2, PTL DEF StaleSpec
=============================================================================
