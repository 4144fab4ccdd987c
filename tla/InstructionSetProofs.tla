------------------------ MODULE InstructionSetProofs ------------------------
(***************************************************************************)
(* Proofs about InstructionSet: powers of two, bits, and that the ALU      *)
(* always answers with a word, for every width of words and immediates.    *)
(***************************************************************************)
EXTENDS InstructionSet, FiniteSetTheorems, WellFoundedInduction, TLAPS

----------------------------------------------------------------------------
(* Induction over the naturals, for a set instead of a predicate.          *)

LEMMA InductiveSet ==
    ASSUME NEW S, 0 \in S, \A n \in Nat : n \in S => n + 1 \in S
    PROVE  \A n \in Nat : n \in S
<1> SUFFICES ASSUME NEW b \in Nat, b \notin S PROVE FALSE
  OBVIOUS
<1> DEFINE T == {n \in Nat : n \notin S}
<1>1. T \in SUBSET Nat /\ T # {}
  OBVIOUS
<1> HIDE DEF T
<1>2. PICK m \in T : \A k \in T : <<k, m>> \notin OpToRel(<, Nat)
  BY <1>1, NatLessThanWellFounded, WFMin, Zenon
<1>3. m \in Nat /\ m \notin S /\ \A k \in T : ~(k < m)
  BY <1>1, <1>2 DEF OpToRel, T
<1>4. m # 0 /\ m - 1 \in Nat /\ m - 1 < m /\ (m - 1) + 1 = m
  BY <1>3
<1>5. m - 1 \in T
  BY <1>3, <1>4 DEF T
<1> QED
  BY <1>3, <1>4, <1>5

----------------------------------------------------------------------------
(* Powers of two, which are the numbers of subsets.                        *)

LEMMA SubsetCount ==
    ASSUME NEW n \in Nat
    PROVE  /\ IsFiniteSet(SUBSET (1 .. n)) /\ Cardinality(SUBSET (1 .. n)) = 2 ^ n
<1>1. IsFiniteSet(1 .. n) /\ Cardinality(1 .. n) = n
  BY FS_Interval
<1> QED
  BY <1>1, FS_SUBSET, Zenon

LEMMA TwoToThe == \A n \in Nat : 2 ^ n \in Nat \ {0}
<1> TAKE n \in Nat
<1>1. IsFiniteSet(SUBSET (1 .. n)) /\ Cardinality(SUBSET (1 .. n)) = 2 ^ n
  BY SubsetCount
<1>2. 2 ^ n \in Nat
  BY <1>1, FS_CardinalityType, Zenon
<1>3. SUBSET (1 .. n) # {}
  OBVIOUS
<1> QED
  BY <1>1, <1>2, <1>3, FS_EmptySet

LEMMA TwoToTheMonotonic == \A m, n \in Nat : m <= n => 2 ^ m <= 2 ^ n
<1> SUFFICES ASSUME NEW m \in Nat, NEW n \in Nat, m <= n PROVE 2 ^ m <= 2 ^ n
  OBVIOUS
<1> DEFINE A == SUBSET (1 .. m)
           B == SUBSET (1 .. n)
<1>1. A \in SUBSET B
  OBVIOUS
<1>2. IsFiniteSet(B) /\ Cardinality(A) = 2 ^ m /\ Cardinality(B) = 2 ^ n
  BY SubsetCount
<1> HIDE DEF A, B
<1>3. Cardinality(A) <= Cardinality(B)
  BY <1>1, <1>2, FS_Subset
<1> QED
  BY <1>2, <1>3

LEMMA TwoToTheNext == \A n \in Nat : 2 ^ (n + 1) = 2 * 2 ^ n
<1> TAKE n \in Nat
<1> DEFINE A == SUBSET (1 .. n)
           f == [B \in A |-> B \cup {n + 1}]
           C == {f[B] : B \in A}
<1>1. n + 1 \in Nat /\ n + 1 \notin 1 .. n /\ 1 .. n + 1 = (1 .. n) \cup {n + 1}
  OBVIOUS
<1>2. IsFiniteSet(A) /\ Cardinality(A) = 2 ^ n /\ Cardinality(SUBSET (1 .. n + 1)) = 2 ^ (n + 1)
  BY <1>1, SubsetCount
<1>3. \A B, D \in A : f[B] = f[D] => B = D
  <2> SUFFICES ASSUME NEW B \in A, NEW D \in A, B \cup {n + 1} = D \cup {n + 1} PROVE B = D
    OBVIOUS
  <2>1. n + 1 \notin B /\ n + 1 \notin D
    BY <1>1
  <2> QED
    BY <2>1
<1>4. IsFiniteSet(C) /\ Cardinality(C) = Cardinality(A)
  <2>1. f \in Surjection(A, C)
    BY Zenon DEF Surjection
  <2>2. f \in Injection(A, C)
    <3>1. f \in [A -> C]
      OBVIOUS
    <3> HIDE DEF A, C, f
    <3> QED
      BY <1>3, <3>1, <2>1, Zenon DEF Injection, IsInjective, Surjection
  <2> HIDE DEF f
  <2> QED
    BY <1>2, <2>1, <2>2, FS_Surjection
<1>5. SUBSET (1 .. n + 1) = A \cup C
  <2>1. ASSUME NEW D \in SUBSET (1 .. n + 1) PROVE D \in A \cup C
    <3>1. CASE n + 1 \notin D
      BY <1>1, <3>1
    <3>2. CASE n + 1 \in D
      <4>1. D \ {n + 1} \in A /\ f[D \ {n + 1}] = D
        BY <1>1, <3>2
      <4> HIDE DEF f
      <4> QED
        BY <4>1
    <3> QED
      BY <3>1, <3>2
  <2>2. ASSUME NEW D \in C PROVE D \in SUBSET (1 .. n + 1)
    BY <1>1, <2>2
  <2>3. A \subseteq SUBSET (1 .. n + 1)
    BY <1>1
  <2> HIDE DEF A, C
  <2> QED
    BY <2>1, <2>2, <2>3
<1>6. A \cap C = {}
  BY <1>1
<1>7. Cardinality(A \cup C) = Cardinality(A) + Cardinality(C) - 0
  <2> HIDE DEF A, C
  <2>1. Cardinality(A \cup C) = Cardinality(A) + Cardinality(C) - Cardinality(A \cap C)
    BY <1>2, <1>4, FS_Union
  <2>2. Cardinality(A \cap C) = 0
    BY <1>6, FS_EmptySet
  <2> QED
    BY <2>1, <2>2
<1>8. 2 ^ n \in Nat
  BY TwoToThe
<1> HIDE DEF A, C
<1>9. 2 ^ (n + 1) = 2 ^ n + 2 ^ n - 0
  BY <1>2, <1>4, <1>5, <1>7
<1> QED
  BY <1>8, <1>9

----------------------------------------------------------------------------
(* Division and bits.                                                      *)

LEMMA DivisionIs ==
    ASSUME NEW a \in Int, NEW m \in Nat \ {0}, NEW q \in Int, NEW r \in 0 .. m - 1,
           a = m * q + r
    PROVE  a \div m = q /\ a % m = r
BY SMT

LEMMA Division ==
    ASSUME NEW a \in Int, NEW m \in Nat \ {0}
    PROVE  /\ a \div m \in Int /\ a % m \in 0 .. m - 1 /\ a = m * (a \div m) + (a % m)
           /\ a \in Nat => a \div m \in 0 .. a
BY SMT

\* Dividing by 2m is halving, then dividing by m.
LEMMA Halve ==
    ASSUME NEW u \in Nat, NEW b \in {0, 1}, NEW m \in Nat \ {0}
    PROVE  (2 * u + b) \div (2 * m) = u \div m
<1> DEFINE q == u \div m
           r == u % m
<1>1. q \in Int /\ r \in 0 .. m - 1 /\ u = m * q + r
  BY Division
<1> HIDE DEF q, r
<1>2. 2 * u + b = (2 * m) * q + (2 * r + b)
  BY <1>1
<1>3. 2 * r + b \in 0 .. 2 * m - 1 /\ 2 * m \in Nat \ {0} /\ 2 * u + b \in Int
  BY <1>1
<1>4. (2 * u + b) \div (2 * m) = q
  BY <1>1, <1>2, <1>3, DivisionIs
<1> QED
  BY <1>4 DEF q

LEMMA BitsOf ==
    /\ \A k \in Nat : Bit(0, k) = 0
    /\ \A u \in Nat, b \in {0, 1} : /\ Bit(2 * u + b, 0) = b
                                    /\ \A k \in Nat : Bit(2 * u + b, k + 1) = Bit(u, k)
<1>1. ASSUME NEW k \in Nat PROVE Bit(0, k) = 0
  <2>1. 2 ^ k \in Nat \ {0}
    BY TwoToThe
  <2>2. 0 \div 2 ^ k = 0
    BY <2>1, Division
  <2>3. 0 % 2 = 0
    OBVIOUS
  <2> QED
    BY <2>2, <2>3 DEF Bit
<1>2. ASSUME NEW u \in Nat, NEW b \in {0, 1} PROVE Bit(2 * u + b, 0) = b
  <2>1. 2 ^ 0 = 1 /\ (2 * u + b) \div 1 = 2 * u + b /\ (2 * u + b) % 2 = b
    OBVIOUS
  <2> QED
    BY <2>1 DEF Bit
<1>3. ASSUME NEW u \in Nat, NEW b \in {0, 1}, NEW k \in Nat PROVE Bit(2 * u + b, k + 1) = Bit(u, k)
  <2>1. 2 ^ k \in Nat \ {0} /\ 2 ^ (k + 1) = 2 * 2 ^ k
    BY TwoToThe, TwoToTheNext
  <2>2. (2 * u + b) \div 2 ^ (k + 1) = u \div 2 ^ k
    BY <2>1, Halve
  <2> QED
    BY <2>2 DEF Bit
<1> QED
  BY <1>1, <1>2, <1>3

\* Every set of bit positions below n is that of a number below 2^n.
LEMMA NumberWithBits ==
    \A n \in Nat : \A S \in SUBSET (0 .. n - 1) :
        \E v \in 0 .. 2 ^ n - 1 : \A k \in Nat : Bit(v, k) = 1 <=> k \in S
<1> DEFINE Good == {n \in Nat : \A S \in SUBSET (0 .. n - 1) :
                       \E v \in 0 .. 2 ^ n - 1 : \A k \in Nat : Bit(v, k) = 1 <=> k \in S}
<1>1. 0 \in Good
  <2> SUFFICES ASSUME NEW S \in SUBSET (0 .. 0 - 1)
               PROVE  \E v \in 0 .. 2 ^ 0 - 1 : \A k \in Nat : Bit(v, k) = 1 <=> k \in S
    OBVIOUS
  <2>1. S = {} /\ 0 \in 0 .. 2 ^ 0 - 1
    OBVIOUS
  <2> QED
    BY <2>1, BitsOf
<1>2. ASSUME NEW n \in Nat, n \in Good PROVE n + 1 \in Good
  <2> SUFFICES ASSUME NEW S \in SUBSET (0 .. (n + 1) - 1)
               PROVE  \E v \in 0 .. 2 ^ (n + 1) - 1 : \A k \in Nat : Bit(v, k) = 1 <=> k \in S
    OBVIOUS
  <2> DEFINE T == {k \in 0 .. n - 1 : k + 1 \in S}
  <2>1. PICK u \in 0 .. 2 ^ n - 1 : \A k \in Nat : Bit(u, k) = 1 <=> k \in T
    <3>1. T \in SUBSET (0 .. n - 1)
      OBVIOUS
    <3> HIDE DEF T
    <3> QED
      BY <1>2, <3>1
  <2>2. PICK b \in {0, 1} : b = 1 <=> 0 \in S
    OBVIOUS
  <2>3. u \in Nat /\ 2 ^ n \in Nat \ {0} /\ 2 ^ (n + 1) = 2 * 2 ^ n
    BY TwoToThe, TwoToTheNext
  <2>4. 2 * u + b \in 0 .. 2 ^ (n + 1) - 1
    BY <2>3
  <2>5. ASSUME NEW k \in Nat PROVE Bit(2 * u + b, k) = 1 <=> k \in S
    <3>1. CASE k = 0
      BY <2>2, <2>3, <3>1, BitsOf
    <3>2. CASE k # 0
      <4>1. k - 1 \in Nat /\ (k - 1) + 1 = k
        BY <3>2
      <4>2. Bit(2 * u + b, k) = Bit(u, k - 1)
        <5>1. Bit(2 * u + b, (k - 1) + 1) = Bit(u, k - 1)
          BY <2>3, <4>1, BitsOf
        <5> QED
          BY <4>1, <5>1
      <4>3. k - 1 \in T <=> k \in S
        BY <4>1
      <4> HIDE DEF T
      <4> QED
        BY <2>1, <4>1, <4>2, <4>3
    <3> QED
      BY <3>1, <3>2
  <2> QED
    BY <2>4, <2>5
<1>3. \A n \in Nat : n \in Good
  <2> HIDE DEF Good
  <2> QED
    BY <1>1, <1>2, InductiveSet
<1> QED
  BY <1>3

----------------------------------------------------------------------------
(* The ALU.                                                                *)

LEMMA WordLimits ==
    /\ 2 ^ WORD_BITS \in Nat \ {0} /\ 2 ^ IMM_BITS \in Nat \ {0}
    /\ 2 ^ IMM_BITS <= 2 ^ WORD_BITS
    /\ 0 \in Word /\ 1 \in Word /\ Word \subseteq Nat /\ Imm \subseteq Word /\ 0 \in Reg
<1>1. /\ 2 ^ WORD_BITS \in Nat \ {0} /\ 2 ^ IMM_BITS \in Nat \ {0}
      /\ 2 ^ IMM_BITS <= 2 ^ WORD_BITS
  BY WidthAssumption, TwoToThe, TwoToTheMonotonic
<1>2. 2 <= 2 ^ WORD_BITS
  <2>1. 2 ^ 1 = 2 /\ 1 \in Nat /\ 1 <= WORD_BITS /\ WORD_BITS \in Nat
    BY WidthAssumption
  <2> QED
    BY <2>1, TwoToTheMonotonic
<1> QED
  BY <1>1, <1>2, WidthAssumption DEF Word, Imm, Reg

LEMMA WithOnesIsWord == \A S \in SUBSET (0 .. WORD_BITS - 1) : WithOnes(S) \in Word /\ OnesOf(WithOnes(S)) = S
<1> TAKE S \in SUBSET (0 .. WORD_BITS - 1)
<1>1. PICK v \in Word : \A k \in Nat : Bit(v, k) = 1 <=> k \in S
  BY NumberWithBits, WidthAssumption DEF Word
<1>2. OnesOf(v) = S
  <2>1. 0 .. WORD_BITS - 1 \subseteq Nat
    BY WidthAssumption
  <2> QED
    BY <1>1, <2>1 DEF OnesOf
<1> QED
  BY <1>2 DEF WithOnes

\* Every instruction gives a word: sums, differences and shifts wrap, and the
\* bitwise operations have a result.
THEOREM ALUGivesWords ==
    \A i \in Instruction, a, b \in Word : ALUResult(i, Decode(i), a, b) \in Word
<1>1. ASSUME NEW i \in Instruction PROVE Extended(i, Decode(i)) \in Word /\ i.imm \in Word
  <2>1. i.imm \in 0 .. 2 ^ IMM_BITS - 1
    BY DEF Instruction, Imm
  <2> QED
    BY <2>1, WordLimits DEF Extended, Word, Imm
<1>2. ASSUME NEW a \in Word, NEW b \in Word, NEW inputs PROVE ALU(inputs, a, b) \in Word
  <2>1. /\ 2 ^ a \in Nat \ {0} /\ 2 ^ IMM_BITS \in Nat \ {0} /\ 2 ^ WORD_BITS \in Nat \ {0}
        /\ a \in Nat /\ b \in 0 .. 2 ^ WORD_BITS - 1
    BY TwoToThe, WordLimits DEF Word
  <2>2. \A x \in Int : x % 2 ^ WORD_BITS \in Word
    BY <2>1, Division DEF Word
  <2>3. b * 2 ^ a \in Int /\ b * 2 ^ IMM_BITS \in Int /\ a - b \in Int /\ a + b \in Int
    BY <2>1
  <2>4. b \div 2 ^ a \in Word
    <3>1. b \in Nat /\ b \in Int
      BY <2>1
    <3>2. b \div 2 ^ a \in 0 .. b
      BY <2>1, <3>1, Division
    <3> QED
      BY <2>1, <3>2 DEF Word
  <2>5. \A S : WithOnes(S \cap (0 .. WORD_BITS - 1)) \in Word
    BY WithOnesIsWord
  <2>6. /\ OnesOf(a) \cap OnesOf(b) = (OnesOf(a) \cap OnesOf(b)) \cap (0 .. WORD_BITS - 1)
        /\ OnesOf(a) \cup OnesOf(b) = (OnesOf(a) \cup OnesOf(b)) \cap (0 .. WORD_BITS - 1)
        /\ (0 .. WORD_BITS - 1) \ (OnesOf(a) \cup OnesOf(b))
             = ((0 .. WORD_BITS - 1) \ (OnesOf(a) \cup OnesOf(b))) \cap (0 .. WORD_BITS - 1)
    BY DEF OnesOf
  <2>7. /\ WithOnes(OnesOf(a) \cap OnesOf(b)) \in Word
        /\ WithOnes(OnesOf(a) \cup OnesOf(b)) \in Word
        /\ WithOnes((0 .. WORD_BITS - 1) \ (OnesOf(a) \cup OnesOf(b))) \in Word
    BY <2>5, <2>6
  <2> QED
    BY <2>2, <2>3, <2>4, <2>7, WordLimits, Zenon DEF ALU
<1> QED
  BY <1>1, <1>2 DEF ALUResult
=============================================================================
