------------------------- MODULE RenameROBMapProofs -------------------------
(***************************************************************************)
(* Proofs about RenameROB, continued: the register maps and the free list. *)
(* An entry of the reorder buffer is named here by its age, Entry(k) being *)
(* the k-th oldest, so that the wrap-around does not appear any more.      *)
(***************************************************************************)
EXTENDS RenameROBProofs, FiniteSetTheorems

Entry(k) == buffer[Nth(k)]

----------------------------------------------------------------------------
(* Least and greatest elements: the induction that the proofs need.        *)

LEMMA SmallestElement ==
    ASSUME NEW S \in SUBSET Nat, S # {}
    PROVE  \E m \in S : \A k \in S : m <= k
<1>1. PICK m \in S : \A k \in S : <<k, m>> \notin OpToRel(<, Nat)
  BY NatLessThanWellFounded, WFMin, Zenon
<1>2. \A k \in S : ~(k < m)
  BY <1>1 DEF OpToRel
<1> QED
  BY <1>2

LEMMA LargestElement ==
    ASSUME NEW n \in Nat, NEW S \in SUBSET (0 .. n), S # {}
    PROVE  \E m \in S : \A k \in S : k <= m
<1> DEFINE T == {i \in 0 .. n : n - i \in S}
<1>1. PICK j \in S : TRUE
  OBVIOUS
<1>2. n - j \in T /\ T \in SUBSET Nat
  OBVIOUS
<1>3. PICK m \in T : \A k \in T : m <= k
  BY <1>2, SmallestElement
<1>4. \A k \in S : n - k \in T
  OBVIOUS
<1>5. \A k \in S : k <= n - m
  BY <1>3, <1>4
<1> QED
  BY <1>3, <1>5

----------------------------------------------------------------------------
(* The map that the k oldest entries leave.                                *)

Writes(entry, a) == Renamed(entry) /\ entry.dest_arch_reg = a
\* MappingAfter of a list of entries f upon a map base.
MapOf(f, base, a, k) ==
    LET writers == {j \in 0 .. k - 1 : Writes(f[j], a)}
    IN IF writers = {}
         THEN base[a]
         ELSE f[CHOOSE j \in writers : \A i \in writers : i <= j].dest_phys_reg

Entries == [k \in Nat |-> Entry(k)]

LEMMA MapOfNone ==
    ASSUME NEW f, NEW base, NEW a, NEW k \in Nat, \A j \in 0 .. k - 1 : ~Writes(f[j], a)
    PROVE  MapOf(f, base, a, k) = base[a]
BY DEF MapOf

LEMMA MapOfYoungest ==
    ASSUME NEW f, NEW base, NEW a, NEW k \in Nat, NEW j \in 0 .. k - 1, Writes(f[j], a),
           \A i \in 0 .. k - 1 : Writes(f[i], a) => i <= j
    PROVE  MapOf(f, base, a, k) = f[j].dest_phys_reg
<1> DEFINE writers == {i \in 0 .. k - 1 : Writes(f[i], a)}
<1>1. j \in writers /\ \A i \in writers : i <= j
  OBVIOUS
<1>2. (CHOOSE m \in writers : \A i \in writers : i <= m) = j
  <2>1. \A m \in writers : (\A i \in writers : i <= m) => m = j
    BY <1>1
  <2> HIDE DEF writers
  <2> QED
    BY <1>1, <2>1
<1> QED
  BY <1>1, <1>2 DEF MapOf

\* One entry more.
LEMMA MapOfNext ==
    ASSUME NEW f, NEW base, NEW a, NEW k \in Nat
    PROVE  MapOf(f, base, a, k + 1) = IF Writes(f[k], a) THEN f[k].dest_phys_reg
                                                        ELSE MapOf(f, base, a, k)
<1>1. CASE Writes(f[k], a)
  <2>1. k + 1 \in Nat /\ k \in 0 .. (k + 1) - 1 /\ \A i \in 0 .. (k + 1) - 1 : i <= k
    OBVIOUS
  <2> QED
    BY <1>1, <2>1, MapOfYoungest
<1>2. CASE ~Writes(f[k], a)
  <2> DEFINE writers(n) == {j \in 0 .. n - 1 : Writes(f[j], a)}
  <2>1. writers(k + 1) = writers(k)
    <3>1. 0 .. (k + 1) - 1 = (0 .. k - 1) \cup {k}
      OBVIOUS
    <3> QED
      BY <1>2, <3>1
  <2>2. \A n : MapOf(f, base, a, n) =
                 IF writers(n) = {} THEN base[a]
                 ELSE f[CHOOSE j \in writers(n) : \A i \in writers(n) : i <= j].dest_phys_reg
    BY DEF MapOf
  <2> HIDE DEF writers
  <2> QED
    BY <1>2, <2>1, <2>2
<1> QED
  BY <1>1, <1>2

\* The youngest writer, if there is one.
LEMMA YoungestWriter ==
    ASSUME NEW f, NEW a, NEW k \in Nat, NEW j \in 0 .. k - 1, Writes(f[j], a)
    PROVE  \E m \in 0 .. k - 1 : /\ Writes(f[m], a)
                                 /\ \A i \in 0 .. k - 1 : Writes(f[i], a) => i <= m
<1> DEFINE writers == {i \in 0 .. k - 1 : Writes(f[i], a)}
<1>1. k - 1 \in Nat /\ writers \in SUBSET (0 .. k - 1) /\ writers # {}
  OBVIOUS
<1>2. PICK m \in writers : \A i \in writers : i <= m
  <2> HIDE DEF writers
  <2> QED
    BY <1>1, LargestElement
<1> QED
  BY <1>2

\* All that the map depends on.
SameRegisters(e, f) ==
    /\ e.dest_arch_reg = f.dest_arch_reg
    /\ e.dest_phys_reg = f.dest_phys_reg
    /\ e.old_phys_reg = f.old_phys_reg

LEMMA MapOfSame ==
    ASSUME NEW f, NEW g, NEW base, NEW a, NEW k \in Nat,
           \A j \in 0 .. k - 1 : SameRegisters(g[j], f[j])
    PROVE  MapOf(g, base, a, k) = MapOf(f, base, a, k)
<1>1. \A j \in 0 .. k - 1 : Writes(g[j], a) <=> Writes(f[j], a)
  BY DEF Writes, Renamed, SameRegisters
<1>2. CASE \E j \in 0 .. k - 1 : Writes(f[j], a)
  <2>1. PICK m \in 0 .. k - 1 : /\ Writes(f[m], a)
                                /\ \A i \in 0 .. k - 1 : Writes(f[i], a) => i <= m
    BY <1>2, YoungestWriter
  <2>2. MapOf(f, base, a, k) = f[m].dest_phys_reg
    BY <2>1, MapOfYoungest
  <2>3. MapOf(g, base, a, k) = g[m].dest_phys_reg
    BY <1>1, <2>1, MapOfYoungest
  <2> QED
    BY <2>2, <2>3 DEF SameRegisters
<1>3. CASE \A j \in 0 .. k - 1 : ~Writes(f[j], a)
  BY <1>1, <1>3, MapOfNone
<1> QED
  BY <1>2, <1>3

\* The oldest entry goes into the base.
LEMMA MapOfTail ==
    ASSUME NEW f, NEW g, NEW base, NEW newbase, NEW a, NEW k \in Nat,
           \A j \in 0 .. k - 1 : g[j] = f[j + 1],
           newbase[a] = IF Writes(f[0], a) THEN f[0].dest_phys_reg ELSE base[a]
    PROVE  MapOf(g, newbase, a, k) = MapOf(f, base, a, k + 1)
<1>0. k + 1 \in Nat /\ 0 \in 0 .. (k + 1) - 1
  OBVIOUS
<1>1. CASE \E j \in 0 .. k - 1 : Writes(g[j], a)
  <2>1. PICK m \in 0 .. k - 1 : /\ Writes(g[m], a)
                                /\ \A i \in 0 .. k - 1 : Writes(g[i], a) => i <= m
    BY <1>1, YoungestWriter
  <2>2. MapOf(g, newbase, a, k) = g[m].dest_phys_reg
    BY <2>1, MapOfYoungest
  <2>3. \A i \in 0 .. (k + 1) - 1 : Writes(f[i], a) => i <= m + 1
    <3> SUFFICES ASSUME NEW i \in 0 .. (k + 1) - 1, Writes(f[i], a), i # 0
                 PROVE  i <= m + 1
      OBVIOUS
    <3>1. i - 1 \in 0 .. k - 1 /\ (i - 1) + 1 = i
      OBVIOUS
    <3>2. Writes(g[i - 1], a)
      BY <3>1
    <3>3. i - 1 <= m
      BY <2>1, <3>1, <3>2
    <3> QED
      BY <3>3
  <2>4. m + 1 \in 0 .. (k + 1) - 1 /\ Writes(f[m + 1], a)
    BY <2>1
  <2>5. MapOf(f, base, a, k + 1) = f[m + 1].dest_phys_reg
    BY <1>0, <2>3, <2>4, MapOfYoungest
  <2> QED
    BY <2>2, <2>5
<1>2. CASE \A j \in 0 .. k - 1 : ~Writes(g[j], a)
  <2>1. \A i \in 0 .. (k + 1) - 1 : Writes(f[i], a) => i = 0
    <3> SUFFICES ASSUME NEW i \in 0 .. (k + 1) - 1, Writes(f[i], a), i # 0
                 PROVE  FALSE
      OBVIOUS
    <3>1. i - 1 \in 0 .. k - 1 /\ (i - 1) + 1 = i
      OBVIOUS
    <3> QED
      BY <1>2, <3>1
  <2>2. MapOf(g, newbase, a, k) = newbase[a]
    BY <1>2, MapOfNone
  <2>3. CASE Writes(f[0], a)
    <3>1. \A i \in 0 .. (k + 1) - 1 : Writes(f[i], a) => i <= 0
      BY <2>1
    <3>2. MapOf(f, base, a, k + 1) = f[0].dest_phys_reg
      BY <1>0, <2>3, <3>1, MapOfYoungest
    <3> QED
      BY <2>2, <2>3, <3>2
  <2>4. CASE ~Writes(f[0], a)
    <3>1. \A i \in 0 .. (k + 1) - 1 : ~Writes(f[i], a)
      BY <2>1, <2>4
    <3>2. MapOf(f, base, a, k + 1) = base[a]
      BY <1>0, <3>1, MapOfNone
    <3> QED
      BY <2>2, <2>4, <3>2
  <2> QED
    BY <2>3, <2>4
<1> QED
  BY <1>1, <1>2

----------------------------------------------------------------------------
(* What each operation does to the entries.                                *)

MapsAreMapOf == \A a : \A k \in Nat : MappingAfter(a, k) = MapOf(Entries, commited_regmap, a, k)

LEMMA MappingAfterIsMapOf == MapsAreMapOf
<1> SUFFICES ASSUME NEW a, NEW k \in Nat
             PROVE  MappingAfter(a, k) = MapOf(Entries, commited_regmap, a, k)
  BY DEF MapsAreMapOf
<1> DEFINE writers == {j \in 0 .. k - 1 : Writes(Entries[j], a)}
           youngest == CHOOSE j \in writers : \A i \in writers : i <= j
<1>1. \A j \in 0 .. k - 1 : Entries[j] = buffer[Nth(j)]
  BY DEF Entries, Entry
<1>2. ASSUME NEW w, w = {j \in 0 .. k - 1 : /\ Renamed(buffer[Nth(j)])
                                            /\ buffer[Nth(j)].dest_arch_reg = a}
      PROVE  w = writers
  BY <1>1, <1>2 DEF Writes
<1>3. MappingAfter(a, k) = IF writers = {} THEN commited_regmap[a]
                                           ELSE buffer[Nth(youngest)].dest_phys_reg
  <2> DEFINE w == {j \in 0 .. k - 1 : /\ Renamed(buffer[Nth(j)])
                                      /\ buffer[Nth(j)].dest_arch_reg = a}
  <2>1. MappingAfter(a, k) =
          IF w = {} THEN commited_regmap[a]
                    ELSE buffer[Nth(CHOOSE j \in w : \A i \in w : i <= j)].dest_phys_reg
    BY DEF MappingAfter
  <2>2. w = writers
    BY <1>2
  <2> HIDE DEF w, writers
  <2> QED
    BY <2>1, <2>2
<1>4. writers # {} => youngest \in 0 .. k - 1
  <2> SUFFICES ASSUME NEW j \in writers PROVE youngest \in writers
    OBVIOUS
  <2>1. \E m \in writers : \A i \in writers : i <= m
    BY YoungestWriter
  <2> HIDE DEF writers
  <2> QED
    BY <2>1
<1> QED
  BY <1>1, <1>3, <1>4 DEF MapOf

LEMMA MappingAfterIsMapOfNext == MapsAreMapOf'
BY MappingAfterIsMapOf, PTL

LEMMA EntriesAfterInsert ==
    ASSUME TypeOK, AgeOrdered, ~Full, NEW instr, NEW new, NEW old, Insert(instr, new, old)
    PROVE  /\ size \in Nat /\ size' = size + 1
           /\ \A k \in 0 .. size - 1 : Entry(k)' = Entry(k)
           /\ \A k \in {size} :
                 Entry(k)' = [seq |-> next_seq, dest_arch_reg |-> instr.dest_arch_reg,
                              dest_phys_reg |-> new, old_phys_reg |-> old,
                              is_store |-> (instr.kind = "store"), completed |-> FALSE]
<1>1. size' = size + 1 /\ head' = head /\ size \in Nat /\ tail \in Slot
  BY SizesAssumption DEF Insert, TypeOK
<1>2. \A k : Nth(k)' = Nth(k)
  BY <1>1 DEF Nth
<1>3. tail = Nth(size) /\ \A k \in 0 .. size - 1 : Nth(k) \in Slot /\ Nth(k) # tail
  BY TailIsFree
<1>4. \A i \in Slot : buffer'[i] =
          IF i = tail
            THEN [seq |-> next_seq, dest_arch_reg |-> instr.dest_arch_reg,
                  dest_phys_reg |-> new, old_phys_reg |-> old,
                  is_store |-> (instr.kind = "store"), completed |-> FALSE]
            ELSE buffer[i]
  BY <1>1 DEF Insert, TypeOK
<1>5. \A k \in 0 .. size - 1 : Entry(k)' = Entry(k)
  BY <1>2, <1>3, <1>4 DEF Entry
<1>6. \A k \in {size} : Entry(k)' = buffer'[tail]
  BY <1>2, <1>3 DEF Entry
<1> QED
  BY <1>1, <1>4, <1>5, <1>6

LEMMA EntriesAfterCommit ==
    ASSUME TypeOK, Commit
    PROVE  /\ size \in Nat /\ size > 0 /\ size' = size - 1
           /\ buffer[head] = Entry(0)
           /\ \A k \in 0 .. size - 2 : Entry(k)' = Entry(k + 1)
<1>1. /\ size \in 1 .. N /\ N \in Nat \ {0} /\ head \in Slot /\ size' = size - 1
      /\ head' = (head + 1) % N /\ buffer' = buffer
  BY SizesAssumption DEF Commit, HeadCompleted, TypeOK, N
<1>2. head = Nth(0)
  <2>1. 0 \in 0 .. N /\ ~(head + 0 >= N) /\ head + 0 = head
    BY <1>1 DEF Slot, N
  <2> QED
    BY <1>1, <2>1, RingValue DEF Nth, N
<1>3. \A k \in 0 .. size - 2 : Nth(k)' = Nth(k + 1)
  BY <1>1, NthAfterCommit
<1> QED
  BY <1>1, <1>2, <1>3 DEF Entry

LEMMA EntriesAfterRollBack ==
    ASSUME TypeOK, AgeOrdered, RollBack
    PROVE  /\ size \in Nat /\ size > 0 /\ size' = size - 1
           /\ buffer[Previous(tail)] = Entry(size - 1)
           /\ \A k \in 0 .. size - 2 : Entry(k)' = Entry(k)
<1>1. /\ size \in 1 .. N /\ N \in Nat \ {0} /\ size' = size - 1
      /\ head' = head /\ buffer' = buffer
  BY SizesAssumption DEF RollBack, TypeOK, N
<1>2. Previous(tail) = Nth(size - 1)
  BY <1>1, LiveAfterRollBack
<1>3. \A k : Nth(k)' = Nth(k)
  BY <1>1 DEF Nth
<1> QED
  BY <1>1, <1>2, <1>3 DEF Entry

\* The steps that move no register.
Quiet ==
    \/ \E p \in inflight : Execute(p) \/ Writeback(p) \/ MemoryResponse(p)
    \/ \E s \in committed_stores, smc \in BOOLEAN : DrainStore(s, smc)
    \/ SquashQueues \/ SquashDone \/ Halted \/ UNCHANGED vars

LEMMA NextCases ==
    [Next]_vars => \/ \E instr \in Instrs : Rename(instr)
                   \/ Commit \/ RollBack \/ Quiet
BY DEF Next, Quiet

LEMMA QuietStep ==
    ASSUME TypeOK, Quiet
    PROVE  /\ UNCHANGED <<size, head, tail, regmap, commited_regmap, rename_pool>>
           /\ \A k \in 0 .. size - 1 : SameRegisters(Entry(k)', Entry(k))
<1>0. \A k \in 0 .. size - 1 : Nth(k) \in Slot
  <2>1. \A k \in 0 .. size - 1 : k \in 0 .. N
    BY SizesAssumption DEF TypeOK, N
  <2> QED
    BY <2>1, NthFacts
<1>1. ASSUME UNCHANGED <<robVars, regmap, commited_regmap, rename_pool>>
      PROVE  /\ UNCHANGED <<size, head, tail, regmap, commited_regmap, rename_pool>>
             /\ \A k \in 0 .. size - 1 : SameRegisters(Entry(k)', Entry(k))
  BY <1>1 DEF robVars, SameRegisters, Entry, Nth
<1>2. ASSUME NEW p \in inflight, NEW writes \in BOOLEAN, Complete(p, writes)
      PROVE  /\ UNCHANGED <<size, head, tail, regmap, commited_regmap, rename_pool>>
             /\ \A k \in 0 .. size - 1 : SameRegisters(Entry(k)', Entry(k))
  <2>1. UNCHANGED <<size, head, tail, regmap, commited_regmap, rename_pool>>
    BY <1>2 DEF Complete
  <2>2. \A k : Nth(k)' = Nth(k)
    BY <2>1 DEF Nth
  <2>3. \A i \in Slot : SameRegisters(buffer'[i], buffer[i])
    BY <1>2 DEF Complete, SameRegisters, TypeOK, ROBEntry
  <2> QED
    BY <1>0, <2>1, <2>2, <2>3 DEF Entry
<1>3. ASSUME NEW p \in inflight, Execute(p) \/ Writeback(p) \/ MemoryResponse(p)
      PROVE  /\ UNCHANGED <<size, head, tail, regmap, commited_regmap, rename_pool>>
             /\ \A k \in 0 .. size - 1 : SameRegisters(Entry(k)', Entry(k))
  <2>1. CASE Execute(p)
    BY <1>1, <2>1 DEF Execute, prfVars
  <2>2. CASE Writeback(p)
    BY <1>2, <2>2 DEF Writeback, TypeOK, Reference
  <2>3. CASE MemoryResponse(p)
    BY <1>2, <2>3 DEF MemoryResponse
  <2> QED
    BY <1>3, <2>1, <2>2, <2>3
<1>4. ASSUME NEW s \in committed_stores, NEW smc \in BOOLEAN, DrainStore(s, smc)
      PROVE  UNCHANGED <<robVars, regmap, commited_regmap, rename_pool>>
  BY <1>4 DEF DrainStore, prfVars
<1>5. CASE SquashQueues \/ SquashDone \/ Halted \/ UNCHANGED vars
  <2>1. UNCHANGED <<robVars, regmap, commited_regmap, rename_pool>>
    BY <1>5 DEF SquashQueues, SquashDone, Halted, vars, prfVars
  <2> QED
    BY <1>1, <2>1
<1> QED
  BY <1>1, <1>3, <1>4, <1>5 DEF Quiet

----------------------------------------------------------------------------
(* Every physical register is in one place.                                *)

Old(k) == Entry(k).old_phys_reg
Pool == 1 .. Len(rename_pool)

\* What RegistersConserved says of the cardinalities, said of the elements.
Partition ==
    /\ \A i, j \in Pool : rename_pool[i] = rename_pool[j] => i = j
    /\ \A a, b \in Arch : regmap[a] = regmap[b] => a = b
    /\ \A j, k \in Superseded : Old(j) = Old(k) => j = k
    /\ \A i \in Pool, a \in Arch : rename_pool[i] # regmap[a]
    /\ \A i \in Pool, k \in Superseded : rename_pool[i] # Old(k)
    /\ \A a \in Arch, k \in Superseded : regmap[a] # Old(k)
    /\ \A p \in Phys : \/ \E i \in Pool : rename_pool[i] = p
                       \/ \E a \in Arch : regmap[a] = p
                       \/ \E k \in Superseded : Old(k) = p

\* Each entry knows the register its destination had before it.
ChainPrecise ==
    /\ \A a \in Arch : regmap[a] = MapOf(Entries, commited_regmap, a, size)
    /\ \A k \in Superseded :
          Old(k) = MapOf(Entries, commited_regmap, Entry(k).dest_arch_reg, k)

LEMMA SupersededEntries ==
    Superseded = {k \in 0 .. size - 1 : Renamed(Entry(k))}
BY DEF Superseded, Entry

LEMMA PartitionRename ==
    ASSUME TypeOK, AgeOrdered, Partition, NEW instr \in Instrs, Rename(instr),
           instr.reg_write /\ instr.dest_arch_reg # 0
    PROVE  Partition'
<1> DEFINE a == instr.dest_arch_reg
           new == Head(rename_pool)
<1>1. /\ ~Full /\ rename_pool # <<>> /\ AssignMapping(a) /\ Insert(instr, new, regmap[a])
  BY DEF Rename
<1>2. a \in Arch /\ rename_pool \in Seq(Phys)
  BY InstrsAssumption DEF TypeOK
<1>3. /\ 1 \in Pool /\ rename_pool[1] = new /\ new \in Phys
      /\ \A i \in Pool' : i + 1 \in Pool /\ i + 1 # 1 /\ rename_pool'[i] = rename_pool[i + 1]
      /\ \A i \in Pool : i # 1 => i - 1 \in Pool' /\ rename_pool'[i - 1] = rename_pool[i]
  BY <1>1, <1>2 DEF AssignMapping, Pool
<1>4. \A b \in Arch : regmap'[b] = IF b = a THEN new ELSE regmap[b]
  BY <1>1, <1>2 DEF AssignMapping, TypeOK
<1>5. new # regmap[a]
  BY <1>2, <1>3 DEF Partition
<1>6. /\ size \in Nat /\ size' = size + 1 /\ \A k \in 0 .. size - 1 : Entry(k)' = Entry(k)
      /\ \A k \in {size} : /\ Entry(k)'.old_phys_reg = regmap[a]
                           /\ Renamed(Entry(k)')
  BY <1>1, <1>5, EntriesAfterInsert DEF Renamed
<1>7. /\ Superseded' = Superseded \cup {size}
      /\ \A k \in Superseded : Old(k)' = Old(k)
      /\ \A k \in {size} : Old(k)' = regmap[a]
      /\ size \notin Superseded
  <2>1. Superseded' = {k \in 0 .. size' - 1 : Renamed(Entry(k)')}
    BY SupersededEntries DEF Superseded, Entry
  <2>2. 0 .. size' - 1 = (0 .. size - 1) \cup {size} /\ size \notin 0 .. size - 1
    BY <1>6
  <2> QED
    BY <1>6, <2>1, <2>2, SupersededEntries DEF Old
<1> HIDE DEF a, new
<1>8. \A i, j \in Pool' : rename_pool'[i] = rename_pool'[j] => i = j
  <2> TAKE i, j \in Pool'
  <2>1. rename_pool'[i] = rename_pool'[j] => i + 1 = j + 1
    BY <1>3 DEF Partition
  <2> QED
    BY <2>1 DEF Pool
<1>9. \A b, c \in Arch : regmap'[b] = regmap'[c] => b = c
  BY <1>3, <1>4 DEF Partition
<1>10. \A j, k \in Superseded' : Old(j)' = Old(k)' => j = k
  BY <1>2, <1>7 DEF Partition
<1>11. \A i \in Pool', b \in Arch : rename_pool'[i] # regmap'[b]
  BY <1>3, <1>4 DEF Partition
<1>12. \A i \in Pool', k \in Superseded' : rename_pool'[i] # Old(k)'
  BY <1>2, <1>3, <1>7 DEF Partition
<1>13. \A b \in Arch, k \in Superseded' : regmap'[b] # Old(k)'
  BY <1>2, <1>3, <1>4, <1>7 DEF Partition
<1>14. \A p \in Phys : \/ \E i \in Pool' : rename_pool'[i] = p
                       \/ \E b \in Arch : regmap'[b] = p
                       \/ \E k \in Superseded' : Old(k)' = p
  <2> TAKE p \in Phys
  <2>1. CASE p = new
    BY <1>2, <1>4, <2>1
  <2>2. CASE p = regmap[a]
    BY <1>7, <2>2
  <2>3. CASE p # new /\ p # regmap[a]
    <3>1. CASE \E i \in Pool : rename_pool[i] = p
      BY <1>3, <2>3, <3>1
    <3>2. CASE \E b \in Arch : regmap[b] = p
      BY <1>4, <2>3, <3>2
    <3>3. CASE \E k \in Superseded : Old(k) = p
      BY <1>7, <3>3
    <3> QED
      BY <3>1, <3>2, <3>3 DEF Partition
  <2> QED
    BY <2>1, <2>2, <2>3
<1> QED
  BY <1>8, <1>9, <1>10, <1>11, <1>12, <1>13, <1>14 DEF Partition

LEMMA ChainRename ==
    ASSUME TypeOK, AgeOrdered, Partition, ChainPrecise, NEW instr \in Instrs, Rename(instr)
    PROVE  ChainPrecise'
<1> DEFINE writes == instr.reg_write /\ instr.dest_arch_reg # 0
           a == instr.dest_arch_reg
           new == IF writes THEN Head(rename_pool) ELSE 0
           old == IF writes THEN regmap[a] ELSE 0
<1>1. ~Full /\ Insert(instr, new, old) /\ commited_regmap' = commited_regmap
  BY DEF Rename
<1>2. a \in Arch /\ rename_pool \in Seq(Phys)
  BY InstrsAssumption DEF TypeOK
<1>3. /\ size \in Nat /\ size' = size + 1 /\ \A k \in 0 .. size - 1 : Entry(k)' = Entry(k)
      /\ \A k \in {size} : /\ Entry(k)'.old_phys_reg = old
                           /\ Entry(k)'.dest_phys_reg = new
                           /\ Entry(k)'.dest_arch_reg = a
  BY <1>1, EntriesAfterInsert
<1>4. writes => new # old
  <2> SUFFICES ASSUME writes PROVE Head(rename_pool) # regmap[a]
    OBVIOUS
  <2>1. 1 \in Pool /\ rename_pool[1] = Head(rename_pool)
    BY <1>2 DEF Rename, Pool
  <2> QED
    BY <1>2, <2>1 DEF Partition
<1>5. ~writes => new = old
  OBVIOUS
<1>6. \A b \in Arch : regmap'[b] = IF writes /\ b = a THEN new ELSE regmap[b]
  BY <1>2 DEF Rename, AssignMapping, TypeOK
<1> HIDE DEF a, new, old, writes
<1>7. /\ \A k \in Nat : Entries[k] = Entry(k) /\ Entries'[k] = Entry(k)'
      /\ \A k \in {size} : \A b \in Arch : Writes(Entry(k)', b) <=> (writes /\ b = a)
  BY <1>3, <1>4, <1>5 DEF Entries, Writes, Renamed
<1>8. \A b, k : k \in 0 .. size =>
         MapOf(Entries', commited_regmap, b, k) = MapOf(Entries, commited_regmap, b, k)
  <2> SUFFICES ASSUME NEW b, NEW k \in 0 .. size
               PROVE  MapOf(Entries', commited_regmap, b, k) = MapOf(Entries, commited_regmap, b, k)
    OBVIOUS
  <2>1. \A j \in 0 .. k - 1 : SameRegisters(Entries'[j], Entries[j])
    BY <1>3, <1>7 DEF SameRegisters
  <2> QED
    BY <1>3, <2>1, MapOfSame
<1>9. \A b \in Arch : regmap'[b] = MapOf(Entries', commited_regmap', b, size')
  <2> TAKE b \in Arch
  <2>1. MapOf(Entries', commited_regmap, b, size + 1) =
          IF Writes(Entries'[size], b) THEN Entries'[size].dest_phys_reg
                                       ELSE MapOf(Entries', commited_regmap, b, size)
    BY <1>3, MapOfNext
  <2>2. /\ \A k \in {size} : Entries'[k].dest_phys_reg = new
        /\ Writes(Entries'[size], b) <=> (writes /\ b = a)
    BY <1>3, <1>7
  <2>3. MapOf(Entries', commited_regmap, b, size) = regmap[b]
    BY <1>3, <1>8 DEF ChainPrecise
  <2> QED
    BY <1>1, <1>3, <1>6, <2>1, <2>2, <2>3
<1>10. ASSUME NEW k \in Superseded'
       PROVE  Old(k)' = MapOf(Entries', commited_regmap', Entry(k)'.dest_arch_reg, k)
  <2>1. k \in 0 .. size' - 1 /\ Renamed(Entry(k)')
    BY <1>10 DEF Superseded, Entry
  <2>2. CASE k = size
    <3>1. writes /\ Old(k)' = regmap[a] /\ Entry(k)'.dest_arch_reg = a
      BY <1>3, <1>5, <2>1, <2>2 DEF Old, Renamed, old
    <3>2. MapOf(Entries', commited_regmap, a, size) = regmap[a]
      BY <1>2, <1>3, <1>8 DEF ChainPrecise
    <3> QED
      BY <1>1, <2>2, <3>1, <3>2
  <2>3. CASE k \in 0 .. size - 1
    <3>1. k \in Superseded /\ Old(k)' = Old(k) /\ Entry(k)' = Entry(k)
      BY <1>3, <2>1, <2>3, SupersededEntries DEF Old
    <3>2. Old(k) = MapOf(Entries, commited_regmap, Entry(k).dest_arch_reg, k)
      BY <3>1 DEF ChainPrecise
    <3>3. k \in 0 .. size
      BY <1>3, <2>3
    <3> QED
      BY <1>1, <1>8, <3>1, <3>2, <3>3
  <2> QED
    BY <1>3, <2>1, <2>2, <2>3
<1> QED
  BY <1>9, <1>10 DEF ChainPrecise

LEMMA PartitionCommit ==
    ASSUME TypeOK, Partition, Commit, Renamed(buffer[head])
    PROVE  Partition'
<1> DEFINE n == Len(rename_pool) + 1
<1>1. /\ size \in Nat /\ size > 0 /\ size' = size - 1 /\ buffer[head] = Entry(0)
      /\ \A k \in 0 .. size - 2 : Entry(k)' = Entry(k + 1)
  BY EntriesAfterCommit
<1>2. rename_pool' = Append(rename_pool, Old(0)) /\ regmap' = regmap
  BY <1>1 DEF Commit, Retire, Old
<1>3. 0 \in Superseded /\ Old(0) \in Phys
  <2>1. 0 \in 0 .. size - 1 /\ Entry(0) \in ROBEntry
    BY <1>1 DEF TypeOK
  <2> QED
    BY <1>1, <2>1, SupersededEntries DEF Old, ROBEntry
<1>4. /\ Pool' = Pool \cup {n} /\ n \notin Pool
      /\ \A i \in Pool : rename_pool'[i] = rename_pool[i]
      /\ rename_pool'[n] = Old(0)
  <2>1. rename_pool \in Seq(Phys)
    BY DEF TypeOK
  <2>2. /\ Len(rename_pool') = n /\ rename_pool'[n] = Old(0) /\ n \in Nat
        /\ \A i \in 1 .. Len(rename_pool) : rename_pool'[i] = rename_pool[i]
    BY <1>2, <1>3, <2>1
  <2> QED
    BY <2>1, <2>2 DEF Pool
<1>5. /\ \A k \in Superseded' : k + 1 \in Superseded /\ k + 1 # 0 /\ Old(k)' = Old(k + 1)
      /\ \A k \in Superseded : k # 0 => k - 1 \in Superseded' /\ Old(k - 1)' = Old(k)
  <2>1. Superseded' = {k \in 0 .. size' - 1 : Renamed(Entry(k)')}
    BY DEF Superseded, Entry
  <2>2. \A k \in 0 .. size' - 1 : k \in 0 .. size - 2 /\ k + 1 \in 0 .. size - 1 /\ k + 1 # 0
    BY <1>1
  <2>3. \A k \in 0 .. size - 1 : k # 0 => k - 1 \in 0 .. size' - 1 /\ (k - 1) + 1 = k
    BY <1>1
  <2> QED
    BY <1>1, <2>1, <2>2, <2>3, SupersededEntries DEF Old
<1> HIDE DEF n
<1>6. \A i, j \in Pool' : rename_pool'[i] = rename_pool'[j] => i = j
  BY <1>3, <1>4 DEF Partition
<1>7. \A j, k \in Superseded' : Old(j)' = Old(k)' => j = k
  <2> TAKE j, k \in Superseded'
  <2>1. Old(j)' = Old(k)' => j + 1 = k + 1
    BY <1>5 DEF Partition
  <2> QED
    BY <2>1 DEF Superseded
<1>8. \A i \in Pool', a \in Arch : rename_pool'[i] # regmap'[a]
  <2> TAKE i \in Pool', a \in Arch
  <2>1. CASE i = n
    BY <1>2, <1>3, <1>4, <2>1 DEF Partition
  <2>2. CASE i \in Pool
    <3>1. rename_pool[i] # regmap[a]
      BY <2>2 DEF Partition
    <3> QED
      BY <1>2, <1>4, <2>2, <3>1
  <2> QED
    BY <1>4, <2>1, <2>2
<1>9. \A i \in Pool', k \in Superseded' : rename_pool'[i] # Old(k)'
  BY <1>3, <1>4, <1>5 DEF Partition
<1>10. \A a \in Arch, k \in Superseded' : regmap'[a] # Old(k)'
  BY <1>2, <1>5 DEF Partition
<1>11. \A p \in Phys : \/ \E i \in Pool' : rename_pool'[i] = p
                       \/ \E a \in Arch : regmap'[a] = p
                       \/ \E k \in Superseded' : Old(k)' = p
  <2> TAKE p \in Phys
  <2>1. CASE \E i \in Pool : rename_pool[i] = p
    BY <1>4, <2>1
  <2>2. CASE \E a \in Arch : regmap[a] = p
    BY <1>2, <2>2
  <2>3. CASE \E k \in Superseded : Old(k) = p
    BY <1>4, <1>5, <2>3
  <2> QED
    BY <2>1, <2>2, <2>3 DEF Partition
<1> QED
  BY <1>2, <1>6, <1>7, <1>8, <1>9, <1>10, <1>11 DEF Partition

\* The oldest entry goes from the chain into the committed map.
LEMMA ChainCommit ==
    ASSUME TypeOK, ChainPrecise, Commit
    PROVE  ChainPrecise'
<1>1. /\ size \in Nat /\ size > 0 /\ size' = size - 1 /\ buffer[head] = Entry(0)
      /\ \A k \in 0 .. size - 2 : Entry(k)' = Entry(k + 1)
      /\ regmap' = regmap
  BY EntriesAfterCommit DEF Commit
<1>2. \A a \in Arch : commited_regmap'[a] =
          IF Writes(Entries[0], a) THEN Entries[0].dest_phys_reg ELSE commited_regmap[a]
  BY <1>1 DEF Commit, Retire, Writes, Entries, TypeOK
<1>3. \A k \in Nat : Entries[k] = Entry(k) /\ Entries'[k] = Entry(k)'
  BY DEF Entries
<1>4. \A a \in Arch : \A k \in 0 .. size - 1 :
         MapOf(Entries', commited_regmap', a, k) = MapOf(Entries, commited_regmap, a, k + 1)
  <2> TAKE a \in Arch
  <2> TAKE k \in 0 .. size - 1
  <2>1. \A j \in 0 .. k - 1 : Entries'[j] = Entries[j + 1]
    <3> TAKE j \in 0 .. k - 1
    <3>1. j \in 0 .. size - 2 /\ j \in Nat /\ j + 1 \in Nat
      BY <1>1
    <3> QED
      BY <1>1, <1>3, <3>1
  <2> QED
    BY <1>1, <1>2, <2>1, MapOfTail
<1>5. \A a \in Arch : regmap'[a] = MapOf(Entries', commited_regmap', a, size')
  <2>1. size - 1 \in 0 .. size - 1 /\ (size - 1) + 1 = size
    BY <1>1
  <2> QED
    BY <1>1, <1>4, <2>1 DEF ChainPrecise
<1>6. ASSUME NEW k \in Superseded'
      PROVE  Old(k)' = MapOf(Entries', commited_regmap', Entry(k)'.dest_arch_reg, k)
  <2>1. k \in 0 .. size' - 1 /\ Renamed(Entry(k)')
    BY <1>6 DEF Superseded, Entry
  <2>2. k \in 0 .. size - 2 /\ k \in 0 .. size - 1 /\ k + 1 \in 0 .. size - 1 /\ k + 1 \in 0 .. N
    BY <1>1, <2>1, SizesAssumption DEF TypeOK, N
  <2>3. Entry(k)' = Entry(k + 1) /\ k + 1 \in Superseded
    BY <1>1, <2>1, <2>2, SupersededEntries
  <2>4. Old(k + 1) = MapOf(Entries, commited_regmap, Entry(k + 1).dest_arch_reg, k + 1)
    BY <2>3 DEF ChainPrecise
  <2>5. Entry(k + 1).dest_arch_reg \in Arch
    <3>1. Nth(k + 1) \in Slot
      BY <2>2, NthFacts
    <3> QED
      BY <3>1 DEF Entry, TypeOK, ROBEntry
  <2> QED
    BY <1>4, <2>2, <2>3, <2>4, <2>5 DEF Old
<1> QED
  BY <1>5, <1>6 DEF ChainPrecise

----------------------------------------------------------------------------
(* The youngest entry is undone: its destination gets its old register.    *)

\* What rollback_rename takes out of the map is what it puts on the free list.
LEMMA YoungestIsMapped ==
    ASSUME TypeOK, AgeOrdered, ChainPrecise, RollBack, Renamed(Entry(size - 1))
    PROVE  /\ Entry(size - 1).dest_arch_reg \in Arch
           /\ regmap[Entry(size - 1).dest_arch_reg] = Entry(size - 1).dest_phys_reg
<1> DEFINE a == Entry(size - 1).dest_arch_reg
<1>1. size \in Nat /\ size - 1 \in Nat /\ (size - 1) + 1 = size
  BY EntriesAfterRollBack
<1>2. a \in Arch
  <2>1. Previous(tail) \in Slot /\ buffer[Previous(tail)] = Entry(size - 1)
    BY RingStep, EntriesAfterRollBack DEF TypeOK
  <2> QED
    BY <2>1 DEF TypeOK, ROBEntry
<1>3. Writes(Entries[size - 1], a) /\ Entries[size - 1] = Entry(size - 1)
  BY <1>1 DEF Writes, Entries
<1>4. MapOf(Entries, commited_regmap, a, (size - 1) + 1) = Entries[size - 1].dest_phys_reg
  BY <1>1, <1>3, MapOfNext
<1> QED
  BY <1>1, <1>2, <1>3, <1>4 DEF ChainPrecise

LEMMA PartitionRollBack ==
    ASSUME TypeOK, AgeOrdered, Partition, ChainPrecise, RollBack,
           Renamed(buffer[Previous(tail)])
    PROVE  Partition'
<1> DEFINE last == size - 1
           a == Entry(last).dest_arch_reg
           new == Entry(last).dest_phys_reg
<1>1. /\ size \in Nat /\ size > 0 /\ size' = size - 1 /\ buffer[Previous(tail)] = Entry(last)
      /\ \A k \in 0 .. size - 2 : Entry(k)' = Entry(k)
  BY EntriesAfterRollBack
<1>2. rename_pool' = <<new>> \o rename_pool /\ regmap' = [regmap EXCEPT ![a] = Old(last)]
  BY <1>1 DEF RollBack, RollbackRename, Old
<1>3. a \in Arch /\ regmap[a] = new
  BY <1>1, YoungestIsMapped
<1>4. new \in Phys /\ rename_pool \in Seq(Phys) /\ regmap \in [Arch -> Phys]
  BY <1>3 DEF TypeOK
<1>5. last \in Superseded /\ last \in Nat /\ new # Old(last)
  <2>1. last \in 0 .. size - 1
    BY <1>1
  <2> QED
    BY <1>1, <2>1, SupersededEntries DEF Renamed, Old
<1>6. /\ 1 \in Pool' /\ rename_pool'[1] = new
      /\ \A i \in Pool' : i # 1 => i - 1 \in Pool /\ rename_pool'[i] = rename_pool[i - 1]
      /\ \A i \in Pool : i + 1 \in Pool' /\ i + 1 # 1 /\ rename_pool'[i + 1] = rename_pool[i]
  BY <1>2, <1>4 DEF Pool
<1>7. \A b \in Arch : regmap'[b] = IF b = a THEN Old(last) ELSE regmap[b]
  BY <1>2, <1>3, <1>4
<1>8. /\ Superseded' = Superseded \ {last}
      /\ \A k \in Superseded' : Old(k)' = Old(k)
  <2>1. Superseded' = {k \in 0 .. size' - 1 : Renamed(Entry(k)')}
    BY DEF Superseded, Entry
  <2>2. 0 .. size' - 1 = 0 .. size - 2 /\ 0 .. size - 2 = (0 .. size - 1) \ {last}
    BY <1>1
  <2> QED
    BY <1>1, <2>1, <2>2, SupersededEntries DEF Old
<1> HIDE DEF last, a, new
<1>9. \A i, j \in Pool' : rename_pool'[i] = rename_pool'[j] => i = j
  <2> TAKE i, j \in Pool'
  <2>1. CASE i = 1 \/ j = 1
    BY <1>3, <1>6, <2>1 DEF Partition
  <2>2. CASE i # 1 /\ j # 1
    <3>1. rename_pool'[i] = rename_pool'[j] => i - 1 = j - 1
      BY <1>6, <2>2 DEF Partition
    <3> QED
      BY <3>1 DEF Pool
  <2> QED
    BY <2>1, <2>2
<1>10. \A b, c \in Arch : regmap'[b] = regmap'[c] => b = c
  BY <1>5, <1>7 DEF Partition
<1>11. \A j, k \in Superseded' : Old(j)' = Old(k)' => j = k
  BY <1>8 DEF Partition
<1>12. \A i \in Pool', b \in Arch : rename_pool'[i] # regmap'[b]
  BY <1>3, <1>5, <1>6, <1>7 DEF Partition
<1>13. \A i \in Pool', k \in Superseded' : rename_pool'[i] # Old(k)'
  BY <1>3, <1>6, <1>8 DEF Partition
<1>14. \A b \in Arch, k \in Superseded' : regmap'[b] # Old(k)'
  BY <1>5, <1>7, <1>8 DEF Partition
<1>15. \A p \in Phys : \/ \E i \in Pool' : rename_pool'[i] = p
                       \/ \E b \in Arch : regmap'[b] = p
                       \/ \E k \in Superseded' : Old(k)' = p
  <2> TAKE p \in Phys
  <2>1. CASE \E i \in Pool : rename_pool[i] = p
    BY <1>6, <2>1
  <2>2. CASE \E b \in Arch : regmap[b] = p
    BY <1>3, <1>6, <1>7, <2>2
  <2>3. CASE \E k \in Superseded : Old(k) = p
    BY <1>3, <1>7, <1>8, <2>3
  <2> QED
    BY <2>1, <2>2, <2>3 DEF Partition
<1> QED
  BY <1>9, <1>10, <1>11, <1>12, <1>13, <1>14, <1>15 DEF Partition

LEMMA ChainRollBack ==
    ASSUME TypeOK, AgeOrdered, ChainPrecise, RollBack
    PROVE  ChainPrecise'
<1> DEFINE last == size - 1
           a == Entry(last).dest_arch_reg
<1>1. /\ size \in Nat /\ size > 0 /\ size' = last /\ buffer[Previous(tail)] = Entry(last)
      /\ \A k \in 0 .. size - 2 : Entry(k)' = Entry(k)
      /\ commited_regmap' = commited_regmap /\ last \in Nat /\ last + 1 = size
  BY EntriesAfterRollBack DEF RollBack
<1>2. \A k \in Nat : Entries[k] = Entry(k) /\ Entries'[k] = Entry(k)'
  BY DEF Entries
<1>3. \A b : \A k \in 0 .. last :
         MapOf(Entries', commited_regmap, b, k) = MapOf(Entries, commited_regmap, b, k)
  <2> TAKE b
  <2> TAKE k \in 0 .. last
  <2>1. \A j \in 0 .. k - 1 : SameRegisters(Entries'[j], Entries[j])
    <3> TAKE j \in 0 .. k - 1
    <3>1. j \in 0 .. size - 2 /\ j \in Nat
      BY <1>1
    <3> QED
      BY <1>1, <1>2, <3>1 DEF SameRegisters
  <2> QED
    BY <1>1, <2>1, MapOfSame
<1>4. a \in Arch
  <2>1. Previous(tail) \in Slot
    BY RingStep DEF TypeOK
  <2> QED
    BY <1>1, <2>1 DEF TypeOK, ROBEntry
<1>5. \A b \in Arch : regmap'[b] = IF Writes(Entry(last), b) THEN Old(last) ELSE regmap[b]
  BY <1>1, <1>4 DEF RollBack, RollbackRename, Writes, Old, TypeOK
<1>6. Renamed(Entry(last)) => Old(last) = MapOf(Entries, commited_regmap, a, last)
  <2>1. last \in 0 .. size - 1
    BY <1>1
  <2> QED
    BY <2>1, SupersededEntries DEF ChainPrecise
<1> HIDE DEF last, a
<1>7. \A b \in Arch : regmap'[b] = MapOf(Entries', commited_regmap', b, size')
  <2> TAKE b \in Arch
  <2>1. regmap[b] = IF Writes(Entries[last], b) THEN Entries[last].dest_phys_reg
                                              ELSE MapOf(Entries, commited_regmap, b, last)
    BY <1>1, MapOfNext DEF ChainPrecise
  <2>2. Writes(Entry(last), b) => Renamed(Entry(last)) /\ b = a
    BY DEF Writes, a
  <2>3. regmap'[b] = MapOf(Entries, commited_regmap, b, last)
    BY <1>1, <1>2, <1>5, <1>6, <2>1, <2>2
  <2>4. last \in 0 .. last
    BY <1>1
  <2> QED
    BY <1>1, <1>3, <2>3, <2>4
<1>8. ASSUME NEW k \in Superseded'
      PROVE  Old(k)' = MapOf(Entries', commited_regmap', Entry(k)'.dest_arch_reg, k)
  <2>1. k \in 0 .. size' - 1 /\ Renamed(Entry(k)')
    BY <1>8 DEF Superseded, Entry
  <2>2. k \in 0 .. size - 2 /\ k \in 0 .. size - 1 /\ k \in 0 .. last
    BY <1>1, <2>1
  <2>3. Entry(k)' = Entry(k) /\ k \in Superseded
    BY <1>1, <2>1, <2>2, SupersededEntries
  <2>4. Old(k) = MapOf(Entries, commited_regmap, Entry(k).dest_arch_reg, k)
    BY <2>3 DEF ChainPrecise
  <2> QED
    BY <1>1, <1>3, <2>2, <2>3, <2>4 DEF Old
<1> QED
  BY <1>7, <1>8 DEF ChainPrecise

----------------------------------------------------------------------------
(* Steps that leave the list of renamed entries as it is, but for its      *)
(* position in the buffer.                                                 *)

LEMMA PartitionSame ==
    ASSUME TypeOK, Partition, UNCHANGED <<rename_pool, regmap>>,
           Superseded' = Superseded, \A k \in Superseded : Old(k)' = Old(k)
    PROVE  Partition'
<1>1. Pool' = Pool
  BY DEF Pool
<1> QED
  BY <1>1 DEF Partition

LEMMA PartitionCommitOther ==
    ASSUME TypeOK, Partition, Commit, ~Renamed(buffer[head])
    PROVE  Partition'
<1>1. /\ size \in Nat /\ size > 0 /\ size' = size - 1 /\ buffer[head] = Entry(0)
      /\ \A k \in 0 .. size - 2 : Entry(k)' = Entry(k + 1)
  BY EntriesAfterCommit
<1>2. rename_pool' = rename_pool /\ regmap' = regmap /\ Pool' = Pool
  BY DEF Commit, Pool
<1>3. /\ \A k \in Superseded' : k \in Nat /\ k + 1 \in Superseded /\ Old(k)' = Old(k + 1)
      /\ \A k \in Superseded : k - 1 \in Superseded' /\ Old(k - 1)' = Old(k)
  <2>1. Superseded' = {k \in 0 .. size' - 1 : Renamed(Entry(k)')}
    BY DEF Superseded, Entry
  <2>2. \A k \in 0 .. size' - 1 : k \in 0 .. size - 2 /\ k + 1 \in 0 .. size - 1
    BY <1>1
  <2>3. \A k \in 0 .. size - 1 : k # 0 => k - 1 \in 0 .. size' - 1 /\ (k - 1) + 1 = k
    BY <1>1
  <2>4. 0 \notin Superseded
    BY <1>1, SupersededEntries
  <2> QED
    BY <1>1, <2>1, <2>2, <2>3, <2>4, SupersededEntries DEF Old
<1>4. \A j, k \in Superseded' : Old(j)' = Old(k)' => j = k
  <2> TAKE j, k \in Superseded'
  <2>1. Old(j)' = Old(k)' => j + 1 = k + 1
    BY <1>3 DEF Partition
  <2> QED
    BY <1>3, <2>1
<1>5. \A i \in Pool', k \in Superseded' : rename_pool'[i] # Old(k)'
  BY <1>2, <1>3 DEF Partition
<1>6. \A a \in Arch, k \in Superseded' : regmap'[a] # Old(k)'
  BY <1>2, <1>3 DEF Partition
<1>7. \A p \in Phys : \/ \E i \in Pool' : rename_pool'[i] = p
                      \/ \E a \in Arch : regmap'[a] = p
                      \/ \E k \in Superseded' : Old(k)' = p
  <2> TAKE p \in Phys
  <2>1. CASE \E k \in Superseded : Old(k) = p
    BY <1>3, <2>1
  <2> QED
    BY <1>2, <2>1 DEF Partition
<1> QED
  BY <1>2, <1>4, <1>5, <1>6, <1>7 DEF Partition

LEMMA PartitionStep == TypeOK /\ AgeOrdered /\ Partition /\ ChainPrecise /\ [Next]_vars => Partition'
<1> SUFFICES ASSUME TypeOK, AgeOrdered, Partition, ChainPrecise, [Next]_vars PROVE Partition'
  OBVIOUS
<1>1. ASSUME NEW instr \in Instrs, Rename(instr) PROVE Partition'
  <2>1. CASE instr.reg_write /\ instr.dest_arch_reg # 0
    BY <1>1, <2>1, PartitionRename
  <2>2. CASE ~(instr.reg_write /\ instr.dest_arch_reg # 0)
    <3>1. ~Full /\ Insert(instr, 0, 0) /\ UNCHANGED <<rename_pool, regmap>>
      BY <1>1, <2>2 DEF Rename
    <3>2. /\ size \in Nat /\ size' = size + 1 /\ \A k \in 0 .. size - 1 : Entry(k)' = Entry(k)
          /\ \A k \in {size} : ~Renamed(Entry(k)')
      BY <3>1, EntriesAfterInsert DEF Renamed
    <3>3. Superseded' = {k \in 0 .. size' - 1 : Renamed(Entry(k)')}
      BY DEF Superseded, Entry
    <3>4. 0 .. size' - 1 = (0 .. size - 1) \cup {size}
      BY <3>2
    <3>5. Superseded' = Superseded /\ \A k \in Superseded : Old(k)' = Old(k)
      BY <3>2, <3>3, <3>4, SupersededEntries DEF Old
    <3> QED
      BY <3>1, <3>5, PartitionSame
  <2> QED
    BY <2>1, <2>2
<1>2. CASE Commit
  BY <1>2, PartitionCommit, PartitionCommitOther
<1>3. CASE RollBack
  <2>1. CASE Renamed(buffer[Previous(tail)])
    BY <1>3, <2>1, PartitionRollBack
  <2>2. CASE ~Renamed(buffer[Previous(tail)])
    <3>1. UNCHANGED <<rename_pool, regmap>>
      BY <1>3, <2>2 DEF RollBack
    <3>2. /\ size \in Nat /\ size > 0 /\ size' = size - 1 /\ ~Renamed(Entry(size - 1))
          /\ \A k \in 0 .. size - 2 : Entry(k)' = Entry(k)
      BY <1>3, <2>2, EntriesAfterRollBack
    <3>3. Superseded' = {k \in 0 .. size' - 1 : Renamed(Entry(k)')}
      BY DEF Superseded, Entry
    <3>4. 0 .. size' - 1 = 0 .. size - 2 /\ 0 .. size - 2 = (0 .. size - 1) \ {size - 1}
      BY <3>2
    <3>5. Superseded' = Superseded /\ \A k \in Superseded : Old(k)' = Old(k)
      BY <3>2, <3>3, <3>4, SupersededEntries DEF Old
    <3> QED
      BY <3>1, <3>5, PartitionSame
  <2> QED
    BY <2>1, <2>2
<1>4. CASE Quiet
  <2>1. /\ UNCHANGED <<size, regmap, rename_pool>>
        /\ \A k \in 0 .. size - 1 : SameRegisters(Entry(k)', Entry(k))
    BY <1>4, QuietStep
  <2>2. Superseded' = {k \in 0 .. size' - 1 : Renamed(Entry(k)')}
    BY DEF Superseded, Entry
  <2>3. Superseded' = Superseded /\ \A k \in Superseded : Old(k)' = Old(k)
    BY <2>1, <2>2, SupersededEntries DEF SameRegisters, Renamed, Old
  <2> QED
    BY <2>1, <2>3, PartitionSame
<1> QED
  BY <1>1, <1>2, <1>3, <1>4, NextCases

LEMMA ChainStep == TypeOK /\ AgeOrdered /\ Partition /\ ChainPrecise /\ [Next]_vars => ChainPrecise'
<1> SUFFICES ASSUME TypeOK, AgeOrdered, Partition, ChainPrecise, [Next]_vars PROVE ChainPrecise'
  OBVIOUS
<1>1. ASSUME NEW instr \in Instrs, Rename(instr) PROVE ChainPrecise'
  BY <1>1, ChainRename
<1>2. CASE Commit
  BY <1>2, ChainCommit
<1>3. CASE RollBack
  BY <1>3, ChainRollBack
<1>4. CASE Quiet
  <2>1. /\ UNCHANGED <<size, regmap, commited_regmap>>
        /\ \A k \in 0 .. size - 1 : SameRegisters(Entry(k)', Entry(k))
        /\ size \in Nat
    BY <1>4, QuietStep, SizesAssumption DEF TypeOK
  <2>2. \A k \in Nat : Entries[k] = Entry(k) /\ Entries'[k] = Entry(k)'
    BY DEF Entries
  <2>3. \A b : \A k \in 0 .. size :
           MapOf(Entries', commited_regmap, b, k) = MapOf(Entries, commited_regmap, b, k)
    <3> TAKE b
    <3> TAKE k \in 0 .. size
    <3>1. \A j \in 0 .. k - 1 : SameRegisters(Entries'[j], Entries[j])
      <4> TAKE j \in 0 .. k - 1
      <4>1. j \in 0 .. size - 1 /\ j \in Nat
        BY <2>1
      <4> QED
        BY <2>1, <2>2, <4>1
    <3> QED
      BY <2>1, <3>1, MapOfSame
  <2>4. Superseded' = Superseded /\ \A k \in Superseded : k \in 0 .. size
    <3>1. Superseded' = {k \in 0 .. size' - 1 : Renamed(Entry(k)')}
      BY DEF Superseded, Entry
    <3> QED
      BY <2>1, <3>1, SupersededEntries DEF SameRegisters, Renamed
  <2>5. \A k \in Superseded : Old(k)' = Old(k) /\ Entry(k)'.dest_arch_reg = Entry(k).dest_arch_reg
    BY <2>1, SupersededEntries DEF SameRegisters, Old
  <2>6. \A a \in Arch : regmap'[a] = MapOf(Entries', commited_regmap', a, size')
    <3>1. size \in 0 .. size
      BY <2>1
    <3> QED
      BY <2>1, <2>3, <3>1 DEF ChainPrecise
  <2>7. ASSUME NEW k \in Superseded'
        PROVE  Old(k)' = MapOf(Entries', commited_regmap', Entry(k)'.dest_arch_reg, k)
    BY <2>1, <2>3, <2>4, <2>5, <2>7 DEF ChainPrecise
  <2> QED
    BY <2>6, <2>7 DEF ChainPrecise
<1> QED
  BY <1>1, <1>2, <1>3, <1>4, NextCases

LEMMA RegistersInit == Init => Partition /\ ChainPrecise
<1> SUFFICES ASSUME Init PROVE Partition /\ ChainPrecise
  OBVIOUS
<1> DEFINE n == NUM_PHYSICAL_REGISTERS - NUM_ARCHITECTURAL_REGISTERS
<1>1. n \in Nat /\ NUM_ARCHITECTURAL_REGISTERS \in Nat /\ NUM_PHYSICAL_REGISTERS \in Nat
      /\ NUM_ARCHITECTURAL_REGISTERS + n = NUM_PHYSICAL_REGISTERS
  BY SizesAssumption
<1>2. /\ \A i \in 1 .. n : rename_pool[i] = NUM_ARCHITECTURAL_REGISTERS + i - 1
      /\ Pool = 1 .. n
  BY <1>1 DEF Init, Pool
<1>3. \A a \in Arch : regmap[a] = a /\ commited_regmap[a] = a
  BY DEF Init
<1>4. size = 0 /\ Superseded = {} /\ 0 .. 0 - 1 = {}
  BY DEF Init, Superseded
<1> HIDE DEF n
<1>5. Partition
  <2>1. \A i, j \in Pool : rename_pool[i] = rename_pool[j] => i = j
    BY <1>1, <1>2
  <2>2. \A i \in Pool, a \in Arch : rename_pool[i] # regmap[a]
    BY <1>1, <1>2, <1>3 DEF Arch
  <2>3. \A p \in Phys : \/ \E i \in Pool : rename_pool[i] = p
                        \/ \E a \in Arch : regmap[a] = p
    <3> TAKE p \in Phys
    <3>1. CASE p \in Arch
      BY <1>3, <3>1
    <3>2. CASE p \notin Arch
      <4>1. p - NUM_ARCHITECTURAL_REGISTERS + 1 \in 1 .. n
        BY <1>1, <3>2 DEF Arch, Phys
      <4>2. rename_pool[p - NUM_ARCHITECTURAL_REGISTERS + 1] = p
        BY <1>1, <1>2, <4>1 DEF Phys
      <4> QED
        BY <1>2, <4>1, <4>2
    <3> QED
      BY <3>1, <3>2
  <2> QED
    BY <1>3, <1>4, <2>1, <2>2, <2>3 DEF Partition
<1>6. \A a \in Arch : MapOf(Entries, commited_regmap, a, 0) = commited_regmap[a]
  BY <1>4, MapOfNone
<1>7. ChainPrecise
  BY <1>3, <1>4, <1>6 DEF ChainPrecise
<1> QED
  BY <1>5, <1>7

RegisterInvariant == Partition /\ ChainPrecise

\* No physical register is in two places or in none, and the chain of live
\* entries leads from the committed map to the speculative one.
THEOREM RegistersTracked == Spec => []RegisterInvariant
<1>1. Init => RegisterInvariant
  BY RegistersInit DEF RegisterInvariant
<1>2. TypeOK /\ AgeOrdered /\ RegisterInvariant /\ [Next]_vars => RegisterInvariant'
  BY PartitionStep, ChainStep DEF RegisterInvariant
<1> QED
  BY <1>1, <1>2, TypeCorrect, ReorderBufferAgeOrdered, PTL DEF Spec

----------------------------------------------------------------------------
(* What follows for the properties of RenameROB.                           *)

LEMMA ImageCardinality ==
    ASSUME NEW S, IsFiniteSet(S), NEW f, \A x, y \in S : f[x] = f[y] => x = y
    PROVE  /\ IsFiniteSet({f[x] : x \in S})
           /\ Cardinality({f[x] : x \in S}) = Cardinality(S)
<1> DEFINE T == {f[x] : x \in S}
           g == [x \in S |-> f[x]]
<1>1. g \in Surjection(S, T)
  BY DEF Surjection
<1>2. g \in Injection(S, T)
  BY DEF Injection, IsInjective
<1> HIDE DEF g
<1> QED
  BY <1>1, <1>2, FS_Surjection

Free == {rename_pool[i] : i \in DOMAIN rename_pool}
Mapped == {regmap[a] : a \in Arch}
Held == {Old(k) : k \in Superseded}

LEMMA PartitionCounts ==
    ASSUME TypeOK, Partition
    PROVE  /\ IsFiniteSet(Mapped) /\ IsFiniteSet(Held)
           /\ Cardinality(Free) = Len(rename_pool)
           /\ Cardinality(Mapped) = NUM_ARCHITECTURAL_REGISTERS
           /\ Cardinality(Held) = Cardinality(Superseded)
           /\ Cardinality(Superseded) \in Nat /\ Cardinality(Superseded) <= size
<1>1. rename_pool \in Seq(Phys) /\ DOMAIN rename_pool = Pool /\ Len(rename_pool) \in Nat
  BY DEF TypeOK, Pool
<1>2. Cardinality(Free) = Len(rename_pool)
  <2>1. IsFiniteSet(Pool) /\ Cardinality(Pool) = Len(rename_pool)
    BY <1>1, FS_Interval DEF Pool
  <2>2. \A i, j \in Pool : rename_pool[i] = rename_pool[j] => i = j
    BY DEF Partition
  <2>3. Free = {rename_pool[i] : i \in Pool}
    BY <1>1 DEF Free
  <2> QED
    BY <2>1, <2>2, <2>3, ImageCardinality
<1>3. IsFiniteSet(Mapped) /\ Cardinality(Mapped) = NUM_ARCHITECTURAL_REGISTERS
  <2>1. IsFiniteSet(Arch) /\ Cardinality(Arch) = NUM_ARCHITECTURAL_REGISTERS
    BY SizesAssumption, FS_Interval DEF Arch
  <2> QED
    BY <2>1, ImageCardinality DEF Mapped, Partition
<1>4. /\ IsFiniteSet(Superseded) /\ Cardinality(Superseded) \in Nat
      /\ Cardinality(Superseded) <= size
  <2>1. size \in Nat
    BY SizesAssumption DEF TypeOK
  <2>2. IsFiniteSet(0 .. size - 1) /\ Cardinality(0 .. size - 1) = size
    BY <2>1, FS_Interval
  <2>3. Superseded \in SUBSET (0 .. size - 1)
    BY DEF Superseded
  <2> QED
    BY <2>2, <2>3, FS_Subset, FS_CardinalityType
<1>5. IsFiniteSet(Held) /\ Cardinality(Held) = Cardinality(Superseded)
  <2> DEFINE f == [k \in Superseded |-> Old(k)]
  <2>1. Held = {f[k] : k \in Superseded}
    BY DEF Held
  <2>2. \A j, k \in Superseded : f[j] = f[k] => j = k
    BY DEF Partition
  <2> HIDE DEF f
  <2> QED
    BY <1>4, <2>1, <2>2, ImageCardinality
<1> QED
  BY <1>2, <1>3, <1>4, <1>5

LEMMA PartitionConserves == TypeOK /\ Partition => RegistersConserved
<1> SUFFICES ASSUME TypeOK, Partition PROVE RegistersConserved
  OBVIOUS
<1>1. DOMAIN rename_pool = Pool
  BY DEF TypeOK, Pool
<1>2. Free \cap Mapped = {} /\ Free \cap Held = {} /\ Mapped \cap Held = {}
  BY <1>1 DEF Partition, Free, Mapped, Held
<1>3. Phys \subseteq Free \cup Mapped \cup Held
  BY <1>1 DEF Partition, Free, Mapped, Held
<1>4. Free \subseteq Phys /\ Mapped \subseteq Phys
  BY <1>1 DEF TypeOK, Free, Mapped, Pool
<1>5. Held \subseteq Phys
  <2> SUFFICES ASSUME NEW k \in Superseded PROVE Old(k) \in Phys
    BY DEF Held
  <2>1. k \in 0 .. N
    BY SizesAssumption DEF Superseded, TypeOK, N
  <2>2. Nth(k) \in Slot
    BY <2>1, NthFacts
  <2> QED
    BY <2>2 DEF Old, Entry, TypeOK, ROBEntry
<1>6. Held = {buffer[Nth(k)].old_phys_reg : k \in Superseded}
  BY DEF Held, Old, Entry
<1> QED
  BY <1>2, <1>3, <1>4, <1>5, <1>6, PartitionCounts DEF RegistersConserved, Free, Mapped

\* The free list, the map and the registers that live entries will free share
\* out the physical registers, in every reachable state: assign_mapping,
\* reclaim and rollback_rename neither leak a register nor hand one out twice.
THEOREM NoRegisterLeaks == Spec => []RegistersConserved
<1>1. TypeOK /\ RegisterInvariant => RegistersConserved
  BY PartitionConserves DEF RegisterInvariant
<1> QED
  BY <1>1, TypeCorrect, RegistersTracked, PTL

LEMMA ChainIsPrecise == TypeOK /\ ChainPrecise => MapsPrecise
<1> SUFFICES ASSUME TypeOK, ChainPrecise PROVE MapsPrecise
  OBVIOUS
<1>1. size \in Nat /\ \A k \in Superseded : k \in Nat
  BY SizesAssumption DEF TypeOK, Superseded
<1>2. \A a \in Arch : regmap[a] = MappingAfter(a, size)
  BY <1>1, MappingAfterIsMapOf DEF ChainPrecise, MapsAreMapOf
<1>3. ASSUME NEW k \in Superseded
      PROVE  buffer[Nth(k)].old_phys_reg = MappingAfter(buffer[Nth(k)].dest_arch_reg, k)
  BY <1>1, MappingAfterIsMapOf DEF ChainPrecise, MapsAreMapOf, Old, Entry
<1> QED
  BY <1>2, <1>3 DEF MapsPrecise

\* The map that rename reads is what the live entries make of the committed
\* one, and undoing entries from the tail, to any depth, gives back the map of
\* that time: a squash recovers the state of its branch exactly.
THEOREM RecoveryIsPrecise == Spec => []MapsPrecise
<1>1. TypeOK /\ RegisterInvariant => MapsPrecise
  BY ChainIsPrecise DEF RegisterInvariant
<1> QED
  BY <1>1, TypeCorrect, RegistersTracked, PTL

LEMMA PartitionSuffices == TypeOK /\ Partition => FreeListSuffices
<1> SUFFICES ASSUME TypeOK, Partition, rename_pool = <<>>
             PROVE  size >= NUM_PHYSICAL_REGISTERS - NUM_ARCHITECTURAL_REGISTERS
  BY DEF FreeListSuffices
<1>1. Phys = Mapped \cup Held /\ Mapped \cap Held = {}
  <2>1. Free = {}
    BY DEF Free
  <2> QED
    BY <2>1, PartitionConserves DEF RegistersConserved, Free, Mapped, Held, Old, Entry
<1>2. Cardinality(Phys) = NUM_PHYSICAL_REGISTERS
  BY SizesAssumption, FS_Interval DEF Phys
<1>3. Cardinality(Phys) = Cardinality(Mapped) + Cardinality(Held)
  <2>1. IsFiniteSet(Mapped) /\ IsFiniteSet(Held)
    BY PartitionCounts
  <2>2. Cardinality(Mapped \cup Held)
          = Cardinality(Mapped) + Cardinality(Held) - Cardinality(Mapped \cap Held)
    BY <2>1, FS_Union
  <2>3. Cardinality(Mapped \cap Held) = 0
    BY <1>1, FS_EmptySet
  <2>4. Cardinality(Mapped) \in Nat /\ Cardinality(Held) \in Nat
    BY <2>1, FS_CardinalityType
  <2> QED
    BY <1>1, <2>2, <2>3, <2>4
<1> QED
  BY <1>2, <1>3, PartitionCounts, SizesAssumption DEF TypeOK

\* Rename finds no free register only when the entries in flight hold all the
\* registers beyond the architectural ones.
THEOREM FreeListIsLargeEnough == Spec => []FreeListSuffices
<1>1. TypeOK /\ RegisterInvariant => FreeListSuffices
  BY PartitionSuffices DEF RegisterInvariant
<1> QED
  BY <1>1, TypeCorrect, RegistersTracked, PTL
=============================================================================
