------------------------ MODULE RenameROBReadyProofs ------------------------
(***************************************************************************)
(* Proofs about RenameROB, continued: what the physical registers hold,    *)
(* and that the core implements in-order retirement.                       *)
(***************************************************************************)
EXTENDS RenameROBMapProofs, SequenceTheorems

Dest(k) == Entry(k).dest_phys_reg

\* The registers seen from the results' side: the free ones, those that a live
\* entry writes and the committed ones are all different.
Owned ==
    /\ \A j, k \in Superseded : Dest(j) = Dest(k) => j = k
    /\ \A a, b \in Arch : commited_regmap[a] = commited_regmap[b] => a = b
    /\ \A i \in Pool, k \in Superseded : rename_pool[i] # Dest(k)
    /\ \A i \in Pool, a \in Arch : rename_pool[i] # commited_regmap[a]
    /\ \A a \in Arch, k \in Superseded : commited_regmap[a] # Dest(k)

\* Architectural register 0 is never renamed, and an entry that renames nothing
\* carries the physical register 0.
RegisterZero ==
    /\ commited_regmap[0] = 0
    /\ \A k \in 0 .. size - 1 : IF Renamed(Entry(k)) THEN Entry(k).dest_arch_reg # 0
                                                    ELSE Dest(k) = 0

\* The instruction of an entry that renames a register writes it back.
WritesBack == \A p \in inflight : Renamed(buffer[p.rob_index]) => p.reg_write

----------------------------------------------------------------------------
(* What each operation does to the entries that rename a register.         *)

LEMMA EntryTypes ==
    ASSUME TypeOK
    PROVE  /\ size \in Nat /\ size \in 0 .. N
           /\ \A k \in 0 .. size - 1 : Nth(k) \in Slot /\ Entry(k) \in ROBEntry
           /\ \A k \in Superseded : k \in 0 .. size - 1 /\ Renamed(Entry(k))
<1>1. size \in Nat /\ size \in 0 .. N /\ \A k \in 0 .. size - 1 : k \in 0 .. N
  BY SizesAssumption DEF TypeOK, N
<1>2. \A k \in 0 .. size - 1 : Nth(k) \in Slot
  BY <1>1, NthFacts
<1> QED
  BY <1>1, <1>2, SupersededEntries DEF Entry, TypeOK

LEMMA RenameWrites ==
    ASSUME TypeOK, AgeOrdered, Partition, NEW instr \in Instrs, Rename(instr),
           instr.reg_write /\ instr.dest_arch_reg # 0
    PROVE  /\ 1 \in Pool /\ rename_pool[1] \in Phys
           /\ \A i \in Pool' : i + 1 \in Pool /\ i + 1 # 1 /\ rename_pool'[i] = rename_pool[i + 1]
           /\ R' = [R EXCEPT ![rename_pool[1]].ready = FALSE]
           /\ Superseded' = Superseded \cup {size} /\ size' = size + 1
           /\ \A k \in 0 .. size - 1 : Entry(k)' = Entry(k)
           /\ \A k \in {size} : /\ Entry(k)'.dest_phys_reg = rename_pool[1]
                                /\ Entry(k)'.old_phys_reg = regmap[instr.dest_arch_reg]
                                /\ Entry(k)'.dest_arch_reg = instr.dest_arch_reg
                                /\ Entry(k)'.seq = next_seq
                                /\ Renamed(Entry(k)')
                                /\ ~Entry(k)'.completed
<1> DEFINE a == instr.dest_arch_reg
           new == Head(rename_pool)
<1>1. /\ ~Full /\ rename_pool # <<>> /\ AssignMapping(a) /\ Insert(instr, new, regmap[a])
  BY DEF Rename
<1>2. a \in Arch /\ rename_pool \in Seq(Phys)
  BY InstrsAssumption DEF TypeOK
<1>3. /\ 1 \in Pool /\ rename_pool[1] = new /\ new \in Phys
      /\ \A i \in Pool' : i + 1 \in Pool /\ i + 1 # 1 /\ rename_pool'[i] = rename_pool[i + 1]
  BY <1>1, <1>2 DEF AssignMapping, Pool
<1>4. new # regmap[a]
  BY <1>2, <1>3 DEF Partition
<1>5. /\ size \in Nat /\ size' = size + 1 /\ \A k \in 0 .. size - 1 : Entry(k)' = Entry(k)
      /\ \A k \in {size} : /\ Entry(k)'.dest_phys_reg = new
                           /\ Entry(k)'.old_phys_reg = regmap[a]
                           /\ Entry(k)'.dest_arch_reg = a
                           /\ Entry(k)'.seq = next_seq
                           /\ Renamed(Entry(k)')
                           /\ ~Entry(k)'.completed
  BY <1>1, <1>4, EntriesAfterInsert DEF Renamed
<1>6. Superseded' = Superseded \cup {size}
  <2>1. Superseded' = {k \in 0 .. size' - 1 : Renamed(Entry(k)')}
    BY DEF Superseded, Entry
  <2>2. 0 .. size' - 1 = (0 .. size - 1) \cup {size}
    BY <1>5
  <2> QED
    BY <1>5, <2>1, <2>2, SupersededEntries
<1>7. R' = [R EXCEPT ![new].ready = FALSE]
  BY <1>1 DEF AssignMapping
<1> QED
  BY <1>3, <1>5, <1>6, <1>7

LEMMA RenameOther ==
    ASSUME TypeOK, AgeOrdered, NEW instr \in Instrs, Rename(instr),
           ~(instr.reg_write /\ instr.dest_arch_reg # 0)
    PROVE  /\ UNCHANGED <<rename_pool, regmap, R>>
           /\ Superseded' = Superseded /\ size' = size + 1
           /\ \A k \in 0 .. size - 1 : Entry(k)' = Entry(k)
           /\ \A k \in {size} : /\ Entry(k)'.dest_phys_reg = 0
                                /\ Entry(k)'.seq = next_seq
                                /\ ~Renamed(Entry(k)')
<1>1. ~Full /\ Insert(instr, 0, 0) /\ UNCHANGED <<rename_pool, regmap, R>>
  BY DEF Rename
<1>2. /\ size \in Nat /\ size' = size + 1 /\ \A k \in 0 .. size - 1 : Entry(k)' = Entry(k)
      /\ \A k \in {size} : /\ Entry(k)'.dest_phys_reg = 0
                           /\ Entry(k)'.seq = next_seq
                           /\ ~Renamed(Entry(k)')
  BY <1>1, EntriesAfterInsert DEF Renamed
<1>3. Superseded' = {k \in 0 .. size' - 1 : Renamed(Entry(k)')}
  BY DEF Superseded, Entry
<1>4. 0 .. size' - 1 = (0 .. size - 1) \cup {size}
  BY <1>2
<1> QED
  BY <1>1, <1>2, <1>3, <1>4, SupersededEntries

LEMMA CommitShifts ==
    ASSUME TypeOK, Commit
    PROVE  /\ size > 0 /\ size' = size - 1 /\ buffer[head] = Entry(0)
           /\ 0 \in Superseded <=> Renamed(Entry(0))
           /\ \A k \in 0 .. size' - 1 : k + 1 \in 0 .. size - 1 /\ Entry(k)' = Entry(k + 1)
           /\ \A k \in Superseded' : k + 1 \in Superseded /\ k + 1 # 0 /\ Entry(k)' = Entry(k + 1)
<1>1. /\ size \in Nat /\ size > 0 /\ size' = size - 1 /\ buffer[head] = Entry(0)
      /\ \A k \in 0 .. size - 2 : Entry(k)' = Entry(k + 1)
  BY EntriesAfterCommit
<1>2. Superseded' = {k \in 0 .. size' - 1 : Renamed(Entry(k)')}
  BY DEF Superseded, Entry
<1>3. \A k \in 0 .. size' - 1 : k \in 0 .. size - 2 /\ k + 1 \in 0 .. size - 1 /\ k + 1 # 0
  BY <1>1
<1>4. 0 \in 0 .. size - 1
  BY <1>1
<1> QED
  BY <1>1, <1>2, <1>3, <1>4, SupersededEntries

LEMMA RollBackDrops ==
    ASSUME TypeOK, AgeOrdered, RollBack
    PROVE  /\ size > 0 /\ size' = size - 1 /\ buffer[Previous(tail)] = Entry(size - 1)
           /\ size - 1 \in Superseded <=> Renamed(Entry(size - 1))
           /\ \A k \in 0 .. size' - 1 : k \in 0 .. size - 1 /\ k # size - 1 /\ Entry(k)' = Entry(k)
           /\ Superseded' = Superseded \ {size - 1}
<1>1. /\ size \in Nat /\ size > 0 /\ size' = size - 1 /\ buffer[Previous(tail)] = Entry(size - 1)
      /\ \A k \in 0 .. size - 2 : Entry(k)' = Entry(k)
  BY EntriesAfterRollBack
<1>2. Superseded' = {k \in 0 .. size' - 1 : Renamed(Entry(k)')}
  BY DEF Superseded, Entry
<1>3. 0 .. size' - 1 = 0 .. size - 2 /\ 0 .. size - 2 = (0 .. size - 1) \ {size - 1}
  BY <1>1
<1>4. size - 1 \in 0 .. size - 1
  BY <1>1
<1> QED
  BY <1>1, <1>2, <1>3, <1>4, SupersededEntries

LEMMA QuietKeeps ==
    ASSUME TypeOK, Quiet
    PROVE  /\ UNCHANGED <<size, head, tail, regmap, commited_regmap, rename_pool, Pool>>
           /\ Superseded' = Superseded
           /\ \A k \in 0 .. size - 1 : SameRegisters(Entry(k)', Entry(k))
           /\ \A k \in 0 .. size - 1 : Renamed(Entry(k)') <=> Renamed(Entry(k))
<1>1. /\ UNCHANGED <<size, head, tail, regmap, commited_regmap, rename_pool>>
      /\ \A k \in 0 .. size - 1 : SameRegisters(Entry(k)', Entry(k))
  BY QuietStep
<1>2. Superseded' = {k \in 0 .. size' - 1 : Renamed(Entry(k)')}
  BY DEF Superseded, Entry
<1>3. Pool' = Pool
  BY <1>1 DEF Pool
<1> QED
  BY <1>1, <1>2, <1>3, SupersededEntries DEF SameRegisters, Renamed

----------------------------------------------------------------------------
(* The three parts are preserved.                                          *)

\* The oldest entry supersedes what the committed map says.
LEMMA OldestSupersedesCommitted ==
    ASSUME TypeOK, ChainPrecise, 0 \in Superseded
    PROVE  /\ Entry(0).dest_arch_reg \in Arch
           /\ Old(0) = commited_regmap[Entry(0).dest_arch_reg]
<1>1. Entry(0) \in ROBEntry
  BY EntryTypes
<1>2. \A a : MapOf(Entries, commited_regmap, a, 0) = commited_regmap[a]
  <2>1. 0 .. 0 - 1 = {}
    OBVIOUS
  <2> QED
    BY <2>1, MapOfNone
<1> QED
  BY <1>1, <1>2 DEF ChainPrecise, ROBEntry

LEMMA OwnedStep ==
    TypeOK /\ AgeOrdered /\ RegisterInvariant /\ Owned /\ [Next]_vars => Owned'
<1> SUFFICES ASSUME TypeOK, AgeOrdered, Partition, ChainPrecise, Owned, [Next]_vars
             PROVE  Owned'
  BY DEF RegisterInvariant
<1>1. ASSUME NEW instr \in Instrs, Rename(instr) PROVE Owned'
  <2>0. commited_regmap' = commited_regmap
    BY <1>1 DEF Rename
  <2>1. CASE instr.reg_write /\ instr.dest_arch_reg # 0
    <3>1. /\ 1 \in Pool
          /\ \A i \in Pool' : i + 1 \in Pool /\ i + 1 # 1 /\ rename_pool'[i] = rename_pool[i + 1]
          /\ Superseded' = Superseded \cup {size}
          /\ \A k \in Superseded : Dest(k)' = Dest(k)
          /\ \A k \in {size} : Dest(k)' = rename_pool[1]
      BY <1>1, <2>1, RenameWrites, EntryTypes DEF Dest
    <3>2. \A j, k \in Superseded' : Dest(j)' = Dest(k)' => j = k
      BY <3>1 DEF Owned
    <3>3. \A i \in Pool', k \in Superseded' : rename_pool'[i] # Dest(k)'
      <4> TAKE i \in Pool', k \in Superseded'
      <4>1. CASE k \in Superseded
        BY <3>1, <4>1 DEF Owned
      <4>2. CASE k \in {size}
        <5>1. rename_pool[i + 1] # rename_pool[1]
          BY <3>1 DEF Partition
        <5> QED
          BY <3>1, <4>2, <5>1
      <4> QED
        BY <3>1, <4>1, <4>2
    <3>4. \A i \in Pool', a \in Arch : rename_pool'[i] # commited_regmap'[a]
      BY <2>0, <3>1 DEF Owned
    <3>5. \A a \in Arch, k \in Superseded' : commited_regmap'[a] # Dest(k)'
      BY <2>0, <3>1 DEF Owned
    <3> QED
      BY <2>0, <3>2, <3>3, <3>4, <3>5 DEF Owned
  <2>2. CASE ~(instr.reg_write /\ instr.dest_arch_reg # 0)
    <3>1. /\ rename_pool' = rename_pool /\ Superseded' = Superseded
          /\ \A k \in Superseded : Dest(k)' = Dest(k)
      BY <1>1, <2>2, RenameOther, EntryTypes DEF Dest
    <3>2. Pool' = Pool
      BY <3>1 DEF Pool
    <3> QED
      BY <2>0, <3>1, <3>2 DEF Owned
  <2> QED
    BY <2>1, <2>2
<1>2. CASE Commit
  <2>1. \A k \in Superseded' : k \in Nat /\ k + 1 \in Superseded /\ k + 1 # 0 /\ Dest(k)' = Dest(k + 1)
    BY <1>2, CommitShifts DEF Dest, Superseded
  <2>2. \A j, k \in Superseded' : Dest(j)' = Dest(k)' => j = k
    <3> TAKE j, k \in Superseded'
    <3>1. Dest(j)' = Dest(k)' => j + 1 = k + 1
      BY <2>1 DEF Owned
    <3> QED
      BY <2>1, <3>1
  <2>3. CASE Renamed(Entry(0))
    <3> DEFINE a == Entry(0).dest_arch_reg
               n == Len(rename_pool) + 1
    <3>1. 0 \in Superseded /\ buffer[head] = Entry(0)
      BY <1>2, <2>3, CommitShifts
    <3>2. a \in Arch /\ Old(0) = commited_regmap[a] /\ Old(0) \in Phys
      BY <3>1, OldestSupersedesCommitted DEF TypeOK
    <3>3. /\ rename_pool' = Append(rename_pool, Old(0))
          /\ commited_regmap' = [commited_regmap EXCEPT ![a] = Dest(0)]
      BY <1>2, <2>3, <3>1 DEF Commit, Retire, Old, Dest
    <3>4. /\ Pool' = Pool \cup {n}
          /\ \A i \in Pool : rename_pool'[i] = rename_pool[i]
          /\ rename_pool'[n] = commited_regmap[a]
      <4>1. rename_pool \in Seq(Phys)
        BY DEF TypeOK
      <4>2. /\ Len(rename_pool') = n /\ rename_pool'[n] = Old(0) /\ n \in Nat
            /\ \A i \in 1 .. Len(rename_pool) : rename_pool'[i] = rename_pool[i]
        BY <3>2, <3>3, <4>1
      <4> QED
        BY <3>2, <4>1, <4>2 DEF Pool
    <3>5. \A b \in Arch : commited_regmap'[b] = IF b = a THEN Dest(0) ELSE commited_regmap[b]
      BY <3>2, <3>3 DEF TypeOK
    <3> HIDE DEF a, n
    <3>6. \A b, c \in Arch : commited_regmap'[b] = commited_regmap'[c] => b = c
      BY <3>1, <3>5 DEF Owned
    <3>7. \A i \in Pool', k \in Superseded' : rename_pool'[i] # Dest(k)'
      BY <2>1, <3>2, <3>4 DEF Owned
    <3>8. \A i \in Pool', b \in Arch : rename_pool'[i] # commited_regmap'[b]
      <4> TAKE i \in Pool', b \in Arch
      <4>1. CASE i \in Pool
        BY <3>1, <3>4, <3>5, <4>1 DEF Owned
      <4>2. CASE i = n
        BY <3>1, <3>2, <3>4, <3>5, <4>2 DEF Owned
      <4> QED
        BY <3>4, <4>1, <4>2
    <3>9. \A b \in Arch, k \in Superseded' : commited_regmap'[b] # Dest(k)'
      BY <2>1, <3>1, <3>5 DEF Owned
    <3> QED
      BY <2>2, <3>6, <3>7, <3>8, <3>9 DEF Owned
  <2>4. CASE ~Renamed(Entry(0))
    <3>1. UNCHANGED <<rename_pool, commited_regmap, Pool>>
      BY <1>2, <2>4, CommitShifts DEF Commit, Pool
    <3> QED
      BY <2>1, <2>2, <3>1 DEF Owned
  <2> QED
    BY <2>3, <2>4
<1>3. CASE RollBack
  <2> DEFINE last == size - 1
  <2>1. /\ commited_regmap' = commited_regmap
        /\ Superseded' = Superseded \ {last}
        /\ \A k \in Superseded' : Dest(k)' = Dest(k)
        /\ last \in Superseded <=> Renamed(Entry(last))
        /\ buffer[Previous(tail)] = Entry(last)
    <3>1. \A k \in Superseded' : k \in 0 .. size' - 1
      BY DEF Superseded
    <3> QED
      BY <1>3, <3>1, RollBackDrops DEF RollBack, Dest
  <2>2. CASE Renamed(Entry(last))
    <3>1. rename_pool' = <<Dest(last)>> \o rename_pool /\ last \in Superseded
      BY <1>3, <2>1, <2>2 DEF RollBack, RollbackRename, Dest
    <3>2. Dest(last) \in Phys
      BY <3>1, EntryTypes DEF Dest, ROBEntry
    <3>3. /\ rename_pool'[1] = Dest(last)
          /\ \A i \in Pool' : i # 1 => i - 1 \in Pool /\ rename_pool'[i] = rename_pool[i - 1]
      BY <3>1, <3>2 DEF Pool, TypeOK
    <3> HIDE DEF last
    <3>4. \A i \in Pool', k \in Superseded' : rename_pool'[i] # Dest(k)'
      <4> TAKE i \in Pool', k \in Superseded'
      <4>1. CASE i = 1
        BY <2>1, <3>1, <3>3, <4>1 DEF Owned
      <4>2. CASE i # 1
        BY <2>1, <3>3, <4>2 DEF Owned
      <4> QED
        BY <4>1, <4>2
    <3>5. \A i \in Pool', a \in Arch : rename_pool'[i] # commited_regmap'[a]
      <4> TAKE i \in Pool', a \in Arch
      <4>1. CASE i = 1
        BY <2>1, <3>1, <3>3, <4>1 DEF Owned
      <4>2. CASE i # 1
        BY <2>1, <3>3, <4>2 DEF Owned
      <4> QED
        BY <4>1, <4>2
    <3> QED
      BY <2>1, <3>4, <3>5 DEF Owned
  <2>3. CASE ~Renamed(Entry(last))
    <3>1. UNCHANGED <<rename_pool, Pool>>
      BY <1>3, <2>1, <2>3 DEF RollBack, Pool
    <3> QED
      BY <2>1, <3>1 DEF Owned
  <2> QED
    BY <2>2, <2>3
<1>4. CASE Quiet
  <2>1. /\ UNCHANGED <<commited_regmap, rename_pool, Pool, Superseded>>
        /\ \A k \in Superseded : Dest(k)' = Dest(k)
    BY <1>4, QuietKeeps, EntryTypes DEF SameRegisters, Dest
  <2> QED
    BY <2>1 DEF Owned
<1> QED
  BY <1>1, <1>2, <1>3, <1>4, NextCases

LEMMA RegisterZeroStep ==
    TypeOK /\ AgeOrdered /\ RegisterInvariant /\ RegisterZero /\ [Next]_vars => RegisterZero'
<1> SUFFICES ASSUME TypeOK, AgeOrdered, Partition, ChainPrecise, RegisterZero, [Next]_vars
             PROVE  RegisterZero'
  BY DEF RegisterInvariant
<1>1. ASSUME NEW instr \in Instrs, Rename(instr) PROVE RegisterZero'
  <2>0. commited_regmap' = commited_regmap /\ size \in Nat
    BY <1>1, EntryTypes DEF Rename
  <2>1. /\ size' = size + 1
        /\ \A k \in 0 .. size - 1 : Entry(k)' = Entry(k)
        /\ \A k \in {size} : IF Renamed(Entry(k)') THEN Entry(k)'.dest_arch_reg # 0
                                                   ELSE Dest(k)' = 0
    BY <1>1, RenameWrites, RenameOther DEF Dest
  <2>2. 0 .. size' - 1 = (0 .. size - 1) \cup {size}
    BY <2>0, <2>1
  <2>3. \A k \in 0 .. size' - 1 : IF Renamed(Entry(k)') THEN Entry(k)'.dest_arch_reg # 0
                                                        ELSE Dest(k)' = 0
    BY <2>1, <2>2 DEF RegisterZero, Dest
  <2> QED
    BY <2>0, <2>3 DEF RegisterZero, Renamed
<1>2. CASE Commit
  <2>1. \A k \in 0 .. size' - 1 : k + 1 \in 0 .. size - 1 /\ Entry(k)' = Entry(k + 1)
    BY <1>2, CommitShifts
  <2>2. \A k \in 0 .. size' - 1 : IF Renamed(Entry(k)') THEN Entry(k)'.dest_arch_reg # 0
                                                        ELSE Dest(k)' = 0
    BY <2>1 DEF RegisterZero, Dest
  <2>3. commited_regmap'[0] = commited_regmap[0]
    <3>1. Renamed(Entry(0)) => Entry(0).dest_arch_reg # 0
      BY <1>2, CommitShifts DEF RegisterZero, Superseded
    <3>2. commited_regmap' =
            IF Renamed(Entry(0))
              THEN [commited_regmap EXCEPT ![Entry(0).dest_arch_reg] = Dest(0)]
              ELSE commited_regmap
      BY <1>2, CommitShifts DEF Commit, Retire, Dest
    <3>3. 0 \in Arch /\ commited_regmap \in [Arch -> Phys]
      BY SizesAssumption DEF Arch, TypeOK
    <3> QED
      BY <3>1, <3>2, <3>3
  <2> QED
    BY <2>2, <2>3 DEF RegisterZero, Renamed
<1>3. CASE RollBack
  <2>1. \A k \in 0 .. size' - 1 : k \in 0 .. size - 1 /\ Entry(k)' = Entry(k)
    BY <1>3, RollBackDrops
  <2>2. \A k \in 0 .. size' - 1 : IF Renamed(Entry(k)') THEN Entry(k)'.dest_arch_reg # 0
                                                        ELSE Dest(k)' = 0
    BY <2>1 DEF RegisterZero, Dest
  <2> QED
    BY <1>3, <2>2 DEF RegisterZero, Renamed, RollBack
<1>4. CASE Quiet
  <2>1. UNCHANGED <<size, commited_regmap>>
    BY <1>4, QuietKeeps
  <2>2. \A k \in 0 .. size' - 1 : IF Renamed(Entry(k)') THEN Entry(k)'.dest_arch_reg # 0
                                                        ELSE Dest(k)' = 0
    BY <1>4, <2>1, QuietKeeps DEF RegisterZero, Dest, SameRegisters
  <2> QED
    BY <2>1, <2>2 DEF RegisterZero, Renamed
<1> QED
  BY <1>1, <1>2, <1>3, <1>4, NextCases

LEMMA WritesBackStep ==
    TypeOK /\ AgeOrdered /\ Partition /\ InflightNamesLiveEntry /\ WritesBack /\ [Next]_vars
      => WritesBack'
<1> SUFFICES ASSUME TypeOK, AgeOrdered, Partition, InflightNamesLiveEntry, WritesBack, [Next]_vars
             PROVE  WritesBack'
  OBVIOUS
<1>1. ASSUME NEW instr \in Instrs, Rename(instr) PROVE WritesBack'
  <2> DEFINE writes == instr.reg_write /\ instr.dest_arch_reg # 0
             new == IF writes THEN Head(rename_pool) ELSE 0
             old == IF writes THEN regmap[instr.dest_arch_reg] ELSE 0
  <2>1. ~Full /\ Insert(instr, new, old)
    BY <1>1 DEF Rename
  <2>2. size' = size + 1 /\ head' = head /\ tail \in Slot
    BY <2>1 DEF Insert, TypeOK
  <2>3. \A p \in inflight : p.rob_index # tail /\ p.rob_index \in Slot
    BY <2>1, <2>2, LiveAfterRename DEF InflightNamesLiveEntry, TypeOK, Reference
  <2>4. new # old => instr.reg_write
    OBVIOUS
  <2>5. /\ \A i \in Slot : i # tail => buffer'[i] = buffer[i]
        /\ buffer'[tail].dest_phys_reg = new /\ buffer'[tail].old_phys_reg = old
    BY <2>1, <2>2 DEF Insert, TypeOK
  <2>6. \A p \in inflight' : \/ p \in inflight
                             \/ p.rob_index = tail /\ p.reg_write = instr.reg_write
    BY <2>1 DEF Insert
  <2> HIDE DEF new, old
  <2> QED
    BY <2>3, <2>4, <2>5, <2>6 DEF WritesBack, Renamed
<1>2. ASSUME inflight' \subseteq inflight, buffer' = buffer PROVE WritesBack'
  BY <1>2 DEF WritesBack, Renamed
<1>3. ASSUME NEW p \in inflight, NEW writes, Complete(p, writes) PROVE WritesBack'
  <2>1. \A i \in Slot : Renamed(buffer'[i]) <=> Renamed(buffer[i])
    BY <1>3 DEF Complete, Renamed, TypeOK, ROBEntry
  <2>2. inflight' \subseteq inflight /\ \A q \in inflight : q.rob_index \in Slot
    BY <1>3 DEF Complete, TypeOK, Reference
  <2> QED
    BY <2>1, <2>2 DEF WritesBack
<1>4. ASSUME NEW p \in inflight, Execute(p) PROVE WritesBack'
  <2>1. buffer' = buffer
    BY <1>4 DEF Execute, robVars
  <2>2. PICK s \in {"result", "mshr"} : MoveTo(p, s)
    BY <1>4 DEF Execute
  <2>3. /\ [p EXCEPT !.stage = s].rob_index = p.rob_index
        /\ [p EXCEPT !.stage = s].reg_write = p.reg_write
    BY DEF TypeOK, Reference
  <2> QED
    BY <2>1, <2>2, <2>3 DEF WritesBack, MoveTo, Renamed
<1>5. ASSUME NEW p \in inflight, Writeback(p) \/ MemoryResponse(p) PROVE WritesBack'
  BY <1>3, <1>5 DEF Writeback, MemoryResponse
<1>6. ASSUME NEW s \in committed_stores, NEW smc \in BOOLEAN, DrainStore(s, smc) PROVE WritesBack'
  BY <1>2, <1>6 DEF DrainStore, robVars
<1>7. CASE Commit \/ RollBack
  BY <1>2, <1>7 DEF Commit, RollBack
<1>8. CASE SquashQueues \/ SquashDone \/ Halted \/ UNCHANGED vars
  BY <1>2, <1>8 DEF SquashQueues, SquashDone, Halted, vars, robVars
<1> QED
  BY <1>1, <1>4, <1>5, <1>6, <1>7, <1>8 DEF Next

LEMMA ReadyStep ==
    TypeOK /\ AgeOrdered /\ InflightNamesLiveEntry /\ RegisterInvariant /\ Owned /\ RegisterZero
      /\ WritesBack /\ ReadyMeansProduced /\ [Next]_vars => ReadyMeansProduced'
<1> SUFFICES ASSUME TypeOK, AgeOrdered, InflightNamesLiveEntry, Partition, ChainPrecise, Owned,
                    RegisterZero, WritesBack, ReadyMeansProduced, [Next]_vars
             PROVE  ReadyMeansProduced'
  BY DEF RegisterInvariant
<1> DEFINE Produced(k) == /\ R[Dest(k)].ready = Entry(k).completed
                          /\ Entry(k).completed => R[Dest(k)].value = Entry(k).seq
<1>0. /\ \A k \in Superseded : Produced(k) /\ Entry(k) \in ROBEntry /\ Dest(k) \in Phys
      /\ \A a \in Arch : R[commited_regmap[a]].ready /\ commited_regmap[a] \in Phys
  BY EntryTypes DEF ReadyMeansProduced, Dest, Entry, ROBEntry, TypeOK
<1>a. ASSUME \A k \in Superseded' : Produced(k)',
             \A a \in Arch : R'[commited_regmap'[a]].ready
      PROVE  ReadyMeansProduced'
  BY <1>a DEF ReadyMeansProduced, Dest, Entry
<1>1. ASSUME NEW instr \in Instrs, Rename(instr) PROVE ReadyMeansProduced'
  <2>0. commited_regmap' = commited_regmap
    BY <1>1 DEF Rename
  <2>1. CASE instr.reg_write /\ instr.dest_arch_reg # 0
    <3> DEFINE new == rename_pool[1]
    <3>1. /\ 1 \in Pool /\ new \in Phys
          /\ R' = [R EXCEPT ![new].ready = FALSE]
          /\ Superseded' = Superseded \cup {size}
          /\ \A k \in Superseded : Entry(k)' = Entry(k) /\ Dest(k)' = Dest(k)
          /\ \A k \in {size} : Dest(k)' = new /\ ~Entry(k)'.completed
                               /\ Entry(k)'.completed = FALSE
      <4>1. \A k \in {size} : Entry(k)'.completed = FALSE
        BY <1>1, <2>1, EntriesAfterInsert DEF Rename
      <4> QED
        BY <1>1, <2>1, <4>1, RenameWrites, EntryTypes DEF Dest
    <3>2. /\ \A p \in Phys : p # new => R'[p] = R[p]
          /\ R'[new].ready = FALSE
      BY <3>1 DEF TypeOK
    <3> HIDE DEF new
    <3>3. \A k \in Superseded : Dest(k) # new
      BY <3>1 DEF Owned, new
    <3>4. \A a \in Arch : commited_regmap[a] # new
      BY <3>1 DEF Owned, new
    <3>5. ASSUME NEW k \in Superseded' PROVE Produced(k)'
      <4>1. CASE k \in Superseded
        BY ZenonT(30), <1>0, <3>1, <3>2, <3>3, <4>1
      <4>2. CASE k \in {size}
        BY <3>1, <3>2, <4>2
      <4> QED
        BY <3>1, <4>1, <4>2
    <3>6. \A a \in Arch : R'[commited_regmap'[a]].ready
      BY <1>0, <2>0, <3>2, <3>4
    <3> HIDE DEF Produced
    <3> QED
      BY <1>a, <3>5, <3>6
  <2>2. CASE ~(instr.reg_write /\ instr.dest_arch_reg # 0)
    <3>1. /\ R' = R /\ Superseded' = Superseded
          /\ \A k \in Superseded : Entry(k)' = Entry(k) /\ Dest(k)' = Dest(k)
      BY <1>1, <2>2, RenameOther, EntryTypes DEF Dest
    <3> QED
      BY <1>0, <1>a, <2>0, <3>1
  <2> QED
    BY <2>1, <2>2
<1>2. CASE Commit
  <2>1. /\ \A k \in Superseded' : /\ k + 1 \in Superseded /\ Entry(k)' = Entry(k + 1)
                                  /\ Dest(k)' = Dest(k + 1)
        /\ R' = R
    BY <1>2, CommitShifts DEF Dest, Commit
  <2>2. \A k \in Superseded' : Produced(k)'
    BY <1>0, <2>1
  <2>3. CASE Renamed(Entry(0))
    <3>1. 0 \in Superseded /\ Entry(0).completed
      BY <1>2, <2>3, CommitShifts DEF Commit, HeadCompleted
    <3>2. commited_regmap' = [commited_regmap EXCEPT ![Entry(0).dest_arch_reg] = Dest(0)]
      BY <1>2, <2>3, CommitShifts DEF Commit, Retire, Dest
    <3>3. R[Dest(0)].ready
      BY <1>0, <3>1
    <3>4. \A a \in Arch : commited_regmap'[a] = commited_regmap[a] \/ commited_regmap'[a] = Dest(0)
      BY <3>2 DEF TypeOK
    <3> HIDE DEF Produced
    <3> QED
      BY <1>0, <1>a, <2>1, <2>2, <3>3, <3>4
  <2>4. CASE ~Renamed(Entry(0))
    <3>1. commited_regmap' = commited_regmap
      BY <1>2, <2>4, CommitShifts DEF Commit
    <3> HIDE DEF Produced
    <3> QED
      BY <1>0, <1>a, <2>1, <2>2, <3>1
  <2> QED
    BY <2>3, <2>4
<1>3. CASE RollBack
  <2>1. /\ \A k \in Superseded' : /\ k \in Superseded /\ Entry(k)' = Entry(k)
                                  /\ Dest(k)' = Dest(k)
        /\ R' = R /\ commited_regmap' = commited_regmap
    <3>1. \A k \in Superseded' : k \in 0 .. size' - 1
      BY DEF Superseded
    <3> QED
      BY <1>3, <3>1, RollBackDrops DEF Dest, RollBack
  <2> QED
    BY <1>0, <1>a, <2>1
<1>4. ASSUME UNCHANGED <<robVars, prfVars>> PROVE ReadyMeansProduced'
  BY <1>4 DEF ReadyMeansProduced, Superseded, Nth, robVars, prfVars, Renamed
<1>5. ASSUME NEW p \in inflight,
             Complete(p, TRUE) \/ Complete(p, p.reg_write /\ p.rd # 0)
      PROVE  ReadyMeansProduced'
  <2>1. p \in Reference /\ p.rob_index \in Slot /\ p.rd \in Phys
    BY DEF TypeOK, Reference
  <2>2. PICK n \in 0 .. size - 1 : p.rob_index = Nth(n)
    BY DEF InflightNamesLiveEntry, Live
  <2>3. Entry(n).seq = p.seq /\ Dest(n) = p.rd /\ ~Entry(n).completed
    BY <2>2 DEF InflightNamesLiveEntry, Dest, Entry
  <2>4. /\ UNCHANGED <<size, head, commited_regmap>>
        /\ buffer' = [buffer EXCEPT ![p.rob_index].completed = TRUE]
    BY <1>5 DEF Complete
  <2>5. /\ Superseded' = Superseded
        /\ \A k \in Superseded : /\ k # n => Entry(k)' = Entry(k)
                                 /\ Entry(k)'.seq = Entry(k).seq /\ Dest(k)' = Dest(k)
        /\ n \in Superseded => Entry(n)'.completed = TRUE
    <3>1. \A k : Nth(k)' = Nth(k)
      BY <2>4 DEF Nth
    <3>2. \A k \in 0 .. size - 1 : Nth(k) \in Slot /\ (k # n => Nth(k) # Nth(n))
      <4>1. \A k \in 0 .. size - 1 : k \in 0 .. N - 1
        BY SizesAssumption DEF TypeOK, N
      <4> QED
        BY <4>1, <2>2, EntryTypes, NthFacts
    <3>3. \A i \in Slot : /\ i # p.rob_index => buffer'[i] = buffer[i]
                          /\ buffer'[i].seq = buffer[i].seq
                          /\ SameRegisters(buffer'[i], buffer[i])
      BY <2>1, <2>4 DEF TypeOK, ROBEntry, SameRegisters
    <3>4. buffer'[p.rob_index].completed = TRUE
      BY <2>1, <2>4 DEF TypeOK, ROBEntry
    <3>5. Superseded' = Superseded
      BY <2>4, <3>1, <3>2, <3>3 DEF Superseded, Renamed, SameRegisters
    <3> QED
      BY <2>2, <3>1, <3>2, <3>3, <3>4, <3>5, EntryTypes DEF Entry, Dest, SameRegisters
  <2>6. \A k \in Superseded : Dest(k) # 0
    <3>1. 0 \in Arch /\ commited_regmap[0] = 0
      BY SizesAssumption DEF Arch, RegisterZero
    <3> QED
      BY <3>1 DEF Owned
  <2>7. n \in Superseded => p.reg_write /\ p.rd # 0
    <3>1. n \in Superseded => Renamed(buffer[p.rob_index])
      BY <2>2 DEF Superseded
    <3> QED
      BY <2>3, <2>6, <3>1 DEF WritesBack
  <2>8. \A q \in Phys : \/ R'[q] = R[q] /\ (q = p.rd => n \notin Superseded)
                        \/ q = p.rd /\ R'[q] = [value |-> p.seq, ready |-> TRUE]
    BY <1>5, <2>1, <2>7 DEF Complete, TypeOK
  <2>9. ASSUME NEW k \in Superseded' PROVE Produced(k)'
    <3>1. k \in Superseded
      BY <2>5
    <3>2. CASE k = n
      <4>1. R'[Dest(k)] = [value |-> p.seq, ready |-> TRUE]
        BY <1>0, <2>3, <2>8, <3>1, <3>2
      <4>2. /\ Entry(k)'.completed = TRUE /\ Entry(k)'.seq = p.seq
            /\ Dest(k)' = Dest(k)
        BY <2>3, <2>5, <3>1, <3>2
      <4>3. R'[Dest(k)'].ready = TRUE /\ R'[Dest(k)'].value = p.seq
        BY <4>1, <4>2
      <4> QED
        BY <4>2, <4>3
    <3>3. CASE k # n
      <4>1. Dest(k) # p.rd
        <5>1. CASE n \in Superseded
          BY <2>3, <3>1, <3>3, <5>1 DEF Owned
        <5>2. CASE n \notin Superseded
          BY <2>2, <2>3, <2>6, <3>1, <5>2, SupersededEntries DEF RegisterZero
        <5> QED
          BY <5>1, <5>2
      <4>2. R'[Dest(k)] = R[Dest(k)]
        BY <1>0, <2>8, <3>1, <4>1
      <4> QED
        BY <1>0, <2>5, <3>1, <3>3, <4>2
    <3> QED
      BY <3>2, <3>3
  <2>10. \A a \in Arch : R'[commited_regmap'[a]].ready
    BY <1>0, <2>4, <2>8
  <2> HIDE DEF Produced
  <2> QED
    BY <1>a, <2>9, <2>10
<1>6. ASSUME NEW p \in inflight, Execute(p) \/ Writeback(p) \/ MemoryResponse(p)
      PROVE  ReadyMeansProduced'
  BY <1>4, <1>5, <1>6 DEF Execute, Writeback, MemoryResponse
<1>7. ASSUME NEW s \in committed_stores, NEW smc \in BOOLEAN, DrainStore(s, smc)
      PROVE  ReadyMeansProduced'
  BY <1>4, <1>7 DEF DrainStore
<1>8. CASE SquashQueues \/ SquashDone \/ Halted \/ UNCHANGED vars
  BY <1>4, <1>8 DEF SquashQueues, SquashDone, Halted, vars
<1> QED
  BY <1>1, <1>2, <1>3, <1>6, <1>7, <1>8 DEF Next

ReadyInvariant == Owned /\ RegisterZero /\ WritesBack /\ ReadyMeansProduced

LEMMA ReadyInit == Init => ReadyInvariant
<1> SUFFICES ASSUME Init PROVE ReadyInvariant
  OBVIOUS
<1>1. Superseded = {} /\ size = 0 /\ 0 .. size - 1 = {} /\ inflight = {}
  BY DEF Init, Superseded
<1>2. \A a \in Arch : commited_regmap[a] = a /\ regmap[a] = a
  BY DEF Init
<1>3. 0 \in Arch /\ Arch \subseteq Phys
  BY SizesAssumption DEF Arch, Phys
<1>4. \A p \in Phys : R[p].ready
  BY DEF Init
<1>5. Owned
  BY <1>1, <1>2, RegistersInit DEF Owned, Partition
<1>6. RegisterZero /\ WritesBack
  BY <1>1, <1>2, <1>3 DEF RegisterZero, WritesBack
<1>7. ReadyMeansProduced
  BY <1>1, <1>2, <1>3, <1>4 DEF ReadyMeansProduced
<1> QED
  BY <1>5, <1>6, <1>7 DEF ReadyInvariant

\* What a register holds is known from the entry or the map that owns it.
THEOREM RegistersOwned == Spec => []ReadyInvariant
<1>1. Init => ReadyInvariant
  BY ReadyInit
<1>2. TypeOK /\ AgeOrdered /\ InflightNamesLiveEntry /\ RegisterInvariant
        /\ ReadyInvariant /\ [Next]_vars => ReadyInvariant'
  BY OwnedStep, RegisterZeroStep, WritesBackStep, ReadyStep DEF ReadyInvariant, RegisterInvariant
<1> QED
  BY <1>1, <1>2, TypeCorrect, ReorderBufferAgeOrdered, NoStaleReference, RegistersTracked, PTL
     DEF Spec

\* A consumer that finds the ready bit of its operand set reads the result of
\* the instruction it was renamed to, in every reachable state: however
\* registers were freed, squashed and handed out again in between.
THEOREM ReadyBitsAreTrue == Spec => []ReadyMeansProduced
<1>1. ReadyInvariant => ReadyMeansProduced
  BY DEF ReadyInvariant
<1> QED
  BY <1>1, RegistersOwned, PTL

----------------------------------------------------------------------------
(* Squashing removes what is younger, and only that.                       *)

SquashedStores == squashing => \A s \in committed_stores : s <= squash_seq

LEMMA SquashedStoresStep ==
    InflightNamesLiveEntry /\ SquashedStores /\ [Next]_vars => SquashedStores'
<1> SUFFICES ASSUME InflightNamesLiveEntry, SquashedStores, [Next]_vars PROVE SquashedStores'
  OBVIOUS
<1>1. ASSUME NEW instr \in Instrs, Rename(instr) PROVE SquashedStores'
  BY <1>1 DEF Rename, SquashedStores, squashVars
<1>2. ASSUME NEW p \in inflight, Execute(p) PROVE SquashedStores'
  BY <1>2 DEF Execute, RequestSquash, SquashedStores, squashVars
<1>3. ASSUME NEW p \in inflight, Writeback(p) \/ MemoryResponse(p) PROVE SquashedStores'
  BY <1>3 DEF Writeback, MemoryResponse, Complete, SquashedStores, squashVars
<1>4. CASE Commit
  BY <1>4 DEF Commit, InflightNamesLiveEntry, SquashedStores, squashVars
<1>5. ASSUME NEW s \in committed_stores, NEW smc \in BOOLEAN, DrainStore(s, smc)
      PROVE  SquashedStores'
  BY <1>5 DEF DrainStore, RequestSquash, SquashedStores, squashVars
<1>6. CASE SquashQueues
  BY <1>6 DEF SquashQueues, SquashedStores
<1>7. CASE RollBack
  BY <1>7 DEF RollBack, SquashedStores, squashVars
<1>8. CASE SquashDone
  BY <1>8 DEF SquashDone, SquashedStores
<1>9. CASE Halted \/ UNCHANGED vars
  BY <1>9 DEF Halted, vars, SquashedStores, squashVars
<1> QED
  BY <1>1, <1>2, <1>3, <1>4, <1>5, <1>6, <1>7, <1>8, <1>9 DEF Next

LEMMA NothingYoungerLeft ==
    ASSUME TypeOK, AgeOrdered, InflightNamesLiveEntry, SquashedStores, SquashDone
    PROVE  /\ \A i \in Live : buffer[i].seq <= squash_seq
           /\ \A p \in inflight : p.seq <= squash_seq
           /\ \A s \in committed_stores : s <= squash_seq
<1>1. \A i \in Live : buffer[i].seq <= squash_seq
  <2> SUFFICES ASSUME NEW k \in 0 .. size - 1 PROVE buffer[Nth(k)].seq <= squash_seq
    BY DEF Live
  <2> DEFINE last == size - 1
  <2>1. size \in 1 .. N /\ last \in 0 .. size - 1 /\ N \in Nat \ {0} /\ squash_seq \in Nat
    BY SizesAssumption DEF TypeOK, N
  <2>2. Previous(tail) = Nth(last)
    <3>1. tail = Nth(size)
      BY DEF AgeOrdered, Nth
    <3> QED
      BY <2>1, <3>1, NthFacts
  <2>3. /\ \A j \in 0 .. size - 1 : buffer[Nth(j)].seq \in Nat
        /\ ~(buffer[Nth(last)].seq > squash_seq)
    BY <2>1, <2>2, EntryTypes DEF SquashDone, OnWrongPath, ROBEntry, Entry
  <2>4. k # last => buffer[Nth(k)].seq < buffer[Nth(last)].seq
    <3>1. k # last => k < last
      BY <2>1
    <3> QED
      BY <2>1, <3>1 DEF AgeOrdered
  <2> HIDE DEF last
  <2> QED
    BY <2>1, <2>3, <2>4
<1> QED
  BY <1>1 DEF SquashDone, InflightNamesLiveEntry, SquashedStores

\* An entry leaves the reorder buffer only by committing from its head or by
\* being younger than the instruction recovered to, and a squash that is over
\* has left nothing younger in any component.
THEOREM SquashIsExact == Spec => SquashExact
<1> DEFINE Exact ==
      /\ \A i \in Live \ Live' :
            \/ ~squash_pending /\ i = head
            \/ squashing /\ buffer[i].seq > squash_seq
      /\ SquashDone =>
            /\ \A i \in Live : buffer[i].seq <= squash_seq
            /\ \A p \in inflight : p.seq <= squash_seq
            /\ \A s \in committed_stores : s <= squash_seq
<1>1. Init => SquashedStores
  BY DEF Init, SquashedStores
<1>2. ASSUME TypeOK, AgeOrdered, InflightNamesLiveEntry, SquashedStores, Next
      PROVE  Exact
  <2>1. ASSUME NEW i \in Live \ Live'
        PROVE  \/ ~squash_pending /\ i = head
               \/ squashing /\ buffer[i].seq > squash_seq
    <3>1. ASSUME NEW instr \in Instrs, Rename(instr) PROVE FALSE
      <4>1. ~Full /\ size' = size + 1 /\ head' = head
        BY <3>1 DEF Rename, Insert
      <4> QED
        BY <1>2, <2>1, <4>1, LiveAfterRename
    <3>2. CASE Commit
      BY <1>2, <2>1, <3>2, LiveAfterCommit DEF Commit, HeadCompleted, N
    <3>3. CASE RollBack
      BY <1>2, <2>1, <3>3, LiveAfterRollBack DEF RollBack, OnWrongPath
    <3>4. CASE Quiet
      BY <1>2, <2>1, <3>4, QuietStep DEF Live, Nth
    <3> QED
      BY <1>2, <3>1, <3>2, <3>3, <3>4, NextCases
  <2> QED
    BY <1>2, <2>1, NothingYoungerLeft
<1>3. TypeOK /\ AgeOrdered /\ InflightNamesLiveEntry /\ SquashedStores /\ [Next]_vars => [Exact]_vars
  BY <1>2
<1> QED
  BY <1>1, <1>3, SquashedStoresStep, TypeCorrect, ReorderBufferAgeOrdered, NoStaleReference, PTL
     DEF Spec, SquashExact

----------------------------------------------------------------------------
(* The core implements in-order retirement.                                *)

\* window and arch as RenameROB substitutes them.
Window == [k \in 1 .. size |->
             LET entry == buffer[Nth(k - 1)]
             IN [seq |-> entry.seq,
                 dest |-> IF Renamed(entry) THEN entry.dest_arch_reg ELSE 0]]
Registers == [a \in Arch \ {0} |-> R[commited_regmap[a]].value]

Item(entry) == [seq |-> entry.seq, dest |-> IF Renamed(entry) THEN entry.dest_arch_reg ELSE 0]
Items == [seq : Nat, dest : Arch]

WindowIsSequence == /\ Window \in Seq(Items) /\ Len(Window) = size /\ size \in Nat
                    /\ \A k \in 1 .. size : Window[k] = Item(Entry(k - 1))
WindowTypes == TypeOK => WindowIsSequence

LEMMA WindowHasItems == WindowTypes
<1> SUFFICES ASSUME TypeOK PROVE WindowIsSequence
  BY DEF WindowTypes
<1>1. size \in Nat /\ 0 \in Arch
  BY EntryTypes, SizesAssumption DEF Arch
<1>2. \A k \in 1 .. size : Item(Entry(k - 1)) \in Items
  <2> TAKE k \in 1 .. size
  <2>1. k - 1 \in 0 .. size - 1
    BY <1>1
  <2>2. Entry(k - 1) \in ROBEntry
    BY <2>1, EntryTypes
  <2> QED
    BY <1>1, <2>2 DEF Item, Items, ROBEntry
<1>3. Window = [k \in 1 .. size |-> Item(Entry(k - 1))]
  BY DEF Window, Item, Entry
<1> QED
  BY <1>1, <1>2, <1>3 DEF WindowIsSequence

LEMMA WindowHasItemsNext == WindowTypes'
BY WindowHasItems, PTL

LEMMA RegistersHold ==
    ASSUME \A a \in Arch \ {0} : R'[commited_regmap'[a]].value = R[commited_regmap[a]].value
    PROVE  Registers' = Registers
BY DEF Registers

\* The steps of in-order retirement, in the terms of the core.
LEMMA RetirementSteps ==
    /\ \A dest \in Arch :
          /\ Window' = Append(Window, [seq |-> next_seq, dest |-> dest])
          /\ next_seq' = next_seq + 1
          /\ Registers' = Registers
          => Retirement!Next
    /\ Window # <<>> /\ Window' = SubSeq(Window, 1, Len(Window) - 1)
       /\ next_seq' = next_seq /\ Registers' = Registers
       => Retirement!Next
    /\ /\ Window # <<>> /\ Window' = Tail(Window) /\ next_seq' = next_seq
       /\ Registers' = IF Head(Window).dest = 0
                         THEN Registers
                         ELSE [Registers EXCEPT ![Head(Window).dest] = Head(Window).seq]
       => Retirement!Next
    /\ Window' = Window /\ Registers' = Registers /\ next_seq' = next_seq
       => UNCHANGED Retirement!vars
<1>1. Arch = Retirement!Target \cup {Retirement!NoTarget}
  BY SizesAssumption DEF Arch, Retirement!Target, Retirement!NoTarget
<1>2. ASSUME NEW dest \in Arch,
             Window' = Append(Window, [seq |-> next_seq, dest |-> dest]),
             next_seq' = next_seq + 1, Registers' = Registers
      PROVE  Retirement!Next
  <2>1. Retirement!Issue(dest)
    BY <1>2 DEF Retirement!Issue, Window, Registers
  <2> QED
    BY <1>1, <2>1 DEF Retirement!Next
<1>3. ASSUME Window # <<>>, Window' = SubSeq(Window, 1, Len(Window) - 1),
             next_seq' = next_seq, Registers' = Registers
      PROVE  Retirement!Next
  <2>1. Retirement!DropYoungest
    BY <1>3 DEF Retirement!DropYoungest, Window, Registers
  <2> QED
    BY <2>1 DEF Retirement!Next
<1>4. ASSUME Window # <<>>, Window' = Tail(Window), next_seq' = next_seq,
             Registers' = IF Head(Window).dest = 0
                            THEN Registers
                            ELSE [Registers EXCEPT ![Head(Window).dest] = Head(Window).seq]
      PROVE  Retirement!Next
  <2>1. Retirement!Retire
    BY <1>4 DEF Retirement!Retire, Retirement!NoTarget, Window, Registers
  <2> QED
    BY <2>1 DEF Retirement!Next
<1>5. ASSUME Window' = Window, Registers' = Registers, next_seq' = next_seq
      PROVE  UNCHANGED Retirement!vars
  BY <1>5 DEF Retirement!vars, Window, Registers
<1> QED
  BY <1>2, <1>3, <1>4, <1>5

\* Completing an instruction disturbs neither the order of the window nor a
\* committed register.
LEMMA CompleteIsInvisible ==
    ASSUME TypeOK, InflightNamesLiveEntry, ReadyInvariant, NEW p \in inflight,
           Complete(p, TRUE) \/ Complete(p, p.reg_write /\ p.rd # 0)
    PROVE  /\ \A k \in 0 .. size - 1 : Entry(k)'.seq = Entry(k).seq
           /\ Registers' = Registers
<1>1. p.rob_index \in Slot /\ p.rd \in Phys
  BY DEF TypeOK, Reference
<1>2. PICK n \in 0 .. size - 1 : p.rob_index = Nth(n)
  BY DEF InflightNamesLiveEntry, Live
<1>3. Dest(n) = p.rd
  BY <1>2 DEF InflightNamesLiveEntry, Dest, Entry
<1>4. /\ UNCHANGED <<head, commited_regmap>>
      /\ \A i \in Slot : buffer'[i].seq = buffer[i].seq
      /\ \A q \in Phys : q # p.rd => R'[q] = R[q]
  <2>1. UNCHANGED <<head, commited_regmap>>
    BY DEF Complete
  <2>2. buffer' = [buffer EXCEPT ![p.rob_index].completed = TRUE]
    BY DEF Complete
  <2>3. \A i \in Slot : buffer'[i].seq = buffer[i].seq
    BY <1>1, <2>2 DEF TypeOK, ROBEntry
  <2>4. R' = R \/ R' = [R EXCEPT ![p.rd] = [value |-> p.seq, ready |-> TRUE]]
    BY DEF Complete
  <2>5. \A q \in Phys : q # p.rd => R'[q] = R[q]
    BY <1>1, <2>4 DEF TypeOK
  <2> QED
    BY <2>1, <2>3, <2>5
<1>5. \A k \in 0 .. size - 1 : Entry(k)'.seq = Entry(k).seq
  <2>1. \A k : Nth(k)' = Nth(k)
    BY <1>4 DEF Nth
  <2> QED
    BY <1>4, <2>1, EntryTypes DEF Entry
<1>6. \A a \in Arch \ {0} : commited_regmap[a] \in Phys /\ commited_regmap[a] # p.rd
  <2> TAKE a \in Arch \ {0}
  <2>1. commited_regmap[a] \in Phys
    BY DEF TypeOK
  <2>2. CASE Renamed(Entry(n))
    <3>1. n \in Superseded
      BY <1>2, <2>2, SupersededEntries
    <3> QED
      BY <1>3, <2>1, <3>1 DEF ReadyInvariant, Owned
  <2>3. CASE ~Renamed(Entry(n))
    <3>1. p.rd = 0 /\ commited_regmap[0] = 0 /\ 0 \in Arch
      BY <1>2, <1>3, <2>3, SizesAssumption DEF ReadyInvariant, RegisterZero, Arch
    <3> QED
      BY <2>1, <3>1 DEF ReadyInvariant, Owned
  <2> QED
    BY <2>2, <2>3
<1> QED
  BY <1>4, <1>5, <1>6, RegistersHold

LEMMA QuietIsInvisible ==
    ASSUME TypeOK, TypeOK', InflightNamesLiveEntry, ReadyInvariant, Quiet
    PROVE  Window' = Window /\ Registers' = Registers /\ next_seq' = next_seq
<1>1. /\ \A k \in 0 .. size - 1 : Entry(k)'.seq = Entry(k).seq
      /\ Registers' = Registers /\ next_seq' = next_seq
  <2>1. ASSUME UNCHANGED <<robVars, prfVars, next_seq>>
        PROVE  /\ \A k \in 0 .. size - 1 : Entry(k)'.seq = Entry(k).seq
               /\ Registers' = Registers /\ next_seq' = next_seq
    BY <2>1 DEF robVars, prfVars, Entry, Nth, Registers
  <2>2. ASSUME NEW p \in inflight, Execute(p) \/ Writeback(p) \/ MemoryResponse(p)
        PROVE  /\ \A k \in 0 .. size - 1 : Entry(k)'.seq = Entry(k).seq
               /\ Registers' = Registers /\ next_seq' = next_seq
    <3>1. CASE Execute(p)
      BY <2>1, <3>1 DEF Execute
    <3>2. CASE Writeback(p)
      BY <3>2, CompleteIsInvisible DEF Writeback, Complete
    <3>3. CASE MemoryResponse(p)
      BY <3>3, CompleteIsInvisible DEF MemoryResponse, Complete
    <3> QED
      BY <2>2, <3>1, <3>2, <3>3
  <2>3. ASSUME NEW s \in committed_stores, NEW smc \in BOOLEAN, DrainStore(s, smc)
        PROVE  UNCHANGED <<robVars, prfVars, next_seq>>
    BY <2>3 DEF DrainStore
  <2>4. CASE SquashQueues \/ SquashDone \/ Halted \/ UNCHANGED vars
    <3>1. UNCHANGED <<robVars, prfVars, next_seq>>
      BY <2>4 DEF SquashQueues, SquashDone, Halted, vars
    <3> QED
      BY <2>1, <3>1
  <2> QED
    BY <2>1, <2>2, <2>3, <2>4 DEF Quiet
<1>2. WindowIsSequence /\ WindowIsSequence'
  BY WindowHasItems, WindowHasItemsNext DEF WindowTypes
<1>3. size' = size /\ \A k \in 0 .. size - 1 : SameRegisters(Entry(k)', Entry(k))
  BY QuietStep
<1>4. \A k \in 1 .. size : Window'[k] = Window[k]
  <2> TAKE k \in 1 .. size
  <2>1. k - 1 \in 0 .. size - 1
    BY <1>2 DEF WindowIsSequence
  <2>2. Item(Entry(k - 1)') = Item(Entry(k - 1))
    BY <1>1, <1>3, <2>1 DEF Item, SameRegisters, Renamed
  <2> QED
    BY <1>2, <1>3, <2>2 DEF WindowIsSequence
<1>5. Window' = Window
  BY <1>2, <1>3, <1>4, SeqEqual DEF WindowIsSequence
<1> QED
  BY <1>1, <1>5

LEMMA RenameIssues ==
    ASSUME TypeOK, TypeOK', AgeOrdered, RegisterInvariant, NEW instr \in Instrs, Rename(instr)
    PROVE  Retirement!Next
<1> DEFINE writes == instr.reg_write /\ instr.dest_arch_reg # 0
           dest == IF writes THEN instr.dest_arch_reg ELSE 0
           item == [seq |-> next_seq, dest |-> dest]
<1>0. Partition /\ dest \in Arch /\ item \in Items
  BY InstrsAssumption, SizesAssumption DEF RegisterInvariant, Arch, Items, TypeOK
<1>1. WindowIsSequence /\ WindowIsSequence'
  BY WindowHasItems, WindowHasItemsNext DEF WindowTypes
<1>2. /\ size' = size + 1 /\ size \in Nat /\ \A k \in 0 .. size - 1 : Entry(k)' = Entry(k)
      /\ \A k \in {size} : Item(Entry(k)') = item
  BY <1>0, <1>1, RenameWrites, RenameOther DEF Item, WindowIsSequence
<1>3. next_seq' = next_seq + 1
  BY DEF Rename, Insert
<1>4. Registers' = Registers
  <2>1. commited_regmap' = commited_regmap
    BY DEF Rename
  <2>2. \A q \in Phys : R'[q].value = R[q].value
    <3>1. CASE writes
      <4>1. R' = [R EXCEPT ![rename_pool[1]].ready = FALSE] /\ rename_pool[1] \in Phys
        BY <1>0, <3>1, RenameWrites
      <4>2. R \in [Phys -> [value : Nat \cup {Initial}, ready : BOOLEAN]]
        BY DEF TypeOK
      <4> QED
        BY <4>1, <4>2
    <3>2. CASE ~writes
      BY <3>2, RenameOther
    <3> QED
      BY <3>1, <3>2
  <2>3. \A a \in Arch : commited_regmap[a] \in Phys
    BY DEF TypeOK
  <2> QED
    BY <2>1, <2>2, <2>3, RegistersHold
<1> HIDE DEF item, dest
<1>5. Window' = Append(Window, item)
  <2>1. /\ Append(Window, item) \in Seq(Items) /\ Len(Append(Window, item)) = size + 1
        /\ \A k \in 1 .. size : Append(Window, item)[k] = Window[k]
        /\ Append(Window, item)[size + 1] = item
    BY <1>0, <1>1, AppendProperties DEF WindowIsSequence
  <2>2. ASSUME NEW k \in 1 .. size + 1 PROVE Window'[k] = Append(Window, item)[k]
    <3>1. Window'[k] = Item(Entry(k - 1)')
      BY <1>1, <1>2 DEF WindowIsSequence
    <3>2. CASE k \in 1 .. size
      <4>1. k - 1 \in 0 .. size - 1
        BY <1>2, <3>2
      <4> QED
        BY <1>1, <1>2, <2>1, <3>1, <3>2, <4>1 DEF WindowIsSequence
    <3>3. CASE k = size + 1
      <4>1. k - 1 \in {size} /\ Append(Window, item)[k] = item
        BY <1>2, <2>1, <3>3
      <4>2. Item(Entry(k - 1)') = item
        BY <1>2, <4>1
      <4> QED
        BY <3>1, <4>1, <4>2
    <3>4. k \in 1 .. size \/ k = size + 1
      BY <1>1 DEF WindowIsSequence
    <3> QED
      BY <3>2, <3>3, <3>4
  <2> QED
    BY <1>1, <1>2, <2>1, <2>2, SeqEqual DEF WindowIsSequence
<1> QED
  BY <1>0, <1>3, <1>4, <1>5, RetirementSteps DEF item

LEMMA RollBackDropsYoungest ==
    ASSUME TypeOK, TypeOK', AgeOrdered, RollBack
    PROVE  Retirement!Next
<1>1. WindowIsSequence /\ WindowIsSequence'
  BY WindowHasItems, WindowHasItemsNext DEF WindowTypes
<1>2. /\ size > 0 /\ size' = size - 1 /\ size \in Nat
      /\ \A k \in 0 .. size' - 1 : Entry(k)' = Entry(k)
  BY <1>1, RollBackDrops DEF WindowIsSequence
<1>3. Registers' = Registers /\ next_seq' = next_seq
  BY DEF RollBack, Registers
<1> DEFINE rest == SubSeq(Window, 1, Len(Window) - 1)
<1>4. /\ rest \in Seq(Items) /\ Len(rest) = size - 1
      /\ \A k \in 1 .. size - 1 : rest[k] = Window[k]
  BY <1>1, <1>2 DEF WindowIsSequence
<1>5. \A k \in 1 .. size - 1 : Window'[k] = rest[k]
  <2> TAKE k \in 1 .. size - 1
  <2>1. k - 1 \in 0 .. size' - 1 /\ k \in 1 .. size /\ k \in 1 .. size'
    BY <1>2
  <2> QED
    BY <1>1, <1>2, <1>4, <2>1 DEF WindowIsSequence
<1>6. Window' = rest /\ Window # <<>>
  <2> HIDE DEF rest
  <2>1. Window' = rest
    BY <1>1, <1>2, <1>4, <1>5, SeqEqual DEF WindowIsSequence
  <2> QED
    BY <1>1, <1>2, <2>1 DEF WindowIsSequence
<1> QED
  BY <1>3, <1>6, RetirementSteps

LEMMA CommitRetires ==
    ASSUME TypeOK, TypeOK', ReadyInvariant, Commit
    PROVE  Retirement!Next
<1>1. WindowIsSequence /\ WindowIsSequence'
  BY WindowHasItems, WindowHasItemsNext DEF WindowTypes
<1>2. /\ size > 0 /\ size' = size - 1 /\ size \in Nat /\ buffer[head] = Entry(0)
      /\ \A k \in 0 .. size' - 1 : Entry(k)' = Entry(k + 1)
  BY <1>1, CommitShifts DEF WindowIsSequence
<1>3. next_seq' = next_seq
  BY DEF Commit
<1>4. Window # <<>> /\ Head(Window) = Item(Entry(0))
  BY <1>1, <1>2 DEF WindowIsSequence
<1>5. Window' = Tail(Window)
  <2>1. /\ Tail(Window) \in Seq(Items) /\ Len(Tail(Window)) = size - 1
        /\ \A k \in 1 .. size - 1 : Tail(Window)[k] = Window[k + 1]
    BY <1>1, <1>2, <1>4 DEF WindowIsSequence
  <2>2. ASSUME NEW k \in 1 .. size - 1 PROVE Window'[k] = Tail(Window)[k]
    <3>1. k - 1 \in 0 .. size' - 1 /\ (k - 1) + 1 = (k + 1) - 1 /\ k + 1 \in 1 .. size
          /\ k \in 1 .. size'
      BY <1>2
    <3> QED
      BY <1>1, <1>2, <2>1, <3>1 DEF WindowIsSequence
  <2> QED
    BY <1>1, <1>2, <2>1, <2>2, SeqEqual DEF WindowIsSequence
<1>6. Registers' = IF Head(Window).dest = 0
                     THEN Registers
                     ELSE [Registers EXCEPT ![Head(Window).dest] = Head(Window).seq]
  <2> DEFINE a == Entry(0).dest_arch_reg
  <2>1. R' = R
    BY DEF Commit
  <2>2. CASE Renamed(Entry(0))
    <3>1. 0 \in Superseded /\ Entry(0).completed /\ Entry(0) \in ROBEntry
      BY <1>2, <2>2, CommitShifts, EntryTypes DEF Commit, HeadCompleted
    <3>2. a \in Arch /\ a # 0 /\ Head(Window).dest = a /\ Head(Window).seq = Entry(0).seq
      BY <1>2, <1>4, <2>2, <3>1 DEF ReadyInvariant, RegisterZero, ROBEntry, Item
    <3>3. commited_regmap' = [commited_regmap EXCEPT ![a] = Dest(0)]
      BY <1>2, <2>2 DEF Commit, Retire, Dest
    <3>4. R[Dest(0)].value = Entry(0).seq
      BY <3>1 DEF ReadyInvariant, ReadyMeansProduced, Dest, Entry
    <3> HIDE DEF a
    <3>5. \A b \in Arch \ {0} : commited_regmap'[b] = IF b = a THEN Dest(0) ELSE commited_regmap[b]
      BY <3>2, <3>3 DEF TypeOK
    <3> QED
      BY <2>1, <3>2, <3>4, <3>5 DEF Registers
  <2>3. CASE ~Renamed(Entry(0))
    <3>1. commited_regmap' = commited_regmap /\ Head(Window).dest = 0
      BY <1>2, <1>4, <2>3 DEF Commit, Item
    <3> QED
      BY <2>1, <3>1 DEF Registers
  <2> QED
    BY <2>2, <2>3
<1> QED
  BY <1>3, <1>4, <1>5, <1>6, RetirementSteps

\* The out-of-order core implements in-order retirement: seen through the
\* committed map, each register changes only when the oldest instruction
\* retires, in program order, and then to that instruction's own result.
THEOREM ImplementsInOrderRetirement == Spec => RetiresInOrder
<1>1. Init => Retirement!Init
  <2> SUFFICES ASSUME Init PROVE Retirement!Init
    OBVIOUS
  <2>1. size = 0 /\ 1 .. size = {} /\ next_seq = 0
    BY DEF Init
  <2>2. Window = <<>>
    BY <2>1 DEF Window
  <2>3. Registers = [a \in Retirement!Target |-> Retirement!Initial]
    <3>1. \A a \in Arch : a \in Phys /\ commited_regmap[a] = a
      BY SizesAssumption DEF Init, Arch, Phys
    <3>2. \A q \in Phys : R[q].value = Initial
      BY DEF Init
    <3>3. Arch \ {0} = Retirement!Target /\ Retirement!Initial = Initial
      BY SizesAssumption DEF Arch, Retirement!Target, Retirement!Initial, Initial
    <3> QED
      BY <3>1, <3>2, <3>3 DEF Registers
  <2> QED
    BY <2>1, <2>2, <2>3 DEF Retirement!Init, Window, Registers
<1>2. TypeOK /\ TypeOK' /\ AgeOrdered /\ InflightNamesLiveEntry /\ RegisterInvariant
        /\ ReadyInvariant /\ [Next]_vars => [Retirement!Next]_(Retirement!vars)
  <2> SUFFICES ASSUME TypeOK, TypeOK', AgeOrdered, InflightNamesLiveEntry, RegisterInvariant,
                      ReadyInvariant, [Next]_vars
               PROVE  Retirement!Next \/ UNCHANGED Retirement!vars
    OBVIOUS
  <2>1. ASSUME NEW instr \in Instrs, Rename(instr) PROVE Retirement!Next
    BY <2>1, RenameIssues
  <2>2. CASE Commit
    BY <2>2, CommitRetires
  <2>3. CASE RollBack
    BY <2>3, RollBackDropsYoungest
  <2>4. CASE Quiet
    BY <2>4, QuietIsInvisible, RetirementSteps
  <2> QED
    BY <2>1, <2>2, <2>3, <2>4, NextCases
<1> QED
  BY <1>1, <1>2, TypeCorrect, ReorderBufferAgeOrdered, NoStaleReference, RegistersTracked,
     RegistersOwned, PTL DEF Spec, RetiresInOrder, Retirement!Spec
=============================================================================
