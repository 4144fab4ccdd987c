-------------------------- MODULE RenameROBProofs --------------------------
(***************************************************************************)
(* Proofs about RenameROB, for every size of the reorder buffer and of the *)
(* register files and every set of instructions.                           *)
(***************************************************************************)
EXTENDS RenameROB, TLAPS

N == REORDER_BUFFER_SIZE

----------------------------------------------------------------------------
(* The circular index.                                                     *)

LEMMA RingValue ==
    ASSUME NEW h \in Slot, NEW k \in 0 .. N
    PROVE  /\ (h + k) % N = IF h + k >= N THEN h + k - N ELSE h + k
           /\ (h + k) % N \in Slot
  BY SizesAssumption, SMT DEF Slot, N

LEMMA RingInjective ==
    ASSUME NEW h \in Slot, NEW j \in 0 .. N - 1, NEW k \in 0 .. N - 1,
           (h + j) % N = (h + k) % N
    PROVE  j = k
<1>1. /\ (h + j) % N = IF h + j >= N THEN h + j - N ELSE h + j
      /\ (h + k) % N = IF h + k >= N THEN h + k - N ELSE h + k
  BY RingValue, SizesAssumption, SMT DEF N
<1> QED
  BY <1>1, SizesAssumption, SMT DEF Slot, N

LEMMA RingNext ==
    ASSUME NEW h \in Slot, NEW k \in 0 .. N - 1
    PROVE  /\ (((h + k) % N) + 1) % N = (h + k + 1) % N
           /\ (((h + 1) % N) + k) % N = (h + k + 1) % N
           /\ (h + k + 1) % N \in Slot
<1>1. /\ (h + k) % N = IF h + k >= N THEN h + k - N ELSE h + k
      /\ (h + 1) % N = IF h + 1 >= N THEN h + 1 - N ELSE h + 1
      /\ (h + (k + 1)) % N = IF h + (k + 1) >= N THEN h + (k + 1) - N ELSE h + (k + 1)
      /\ (h + k) % N \in Slot /\ (h + 1) % N \in Slot /\ (h + (k + 1)) % N \in Slot
  BY RingValue, SizesAssumption, SMT DEF N
<1>2. /\ (((h + k) % N) + 1) % N = IF ((h + k) % N) + 1 >= N THEN ((h + k) % N) + 1 - N
                                                        ELSE ((h + k) % N) + 1
      /\ (((h + 1) % N) + k) % N = IF ((h + 1) % N) + k >= N THEN ((h + 1) % N) + k - N
                                                        ELSE ((h + 1) % N) + k
  BY <1>1, RingValue, SizesAssumption, SMT DEF N
<1>3. h + (k + 1) = h + k + 1
  BY SizesAssumption, SMT DEF Slot, N
<1> QED
  BY <1>1, <1>2, <1>3, SizesAssumption, SMT DEF Slot, N

LEMMA RingPrevious ==
    ASSUME NEW h \in Slot, NEW k \in 1 .. N
    PROVE  Previous((h + k) % N) = (h + (k - 1)) % N
<1>1. /\ (h + k) % N = IF h + k >= N THEN h + k - N ELSE h + k
      /\ (h + (k - 1)) % N = IF h + (k - 1) >= N THEN h + (k - 1) - N ELSE h + (k - 1)
      /\ (h + k) % N \in Slot
  BY RingValue, SizesAssumption, SMT DEF N
<1>2. \A t \in Slot : (t - 1 + N) % N = IF t = 0 THEN N - 1 ELSE t - 1
  BY SizesAssumption, SMT DEF Slot, N
<1> QED
  BY <1>1, <1>2, SizesAssumption, SMT DEF Slot, N, Previous

----------------------------------------------------------------------------
(* Types.                                                                  *)

LEMMA RingStep ==
    /\ \A i \in Slot : (i + 1) % N \in Slot
    /\ \A i \in Slot : Previous(i) \in Slot
  BY SizesAssumption, SMT DEF Slot, N, Previous

\* The variables have the types TypeOK gives them in every reachable state.
THEOREM TypeCorrect == Spec => []TypeOK
<1>1. Init => TypeOK
  <2> SUFFICES ASSUME Init PROVE TypeOK
    OBVIOUS
  <2>1. rename_pool \in Seq(Phys)
    <3> DEFINE n == NUM_PHYSICAL_REGISTERS - NUM_ARCHITECTURAL_REGISTERS
    <3>1. /\ n \in Nat
          /\ \A i \in 1 .. n : NUM_ARCHITECTURAL_REGISTERS + i - 1 \in Phys
      BY SizesAssumption DEF Phys
    <3>2. rename_pool = [i \in 1 .. n |-> NUM_ARCHITECTURAL_REGISTERS + i - 1]
      BY DEF Init
    <3> HIDE DEF n
    <3> QED
      BY <3>1, <3>2
  <2>2. \A a \in Arch : a \in Phys
    BY SizesAssumption DEF Arch, Phys
  <2>3. UnusedEntry \in ROBEntry /\ 0 \in Slot
    BY SizesAssumption DEF UnusedEntry, ROBEntry, Arch, Phys, Slot
  <2>4. buffer \in [Slot -> ROBEntry]
    BY <2>3 DEF Init
  <2>5. R \in [Phys -> [value : Nat \cup {Initial}, ready : BOOLEAN]]
    BY DEF Init
  <2>6. regmap \in [Arch -> Phys] /\ commited_regmap \in [Arch -> Phys]
    BY <2>2 DEF Init
  <2>7. size \in 0 .. REORDER_BUFFER_SIZE /\ next_seq \in Nat /\ squash_seq \in Nat
    BY SizesAssumption DEF Init
  <2> QED
    BY <2>1, <2>3, <2>4, <2>5, <2>6, <2>7 DEF Init, TypeOK
<1>2. TypeOK /\ [Next]_vars => TypeOK'
  <2> SUFFICES ASSUME TypeOK, [Next]_vars PROVE TypeOK'
    OBVIOUS
  <2> USE DEF TypeOK, robVars, prfVars, squashVars
  <2>1. ASSUME NEW instr \in Instrs, Rename(instr) PROVE TypeOK'
    <3>1. /\ instr.kind \in Kind /\ instr.reg_write \in BOOLEAN
          /\ instr.dest_arch_reg \in Arch
      BY InstrsAssumption
    <3>2. 0 \in Phys /\ (tail + 1) % REORDER_BUFFER_SIZE \in Slot
      BY RingStep, SizesAssumption DEF Phys, N
    <3>3. ASSUME NEW new \in Phys, NEW old \in Phys, Insert(instr, new, old)
          PROVE  buffer' \in [Slot -> ROBEntry] /\ inflight' \subseteq Reference
      <4>1. [seq |-> next_seq, dest_arch_reg |-> instr.dest_arch_reg,
             dest_phys_reg |-> new, old_phys_reg |-> old,
             is_store |-> (instr.kind = "store"), completed |-> FALSE] \in ROBEntry
        BY <3>1 DEF ROBEntry
      <4>2. [seq |-> next_seq, kind |-> instr.kind, reg_write |-> instr.reg_write,
             rob_index |-> tail, rd |-> new, stage |-> "waiting"] \in Reference
        BY <3>1 DEF Reference
      <4> QED
        BY <3>3, <4>1, <4>2 DEF Insert
    <3>4. CASE instr.reg_write /\ instr.dest_arch_reg # 0
      <4>1. /\ rename_pool # <<>>
            /\ AssignMapping(instr.dest_arch_reg)
            /\ Insert(instr, Head(rename_pool), regmap[instr.dest_arch_reg])
        BY <2>1, <3>4 DEF Rename
      <4>2. Head(rename_pool) \in Phys /\ Tail(rename_pool) \in Seq(Phys)
        BY <4>1
      <4>3. regmap[instr.dest_arch_reg] \in Phys
        BY <3>1
      <4>4. buffer' \in [Slot -> ROBEntry] /\ inflight' \subseteq Reference
        BY <3>3, <4>1, <4>2, <4>3
      <4>5. /\ rename_pool' \in Seq(Phys) /\ regmap' \in [Arch -> Phys]
            /\ R' \in [Phys -> [value : Nat \cup {Initial}, ready : BOOLEAN]]
        BY <3>1, <4>1, <4>2 DEF AssignMapping
      <4>6. tail' \in Slot /\ size' \in 0 .. REORDER_BUFFER_SIZE /\ next_seq' \in Nat /\ head' \in Slot
        BY <2>1, <3>2, <4>1, SizesAssumption DEF Rename, Insert, Full
      <4> QED
        BY <2>1, <4>4, <4>5, <4>6 DEF Rename
    <3>5. CASE ~(instr.reg_write /\ instr.dest_arch_reg # 0)
      <4>1. Insert(instr, 0, 0) /\ UNCHANGED <<rename_pool, regmap, R>>
        BY <2>1, <3>5 DEF Rename
      <4>2. buffer' \in [Slot -> ROBEntry] /\ inflight' \subseteq Reference
        BY <3>2, <3>3, <4>1
      <4>3. tail' \in Slot /\ size' \in 0 .. REORDER_BUFFER_SIZE /\ next_seq' \in Nat /\ head' \in Slot
        BY <2>1, <3>2, <4>1, SizesAssumption DEF Rename, Insert, Full
      <4> QED
        BY <2>1, <4>1, <4>2, <4>3 DEF Rename
    <3> QED
      BY <3>4, <3>5
  <2>2. ASSUME NEW p \in inflight, Execute(p) PROVE TypeOK'
    <3>1. \A s \in {"result", "mshr"} : [p EXCEPT !.stage = s] \in Reference
      BY DEF Reference
    <3>2. inflight' \subseteq Reference
      BY <2>2, <3>1 DEF Execute, MoveTo
    <3>3. /\ squash_pending' \in BOOLEAN /\ squash_seq' \in Nat /\ squashing' \in BOOLEAN
      BY <2>2 DEF Execute, RequestSquash, Reference
    <3> QED
      BY <2>2, <3>2, <3>3 DEF Execute
  <2>3. ASSUME NEW p \in inflight, NEW writes \in BOOLEAN, Complete(p, writes) PROVE TypeOK'
    <3>1. p.seq \in Nat /\ p.rd \in Phys /\ p.rob_index \in Slot
      BY DEF Reference
    <3>2. R' \in [Phys -> [value : Nat \cup {Initial}, ready : BOOLEAN]]
      BY <2>3, <3>1 DEF Complete
    <3>3. buffer' \in [Slot -> ROBEntry]
      BY <2>3, <3>1 DEF Complete, ROBEntry
    <3> QED
      BY <2>3, <3>2, <3>3 DEF Complete
  <2>4. CASE Commit
    <3> DEFINE entry == buffer[head]
    <3>1. /\ entry.seq \in Nat /\ entry.dest_arch_reg \in Arch
          /\ entry.dest_phys_reg \in Phys /\ entry.old_phys_reg \in Phys
      BY DEF ROBEntry
    <3> HIDE DEF entry
    <3>2. rename_pool' \in Seq(Phys) /\ commited_regmap' \in [Arch -> Phys]
      <4>1. CASE Renamed(entry)
        <5>1. /\ rename_pool' = Append(rename_pool, entry.old_phys_reg)
              /\ commited_regmap' =
                   [commited_regmap EXCEPT ![entry.dest_arch_reg] = entry.dest_phys_reg]
          BY <2>4, <4>1 DEF Commit, Retire, entry
        <5> QED
          BY <3>1, <5>1
      <4>2. CASE ~Renamed(entry)
        BY <2>4, <4>2 DEF Commit, entry
      <4> QED
        BY <4>1, <4>2
    <3>3. head' \in Slot /\ size' \in 0 .. REORDER_BUFFER_SIZE
      BY <2>4, RingStep, SizesAssumption DEF Commit, HeadCompleted, N
    <3>4. committed_stores' \subseteq Nat
      BY <2>4, <3>1 DEF Commit, entry
    <3> QED
      BY <2>4, <3>2, <3>3, <3>4 DEF Commit
  <2>5. ASSUME NEW s \in committed_stores, NEW smc \in BOOLEAN, DrainStore(s, smc)
        PROVE  TypeOK'
    BY <2>5 DEF DrainStore, RequestSquash
  <2>6. CASE SquashQueues
    BY <2>6 DEF SquashQueues
  <2>7. CASE RollBack
    <3> DEFINE entry == buffer[Previous(tail)]
    <3>1. Previous(tail) \in Slot
      BY RingStep
    <3>2. /\ entry.dest_arch_reg \in Arch
          /\ entry.dest_phys_reg \in Phys /\ entry.old_phys_reg \in Phys
      BY <3>1 DEF ROBEntry
    <3> HIDE DEF entry
    <3>3. rename_pool' \in Seq(Phys) /\ regmap' \in [Arch -> Phys]
      <4>1. CASE Renamed(entry)
        <5>1. /\ rename_pool' = <<entry.dest_phys_reg>> \o rename_pool
              /\ regmap' = [regmap EXCEPT ![entry.dest_arch_reg] = entry.old_phys_reg]
          BY <2>7, <4>1 DEF RollBack, RollbackRename, entry
        <5> QED
          BY <3>2, <5>1
      <4>2. CASE ~Renamed(entry)
        BY <2>7, <4>2 DEF RollBack, RollbackRename, entry
      <4> QED
        BY <4>1, <4>2
    <3>4. tail' \in Slot /\ size' \in 0 .. REORDER_BUFFER_SIZE
      BY <2>7, <3>1, SizesAssumption DEF RollBack
    <3> QED
      BY <2>7, <3>3, <3>4 DEF RollBack
  <2>8. CASE SquashDone
    BY <2>8 DEF SquashDone
  <2>9. CASE UNCHANGED vars
    BY <2>9 DEF vars
  <2> QED
    BY <2>1, <2>2, <2>3, <2>4, <2>5, <2>6, <2>7, <2>8, <2>9
      DEF Next, Writeback, MemoryResponse, Halted
<1> QED
  BY <1>1, <1>2, PTL DEF Spec

----------------------------------------------------------------------------
(* The order of the circular buffer.                                       *)

LEMMA NthFacts ==
    ASSUME TypeOK
    PROVE  /\ \A k \in 0 .. N : Nth(k) \in Slot
           /\ \A j, k \in 0 .. N - 1 : Nth(j) = Nth(k) => j = k
           /\ \A k \in 0 .. N - 1 : (Nth(k) + 1) % N = Nth(k + 1)
           /\ \A k \in 1 .. N : Previous(Nth(k)) = Nth(k - 1)
<1>1. head \in Slot
  BY DEF TypeOK
<1>2. \A k \in 0 .. N : Nth(k) \in Slot
  BY <1>1, RingValue DEF Nth, N
<1>3. \A j, k \in 0 .. N - 1 : Nth(j) = Nth(k) => j = k
  BY <1>1, RingInjective DEF Nth, N
<1>4. \A k \in 0 .. N - 1 : (Nth(k) + 1) % N = Nth(k + 1)
  <2> TAKE k \in 0 .. N - 1
  <2>1. head + k + 1 = head + (k + 1)
    BY <1>1, SizesAssumption DEF Slot, N
  <2> QED
    BY <1>1, <2>1, RingNext DEF Nth, N
<1>5. \A k \in 1 .. N : Previous(Nth(k)) = Nth(k - 1)
  BY <1>1, RingPrevious DEF Nth, N
<1> QED
  BY <1>2, <1>3, <1>4, <1>5

\* The entry that insert writes is none of the live ones.
LEMMA TailIsFree ==
    ASSUME TypeOK, AgeOrdered, ~Full
    PROVE  /\ tail = Nth(size)
           /\ \A k \in 0 .. size - 1 : Nth(k) \in Slot /\ Nth(k) # tail
           /\ (tail + 1) % N = Nth(size + 1)
<1>1. size \in 0 .. N - 1 /\ tail = Nth(size)
  BY SizesAssumption DEF TypeOK, AgeOrdered, Full, Nth, N
<1>2. \A k \in 0 .. size - 1 : k \in 0 .. N - 1 /\ k # size /\ k \in 0 .. N
  BY <1>1, SizesAssumption DEF N
<1> QED
  BY <1>1, <1>2, NthFacts

\* Commit moves the head by one: what was the (k+1)-th entry is now the k-th.
LEMMA NthAfterCommit ==
    ASSUME TypeOK, head' = (head + 1) % N
    PROVE  \A k \in 0 .. N - 1 : Nth(k)' = Nth(k + 1)
<1> TAKE k \in 0 .. N - 1
<1>1. head \in Slot /\ head + k + 1 = head + (k + 1)
  BY SizesAssumption DEF TypeOK, Slot, N
<1> QED
  BY <1>1, RingNext DEF Nth, N

LEMMA AgeOrderedStep == TypeOK /\ AgeOrdered /\ [Next]_vars => AgeOrdered'
<1> SUFFICES ASSUME TypeOK, AgeOrdered, [Next]_vars PROVE AgeOrdered'
  OBVIOUS
<1> DEFINE SameSeq == \A i \in Slot : buffer'[i].seq = buffer[i].seq
<1>0. size \in 0 .. N /\ N \in Nat \ {0} /\ next_seq \in Nat /\ head \in Slot
  BY SizesAssumption DEF TypeOK, N
<1>a. \A k \in 0 .. size - 1 : Nth(k) \in Slot /\ buffer[Nth(k)].seq \in Nat
  <2>1. \A k \in 0 .. size - 1 : k \in 0 .. N
    BY <1>0
  <2> QED
    BY <2>1, NthFacts DEF TypeOK, ROBEntry
<1>1. ASSUME NEW instr \in Instrs, Rename(instr) PROVE AgeOrdered'
  <2>1. /\ ~Full /\ size' = size + 1 /\ head' = head /\ next_seq' = next_seq + 1
        /\ tail' = (tail + 1) % N
    BY <1>1 DEF Rename, Insert, N
  <2>2. \A k : Nth(k)' = Nth(k)
    BY <2>1 DEF Nth
  <2>3. tail' = Nth(size + 1)
    BY <2>1, TailIsFree
  <2>4. /\ buffer'[tail].seq = next_seq
        /\ \A i \in Slot \ {tail} : buffer'[i] = buffer[i]
    BY <1>1 DEF Rename, Insert, TypeOK
  <2>5. \A k \in 0 .. size - 1 : buffer'[Nth(k)].seq = buffer[Nth(k)].seq
    BY <2>1, <2>4, TailIsFree
  <2>6. buffer'[Nth(size)].seq = next_seq
    BY <2>1, <2>4, TailIsFree
  <2>7. \A j, k \in 0 .. size : j < k => buffer'[Nth(j)].seq < buffer'[Nth(k)].seq
    <3> SUFFICES ASSUME NEW j \in 0 .. size, NEW k \in 0 .. size, j < k
                 PROVE  buffer'[Nth(j)].seq < buffer'[Nth(k)].seq
      OBVIOUS
    <3>1. j \in 0 .. size - 1
      BY <1>0
    <3>2. CASE k = size
      BY <2>5, <2>6, <3>1, <3>2 DEF AgeOrdered
    <3>3. CASE k \in 0 .. size - 1
      BY <2>5, <3>1, <3>3 DEF AgeOrdered
    <3> QED
      BY <1>0, <3>2, <3>3
  <2>8. \A k \in 0 .. size : buffer'[Nth(k)].seq < next_seq + 1
    <3> TAKE k \in 0 .. size
    <3>1. CASE k = size
      BY <1>0, <2>6, <3>1
    <3>2. CASE k \in 0 .. size - 1
      <4>1. buffer[Nth(k)].seq \in Nat /\ buffer[Nth(k)].seq < next_seq
        BY <1>a, <3>2 DEF AgeOrdered
      <4> QED
        BY <1>0, <2>5, <3>2, <4>1
    <3> QED
      BY <1>0, <3>1, <3>2
  <2>9. 0 .. size' - 1 = 0 .. size
    BY <1>0, <2>1
  <2> QED
    BY <2>1, <2>2, <2>3, <2>7, <2>8, <2>9 DEF AgeOrdered, Nth, N
<1>2. CASE Commit
  <2>1. /\ head' = (head + 1) % N /\ size > 0 /\ size' = size - 1
        /\ UNCHANGED <<tail, buffer, next_seq>>
    BY <1>2 DEF Commit, HeadCompleted, N
  <2>2. \A k \in 0 .. size - 1 : Nth(k)' = Nth(k + 1)
    BY <1>0, <2>1, NthAfterCommit
  <2>3. tail' = (head' + size') % N
    <3>1. size - 1 \in 0 .. size - 1 /\ (size - 1) + 1 = size
      BY <1>0, <2>1
    <3>2. \A k \in 0 .. size - 1 : (head' + k) % N = Nth(k + 1)
      BY <2>2 DEF Nth, N
    <3>3. (head' + (size - 1)) % N = Nth(size)
      BY <3>1, <3>2
    <3> QED
      BY <2>1, <3>3 DEF AgeOrdered, Nth, N
  <2>4. \A k \in 0 .. size' - 1 : Nth(k)' = Nth(k + 1) /\ k + 1 \in 0 .. size - 1
    BY <1>0, <2>1, <2>2
  <2>5. \A j, k \in 0 .. size' - 1 : j < k => buffer[Nth(j + 1)].seq < buffer[Nth(k + 1)].seq
    <3> SUFFICES ASSUME NEW j \in 0 .. size' - 1, NEW k \in 0 .. size' - 1, j < k
                 PROVE  buffer[Nth(j + 1)].seq < buffer[Nth(k + 1)].seq
      OBVIOUS
    <3>1. j + 1 \in 0 .. size - 1 /\ k + 1 \in 0 .. size - 1 /\ j + 1 < k + 1
      BY <1>0, <2>1
    <3> QED
      BY <3>1 DEF AgeOrdered
  <2>6. \A j, k \in 0 .. size' - 1 : j < k => buffer'[Nth(j)'].seq < buffer'[Nth(k)'].seq
    BY <2>1, <2>4, <2>5
  <2>7. \A k \in 0 .. size' - 1 : buffer'[Nth(k)'].seq < next_seq'
    BY <2>1, <2>4 DEF AgeOrdered
  <2> QED
    BY <2>3, <2>6, <2>7 DEF AgeOrdered, N
<1>3. CASE RollBack
  <2>1. /\ size > 0 /\ size' = size - 1 /\ tail' = Previous(tail)
        /\ UNCHANGED <<head, buffer, next_seq>>
    BY <1>3 DEF RollBack
  <2>2. tail' = Nth(size - 1)
    <3>1. size \in 1 .. N /\ tail = Nth(size)
      BY <1>0, <2>1 DEF AgeOrdered, Nth, N
    <3> QED
      BY <2>1, <3>1, NthFacts
  <2>3. \A k \in 0 .. size' - 1 : k \in 0 .. size - 1
    BY <1>0, <2>1
  <2> QED
    BY <2>1, <2>2, <2>3 DEF AgeOrdered, Nth, N
<1>4. ASSUME SameSeq, UNCHANGED <<head, tail, size, next_seq>> PROVE AgeOrdered'
  <2>1. \A k : Nth(k)' = Nth(k)
    BY <1>4 DEF Nth
  <2>2. \A k \in 0 .. size - 1 : buffer'[Nth(k)].seq = buffer[Nth(k)].seq
    BY <1>4, <1>a
  <2> QED
    BY <1>4, <2>1, <2>2 DEF AgeOrdered, Nth
<1>5. ASSUME NEW p \in inflight, NEW writes \in BOOLEAN, Complete(p, writes)
      PROVE  AgeOrdered'
  <2>1. SameSeq
    BY <1>5 DEF Complete, TypeOK, ROBEntry
  <2> QED
    BY <1>4, <1>5, <2>1 DEF Complete
<1>6. ASSUME UNCHANGED <<robVars, next_seq>> PROVE AgeOrdered'
  BY <1>4, <1>6 DEF robVars
<1> QED
  <2>1. ASSUME NEW p \in inflight, Execute(p) \/ Writeback(p) \/ MemoryResponse(p)
        PROVE  AgeOrdered'
    <3>1. CASE Execute(p)
      BY <1>6, <3>1 DEF Execute
    <3>2. CASE Writeback(p)
      BY <1>5, <3>2 DEF Writeback, TypeOK, Reference
    <3>3. CASE MemoryResponse(p)
      BY <1>5, <3>3 DEF MemoryResponse
    <3> QED
      BY <2>1, <3>1, <3>2, <3>3
  <2>2. ASSUME NEW s \in committed_stores, NEW smc \in BOOLEAN, DrainStore(s, smc)
        PROVE  AgeOrdered'
    BY <1>6, <2>2 DEF DrainStore
  <2>3. CASE SquashQueues \/ SquashDone \/ Halted \/ UNCHANGED vars
    <3>1. UNCHANGED <<robVars, next_seq>>
      BY <2>3 DEF SquashQueues, SquashDone, Halted, vars
    <3> QED
      BY <1>6, <3>1
  <2> QED
    BY <1>1, <1>2, <1>3, <2>1, <2>2, <2>3 DEF Next

\* From head to tail the live entries are in program order, for every size of
\* the buffer and through every wrap-around.
THEOREM ReorderBufferAgeOrdered == Spec => []AgeOrdered
<1>1. Init => AgeOrdered
  <2> SUFFICES ASSUME Init PROVE AgeOrdered
    OBVIOUS
  <2>1. size = 0 /\ head = 0 /\ tail = 0 /\ 0 \in Slot /\ 0 \in 0 .. N
    BY SizesAssumption DEF Init, Slot, N
  <2>2. (0 + 0) % N = 0
    BY <2>1, RingValue, SizesAssumption DEF N
  <2>3. 0 .. size - 1 = {}
    BY <2>1
  <2> QED
    BY <2>1, <2>2, <2>3 DEF AgeOrdered, N
<1> QED
  BY <1>1, AgeOrderedStep, TypeCorrect, PTL DEF Spec

----------------------------------------------------------------------------
(* The references of the other components into the buffer.                 *)

LEMMA LiveAfterRename ==
    ASSUME TypeOK, AgeOrdered, ~Full, size' = size + 1, head' = head
    PROVE  Live' = Live \cup {tail} /\ tail \notin Live
<1>1. \A k : Nth(k)' = Nth(k)
  BY DEF Nth
<1>2. size \in Nat
  BY SizesAssumption DEF TypeOK
<1>3. 0 .. size' - 1 = (0 .. size - 1) \cup {size}
  BY <1>2
<1>4. tail = Nth(size) /\ \A k \in 0 .. size - 1 : Nth(k) # tail
  BY TailIsFree
<1>5. Live' = {Nth(k) : k \in 0 .. size' - 1}
  BY <1>1 DEF Live, Nth
<1> QED
  BY <1>3, <1>4, <1>5 DEF Live

LEMMA LiveAfterCommit ==
    ASSUME TypeOK, size > 0, size' = size - 1, head' = (head + 1) % N
    PROVE  Live' = Live \ {head} /\ head \in Live
<1>1. size \in 1 .. N /\ N \in Nat \ {0} /\ head \in Slot
  BY SizesAssumption DEF TypeOK, N
<1>2. \A k \in 0 .. size' - 1 : (head' + k) % N = Nth(k + 1)
  <2>1. \A k \in 0 .. N - 1 : (head' + k) % N = Nth(k + 1)
    BY NthAfterCommit DEF Nth, N
  <2> QED
    BY <1>1, <2>1
<1>3. Live' = {Nth(k + 1) : k \in 0 .. size - 2}
  <2>1. Live' = {(head' + k) % N : k \in 0 .. size' - 1}
    BY DEF Live, Nth, N
  <2>2. 0 .. size' - 1 = 0 .. size - 2
    BY <1>1
  <2> QED
    BY <1>2, <2>1, <2>2
<1>4. head = Nth(0)
  <2>1. 0 \in 0 .. N /\ ~(head + 0 >= N) /\ head + 0 = head
    BY <1>1 DEF Slot, N
  <2> QED
    BY <1>1, <2>1, RingValue DEF Nth, N
<1>5. ASSUME NEW k \in 0 .. size - 2 PROVE Nth(k + 1) \in Live /\ Nth(k + 1) # Nth(0)
  <2>1. k + 1 \in 0 .. size - 1 /\ k + 1 \in 0 .. N - 1 /\ 0 \in 0 .. N - 1 /\ k + 1 # 0
    BY <1>1
  <2> QED
    BY <2>1, NthFacts DEF Live
<1>6. ASSUME NEW k \in 0 .. size - 1, Nth(k) # Nth(0) PROVE Nth(k) \in Live'
  <2>1. k # 0
    BY <1>6
  <2>2. k - 1 \in 0 .. size - 2 /\ (k - 1) + 1 = k
    BY <1>1, <2>1
  <2>3. Nth((k - 1) + 1) \in Live'
    BY <1>3, <2>2
  <2> QED
    BY <2>2, <2>3
<1>7. 0 \in 0 .. size - 1
  BY <1>1
<1> QED
  BY <1>3, <1>4, <1>5, <1>6, <1>7 DEF Live

LEMMA LiveAfterRollBack ==
    ASSUME TypeOK, AgeOrdered, size > 0, size' = size - 1, head' = head
    PROVE  /\ Live' = Live \ {Previous(tail)}
           /\ Previous(tail) = Nth(size - 1) /\ Previous(tail) \in Live
<1>1. size \in 1 .. N /\ N \in Nat \ {0}
  BY SizesAssumption DEF TypeOK, N
<1>2. Previous(tail) = Nth(size - 1)
  <2>1. tail = Nth(size)
    BY DEF AgeOrdered, Nth
  <2> QED
    BY <1>1, <2>1, NthFacts
<1>3. Live' = {Nth(k) : k \in 0 .. size' - 1}
  BY DEF Live, Nth
<1>4. 0 .. size - 1 = (0 .. size' - 1) \cup {size - 1}
  BY <1>1
<1>5. \A k \in 0 .. size' - 1 : Nth(k) # Nth(size - 1)
  <2> TAKE k \in 0 .. size' - 1
  <2>1. k \in 0 .. N - 1 /\ size - 1 \in 0 .. N - 1 /\ k # size - 1
    BY <1>1
  <2> QED
    BY <2>1, NthFacts
<1> QED
  BY <1>2, <1>3, <1>4, <1>5 DEF Live

LEMMA LiveInSlot == TypeOK => Live \subseteq Slot
<1> SUFFICES ASSUME TypeOK, NEW k \in 0 .. size - 1 PROVE Nth(k) \in Slot
  BY DEF Live
<1>1. k \in 0 .. N
  BY SizesAssumption DEF TypeOK, N
<1> QED
  BY <1>1, NthFacts

LEMMA InflightStep ==
    TypeOK /\ AgeOrdered /\ InflightNamesLiveEntry /\ [Next]_vars => InflightNamesLiveEntry'
<1> SUFFICES ASSUME TypeOK, AgeOrdered, InflightNamesLiveEntry, [Next]_vars
             PROVE  InflightNamesLiveEntry'
  OBVIOUS
<1>0. /\ Live \subseteq Slot
      /\ \A i \in Live : buffer[i].seq \in Nat /\ buffer[i].completed \in BOOLEAN
      /\ squash_seq \in Nat
  BY LiveInSlot DEF TypeOK, ROBEntry
<1>1. ASSUME NEW instr \in Instrs, Rename(instr) PROVE InflightNamesLiveEntry'
  <2>1. PICK new, old : Insert(instr, new, old)
    BY <1>1 DEF Rename
  <2>2. /\ ~Full /\ size' = size + 1 /\ head' = head
        /\ UNCHANGED <<squashing, squash_pending, squash_seq>> /\ ~squash_pending
    BY <1>1, <2>1 DEF Rename, Insert, squashVars
  <2>3. Live' = Live \cup {tail} /\ tail \notin Live /\ tail \in Slot
    BY <2>2, LiveAfterRename DEF TypeOK
  <2> DEFINE ref == [seq |-> next_seq, kind |-> instr.kind, reg_write |-> instr.reg_write,
                     rob_index |-> tail, rd |-> new, stage |-> "waiting"]
  <2>4. inflight' = inflight \cup {ref}
    BY <2>1 DEF Insert
  <2>5. /\ ref.rob_index = tail /\ ref.seq = next_seq /\ ref.rd = new
    OBVIOUS
  <2>6. /\ buffer'[tail].seq = next_seq /\ buffer'[tail].dest_phys_reg = new
        /\ ~buffer'[tail].completed
        /\ \A i \in Live : buffer'[i] = buffer[i]
    BY <1>0, <2>1, <2>3 DEF Insert, TypeOK
  <2>7. ~squashing /\ ~squashing'
    BY <2>2 DEF InflightNamesLiveEntry
  <2> HIDE DEF ref
  <2>8. \A q \in inflight' :
          /\ q.rob_index \in Live' /\ buffer'[q.rob_index].seq = q.seq
          /\ buffer'[q.rob_index].dest_phys_reg = q.rd /\ ~buffer'[q.rob_index].completed
    BY <2>3, <2>4, <2>5, <2>6 DEF InflightNamesLiveEntry
  <2>9. \A p, q \in inflight' : p.rob_index = q.rob_index => p = q
    BY <2>3, <2>4, <2>5 DEF InflightNamesLiveEntry
  <2>10. \A i \in Live' : buffer'[i].completed \/ \E p \in inflight' : p.rob_index = i
    BY <2>3, <2>4, <2>5, <2>6, <2>7 DEF InflightNamesLiveEntry
  <2> QED
    BY <2>7, <2>8, <2>9, <2>10 DEF InflightNamesLiveEntry
<1>2. ASSUME NEW p \in inflight, Execute(p) PROVE InflightNamesLiveEntry'
  <2>1. PICK s \in {"result", "mshr"} : MoveTo(p, s)
    BY <1>2 DEF Execute
  <2> DEFINE q == [p EXCEPT !.stage = s]
  <2>2. q.rob_index = p.rob_index /\ q.seq = p.seq /\ q.rd = p.rd
    BY DEF TypeOK, Reference
  <2>3. inflight' = (inflight \ {p}) \cup {q}
    BY <2>1 DEF MoveTo
  <2>4. /\ ~squashing /\ ~squashing' /\ Live' = Live /\ buffer' = buffer
    BY <1>2 DEF Execute, RequestSquash, squashVars, robVars, Live, Nth
  <2> HIDE DEF q
  <2> QED
    BY <2>2, <2>3, <2>4 DEF InflightNamesLiveEntry
<1>3. ASSUME NEW p \in inflight, NEW writes \in BOOLEAN, ~squashing, Complete(p, writes)
      PROVE  InflightNamesLiveEntry'
  <2>1. /\ Live' = Live /\ inflight' = inflight \ {p} /\ ~squashing'
    BY <1>3 DEF Complete, squashVars, Live, Nth
  <2>2. p.rob_index \in Live
    BY DEF InflightNamesLiveEntry
  <2>3. /\ \A i \in Live \ {p.rob_index} : buffer'[i] = buffer[i]
        /\ buffer'[p.rob_index].completed
    BY <1>0, <1>3, <2>2 DEF Complete, TypeOK, ROBEntry
  <2>4. \A q \in inflight' : q.rob_index \in Live \ {p.rob_index}
    BY <2>1 DEF InflightNamesLiveEntry
  <2> QED
    BY <1>3, <2>1, <2>3, <2>4 DEF InflightNamesLiveEntry
<1>4. CASE Commit
  <2>1. /\ head' = (head + 1) % N /\ size > 0 /\ size' = size - 1
        /\ buffer' = buffer /\ inflight' = inflight /\ buffer[head].completed
        /\ squashing' = squashing /\ squash_pending' = squash_pending
        /\ squash_seq' = squash_seq
    BY <1>4 DEF Commit, HeadCompleted, N, squashVars
  <2>2. Live' = Live \ {head}
    BY <2>1, LiveAfterCommit
  <2> QED
    BY <2>1, <2>2 DEF InflightNamesLiveEntry
<1>5. ASSUME NEW s \in committed_stores, NEW smc \in BOOLEAN, DrainStore(s, smc)
      PROVE  InflightNamesLiveEntry'
  <2>1. ~squashing /\ ~squashing' /\ Live' = Live /\ buffer' = buffer /\ inflight' = inflight
    BY <1>5 DEF DrainStore, RequestSquash, squashVars, robVars, Live, Nth
  <2> QED
    BY <2>1 DEF InflightNamesLiveEntry
<1>6. CASE SquashQueues
  <2>1. /\ squashing' /\ squash_pending' /\ ~squashing /\ squash_seq' = squash_seq
        /\ inflight' = {p \in inflight : p.seq <= squash_seq}
        /\ Live' = Live /\ buffer' = buffer
    BY <1>6 DEF SquashQueues, SurvivesSquash, robVars, Live, Nth
  <2>2. ASSUME NEW i \in Live, ~buffer[i].completed, ~(buffer[i].seq > squash_seq)
        PROVE  \E p \in inflight' : p.rob_index = i
    <3>1. PICK p \in inflight : p.rob_index = i
      BY <2>1, <2>2 DEF InflightNamesLiveEntry
    <3>2. p.seq = buffer[i].seq /\ buffer[i].seq <= squash_seq
      BY <1>0, <2>2, <3>1 DEF InflightNamesLiveEntry
    <3> QED
      BY <2>1, <3>1, <3>2
  <2> QED
    BY <2>1, <2>2 DEF InflightNamesLiveEntry
<1>7. CASE RollBack
  <2>1. /\ squashing /\ size > 0 /\ size' = size - 1 /\ head' = head
        /\ buffer' = buffer /\ inflight' = inflight
        /\ buffer[Previous(tail)].seq > squash_seq
        /\ squashing' = squashing /\ squash_pending' = squash_pending
        /\ squash_seq' = squash_seq
    BY <1>7 DEF RollBack, OnWrongPath, squashVars
  <2>2. Live' = Live \ {Previous(tail)} /\ Previous(tail) \in Live
    BY <2>1, LiveAfterRollBack
  <2>3. \A p \in inflight : p.rob_index # Previous(tail)
    <3> TAKE p \in inflight
    <3>1. p.seq <= squash_seq /\ p.seq = buffer[p.rob_index].seq
      BY <2>1 DEF InflightNamesLiveEntry
    <3>2. buffer[Previous(tail)].seq \in Nat /\ squash_seq \in Nat
      BY <1>0, <2>2
    <3>3. CASE p.rob_index = Previous(tail)
      BY <2>1, <3>1, <3>2, <3>3
    <3> QED
      BY <3>3
  <2> QED
    BY <2>1, <2>2, <2>3 DEF InflightNamesLiveEntry
<1>8. CASE SquashDone
  <2>1. /\ squashing /\ ~squashing' /\ Live' = Live /\ buffer' = buffer
        /\ inflight' = inflight
        /\ size > 0 => ~(buffer[Previous(tail)].seq > squash_seq)
    BY <1>8 DEF SquashDone, OnWrongPath, robVars, Live, Nth
  <2>2. ASSUME NEW i \in Live PROVE ~(buffer[i].seq > squash_seq)
    <3>1. PICK k \in 0 .. size - 1 : i = Nth(k)
      BY DEF Live
    <3>2. size \in 1 .. N /\ N \in Nat
      BY <3>1, SizesAssumption DEF TypeOK, N
    <3>3. tail = Nth(size) /\ Previous(Nth(size)) = Nth(size - 1)
      BY <3>2, NthFacts DEF AgeOrdered, Nth
    <3>4. ~(buffer[Nth(size - 1)].seq > squash_seq)
      BY <2>1, <3>2, <3>3
    <3>5. size - 1 \in 0 .. size - 1 /\ (k < size - 1 \/ k = size - 1)
      BY <3>2
    <3>6. k < size - 1 => buffer[Nth(k)].seq < buffer[Nth(size - 1)].seq
      BY <3>5 DEF AgeOrdered
    <3>7. buffer[Nth(k)].seq \in Nat /\ buffer[Nth(size - 1)].seq \in Nat
      BY <1>0, <3>5 DEF Live
    <3> QED
      BY <1>0, <3>1, <3>4, <3>5, <3>6, <3>7
  <2> QED
    BY <2>1, <2>2 DEF InflightNamesLiveEntry
<1>9. CASE Halted \/ UNCHANGED vars
  <2>1. /\ Live' = Live /\ buffer' = buffer /\ inflight' = inflight
        /\ squashing' = squashing /\ squash_pending' = squash_pending
        /\ squash_seq' = squash_seq
    BY <1>9 DEF Halted, vars, robVars, squashVars, Live, Nth
  <2> QED
    BY <2>1 DEF InflightNamesLiveEntry
<1>10. ASSUME NEW p \in inflight, Writeback(p) \/ MemoryResponse(p)
       PROVE  InflightNamesLiveEntry'
  <2>1. CASE Writeback(p)
    BY <1>3, <2>1 DEF Writeback, TypeOK, Reference
  <2>2. CASE MemoryResponse(p)
    BY <1>3, <2>2 DEF MemoryResponse
  <2> QED
    BY <1>10, <2>1, <2>2
<1> QED
  BY <1>1, <1>2, <1>4, <1>5, <1>6, <1>7, <1>8, <1>9, <1>10 DEF Next

\* No component ever holds a stale rob_index or destination register, and no
\* completion is lost: the references and the incomplete entries correspond.
THEOREM NoStaleReference == Spec => []InflightNamesLiveEntry
<1>1. Init => InflightNamesLiveEntry
  <2> SUFFICES ASSUME Init PROVE InflightNamesLiveEntry
    OBVIOUS
  <2>1. Live = {} /\ inflight = {} /\ ~squashing
    <3>1. 0 .. 0 - 1 = {}
      OBVIOUS
    <3> QED
      BY <3>1 DEF Init, Live
  <2> QED
    BY <2>1 DEF InflightNamesLiveEntry
<1> QED
  BY <1>1, InflightStep, TypeCorrect, ReorderBufferAgeOrdered, PTL DEF Spec
=============================================================================
