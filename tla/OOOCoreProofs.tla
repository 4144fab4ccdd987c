---------------------------- MODULE OOOCoreProofs ----------------------------
(***************************************************************************)
(* Proofs about OOOCore: the types of its state, that no wakeup is lost,   *)
(* and what the branch predictor's entries and predictions are worth, for  *)
(* every program, every size and every behaviour of the caches.            *)
(***************************************************************************)
EXTENDS OOOCore, InstructionSetProofs, SequenceTheorems

----------------------------------------------------------------------------
(* The first and the last of a set of positions.                           *)

LEMMA FirstIsIn ==
    ASSUME NEW S \in SUBSET Nat, S # {}
    PROVE  First(S) \in S /\ \A j \in S : First(S) <= j
<1>1. PICK m \in S : \A k \in S : <<k, m>> \notin OpToRel(<, Nat)
  BY NatLessThanWellFounded, WFMin, Zenon
<1>2. \A k \in S : ~(k < m)
  BY <1>1 DEF OpToRel
<1>3. \A k \in S : m <= k
  BY <1>2
<1> QED
  BY <1>3 DEF First

LEMMA LastIsIn ==
    ASSUME NEW n \in Nat, NEW S \in SUBSET (1 .. n), S # {}
    PROVE  Last(S) \in S /\ \A j \in S : j <= Last(S)
<1> DEFINE T == {n - k : k \in S}
<1>1. T \in SUBSET Nat /\ T # {}
  <2>1. \A k \in S : k \in 1 .. n /\ n - k \in Nat
    OBVIOUS
  <2> QED
    BY <2>1
<1>2. First(T) \in T /\ \A j \in T : First(T) <= j
  BY <1>1, FirstIsIn
<1>3. PICK k \in S : First(T) = n - k
  BY <1>2
<1>4. \A j \in S : n - j \in T
  OBVIOUS
<1>5. \A j \in S : n - k <= n - j
  BY <1>2, <1>3, <1>4
<1>6. \A j \in S : j <= k
  BY <1>5
<1> QED
  BY <1>6 DEF Last

----------------------------------------------------------------------------
(* The constants and the program.                                          *)

LEMMA Sizes ==
    /\ PIPELINE_WIDTH \in Nat \ {0} /\ REORDER_BUFFER_SIZE \in Nat \ {0}
    /\ STORE_QUEUE_SIZE \in Nat \ {0} /\ LOAD_QUEUE_SIZE \in Nat \ {0}
    /\ Slots \in SUBSET Nat /\ 1 \in Slots
BY CoreAssumption DEF Slots

LEMMA BTBIndices ==
    \A at \in Nat : /\ at % 2 ^ BTB_BITS \in BTBIndex
                    /\ at \div 2 ^ BTB_BITS \in Nat
<1>1. 2 ^ BTB_BITS \in Nat \ {0}
  BY TwoToThe, CoreAssumption
<1> QED
  BY <1>1 DEF BTBIndex

LEMMA ZeroIsWord == 0 \in Word /\ 0 \in Reg /\ 0 \in Imm /\ Word \subseteq Nat
<1>1. 2 ^ WORD_BITS \in Nat \ {0} /\ 2 ^ IMM_BITS \in Nat \ {0}
  BY TwoToThe, WidthAssumption
<1> QED
  BY <1>1, WidthAssumption DEF Word, Reg, Imm

LEMMA NopIsInstruction == Nop \in Instruction
BY ZeroIsWord DEF Nop, Instruction, Op, RType, Shifts

LEMMA EmptySlotIsSlot == EmptySlot \in Slot /\ EmptyBuffer \in [Slots -> Slot]
BY NopIsInstruction DEF EmptySlot, EmptyBuffer, Slot

LEMMA FetchTypes ==
    ASSUME NEW p \in Programs, NEW at \in Nat
    PROVE  /\ Fetch(p, at) \in Instruction
           /\ Fetch(p, at).op \in LoadOps => Fetch(p, at).rt # 0
           /\ IsControlTransfer(Fetch(p, at)) =>
                 /\ at \in 0 .. Len(p) - 1
                 /\ BranchTarget(Fetch(p, at), Decode(Fetch(p, at)), at) \in Nat
<1>1. p \in Seq(Instruction)
  BY CoreAssumption
<1>2. CASE at + 1 \in DOMAIN p
  <2>1. Fetch(p, at) = p[at + 1] /\ (at + 1) - 1 = at
    BY <1>2 DEF Fetch
  <2>2. p[at + 1] \in Instruction /\ at \in 0 .. Len(p) - 1
    BY <1>1, <1>2
  <2>3. /\ p[at + 1].op \in LoadOps => p[at + 1].rt # 0
        /\ IsControlTransfer(p[at + 1]) =>
              BranchTarget(p[at + 1], Decode(p[at + 1]), (at + 1) - 1) \in Nat
    BY <1>2, CoreAssumption, Zenon
  <2> QED
    BY <2>1, <2>2, <2>3
<1>3. CASE at + 1 \notin DOMAIN p
  <2>1. Fetch(p, at) = Nop
    BY <1>3 DEF Fetch
  <2>2. ~IsControlTransfer(Nop)
    BY DEF IsControlTransfer, Nop, Decode, Branches, JType
  <2>3. Nop.op \notin LoadOps
    BY DEF Nop, LoadOps
  <2> QED
    BY <2>1, <2>2, <2>3, NopIsInstruction
<1> QED
  BY <1>2, <1>3

----------------------------------------------------------------------------
(* What the operators on buffers and on the window return.                 *)

LEMMA FunctionIsSequence ==
    ASSUME NEW S, NEW n \in Nat, NEW f \in [1 .. n -> S]
    PROVE  f \in Seq(S) /\ Len(f) = n /\ DOMAIN f = 1 .. n
OBVIOUS

LEMMA CompactTypes ==
    ASSUME NEW buffer \in [Slots -> Slot]
    PROVE  /\ Compact(buffer) \in [Slots -> Slot]
           /\ \A n \in Slots : Compact(buffer)[n].in_use =>
                 \E s \in InUse(buffer) : Compact(buffer)[n] = buffer[s]
<1> DEFINE nth(n) == {s \in InUse(buffer) : Cardinality({t \in InUse(buffer) : t <= s}) = n}
           to == [n \in Slots |-> IF nth(n) = {} THEN EmptySlot ELSE buffer[First(nth(n))]]
<1>1. ASSUME NEW n \in Slots, nth(n) # {} PROVE First(nth(n)) \in InUse(buffer)
  <2>1. nth(n) \in SUBSET Nat
    BY Sizes DEF InUse
  <2> QED
    BY <1>1, <2>1, FirstIsIn
<1>2. Compact(buffer) = to
  BY DEF Compact
<1>3. ASSUME NEW n \in Slots
      PROVE  to[n] = EmptySlot \/ \E s \in InUse(buffer) : to[n] = buffer[s]
  BY <1>1, <1>3
<1>4. InUse(buffer) \subseteq Slots /\ ~EmptySlot.in_use
  BY DEF InUse, EmptySlot
<1>5. to = [n \in Slots |-> to[n]]
  OBVIOUS
<1> HIDE DEF to, nth
<1> QED
  BY <1>2, <1>3, <1>4, <1>5, EmptySlotIsSlot

LEMMA SlotsChosen ==
    ASSUME NEW buffer
    PROVE  /\ InUse(buffer) # {} => First(InUse(buffer)) \in InUse(buffer)
           /\ Free(buffer) # {} => First(Free(buffer)) \in Free(buffer)
           /\ InUse(buffer) \subseteq Slots /\ Free(buffer) \subseteq Slots
<1>1. InUse(buffer) \in SUBSET Nat /\ Free(buffer) \in SUBSET Nat
  BY Sizes DEF InUse, Free
<1> QED
  BY <1>1, FirstIsIn DEF InUse, Free

LEMMA BroadcastKeeps ==
    ASSUME window \in Seq(Entry), NEW done
    PROVE  /\ Broadcast(done) \in Seq(Entry)
           /\ Len(Broadcast(done)) = Len(window)
           /\ DOMAIN Broadcast(done) = DOMAIN window
           /\ \A k \in DOMAIN window :
                 LET old == window[k]
                     new == Broadcast(done)[k]
                 IN /\ new.pc = old.pc /\ new.instr = old.instr
                    /\ new.branch_taken = old.branch_taken
                    /\ new.rs = old.rs /\ new.rt = old.rt
                    /\ new.state = IF k \in done THEN "done" ELSE old.state
                    /\ k \notin done /\ old.state = "queued" =>
                          /\ new.rs_ready = (old.rs_ready \/ old.rs \in done)
                          /\ new.rt_ready = (old.rt_ready \/ old.rt \in done)
<1> DEFINE B == Broadcast(done)
<1>1. DOMAIN window = 1 .. Len(window) /\ Len(window) \in Nat
  OBVIOUS
<1>2. ASSUME NEW k \in DOMAIN window
      PROVE  B[k] = IF k \in done THEN [window[k] EXCEPT !.state = "done"]
                    ELSE IF window[k].state = "queued"
                      THEN [window[k] EXCEPT
                              !.rs_ready = window[k].rs_ready \/ window[k].rs \in done,
                              !.rt_ready = window[k].rt_ready \/ window[k].rt \in done]
                    ELSE window[k]
  BY <1>2 DEF Broadcast, Wakes
<1>3. B = [k \in 1 .. Len(window) |-> B[k]]
  BY <1>1 DEF Broadcast
<1> HIDE DEF B
<1>4. ASSUME NEW k \in DOMAIN window
      PROVE  /\ B[k] \in Entry
             /\ B[k].pc = window[k].pc /\ B[k].instr = window[k].instr
             /\ B[k].branch_taken = window[k].branch_taken
             /\ B[k].rs = window[k].rs /\ B[k].rt = window[k].rt
             /\ B[k].state = IF k \in done THEN "done" ELSE window[k].state
             /\ k \notin done /\ window[k].state = "queued" =>
                  /\ B[k].rs_ready = (window[k].rs_ready \/ window[k].rs \in done)
                  /\ B[k].rt_ready = (window[k].rt_ready \/ window[k].rt \in done)
  <2>1. window[k] \in Entry
    BY <1>4
  <2>2. CASE k \in done
    BY <2>1, <2>2, <1>2, <1>4 DEF Entry
  <2>3. CASE k \notin done /\ window[k].state = "queued"
    <3> DEFINE x == window[k].rs_ready \/ window[k].rs \in done
               y == window[k].rt_ready \/ window[k].rt \in done
    <3>1. x \in BOOLEAN /\ y \in BOOLEAN
      BY Zenon
    <3>2. B[k] = [window[k] EXCEPT !.rs_ready = x, !.rt_ready = y]
      BY <2>3, <1>2, <1>4
    <3>3. /\ B[k] \in Entry /\ B[k].rs_ready = x /\ B[k].rt_ready = y
          /\ B[k].pc = window[k].pc /\ B[k].instr = window[k].instr
          /\ B[k].branch_taken = window[k].branch_taken
          /\ B[k].rs = window[k].rs /\ B[k].rt = window[k].rt
          /\ B[k].state = window[k].state
      <4> HIDE DEF x, y
      <4> QED
        BY <2>1, <3>1, <3>2 DEF Entry
    <3> QED
      BY <3>3, <2>3
  <2>4. CASE k \notin done /\ window[k].state # "queued"
    BY <2>1, <2>4, <1>2, <1>4
  <2> QED
    BY <2>2, <2>3, <2>4
<1>5. B \in [1 .. Len(window) -> Entry]
  BY <1>1, <1>3, <1>4
<1>6. B \in Seq(Entry) /\ Len(B) = Len(window) /\ DOMAIN B = DOMAIN window
  BY <1>1, <1>5, FunctionIsSequence
<1> QED
  BY <1>4, <1>6 DEF B

----------------------------------------------------------------------------
(* The inductive invariant for the types.  The targets of branches are     *)
(* addresses because what is in flight is what the text holds, operands    *)
(* are words because producers are older and their entries exist, and the  *)
(* end of execute_stage cuts the window at an entry that exists.           *)

\* What fetch_stage knew of an instruction, wherever it is now.
Flight(e) == [pc |-> e.pc, instr |-> e.instr, branch_taken |-> e.branch_taken]
Flights(buffer) == {Flight(buffer[s]) : s \in InUse(buffer)}
InFlight == Flights(if_id_buffer) \cup Flights(id_rn_buffer)
              \cup {Flight(window[k]) : k \in DOMAIN window}

Fetched == \A f \in InFlight : f.instr = Fetch(program, f.pc)

Producers == \A k \in DOMAIN window : window[k].rs < k /\ window[k].rt < k

SquashedIsLive == squash.pending => stage = "execute" /\ squash.seq \in DOMAIN window

CoreInvariant == TypeOK /\ program \in Programs /\ Fetched /\ Producers /\ SquashedIsLive

\* The window is cut and its entries keep what they had when they were renamed.
WindowKept ==
    /\ window' \in Seq(Entry) /\ Len(window') <= Len(window)
    /\ \A k \in DOMAIN window' :
          /\ k \in DOMAIN window
          /\ window'[k].pc = window[k].pc /\ window'[k].instr = window[k].instr
          /\ window'[k].branch_taken = window[k].branch_taken
          /\ window'[k].rs = window[k].rs /\ window'[k].rt = window[k].rt

\* No entry becomes or stops being done, and none gets ready.
NothingProduced ==
    \A k \in DOMAIN window' :
        /\ window'[k].state = "done" <=> window[k].state = "done"
        /\ window'[k].state = "queued" =>
              /\ window[k].state = "queued"
              /\ window'[k].rs_ready = window[k].rs_ready
              /\ window'[k].rt_ready = window[k].rt_ready

States == {"queued", "unit", "retry", "result", "mshr", "done"}

LEMMA Update ==
    ASSUME window \in Seq(Entry), NEW k \in DOMAIN window, NEW state \in States \ {"queued"},
           NEW addr \in Word, NEW value \in Word, window[k].state # "done",
           window' = [window EXCEPT ![k].state = state, ![k].addr = addr, ![k].value = value]
    PROVE  /\ WindowKept /\ DOMAIN window' = DOMAIN window
           /\ window'[k].state = state
           /\ \A j \in DOMAIN window \ {k} : window'[j] = window[j]
<1> DEFINE new == [window[k] EXCEPT !.state = state, !.addr = addr, !.value = value]
<1>1. window[k] \in Entry
  OBVIOUS
<1>2. /\ new \in Entry /\ new.pc = window[k].pc /\ new.instr = window[k].instr
      /\ new.branch_taken = window[k].branch_taken
      /\ new.rs = window[k].rs /\ new.rt = window[k].rt /\ new.state = state
  BY <1>1 DEF Entry, States
<1>3. window' = [window EXCEPT ![k] = new]
  OBVIOUS
<1> HIDE DEF new
<1>4. /\ window' \in Seq(Entry) /\ Len(window') = Len(window)
      /\ DOMAIN window' = DOMAIN window /\ window'[k] = new
      /\ \A j \in DOMAIN window \ {k} : window'[j] = window[j]
  BY <1>2, <1>3
<1>5. Len(window) \in Nat
  OBVIOUS
<1> QED
  BY <1>2, <1>4, <1>5 DEF WindowKept

----------------------------------------------------------------------------
(* Stores: how many there are in the window, and what draining leaves.     *)

LEMMA StoresCounted ==
    ASSUME window \in Seq(Entry)
    PROVE  /\ IsFiniteSet(InWindow(StoreOps))
           /\ Cardinality(InWindow(StoreOps)) \in Nat
<1>1. InWindow(StoreOps) \subseteq 1 .. Len(window) /\ Len(window) \in Nat /\ 1 \in Int
  BY DEF InWindow
<1>2. IsFiniteSet(1 .. Len(window))
  BY <1>1, FS_Interval
<1>3. IsFiniteSet(InWindow(StoreOps))
  BY <1>1, <1>2, FS_Subset
<1> QED
  BY <1>3, FS_CardinalityType

LEMMA StoresKept ==
    ASSUME window \in Seq(Entry), WindowKept
    PROVE  Cardinality(InWindow(StoreOps)') <= Cardinality(InWindow(StoreOps))
<1>1. InWindow(StoreOps)' \subseteq InWindow(StoreOps)
  BY DEF InWindow, WindowKept
<1> QED
  BY <1>1, StoresCounted, FS_Subset, Zenon

Stored == [addr : Word, data : Word, byte : BOOLEAN]

LEMMA DrainTypes ==
    ASSUME NEW q \in Seq(Stored), mem \in [Word -> Word], Drain(q)
    PROVE  /\ mem' \in [Word -> Word]
           /\ committed_stores' \in Seq(Stored) /\ Len(committed_stores') <= Len(q)
<1>1. PICK count \in 0 .. Len(q) : /\ mem' = After(SubSeq(q, 1, count))
                                  /\ committed_stores' = SubSeq(q, count + 1, Len(q))
  BY DEF Drain
<1>2. count \in Nat /\ Len(q) \in Nat /\ count <= Len(q)
  OBVIOUS
<1>3. committed_stores' \in Seq(Stored) /\ Len(committed_stores') <= Len(q)
  BY <1>1, <1>2
<1> DEFINE d == SubSeq(q, 1, count)
<1>4. d \in Seq(Stored)
  BY <1>2
<1> HIDE DEF d
<1>5. ASSUME NEW a \in Word, DrainedTo(d, a) # {}
      PROVE  d[Last(DrainedTo(d, a))].data \in Word
  <2>1. DrainedTo(d, a) \in SUBSET (1 .. Len(d)) /\ Len(d) \in Nat
    BY <1>4 DEF DrainedTo
  <2>2. Last(DrainedTo(d, a)) \in 1 .. Len(d)
    BY <1>5, <2>1, LastIsIn
  <2>3. d[Last(DrainedTo(d, a))] \in Stored
    BY <1>4, <2>2
  <2> QED
    BY <2>3 DEF Stored
<1>6. After(d) \in [Word -> Word]
  BY <1>5 DEF After
<1> QED
  BY <1>1, <1>3, <1>6 DEF d

----------------------------------------------------------------------------
(* What each stage does to the window.                                     *)

LEMMA WindowTypes ==
    ASSUME TypeOK
    PROVE  /\ window \in Seq(Entry) /\ Len(window) \in Nat
           /\ DOMAIN window = 1 .. Len(window)
           /\ \A k \in DOMAIN window : window[k] \in Entry
           /\ \A state : InState(state) \in SUBSET (DOMAIN window)
           /\ \A ops : InWindow(ops) \in SUBSET (DOMAIN window)
           /\ DOMAIN window \in SUBSET Nat
<1>1. window \in Seq(Entry)
  BY DEF TypeOK
<1> QED
  BY <1>1 DEF InState, InWindow

LEMMA DispatchWindow ==
    ASSUME TypeOK, DispatchOne
    PROVE  WindowKept /\ DOMAIN window' = DOMAIN window /\ NothingProduced
<1> DEFINE k == First(Ready)
<1>1. Ready \in SUBSET Nat /\ Ready # {}
  BY WindowTypes DEF Ready, DispatchOne, Dispatchable
<1>2. k \in Ready
  BY <1>1, FirstIsIn
<1>3. k \in DOMAIN window /\ window[k].state = "queued"
  BY <1>2 DEF Ready, InState
<1>4. window[k] \in Entry /\ window \in Seq(Entry)
  BY <1>3, WindowTypes
<1>5. window' = [window EXCEPT ![k].state = "unit", ![k].addr = window[k].addr,
                               ![k].value = window[k].value]
  <2> DEFINE e == window[k]
  <2>1. [e EXCEPT !.state = "unit"] =
            [e EXCEPT !.state = "unit", !.addr = e.addr, !.value = e.value]
    BY <1>4 DEF Entry
  <2>2. window' = [window EXCEPT ![k] = [e EXCEPT !.state = "unit"]]
    BY DEF DispatchOne
  <2> QED
    BY <2>1, <2>2
<1>6. /\ WindowKept /\ DOMAIN window' = DOMAIN window /\ window'[k].state = "unit"
      /\ \A j \in DOMAIN window \ {k} : window'[j] = window[j]
  <2>1. "unit" \in States \ {"queued"} /\ window[k].addr \in Word /\ window[k].value \in Word
    BY <1>4 DEF States, Entry
  <2> HIDE DEF k
  <2> QED
    BY <1>3, <1>4, <1>5, <2>1, Update
<1> HIDE DEF k
<1> QED
  BY <1>3, <1>6 DEF NothingProduced

LEMMA OperandIsWord ==
    ASSUME CoreInvariant, NEW k \in DOMAIN window, NEW reads \in BOOLEAN,
           NEW r \in Reg, NEW reg \in {window[k].rs, window[k].rt}
    PROVE  Operand(reads, reg, r) \in Word
<1>1. window[k] \in Entry /\ k \in 1 .. Len(window) /\ Len(window) \in Nat
  BY WindowTypes DEF CoreInvariant
<1>2. reg \in Nat /\ reg < k
  BY <1>1 DEF CoreInvariant, Producers, Entry
<1>3. R[r] \in Word /\ 0 \in Word
  BY WordLimits DEF CoreInvariant, TypeOK
<1>4. reg # 0 => window[reg].value \in Word
  <2>1. reg # 0 => reg \in DOMAIN window
    BY <1>1, <1>2, WindowTypes DEF CoreInvariant
  <2> QED
    BY <2>1, WindowTypes DEF CoreInvariant, Entry
<1> QED
  BY <1>2, <1>3, <1>4, Zenon DEF Operand

LEMMA ForwardedIsWord ==
    ASSUME TypeOK, NEW k \in DOMAIN window, NEW addr, Forwards(k, addr)
    PROVE  Forwarded(k, addr) \in Word
<1>1. Forwarding(k, addr) \in SUBSET (1 .. Len(window)) /\ Len(window) \in Nat
  BY WindowTypes DEF Forwarding
<1>2. CASE Forwarding(k, addr) # {}
  <2>1. Last(Forwarding(k, addr)) \in DOMAIN window
    BY <1>1, <1>2, LastIsIn, WindowTypes
  <2>2. window[Last(Forwarding(k, addr))].value \in Word
    BY <2>1, WindowTypes DEF Entry
  <2> QED
    BY <2>2, <1>2 DEF Forwarded
<1>3. CASE Forwarding(k, addr) = {}
  <2>1. committed_stores \in Seq(Stored)
    BY DEF TypeOK, Stored
  <2>2. /\ ForwardingCommitted(k, addr) \in SUBSET (1 .. Len(committed_stores))
        /\ Len(committed_stores) \in Nat /\ ForwardingCommitted(k, addr) # {}
    BY <1>3, <2>1 DEF Forwards, ForwardingCommitted
  <2>3. Last(ForwardingCommitted(k, addr)) \in 1 .. Len(committed_stores)
    BY <2>2, LastIsIn
  <2>4. committed_stores[Last(ForwardingCommitted(k, addr))] \in Stored
    BY <2>1, <2>3
  <2> QED
    BY <2>4, <1>3 DEF Forwarded, Stored
<1> QED
  BY <1>2, <1>3

LEMMA Transferred ==
    ASSUME CoreInvariant, NEW k \in DOMAIN window, IsControlTransfer(window[k].instr),
           NEW taken, NEW read_data_1 \in Word
    PROVE  /\ window[k].pc \in 0 .. Len(program) - 1
           /\ TargetOf(window[k], Decode(window[k].instr), taken, read_data_1) \in Nat
<1> DEFINE e == window[k]
<1>1. e \in Entry
  BY WindowTypes DEF CoreInvariant
<1>2. e.pc \in Nat /\ e.instr.imm \in Nat
  BY <1>1, WordLimits DEF Entry, Instruction
<1>3. e.instr = Fetch(program, e.pc) /\ program \in Programs
  <2>1. Flight(e) \in InFlight
    BY DEF InFlight
  <2> QED
    BY <2>1 DEF CoreInvariant, Fetched, Flight
<1>4. BranchTarget(e.instr, Decode(e.instr), e.pc) \in Nat /\ e.pc \in 0 .. Len(program) - 1
  BY <1>2, <1>3, FetchTypes
<1>5. e.pc + 1 \in Nat /\ read_data_1 \in Nat
  BY <1>2, WordLimits
<1> QED
  BY <1>2, <1>4, <1>5, Zenon DEF TargetOf

\* What the unit that executes the k-th instruction does apart from the window.
Resolves(k, branch_taken, read_data_1) ==
    LET e == window[k]
        control == Decode(e.instr)
        target == TargetOf(e, control, branch_taken, read_data_1)
        taken == branch_taken \/ control.jump \/ control.jump_reg
    IN \/ /\ IsControlTransfer(e.instr)
          /\ btb' = Trained(taken, e.pc, target)
          /\ squash' = IF Mispredicted(e, taken, target) THEN Requested(k, target) ELSE squash
       \/ ~IsControlTransfer(e.instr) /\ UNCHANGED <<btb, squash>>

LEMMA ExecuteEffect ==
    ASSUME CoreInvariant, ExecuteOne
    PROVE  \E k \in DOMAIN window :
              /\ window[k].state = "unit"
              /\ WindowKept /\ DOMAIN window' = DOMAIN window
              /\ window'[k].state \in {"result", "mshr", "retry"}
              /\ \A j \in DOMAIN window \ {k} : window'[j] = window[j]
              /\ \E branch_taken \in BOOLEAN, read_data_1 \in Word :
                    Resolves(k, branch_taken, read_data_1)
<1> DEFINE k == First(InState("unit"))
           e == window[k]
           control == Decode(e.instr)
           read_data_1 == Operand(ReadsRs(e.instr), e.rs, e.instr.rs)
           read_data_2 == Operand(ReadsRt(e.instr), e.rt, e.instr.rt)
           alu_result == ALUResult(e.instr, control, read_data_1, read_data_2)
           branch_taken == control.bne <=> alu_result # 0
<1> USE DEF CoreInvariant
<1>1. k \in DOMAIN window /\ e.state = "unit"
  <2>1. InState("unit") \in SUBSET Nat /\ InState("unit") # {}
    BY WindowTypes DEF ExecuteOne
  <2>2. k \in InState("unit")
    BY <2>1, FirstIsIn
  <2> QED
    BY <2>2 DEF InState
<1>2. e \in Entry /\ e.instr \in Instruction /\ e.instr.rs \in Reg /\ e.instr.rt \in Reg
  BY <1>1, WindowTypes DEF Entry, Instruction
<1>3. read_data_1 \in Word /\ read_data_2 \in Word
  <2>1. ReadsRs(e.instr) \in BOOLEAN /\ ReadsRt(e.instr) \in BOOLEAN
    BY DEF ReadsRs, ReadsRt
  <2> HIDE DEF k
  <2> QED
    BY <1>1, <1>2, <2>1, OperandIsWord
<1>4. alu_result \in Word
  <2> HIDE DEF read_data_1, read_data_2
  <2> QED
    BY <1>2, <1>3, ALUGivesWords
<1>5. branch_taken \in BOOLEAN
  OBVIOUS
<1>6. /\ \/ window' = [window EXCEPT ![k].state = "result", ![k].value = alu_result]
         \/ \E state \in {"result", "mshr", "retry"}, v \in Word :
               window' = [window EXCEPT ![k].state = state, ![k].addr = alu_result, ![k].value = v]
      /\ Resolves(k, branch_taken, read_data_1)
  <2> DEFINE becomes(state, v) == [window EXCEPT ![k].state = state, ![k].addr = alu_result,
                                                 ![k].value = v]
  <2>1. \/ window' = [window EXCEPT ![k].state = "result", ![k].value = alu_result]
        \/ window' = becomes("result", read_data_2)
        \/ Forwards(k, alu_result) /\ window' = becomes("result", Forwarded(k, alu_result))
        \/ window' = becomes("result", mem[alu_result])
        \/ window' = becomes("mshr", 0)
        \/ window' = becomes("retry", 0)
    BY DEF ExecuteOne
  <2>2. Resolves(k, branch_taken, read_data_1)
    BY DEF ExecuteOne, Resolves
  <2>3. Forwards(k, alu_result) => Forwarded(k, alu_result) \in Word
    <3> HIDE DEF k, alu_result
    <3> QED
      BY <1>1, ForwardedIsWord
  <2>4. mem[alu_result] \in Word /\ 0 \in Word
    <3> HIDE DEF alu_result
    <3> QED
      BY <1>4, WordLimits DEF TypeOK
  <2> HIDE DEF k, alu_result, branch_taken, read_data_1, read_data_2
  <2> QED
    BY <2>1, <2>2, <2>3, <2>4, <1>3
<1> HIDE DEF branch_taken, read_data_1, read_data_2, alu_result
<1>7. \E state \in {"result", "mshr", "retry"}, addr, v \in Word :
         window' = [window EXCEPT ![k].state = state, ![k].addr = addr, ![k].value = v]
  <2>1. CASE window' = [window EXCEPT ![k].state = "result", ![k].value = alu_result]
    <3>1. [e EXCEPT !.state = "result", !.value = alu_result] =
            [e EXCEPT !.state = "result", !.addr = e.addr, !.value = alu_result]
      BY <1>2 DEF Entry
    <3>2. window' = [window EXCEPT ![k] = [e EXCEPT !.state = "result", !.value = alu_result]]
      BY <2>1
    <3>3. window' = [window EXCEPT ![k].state = "result", ![k].addr = e.addr,
                                   ![k].value = alu_result]
      BY <3>1, <3>2
    <3>4. e.addr \in Word
      BY <1>2 DEF Entry
    <3> HIDE DEF k
    <3> QED
      BY <3>3, <3>4, <1>4
  <2> HIDE DEF k
  <2> QED
    BY <2>1, <1>6, <1>4
<1> HIDE DEF k
<1>8. PICK state \in {"result", "mshr", "retry"}, addr \in Word, v \in Word :
         window' = [window EXCEPT ![k].state = state, ![k].addr = addr, ![k].value = v]
  BY <1>7
<1>9. /\ WindowKept /\ DOMAIN window' = DOMAIN window /\ window'[k].state = state
      /\ \A j \in DOMAIN window \ {k} : window'[j] = window[j]
  <2>1. state \in States \ {"queued"}
    BY <1>8 DEF States
  <2> QED
    BY <1>1, <1>8, <2>1, Update, WindowTypes
<1> QED
  BY ZenonT(30), <1>1, <1>3, <1>5, <1>6, <1>8, <1>9

BTBEntry == [valid : BOOLEAN, tag : Nat, target : Nat, bimodal_counter : 0 .. 3]

LEMMA Training ==
    ASSUME btb \in [BTBIndex -> BTBEntry], NEW at \in Nat, NEW target \in Nat, NEW taken \in BOOLEAN
    PROVE  LET trained == Trained(taken, at, target)
               here == at % 2 ^ BTB_BITS
           IN /\ trained \in [BTBIndex -> BTBEntry]
              /\ \A i \in BTBIndex \ {here} : trained[i] = btb[i]
              /\ trained[here].valid /\ trained[here].tag = Tag(at)
              /\ trained[here].target = IF IsBranch(at) /\ ~taken THEN btb[here].target ELSE target
              /\ trained[here].bimodal_counter =
                   IF IsBranch(at) THEN Counted(taken, btb[here].bimodal_counter)
                   ELSE IF taken THEN 2 ELSE 1
<1> DEFINE here == at % 2 ^ BTB_BITS
           old == btb[here]
           known == [old EXCEPT !.bimodal_counter = Counted(taken, old.bimodal_counter),
                                !.target = TrainedTarget(taken, at, target)]
           new == [valid |-> TRUE, tag |-> Tag(at), target |-> target,
                   bimodal_counter |-> IF taken THEN 2 ELSE 1]
<1>1. here \in BTBIndex /\ Tag(at) \in Nat
  BY BTBIndices DEF Tag
<1>2. old \in BTBEntry
  BY <1>1
<1>3. Counted(taken, old.bimodal_counter) \in 0 .. 3
  BY <1>2 DEF BTBEntry, Counted
<1>4. TrainedTarget(taken, at, target) = IF taken THEN target ELSE old.target
  BY DEF TrainedTarget, EntryOf
<1>5. Trained(taken, at, target) = [btb EXCEPT ![here] = IF IsBranch(at) THEN known ELSE new]
  BY DEF Trained, EntryOf
<1>6. IsBranch(at) => old.valid /\ old.tag = Tag(at)
  BY DEF IsBranch, EntryOf
<1> DEFINE c == Counted(taken, old.bimodal_counter)
           t == TrainedTarget(taken, at, target)
<1>7. /\ known \in BTBEntry /\ known.valid = old.valid /\ known.tag = old.tag
      /\ known.target = t /\ known.bimodal_counter = c
  <2>1. t \in Nat /\ c \in 0 .. 3
    BY <1>2, <1>3, <1>4 DEF BTBEntry
  <2>2. known = [old EXCEPT !.bimodal_counter = c, !.target = t]
    OBVIOUS
  <2> HIDE DEF known, old, t, c
  <2> QED
    BY <1>2, <2>1, <2>2 DEF BTBEntry
<1>8. new \in BTBEntry
  BY <1>1 DEF BTBEntry
<1> DEFINE becomes == IF IsBranch(at) THEN known ELSE new
<1>9. /\ becomes \in BTBEntry /\ becomes.valid /\ becomes.tag = Tag(at)
      /\ becomes.target = IF IsBranch(at) /\ ~taken THEN old.target ELSE target
      /\ becomes.bimodal_counter = IF IsBranch(at) THEN c ELSE IF taken THEN 2 ELSE 1
  <2>1. CASE IsBranch(at)
    <3>1. becomes = known
      BY <2>1
    <3> HIDE DEF becomes, known, old, c
    <3> QED
      BY <2>1, <3>1, <1>4, <1>6, <1>7
  <2>2. CASE ~IsBranch(at)
    BY <2>2, <1>8
  <2> QED
    BY <2>1, <2>2
<1>10. Trained(taken, at, target) = [btb EXCEPT ![here] = becomes]
  BY <1>5
<1> HIDE DEF becomes, here
<1>11. [btb EXCEPT ![here] = becomes] \in [BTBIndex -> BTBEntry]
  BY <1>1, <1>9
<1>12. /\ [btb EXCEPT ![here] = becomes][here] = becomes
       /\ \A i \in BTBIndex \ {here} : [btb EXCEPT ![here] = becomes][i] = btb[i]
  BY <1>1
<1> QED
  BY <1>9, <1>10, <1>11, <1>12 DEF here

LEMMA ExecuteEndsWindow ==
    ASSUME CoreInvariant, ExecuteStageEnds
    PROVE  /\ WindowKept /\ NothingProduced
           /\ DOMAIN window' = 1 .. IF squash.pending THEN squash.seq ELSE Len(window)
<1> DEFINE n == IF squash.pending THEN squash.seq ELSE Len(window)
           left(e) == [e EXCEPT !.state = IF e.state = "retry" THEN "unit" ELSE e.state]
           cut == [k \in 1 .. n |-> left(window[k])]
<1>1. n \in Nat /\ n <= Len(window) /\ DOMAIN window = 1 .. Len(window) /\ Len(window) \in Nat
  BY WindowTypes DEF CoreInvariant, SquashedIsLive
<1>2. ASSUME NEW e \in Entry
      PROVE  /\ left(e) \in Entry /\ left(e).pc = e.pc /\ left(e).instr = e.instr
             /\ left(e).branch_taken = e.branch_taken
             /\ left(e).rs = e.rs /\ left(e).rt = e.rt
             /\ left(e).state = "done" <=> e.state = "done"
             /\ left(e).state = "queued" <=> e.state = "queued"
             /\ left(e).rs_ready = e.rs_ready /\ left(e).rt_ready = e.rt_ready
  BY <1>2 DEF Entry
<1>3. window' = cut
  BY DEF ExecuteStageEnds
<1>4. \A k \in 1 .. n : k \in DOMAIN window /\ window[k] \in Entry /\ cut[k] = left(window[k])
  BY <1>1, WindowTypes DEF CoreInvariant
<1> HIDE DEF left, n
<1>5. cut \in [1 .. n -> Entry]
  BY <1>2, <1>4
<1>6. cut \in Seq(Entry) /\ Len(cut) = n /\ DOMAIN cut = 1 .. n
  BY <1>1, <1>5, FunctionIsSequence
<1> HIDE DEF cut
<1>7. WindowKept
  BY <1>1, <1>2, <1>3, <1>4, <1>6 DEF WindowKept
<1>8. NothingProduced
  BY <1>2, <1>3, <1>4, <1>6 DEF NothingProduced
<1> QED
  BY <1>3, <1>6, <1>7, <1>8 DEF n

\* The entries in done, none of which is in the queue, are done, and what waits
\* for them is told.
Produced(done) ==
    /\ \A k \in done : k \in DOMAIN window /\ window[k].state # "queued"
    /\ \A k \in DOMAIN window' :
          /\ window'[k].state = IF k \in done THEN "done" ELSE window[k].state
          /\ k \notin done /\ window[k].state = "queued" =>
                /\ window'[k].rs_ready = (window[k].rs_ready \/ window[k].rs \in done)
                /\ window'[k].rt_ready = (window[k].rt_ready \/ window[k].rt \in done)

LEMMA WritebackWindow ==
    ASSUME TypeOK, WritebackStage
    PROVE  WindowKept /\ DOMAIN window' = DOMAIN window /\ Produced(InState("result"))
<1> DEFINE done == InState("result")
<1>1. window' = Broadcast(done) /\ \A k \in done : k \in DOMAIN window /\ window[k].state # "queued"
  BY DEF WritebackStage, InState
<1>2. window \in Seq(Entry) /\ Len(window) \in Nat
  BY WindowTypes
<1> HIDE DEF done
<1> QED
  BY <1>1, <1>2, BroadcastKeeps DEF WindowKept, Produced, done

LEMMA ResponseWindow ==
    ASSUME TypeOK, NEW k \in DOMAIN window, Response(k)
    PROVE  WindowKept /\ DOMAIN window' = DOMAIN window /\ Produced({k})
<1> DEFINE B == Broadcast({k})
           v == mem[window[k].addr]
<1>1. window[k].state = "mshr" /\ window' = [B EXCEPT ![k].value = v]
  BY DEF Response, InState
<1>2. window \in Seq(Entry) /\ Len(window) \in Nat /\ window[k] \in Entry
  BY WindowTypes
<1>3. v \in Word
  BY <1>2 DEF Entry, TypeOK
<1>4. /\ B \in Seq(Entry) /\ Len(B) = Len(window) /\ DOMAIN B = DOMAIN window
      /\ \A j \in DOMAIN window :
            /\ B[j].pc = window[j].pc /\ B[j].instr = window[j].instr
            /\ B[j].branch_taken = window[j].branch_taken
            /\ B[j].rs = window[j].rs /\ B[j].rt = window[j].rt
            /\ B[j].state = IF j \in {k} THEN "done" ELSE window[j].state
            /\ j \notin {k} /\ window[j].state = "queued" =>
                  /\ B[j].rs_ready = (window[j].rs_ready \/ window[j].rs \in {k})
                  /\ B[j].rt_ready = (window[j].rt_ready \/ window[j].rt \in {k})
  BY <1>2, BroadcastKeeps
<1> HIDE DEF B, v
<1>5. B[k] \in Entry
  BY <1>4
<1>6. LET new == [B[k] EXCEPT !.value = v]
      IN /\ new \in Entry /\ new.pc = B[k].pc /\ new.instr = B[k].instr
         /\ new.branch_taken = B[k].branch_taken
         /\ new.rs = B[k].rs /\ new.rt = B[k].rt /\ new.state = B[k].state
  BY <1>3, <1>5 DEF Entry
<1>7. /\ window' \in Seq(Entry) /\ Len(window') = Len(window) /\ DOMAIN window' = DOMAIN window
      /\ window'[k] = [B[k] EXCEPT !.value = v]
      /\ \A j \in DOMAIN window \ {k} : window'[j] = B[j]
  BY <1>1, <1>4, <1>6
<1>8. WindowKept
  <2>1. ASSUME NEW j \in DOMAIN window
        PROVE  /\ window'[j].pc = window[j].pc /\ window'[j].instr = window[j].instr
               /\ window'[j].branch_taken = window[j].branch_taken
               /\ window'[j].rs = window[j].rs /\ window'[j].rt = window[j].rt
    <3>1. CASE j = k
      BY <3>1, <1>4, <1>6, <1>7
    <3>2. CASE j # k
      BY <2>1, <3>2, <1>4, <1>7
    <3> QED
      BY <3>1, <3>2
  <2>2. Len(window') <= Len(window)
    BY <1>2, <1>7
  <2> QED
    BY <2>1, <2>2, <1>7, Zenon DEF WindowKept
<1>9. Produced({k})
  BY <1>1, <1>4, <1>6, <1>7 DEF Produced
<1> QED
  BY <1>7, <1>8, <1>9

LEMMA MappingIsOlder ==
    ASSUME TypeOK, NEW r
    PROVE  Mapping(r) \in 0 .. Len(window)
<1> DEFINE producers == {k \in DOMAIN window : WritesReg(window[k].instr) /\ Dest(window[k].instr) = r}
<1>1. producers \in SUBSET (1 .. Len(window)) /\ Len(window) \in Nat
  BY WindowTypes
<1>2. Mapping(r) = IF producers = {} THEN 0 ELSE Last(producers)
  BY DEF Mapping
<1> HIDE DEF producers
<1>3. producers # {} => Last(producers) \in 1 .. Len(window)
  BY <1>1, LastIsIn
<1> QED
  BY <1>1, <1>2, <1>3

LEMMA RenameWindow ==
    ASSUME CoreInvariant, RenameOne
    PROVE  \E s \in InUse(id_rn_buffer), new \in Entry :
              /\ window' = Append(window, new)
              /\ id_rn_buffer' = [id_rn_buffer EXCEPT ![s] = EmptySlot]
              /\ new.pc = id_rn_buffer[s].pc /\ new.instr = id_rn_buffer[s].instr
              /\ new.branch_taken = id_rn_buffer[s].branch_taken
              /\ new.rs \in 0 .. Len(window) /\ new.rt \in 0 .. Len(window)
              /\ new.rs_ready = PRFReady(new.rs) /\ new.rt_ready = PRFReady(new.rt)
              /\ Len(window) < REORDER_BUFFER_SIZE
              /\ new.instr.op \in StoreOps =>
                   Cardinality(InWindow(StoreOps)) + Len(committed_stores) < STORE_QUEUE_SIZE
<1> DEFINE slot == First(InUse(id_rn_buffer))
           id_rn == id_rn_buffer[slot]
           i == id_rn.instr
           rs == IF ReadsRs(i) THEN Mapping(i.rs) ELSE 0
           rt == IF ReadsRt(i) THEN Mapping(i.rt) ELSE 0
           new == [pc |-> id_rn.pc, instr |-> i, branch_taken |-> id_rn.branch_taken,
                   state |-> "queued", rs |-> rs, rt |-> rt, rs_ready |-> PRFReady(rs),
                   rt_ready |-> PRFReady(rt), addr |-> 0, value |-> 0]
<1> USE DEF CoreInvariant
<1>1. slot \in InUse(id_rn_buffer) /\ slot \in Slots
  BY SlotsChosen DEF RenameOne, Renamable
<1>2. id_rn \in Slot
  BY <1>1 DEF TypeOK
<1>3. rs \in 0 .. Len(window) /\ rt \in 0 .. Len(window) /\ Len(window) \in Nat
  BY MappingIsOlder, WindowTypes
<1>4. PRFReady(rs) \in BOOLEAN /\ PRFReady(rt) \in BOOLEAN
  BY DEF PRFReady
<1>5. window' = Append(window, new) /\ id_rn_buffer' = [id_rn_buffer EXCEPT ![slot] = EmptySlot]
  BY DEF RenameOne
<1>6. /\ Len(window) < REORDER_BUFFER_SIZE
      /\ i.op \in StoreOps => Cardinality(InWindow(StoreOps)) + Len(committed_stores) < STORE_QUEUE_SIZE
  BY DEF RenameOne, Renamable
<1> HIDE DEF id_rn, rs, rt
<1>7. new \in Entry
  BY <1>2, <1>3, <1>4, WordLimits DEF Entry, Slot
<1> HIDE DEF slot
<1> QED
  BY <1>1, <1>3, <1>5, <1>6, <1>7 DEF id_rn

LEMMA ShiftedCardinality ==
    ASSUME NEW S \in SUBSET (Nat \ {0}), NEW T \in SUBSET (Nat \ {0}), IsFiniteSet(S),
           \A k \in Nat \ {0} : k \in T <=> k + 1 \in S
    PROVE  Cardinality(T) = IF 1 \in S THEN Cardinality(S) - 1 ELSE Cardinality(S)
<1> DEFINE U == S \ {1}
           g == [k \in U |-> k - 1]
<1>1. IsFiniteSet(U)
  BY FS_Subset
<1>2. \A k \in U : k - 1 \in T /\ k \in Nat
  BY SMT
<1>3. \A k \in T : k + 1 \in U /\ g[k + 1] = k /\ k \in Nat
  BY SMT
<1>4. g \in [U -> T] /\ \A i, j \in U : g[i] = g[j] => i = j
  BY <1>2
<1> HIDE DEF g, U
<1>5. g \in Surjection(U, T)
  BY <1>3, <1>4 DEF Surjection
<1>6. g \in Injection(U, T)
  BY <1>4 DEF Injection, IsInjective
<1>7. Cardinality(T) = Cardinality(U)
  BY <1>1, <1>5, <1>6, FS_Surjection
<1> QED
  BY <1>7, FS_RemoveElement DEF U

LEMMA CommitWindow ==
    ASSUME CoreInvariant, CommitOne
    PROVE  /\ 1 \in DOMAIN window /\ window[1].state = "done"
           /\ window' \in Seq(Entry) /\ Len(window') = Len(window) - 1
           /\ \A k \in DOMAIN window' :
                 /\ k + 1 \in DOMAIN window
                 /\ window'[k].pc = window[k + 1].pc /\ window'[k].instr = window[k + 1].instr
                 /\ window'[k].branch_taken = window[k + 1].branch_taken
                 /\ window'[k].rs = IF window[k + 1].rs = 0 THEN 0 ELSE window[k + 1].rs - 1
                 /\ window'[k].rt = IF window[k + 1].rt = 0 THEN 0 ELSE window[k + 1].rt - 1
                 /\ window'[k].state = window[k + 1].state
                 /\ window'[k].rs_ready = window[k + 1].rs_ready
                 /\ window'[k].rt_ready = window[k + 1].rt_ready
<1> DEFINE shifted(reg) == IF reg = 0 THEN 0 ELSE reg - 1
           moved(e) == [e EXCEPT !.rs = shifted(e.rs), !.rt = shifted(e.rt)]
           cut == [k \in 1 .. Len(window) - 1 |-> moved(window[k + 1])]
<1> USE DEF CoreInvariant
<1>1. 1 \in DOMAIN window /\ Head(window) = window[1] /\ window[1].state = "done"
  <2>1. window # <<>> /\ Head(window).state = "done" /\ window \in Seq(Entry)
    BY WindowTypes DEF CommitOne, Committable
  <2>2. Len(window) # 0 /\ Len(window) \in Nat /\ Head(window) = window[1]
    BY <2>1, EmptySeq
  <2> QED
    BY <2>1, <2>2
<1>2. Len(window) \in Nat /\ Len(window) - 1 \in Nat /\ DOMAIN window = 1 .. Len(window)
  BY <1>1, WindowTypes
<1>3. window' = cut
  BY DEF CommitOne
<1>4. ASSUME NEW e \in Entry
      PROVE  /\ moved(e) \in Entry /\ moved(e).pc = e.pc /\ moved(e).instr = e.instr
             /\ moved(e).branch_taken = e.branch_taken
             /\ moved(e).rs = shifted(e.rs) /\ moved(e).rt = shifted(e.rt)
             /\ moved(e).state = e.state
             /\ moved(e).rs_ready = e.rs_ready /\ moved(e).rt_ready = e.rt_ready
  <2>1. shifted(e.rs) \in Nat /\ shifted(e.rt) \in Nat
    BY <1>4 DEF Entry
  <2> HIDE DEF shifted
  <2> QED
    BY <1>4, <2>1 DEF Entry
<1>5. \A k \in 1 .. Len(window) - 1 :
        k + 1 \in DOMAIN window /\ window[k + 1] \in Entry /\ cut[k] = moved(window[k + 1])
  BY <1>2, WindowTypes
<1> HIDE DEF moved
<1>6. cut \in [1 .. Len(window) - 1 -> Entry]
  BY <1>4, <1>5
<1>7. cut \in Seq(Entry) /\ Len(cut) = Len(window) - 1 /\ DOMAIN cut = 1 .. Len(window) - 1
  BY <1>2, <1>6, FunctionIsSequence
<1> HIDE DEF cut
<1> QED
  BY <1>1, <1>3, <1>4, <1>5, <1>7

----------------------------------------------------------------------------
(* The types are inductive with what CoreInvariant adds to them.           *)

LEMMA NextCases ==
    ASSUME [Next]_vars
    PROVE  \/ UNCHANGED vars
           \/ FetchOne \/ FetchStageEnds \/ DecodeOne \/ DecodeStageEnds
           \/ RenameOne \/ RenameStageEnds \/ DispatchOne \/ DispatchStageEnds
           \/ ExecuteOne \/ ExecuteStageEnds
           \/ \E k \in DOMAIN window : Response(k)
           \/ MemoryStageEnds \/ WritebackStage \/ CommitOne \/ CommitStageEnds
BY DEF Next, Halted

LEMMA WindowCases ==
    ASSUME CoreInvariant, [Next]_vars
    PROVE  \/ window' = window
           \/ RenameOne \/ CommitOne
           \/ WindowKept /\ (NothingProduced \/ \E done : Produced(done))
<1>1. CASE \/ UNCHANGED vars \/ FetchOne \/ FetchStageEnds \/ DecodeOne \/ DecodeStageEnds
           \/ RenameStageEnds \/ DispatchStageEnds \/ MemoryStageEnds \/ CommitStageEnds
  BY <1>1 DEF vars, FetchOne, FetchStageEnds, DecodeOne, DecodeStageEnds, RenameStageEnds,
              DispatchStageEnds, MemoryStageEnds, CommitStageEnds
<1>2. CASE DispatchOne
  BY <1>2, DispatchWindow DEF CoreInvariant
<1>3. CASE ExecuteOne
  <2>1. PICK k \in DOMAIN window :
            /\ window[k].state = "unit"
            /\ WindowKept /\ DOMAIN window' = DOMAIN window
            /\ window'[k].state \in {"result", "mshr", "retry"}
            /\ \A j \in DOMAIN window \ {k} : window'[j] = window[j]
    BY <1>3, ExecuteEffect
  <2>2. NothingProduced
    BY <2>1 DEF NothingProduced
  <2> QED
    BY <2>1, <2>2
<1>4. CASE ExecuteStageEnds
  BY <1>4, ExecuteEndsWindow
<1>5. CASE \E k \in DOMAIN window : Response(k)
  BY <1>5, ResponseWindow DEF CoreInvariant
<1>6. CASE WritebackStage
  BY <1>6, WritebackWindow DEF CoreInvariant
<1> QED
  BY <1>1, <1>2, <1>3, <1>4, <1>5, <1>6, NextCases

LEMMA WindowStep ==
    ASSUME CoreInvariant, [Next]_vars
    PROVE  window' \in Seq(Entry) /\ Len(window') <= REORDER_BUFFER_SIZE /\ Producers'
<1> USE DEF CoreInvariant
<1>1. /\ window \in Seq(Entry) /\ Len(window) \in Nat /\ Len(window) <= REORDER_BUFFER_SIZE
      /\ REORDER_BUFFER_SIZE \in Nat /\ DOMAIN window = 1 .. Len(window) /\ Producers
  BY WindowTypes, Sizes DEF TypeOK
<1>2. CASE window' = window
  BY <1>1, <1>2 DEF Producers
<1>3. CASE RenameOne
  <2>1. PICK new \in Entry : /\ window' = Append(window, new)
                             /\ new.rs \in 0 .. Len(window) /\ new.rt \in 0 .. Len(window)
                             /\ Len(window) < REORDER_BUFFER_SIZE
    BY <1>3, RenameWindow
  <2>2. /\ window' \in Seq(Entry) /\ Len(window') = Len(window) + 1
        /\ \A k \in 1 .. Len(window) : window'[k] = window[k]
        /\ window'[Len(window) + 1] = new
        /\ DOMAIN window' = 1 .. Len(window) + 1
    BY <1>1, <2>1, AppendProperties
  <2>3. ASSUME NEW k \in DOMAIN window' PROVE window'[k].rs < k /\ window'[k].rt < k
    <3>1. CASE k \in 1 .. Len(window)
      BY <3>1, <2>2, <1>1 DEF Producers
    <3>2. CASE k = Len(window) + 1
      BY <3>2, <2>1, <2>2, <1>1
    <3> QED
      BY <3>1, <3>2, <2>2, <1>1
  <2> QED
    BY <1>1, <2>1, <2>2, <2>3 DEF Producers
<1>4. CASE CommitOne
  <2>1. /\ window' \in Seq(Entry) /\ Len(window') = Len(window) - 1
        /\ \A k \in DOMAIN window' :
              /\ k + 1 \in DOMAIN window
              /\ window'[k].rs = IF window[k + 1].rs = 0 THEN 0 ELSE window[k + 1].rs - 1
              /\ window'[k].rt = IF window[k + 1].rt = 0 THEN 0 ELSE window[k + 1].rt - 1
    BY <1>4, CommitWindow
  <2>2. ASSUME NEW k \in DOMAIN window' PROVE window'[k].rs < k /\ window'[k].rt < k
    <3>1. k \in Nat \ {0}
      BY <2>1
    <3>2. /\ window[k + 1].rs \in Nat /\ window[k + 1].rs < k + 1
          /\ window[k + 1].rt \in Nat /\ window[k + 1].rt < k + 1
      BY <2>1, WindowTypes DEF Producers, Entry
    <3> QED
      BY <2>1, <3>1, <3>2
  <2> QED
    BY <1>1, <2>1, <2>2 DEF Producers
<1>5. CASE WindowKept
  BY <1>1, <1>5 DEF WindowKept, Producers
<1> QED
  BY <1>2, <1>3, <1>4, <1>5, WindowCases

LEMMA StoresStep ==
    ASSUME CoreInvariant, [Next]_vars
    PROVE  /\ mem' \in [Word -> Word]
           /\ committed_stores' \in Seq([addr : Word, data : Word, byte : BOOLEAN])
           /\ Cardinality(InWindow(StoreOps)') + Len(committed_stores') <= STORE_QUEUE_SIZE
<1> USE DEF CoreInvariant
<1>1. /\ mem \in [Word -> Word] /\ committed_stores \in Seq(Stored)
      /\ Cardinality(InWindow(StoreOps)) + Len(committed_stores) <= STORE_QUEUE_SIZE
      /\ Len(committed_stores) \in Nat
  BY DEF TypeOK, Stored
<1>2. Cardinality(InWindow(StoreOps)) \in Nat /\ IsFiniteSet(InWindow(StoreOps))
  BY StoresCounted, WindowTypes
<1>3. STORE_QUEUE_SIZE \in Nat /\ window \in Seq(Entry) /\ Len(window) \in Nat
  BY Sizes, WindowTypes
<1>4. Cardinality(InWindow(StoreOps)') \in Nat
  <2>1. window' \in Seq(Entry)
    BY WindowStep
  <2>2. InWindow(StoreOps)' \subseteq 1 .. Len(window') /\ Len(window') \in Nat /\ 1 \in Int
    BY <2>1 DEF InWindow
  <2>3. IsFiniteSet(1 .. Len(window'))
    BY <2>2, FS_Interval
  <2>4. IsFiniteSet(InWindow(StoreOps)')
    BY <2>2, <2>3, FS_Subset
  <2> QED
    BY <2>4, FS_CardinalityType
<1>5. CASE UNCHANGED memory /\ window' = window
  BY <1>1, <1>5 DEF memory, InWindow, Stored
<1>6. CASE UNCHANGED memory /\ WindowKept
  <2>1. Cardinality(InWindow(StoreOps)') <= Cardinality(InWindow(StoreOps))
    BY <1>3, <1>6, StoresKept
  <2> HIDE DEF CoreInvariant
  <2> QED
    BY <1>1, <1>2, <1>3, <1>4, <1>6, <2>1 DEF memory, Stored
<1>7. CASE MemoryStageEnds
  <2>1. Drain(committed_stores) /\ window' = window
    BY <1>7 DEF MemoryStageEnds
  <2>2. /\ mem' \in [Word -> Word] /\ committed_stores' \in Seq(Stored)
        /\ Len(committed_stores') <= Len(committed_stores)
    BY <2>1, <1>1, DrainTypes
  <2>3. Len(committed_stores') \in Nat
    BY <2>2
  <2>4. InWindow(StoreOps)' = InWindow(StoreOps)
    BY <2>1 DEF InWindow
  <2> QED
    BY <1>1, <1>2, <1>3, <2>2, <2>3, <2>4 DEF Stored
<1>8. CASE RenameOne
  <2>1. PICK new \in Entry :
            /\ window' = Append(window, new)
            /\ new.instr.op \in StoreOps =>
                 Cardinality(InWindow(StoreOps)) + Len(committed_stores) < STORE_QUEUE_SIZE
    BY <1>8, RenameWindow
  <2>2. /\ \A k \in 1 .. Len(window) : window'[k] = window[k]
        /\ window'[Len(window) + 1] = new
        /\ DOMAIN window' = 1 .. Len(window) + 1 /\ DOMAIN window = 1 .. Len(window)
    BY <1>3, <2>1, AppendProperties
  <2>3. UNCHANGED memory
    BY <1>8 DEF RenameOne
  <2>4. CASE new.instr.op \in StoreOps
    <3>1. InWindow(StoreOps)' = InWindow(StoreOps) \cup {Len(window) + 1}
      BY <1>3, <2>2, <2>4 DEF InWindow
    <3>2. Cardinality(InWindow(StoreOps)') <= Cardinality(InWindow(StoreOps)) + 1
      <4>1. Len(window) + 1 \notin InWindow(StoreOps)
        BY <1>3, <2>2 DEF InWindow
      <4> DEFINE S == InWindow(StoreOps)
                 x == Len(window) + 1
      <4>2. IsFiniteSet(S) /\ x \notin S /\ Cardinality(S) \in Nat
        BY <1>2, <4>1
      <4> HIDE DEF S, x
      <4>3. Cardinality(S \cup {x}) = Cardinality(S) + 1
        BY <4>2, FS_AddElement
      <4>4. Cardinality(S \cup {x}) <= Cardinality(S) + 1
        BY <4>2, <4>3
      <4> QED
        BY <3>1, <4>4 DEF S, x
    <3> QED
      BY <1>1, <1>2, <1>3, <1>4, <2>1, <2>3, <2>4, <3>2 DEF memory, Stored
  <2>5. CASE new.instr.op \notin StoreOps
    <3>1. InWindow(StoreOps)' = InWindow(StoreOps)
      BY <1>3, <2>2, <2>5 DEF InWindow
    <3> QED
      BY <1>1, <2>3, <3>1 DEF memory, Stored
  <2> QED
    BY <2>4, <2>5
<1>9. CASE CommitOne
  <2> DEFINE e == window[1]
             record == [addr |-> e.addr, data |-> e.value, byte |-> Decode(e.instr).byte]
             q == IF e.instr.op \in StoreOps THEN Append(committed_stores, record)
                                             ELSE committed_stores
  <2>1. /\ 1 \in DOMAIN window /\ Len(window') = Len(window) - 1 /\ window' \in Seq(Entry)
        /\ \A k \in DOMAIN window' :
              k + 1 \in DOMAIN window /\ window'[k].instr = window[k + 1].instr
    BY <1>9, CommitWindow
  <2>2. e \in Entry
    BY <2>1, WindowTypes
  <2>3. record \in Stored
    BY <2>2 DEF Stored, Entry, Decode
  <2>4. Drain(q)
    <3>1. Head(window) = e
      BY <1>3
    <3> QED
      BY <1>9, <3>1 DEF CommitOne
  <2>5. /\ q \in Seq(Stored)
        /\ Len(q) = IF e.instr.op \in StoreOps THEN Len(committed_stores) + 1
                                                ELSE Len(committed_stores)
    <3> HIDE DEF record
    <3> QED
      BY <1>1, <2>3, AppendProperties
  <2>6. /\ mem' \in [Word -> Word] /\ committed_stores' \in Seq(Stored)
        /\ Len(committed_stores') <= Len(q)
    <3> HIDE DEF q
    <3> QED
      BY <2>4, <2>5, <1>1, DrainTypes
  <2>7. Cardinality(InWindow(StoreOps)') =
          IF 1 \in InWindow(StoreOps) THEN Cardinality(InWindow(StoreOps)) - 1
                                      ELSE Cardinality(InWindow(StoreOps))
    <3>1. InWindow(StoreOps) \in SUBSET (Nat \ {0}) /\ InWindow(StoreOps)' \in SUBSET (Nat \ {0})
      BY <1>3, <2>1 DEF InWindow
    <3>2. ASSUME NEW k \in Nat \ {0}
          PROVE  k \in InWindow(StoreOps)' <=> k + 1 \in InWindow(StoreOps)
      <4>1. DOMAIN window' = 1 .. Len(window) - 1 /\ DOMAIN window = 1 .. Len(window)
        BY <2>1, <1>3
      <4>2. k \in DOMAIN window' <=> k + 1 \in DOMAIN window
        BY <3>2, <4>1, <1>3
      <4> QED
        BY <2>1, <4>2 DEF InWindow
    <3> QED
      BY <1>2, <3>1, <3>2, ShiftedCardinality
  <2>8. 1 \in InWindow(StoreOps) <=> e.instr.op \in StoreOps
    BY <2>1 DEF InWindow
  <2>9. Len(committed_stores') \in Nat
    BY <2>6
  <2> HIDE DEF e, q
  <2> QED
    BY <1>1, <1>2, <1>3, <1>4, <2>5, <2>6, <2>7, <2>8, <2>9 DEF Stored
<1>10. CASE UNCHANGED vars
  BY <1>5, <1>10 DEF vars
<1>11. CASE \/ FetchOne \/ FetchStageEnds \/ DecodeOne \/ DecodeStageEnds
            \/ RenameStageEnds \/ DispatchOne \/ DispatchStageEnds \/ ExecuteOne
            \/ ExecuteStageEnds \/ (\E k \in DOMAIN window : Response(k)) \/ WritebackStage
            \/ CommitStageEnds
  <2>1. UNCHANGED memory
    BY <1>11 DEF FetchOne, FetchStageEnds, DecodeOne, DecodeStageEnds, RenameStageEnds, DispatchOne,
                 DispatchStageEnds, ExecuteOne, ExecuteStageEnds, Response, WritebackStage,
                 CommitStageEnds
  <2> QED
    BY <2>1, <1>5, <1>6, <1>8, <1>9, WindowCases
<1> QED
  BY <1>7, <1>8, <1>9, <1>10, <1>11, NextCases

LEMMA ResolvesTypes ==
    ASSUME CoreInvariant, NEW k \in DOMAIN window, NEW branch_taken \in BOOLEAN,
           NEW read_data_1 \in Word, Resolves(k, branch_taken, read_data_1)
    PROVE  /\ btb' \in [BTBIndex -> BTBEntry]
           /\ squash' \in [pending : BOOLEAN, seq : 0 .. REORDER_BUFFER_SIZE, target : Nat]
           /\ squash' = squash \/ (squash'.pending /\ squash'.seq = k)
<1> DEFINE e == window[k]
           control == Decode(e.instr)
           target == TargetOf(e, control, branch_taken, read_data_1)
           taken == branch_taken \/ control.jump \/ control.jump_reg
<1>1. /\ btb \in [BTBIndex -> BTBEntry]
      /\ squash \in [pending : BOOLEAN, seq : 0 .. REORDER_BUFFER_SIZE, target : Nat]
  BY DEF CoreInvariant, TypeOK, BTBEntry
<1>2. CASE ~IsControlTransfer(e.instr)
  BY <1>1, <1>2 DEF Resolves
<1>3. CASE IsControlTransfer(e.instr)
  <2>1. e.pc \in Nat /\ target \in Nat /\ taken \in BOOLEAN
    <3>1. e.pc \in 0 .. Len(program) - 1 /\ target \in Nat
      BY <1>3, Transferred
    <3>2. taken \in BOOLEAN
      BY DEF Decode
    <3> HIDE DEF target, taken
    <3> QED
      BY <3>1, <3>2
  <2>2. k \in 0 .. REORDER_BUFFER_SIZE
    <3>1. Len(window) <= REORDER_BUFFER_SIZE /\ k \in 1 .. Len(window) /\ Len(window) \in Nat
      BY WindowTypes DEF CoreInvariant, TypeOK
    <3> QED
      BY <3>1, Sizes
  <2>3. /\ btb' = Trained(taken, e.pc, target)
        /\ squash' = IF Mispredicted(e, taken, target) THEN Requested(k, target) ELSE squash
    BY <1>3 DEF Resolves
  <2>4. btb' \in [BTBIndex -> BTBEntry]
    <3> HIDE DEF e, taken, target
    <3> QED
      BY <1>1, <2>1, <2>3, Training
  <2>5. squash' = squash \/ squash' = [pending |-> TRUE, seq |-> k, target |-> target]
    <3> HIDE DEF e, taken, target
    <3> QED
      BY <2>3 DEF Requested
  <2> DEFINE new == [pending |-> TRUE, seq |-> k, target |-> target]
  <2>6. /\ new \in [pending : BOOLEAN, seq : 0 .. REORDER_BUFFER_SIZE, target : Nat]
        /\ new.pending /\ new.seq = k
    <3> HIDE DEF target
    <3> QED
      BY <2>1, <2>2
  <2>7. squash' = squash \/ squash' = new
    BY <2>5
  <2> HIDE DEF new
  <2> QED
    BY <1>1, <2>4, <2>6, <2>7
<1> QED
  BY <1>2, <1>3

LEMMA PredictorStep ==
    ASSUME CoreInvariant, [Next]_vars
    PROVE  /\ btb' \in [BTBIndex -> [valid : BOOLEAN, tag : Nat, target : Nat,
                                    bimodal_counter : 0 .. 3]]
           /\ squash' \in [pending : BOOLEAN, seq : 0 .. REORDER_BUFFER_SIZE, target : Nat]
           /\ SquashedIsLive'
<1>1. /\ btb \in [BTBIndex -> BTBEntry]
      /\ squash \in [pending : BOOLEAN, seq : 0 .. REORDER_BUFFER_SIZE, target : Nat]
      /\ SquashedIsLive
  BY DEF CoreInvariant, TypeOK, BTBEntry
<1>2. CASE ExecuteOne
  <2>1. PICK k \in DOMAIN window :
           /\ DOMAIN window' = DOMAIN window
           /\ \E branch_taken \in BOOLEAN, read_data_1 \in Word :
                 Resolves(k, branch_taken, read_data_1)
    BY <1>2, ExecuteEffect
  <2>2. /\ btb' \in [BTBIndex -> BTBEntry]
        /\ squash' \in [pending : BOOLEAN, seq : 0 .. REORDER_BUFFER_SIZE, target : Nat]
        /\ squash' = squash \/ (squash'.pending /\ squash'.seq = k)
    BY <2>1, ResolvesTypes
  <2>3. stage = "execute" /\ stage' = "execute"
    BY <1>2 DEF ExecuteOne
  <2> QED
    BY <1>1, <2>1, <2>2, <2>3 DEF SquashedIsLive, BTBEntry
<1>3. CASE ExecuteStageEnds
  <2>1. btb' = btb /\ (squash' = NoSquash \/ (squash' = squash /\ ~squash.pending))
    BY <1>3 DEF ExecuteStageEnds
  <2>2. NoSquash \in [pending : BOOLEAN, seq : 0 .. REORDER_BUFFER_SIZE, target : Nat]
    BY Sizes DEF NoSquash
  <2> QED
    BY <1>1, <2>1, <2>2 DEF SquashedIsLive, BTBEntry, NoSquash
<1>4. CASE UNCHANGED vars
  BY <1>1, <1>4 DEF vars, SquashedIsLive, BTBEntry
<1>5. CASE \/ FetchOne \/ FetchStageEnds \/ DecodeOne \/ DecodeStageEnds
           \/ RenameOne \/ RenameStageEnds \/ DispatchOne \/ DispatchStageEnds
           \/ (\E k \in DOMAIN window : Response(k))
           \/ MemoryStageEnds \/ WritebackStage \/ CommitOne \/ CommitStageEnds
  <2>1. UNCHANGED <<btb, squash>> /\ stage # "execute"
    BY <1>5 DEF FetchOne, FetchStageEnds, DecodeOne, DecodeStageEnds, RenameOne, RenameStageEnds,
                DispatchOne, DispatchStageEnds, Response, MemoryStageEnds, WritebackStage,
                CommitOne, CommitStageEnds
  <2> QED
    BY <1>1, <2>1 DEF SquashedIsLive, BTBEntry
<1> QED
  BY <1>2, <1>3, <1>4, <1>5, NextCases

LEMMA FlightsCompact ==
    ASSUME NEW buffer \in [Slots -> Slot]
    PROVE  /\ Compact(buffer) \in [Slots -> Slot]
           /\ Flights(Compact(buffer)) \subseteq Flights(buffer)
<1>1. \A n \in InUse(Compact(buffer)) : \E s \in InUse(buffer) : Compact(buffer)[n] = buffer[s]
  BY CompactTypes DEF InUse
<1> QED
  BY <1>1, CompactTypes DEF Flights

LEMMA FlightsFilled ==
    ASSUME NEW buffer \in [Slots -> Slot], NEW s \in Slots, NEW new \in Slot
    PROVE  /\ [buffer EXCEPT ![s] = new] \in [Slots -> Slot]
           /\ Flights([buffer EXCEPT ![s] = new]) \subseteq Flights(buffer) \cup {Flight(new)}
           /\ ~new.in_use => Flights([buffer EXCEPT ![s] = new]) \subseteq Flights(buffer)
<1> DEFINE filled == [buffer EXCEPT ![s] = new]
<1>1. filled \in [Slots -> Slot]
  OBVIOUS
<1>2. filled[s] = new /\ \A t \in Slots \ {s} : filled[t] = buffer[t]
  OBVIOUS
<1> HIDE DEF filled
<1>3. ASSUME NEW t \in InUse(filled)
      PROVE  (t = s /\ new.in_use /\ filled[t] = new) \/ (t \in InUse(buffer) /\ filled[t] = buffer[t])
  <2>1. t \in Slots /\ filled[t].in_use
    BY DEF InUse
  <2>2. CASE t = s
    BY <2>1, <2>2, <1>2
  <2>3. CASE t # s
    BY <2>1, <2>3, <1>2 DEF InUse
  <2> QED
    BY <2>2, <2>3
<1>4. ASSUME NEW f \in Flights(filled)
      PROVE  (f = Flight(new) /\ new.in_use) \/ f \in Flights(buffer)
  <2>1. PICK t \in InUse(filled) : f = Flight(filled[t])
    BY DEF Flights
  <2> QED
    BY <2>1, <1>3 DEF Flights
<1>5. /\ Flights(filled) \subseteq Flights(buffer) \cup {Flight(new)}
      /\ ~new.in_use => Flights(filled) \subseteq Flights(buffer)
  BY <1>4
<1> QED
  BY <1>1, <1>5 DEF filled

LEMMA NoFlights == Flights(EmptyBuffer) = {} /\ ~EmptySlot.in_use
BY DEF Flights, InUse, EmptyBuffer, EmptySlot

\* What fetch_stage puts into its buffer.
NextFlight == [pc |-> pc, instr |-> Fetch(program, pc),
               branch_taken |-> IsBranch(pc) /\ Predict(pc)]

\* The next state of the front end has its types, and holds flights of F.
FrontEndNext(F) ==
    /\ pc' \in Nat
    /\ if_id_buffer' \in [Slots -> Slot] /\ id_rn_buffer' \in [Slots -> Slot]
    /\ Flights(if_id_buffer') \subseteq F /\ Flights(id_rn_buffer') \subseteq F

LEMMA FetchFrontEnd ==
    ASSUME CoreInvariant, FetchOne
    PROVE  FrontEndNext(InFlight \cup {NextFlight})
<1> DEFINE buffer == Compact(if_id_buffer)
           taken == IsBranch(pc) /\ Predict(pc)
           new == [in_use |-> TRUE, pc |-> pc, instr |-> Fetch(program, pc), branch_taken |-> taken]
           s == First(Free(buffer))
<1> USE DEF CoreInvariant
<1>1. pc \in Nat /\ program \in Programs /\ EntryOf(pc) \in BTBEntry
  BY BTBIndices DEF EntryOf, TypeOK, BTBEntry
<1>2. taken \in BOOLEAN
  <2>1. IsBranch(pc) \in BOOLEAN
    BY <1>1 DEF IsBranch, BTBEntry
  <2> QED
    BY <2>1, Zenon
<1>3. new \in Slot
  <2> HIDE DEF taken
  <2> QED
    BY <1>1, <1>2, FetchTypes DEF Slot
<1>4. Flight(new) = NextFlight
  BY DEF Flight, NextFlight
<1>5. buffer \in [Slots -> Slot] /\ Flights(buffer) \subseteq Flights(if_id_buffer)
  BY FlightsCompact DEF TypeOK
<1>6. s \in Slots
  BY SlotsChosen DEF FetchOne
<1>7. /\ if_id_buffer' = [buffer EXCEPT ![s] = new]
      /\ pc' = IF taken THEN EntryOf(pc).target ELSE pc + 1
      /\ id_rn_buffer' = id_rn_buffer
  BY DEF FetchOne
<1> HIDE DEF buffer, new, s, taken
<1>8. pc' \in Nat
  BY <1>1, <1>7 DEF BTBEntry
<1>9. /\ if_id_buffer' \in [Slots -> Slot]
      /\ Flights(if_id_buffer') \subseteq Flights(buffer) \cup {NextFlight}
  BY <1>3, <1>4, <1>5, <1>6, <1>7, FlightsFilled
<1> QED
  BY <1>5, <1>7, <1>8, <1>9 DEF FrontEndNext, TypeOK, InFlight

LEMMA DecodeFrontEnd ==
    ASSUME CoreInvariant, DecodeOne
    PROVE  FrontEndNext(InFlight)
<1> DEFINE from == Compact(if_id_buffer)
           to == Compact(id_rn_buffer)
           s == First(Free(to))
           t == First(InUse(from))
<1>1. /\ from \in [Slots -> Slot] /\ Flights(from) \subseteq Flights(if_id_buffer)
      /\ to \in [Slots -> Slot] /\ Flights(to) \subseteq Flights(id_rn_buffer)
  BY FlightsCompact DEF CoreInvariant, TypeOK
<1>2. s \in Slots /\ t \in InUse(from) /\ t \in Slots
  BY SlotsChosen DEF DecodeOne
<1>3. /\ id_rn_buffer' = [to EXCEPT ![s] = from[t]]
      /\ if_id_buffer' = [from EXCEPT ![t] = EmptySlot]
      /\ pc' = pc
  BY DEF DecodeOne
<1> HIDE DEF from, to, s, t
<1>4. Flight(from[t]) \in Flights(from)
  BY <1>2 DEF Flights
<1>5. /\ id_rn_buffer' \in [Slots -> Slot]
      /\ Flights(id_rn_buffer') \subseteq Flights(to) \cup {Flight(from[t])}
  BY <1>1, <1>2, <1>3, FlightsFilled
<1>6. /\ if_id_buffer' \in [Slots -> Slot] /\ Flights(if_id_buffer') \subseteq Flights(from)
  BY <1>1, <1>2, <1>3, FlightsFilled, NoFlights, EmptySlotIsSlot
<1> QED
  BY <1>1, <1>3, <1>4, <1>5, <1>6 DEF FrontEndNext, CoreInvariant, TypeOK, InFlight

LEMMA FrontEndStep ==
    ASSUME CoreInvariant, [Next]_vars
    PROVE  \/ FrontEndNext(InFlight)
           \/ FetchOne /\ FrontEndNext(InFlight \cup {NextFlight})
<1>1. /\ pc \in Nat /\ squash.target \in Nat
      /\ if_id_buffer \in [Slots -> Slot] /\ id_rn_buffer \in [Slots -> Slot]
      /\ Flights(if_id_buffer) \subseteq InFlight /\ Flights(id_rn_buffer) \subseteq InFlight
  BY DEF CoreInvariant, TypeOK, InFlight
<1>2. CASE FetchOne
  BY <1>2, FetchFrontEnd
<1>3. CASE DecodeOne
  BY <1>3, DecodeFrontEnd
<1>4. CASE FetchStageEnds \/ DecodeStageEnds
  <2>1. /\ if_id_buffer' = Compact(if_id_buffer)
        /\ id_rn_buffer' \in {id_rn_buffer, Compact(id_rn_buffer)}
        /\ pc' = pc
    BY <1>4 DEF FetchStageEnds, DecodeStageEnds
  <2> QED
    BY <1>1, <2>1, FlightsCompact DEF FrontEndNext
<1>5. CASE RenameOne
  <2>1. PICK s \in InUse(id_rn_buffer) : id_rn_buffer' = [id_rn_buffer EXCEPT ![s] = EmptySlot]
    BY <1>5, RenameWindow
  <2>2. s \in Slots
    BY DEF InUse
  <2>3. /\ id_rn_buffer' \in [Slots -> Slot]
        /\ Flights(id_rn_buffer') \subseteq Flights(id_rn_buffer)
    BY <1>1, <2>1, <2>2, FlightsFilled, NoFlights, EmptySlotIsSlot
  <2>4. UNCHANGED <<pc, if_id_buffer>>
    BY <1>5 DEF RenameOne
  <2> QED
    BY <1>1, <2>3, <2>4 DEF FrontEndNext
<1>6. CASE ExecuteStageEnds
  <2>1. \/ if_id_buffer' = EmptyBuffer /\ id_rn_buffer' = EmptyBuffer /\ pc' = squash.target
        \/ UNCHANGED <<buffers, pc>>
    BY <1>6 DEF ExecuteStageEnds
  <2> QED
    BY <1>1, <2>1, NoFlights, EmptySlotIsSlot DEF FrontEndNext, buffers
<1>7. CASE \/ UNCHANGED vars \/ RenameStageEnds \/ DispatchOne \/ DispatchStageEnds \/ ExecuteOne
           \/ (\E k \in DOMAIN window : Response(k))
           \/ MemoryStageEnds \/ WritebackStage \/ CommitOne \/ CommitStageEnds
  <2>1. UNCHANGED <<pc, buffers>>
    BY <1>7 DEF vars, RenameStageEnds, DispatchOne, DispatchStageEnds, ExecuteOne, Response,
                MemoryStageEnds, WritebackStage, CommitOne, CommitStageEnds
  <2> QED
    BY <1>1, <2>1 DEF FrontEndNext, buffers
<1> QED
  BY <1>2, <1>3, <1>4, <1>5, <1>6, <1>7, NextCases

\* Only fetch_stage adds to what is in flight.
LEMMA InFlightStep ==
    ASSUME CoreInvariant, [Next]_vars
    PROVE  \/ InFlight' \subseteq InFlight
           \/ FetchOne /\ InFlight' \subseteq InFlight \cup {NextFlight}
<1>1. ASSUME NEW k \in DOMAIN window' PROVE Flight(window'[k]) \in InFlight
  <2>1. /\ window \in Seq(Entry) /\ Len(window) \in Nat /\ DOMAIN window = 1 .. Len(window)
        /\ \A j \in DOMAIN window : Flight(window[j]) \in InFlight
    BY WindowTypes DEF CoreInvariant, InFlight
  <2>2. CASE window' = window
    BY <2>1, <2>2, <1>1
  <2>3. CASE RenameOne
    <3>1. PICK s \in InUse(id_rn_buffer), new \in Entry :
            /\ window' = Append(window, new)
            /\ new.pc = id_rn_buffer[s].pc /\ new.instr = id_rn_buffer[s].instr
            /\ new.branch_taken = id_rn_buffer[s].branch_taken
      BY <2>3, RenameWindow
    <3>2. Flight(new) \in InFlight
      <4>1. Flight(new) = Flight(id_rn_buffer[s])
        BY <3>1 DEF Flight
      <4> QED
        BY <4>1 DEF InFlight, Flights
    <3>3. /\ \A j \in 1 .. Len(window) : window'[j] = window[j]
          /\ window'[Len(window) + 1] = new
          /\ DOMAIN window' = 1 .. Len(window) + 1
      BY <2>1, <3>1, AppendProperties
    <3>4. k \in 1 .. Len(window) \/ k = Len(window) + 1
      BY <3>3, <2>1, <1>1
    <3> QED
      BY <3>2, <3>3, <3>4, <2>1
  <2>4. CASE CommitOne
    <3>1. /\ k + 1 \in DOMAIN window
          /\ window'[k].pc = window[k + 1].pc /\ window'[k].instr = window[k + 1].instr
          /\ window'[k].branch_taken = window[k + 1].branch_taken
      BY <2>4, <1>1, CommitWindow
    <3>2. Flight(window'[k]) = Flight(window[k + 1])
      BY <3>1 DEF Flight
    <3> QED
      BY <3>1, <3>2, <2>1
  <2>5. CASE WindowKept
    <3>1. k \in DOMAIN window /\ Flight(window'[k]) = Flight(window[k])
      BY <2>5, <1>1 DEF WindowKept, Flight
    <3> QED
      BY <3>1, <2>1
  <2> QED
    BY <2>2, <2>3, <2>4, <2>5, WindowCases
<1>2. InFlight' = Flights(if_id_buffer') \cup Flights(id_rn_buffer')
                    \cup {Flight(window'[k]) : k \in DOMAIN window'}
  BY DEF InFlight, Flights, InUse, Flight
<1> QED
  BY <1>1, <1>2, FrontEndStep DEF FrontEndNext

LEMMA ProgramStays == [Next]_vars => program' = program
BY NextCases DEF vars, FetchOne, FetchStageEnds, DecodeOne, DecodeStageEnds, RenameOne,
      RenameStageEnds, DispatchOne, DispatchStageEnds, ExecuteOne, ExecuteStageEnds, Response,
      MemoryStageEnds, WritebackStage, CommitOne, CommitStageEnds

LEMMA FetchedStep ==
    ASSUME CoreInvariant, [Next]_vars
    PROVE  Fetched'
<1>1. ASSUME NEW f \in InFlight \cup {NextFlight} PROVE f.instr = Fetch(program, f.pc)
  BY DEF CoreInvariant, Fetched, NextFlight
<1>2. InFlight' \subseteq InFlight \cup {NextFlight}
  BY InFlightStep
<1>3. program' = program
  BY ProgramStays
<1> QED
  BY <1>1, <1>2, <1>3 DEF Fetched, Fetch

LEMMA CommittedStep ==
    ASSUME CoreInvariant, [Next]_vars
    PROVE  R' \in [Reg -> Word] /\ num_commited' \in 0 .. PIPELINE_WIDTH /\ stage' \in Stages
<1>1. /\ R \in [Reg -> Word] /\ num_commited \in 0 .. PIPELINE_WIDTH /\ stage \in Stages
      /\ PIPELINE_WIDTH \in Nat
  BY Sizes DEF CoreInvariant, TypeOK
<1>2. CASE CommitOne
  <2>1. Head(window) \in Entry
    <3>1. 1 \in DOMAIN window /\ window \in Seq(Entry)
      BY <1>2, CommitWindow, WindowTypes DEF CoreInvariant
    <3> QED
      BY <3>1
  <2>2. Dest(Head(window).instr) \in Reg /\ Head(window).value \in Word
    <3>1. Head(window).instr \in Instruction /\ Head(window).value \in Word
      BY <2>1 DEF Entry
    <3> QED
      BY <3>1 DEF Dest, WriteReg, Instruction
  <2>3. R' \in [Reg -> Word]
    <3>1. R' = R \/ R' = [R EXCEPT ![Dest(Head(window).instr)] = Head(window).value]
      BY <1>2 DEF CommitOne
    <3> QED
      BY <3>1, <2>2, <1>1
  <2>4. num_commited' = num_commited + 1 /\ num_commited < PIPELINE_WIDTH /\ stage' = stage
    BY <1>2 DEF CommitOne, Committable
  <2> QED
    BY <1>1, <2>3, <2>4
<1>3. CASE \/ UNCHANGED vars \/ FetchOne \/ FetchStageEnds \/ DecodeOne \/ DecodeStageEnds
           \/ RenameOne \/ RenameStageEnds \/ DispatchOne \/ DispatchStageEnds
           \/ ExecuteOne \/ ExecuteStageEnds \/ (\E k \in DOMAIN window : Response(k))
           \/ MemoryStageEnds \/ WritebackStage \/ CommitStageEnds
  <2>1. /\ R' = R /\ num_commited' \in {num_commited, 0}
        /\ stage' \in {stage, "commit", "fetch", "decode", "dispatch", "execute", "memory",
                       "rename", "writeback"}
    BY <1>3 DEF vars, FetchOne, FetchStageEnds, DecodeOne, DecodeStageEnds, RenameOne,
                RenameStageEnds, DispatchOne, DispatchStageEnds, ExecuteOne, ExecuteStageEnds,
                Response, MemoryStageEnds, WritebackStage, CommitStageEnds
  <2> QED
    BY <1>1, <2>1 DEF Stages
<1> QED
  BY <1>2, <1>3, NextCases

LEMMA CoreInvariantInit == Init => CoreInvariant
<1> SUFFICES ASSUME Init PROVE CoreInvariant
  OBVIOUS
<1>1. /\ program \in Programs /\ pc = 0 /\ R = [r \in Reg |-> 0]
      /\ if_id_buffer = EmptyBuffer /\ id_rn_buffer = EmptyBuffer
      /\ window = <<>> /\ committed_stores = <<>> /\ mem = InitialData
      /\ btb = [i \in BTBIndex |-> [valid |-> FALSE, tag |-> 0, target |-> 0, bimodal_counter |-> 0]]
      /\ squash = [pending |-> FALSE, seq |-> 0, target |-> 0]
      /\ num_commited = 0 /\ stage = "commit"
  BY DEF Init, NoSquash
<1>2. /\ window \in Seq(Entry) /\ Len(window) = 0 /\ DOMAIN window = {}
      /\ committed_stores \in Seq([addr : Word, data : Word, byte : BOOLEAN])
      /\ Len(committed_stores) = 0
  BY <1>1
<1>3. Cardinality(InWindow(StoreOps)) = 0
  <2>1. InWindow(StoreOps) = {}
    BY <1>2 DEF InWindow
  <2> QED
    BY <2>1, FS_EmptySet
<1>4. TypeOK
  BY <1>1, <1>2, <1>3, Sizes, EmptySlotIsSlot, WordLimits, CoreAssumption DEF TypeOK, Stages
<1>5. Fetched
  BY <1>1, <1>2, NoFlights DEF Fetched, InFlight
<1> QED
  BY <1>1, <1>2, <1>4, <1>5 DEF CoreInvariant, Producers, SquashedIsLive

LEMMA CoreInvariantStep == CoreInvariant /\ [Next]_vars => CoreInvariant'
<1> SUFFICES ASSUME CoreInvariant, [Next]_vars PROVE CoreInvariant'
  OBVIOUS
<1>1. /\ window' \in Seq(Entry) /\ Len(window') <= REORDER_BUFFER_SIZE /\ Producers'
      /\ mem' \in [Word -> Word]
      /\ committed_stores' \in Seq([addr : Word, data : Word, byte : BOOLEAN])
      /\ Cardinality(InWindow(StoreOps)') + Len(committed_stores') <= STORE_QUEUE_SIZE
  BY WindowStep, StoresStep
<1>2. pc' \in Nat /\ if_id_buffer' \in [Slots -> Slot] /\ id_rn_buffer' \in [Slots -> Slot]
  BY FrontEndStep DEF FrontEndNext
<1>3. /\ btb' \in [BTBIndex -> [valid : BOOLEAN, tag : Nat, target : Nat, bimodal_counter : 0 .. 3]]
      /\ squash' \in [pending : BOOLEAN, seq : 0 .. REORDER_BUFFER_SIZE, target : Nat]
      /\ SquashedIsLive'
  BY PredictorStep
<1>4. R' \in [Reg -> Word] /\ num_commited' \in 0 .. PIPELINE_WIDTH /\ stage' \in Stages
  BY CommittedStep
<1>5. TypeOK'
  BY <1>1, <1>2, <1>3, <1>4 DEF TypeOK
<1>6. program' \in Programs /\ Fetched'
  BY ProgramStays, FetchedStep DEF CoreInvariant
<1> QED
  BY <1>1, <1>3, <1>5, <1>6 DEF CoreInvariant

\* In every state the variables have their types, operands name older entries,
\* a pending squash names an entry that exists, and what is in flight, on the
\* right path or a wrong one, is what the text holds at its pc.
THEOREM CoreTracked == Spec => []CoreInvariant
<1>1. CoreInvariant /\ UNCHANGED vars => CoreInvariant'
  BY CoreInvariantStep
<1> QED
  BY CoreInvariantInit, CoreInvariantStep, PTL DEF Spec

\* Types, among them that the store queue never holds more than
\* STORE_QUEUE_SIZE stores, committed or not, and that every address fetch goes
\* to exists.
THEOREM CoreTypeCorrect == Spec => []TypeOK
<1>1. CoreInvariant => TypeOK
  BY DEF CoreInvariant
<1> QED
  BY <1>1, CoreTracked, PTL

----------------------------------------------------------------------------
(* Wakeups.  A producer is done when it writes its register, which is in   *)
(* the step that broadcasts it, and its consumers are told in that step or *)
(* read the register's ready bit when they are renamed.                    *)

LEMMA WakeupStep == CoreInvariant /\ NoLostWakeup /\ [Next]_vars => NoLostWakeup'
<1> SUFFICES ASSUME CoreInvariant, NoLostWakeup, [Next]_vars PROVE NoLostWakeup'
  OBVIOUS
<1> DEFINE Done(reg) == reg = 0 \/ window[reg].state = "done"
           DoneNext(reg) == reg = 0 \/ window'[reg].state = "done"
<1>1. /\ window \in Seq(Entry) /\ Len(window) \in Nat /\ DOMAIN window = 1 .. Len(window)
      /\ \A k \in DOMAIN window : /\ window[k].rs \in Nat /\ window[k].rs < k
                                  /\ window[k].rt \in Nat /\ window[k].rt < k
  BY WindowTypes DEF CoreInvariant, Producers, Entry
<1>2. \A k \in DOMAIN window : window[k].state = "queued" =>
         window[k].rs_ready = Done(window[k].rs) /\ window[k].rt_ready = Done(window[k].rt)
  BY DEF NoLostWakeup, InState, PRFReady
<1>3. SUFFICES ASSUME NEW k \in DOMAIN window', window'[k].state = "queued"
               PROVE  /\ window'[k].rs_ready = DoneNext(window'[k].rs)
                      /\ window'[k].rt_ready = DoneNext(window'[k].rt)
  BY DEF NoLostWakeup, InState, PRFReady
<1>4. CASE window' = window
  BY <1>2, <1>3, <1>4
<1>5. CASE RenameOne
  <2>1. PICK new \in Entry :
            /\ window' = Append(window, new)
            /\ new.rs \in 0 .. Len(window) /\ new.rt \in 0 .. Len(window)
            /\ new.rs_ready = PRFReady(new.rs) /\ new.rt_ready = PRFReady(new.rt)
    BY <1>5, RenameWindow
  <2>2. /\ \A j \in 1 .. Len(window) : window'[j] = window[j]
        /\ window'[Len(window) + 1] = new
        /\ DOMAIN window' = 1 .. Len(window) + 1
    BY <1>1, <2>1, AppendProperties
  <2>3. \A reg \in 0 .. Len(window) : DoneNext(reg) = Done(reg)
    BY <2>2, <1>1
  <2>4. CASE k \in 1 .. Len(window)
    <3>1. window'[k] = window[k] /\ window[k].rs \in 0 .. Len(window) /\ window[k].rt \in 0 .. Len(window)
      BY <2>2, <2>4, <1>1
    <3> QED
      BY <3>1, <2>3, <2>4, <1>1, <1>2, <1>3
  <2>5. CASE k = Len(window) + 1
    BY <2>1, <2>2, <2>3, <2>5 DEF PRFReady
  <2> QED
    BY <2>2, <2>4, <2>5, <1>1, <1>3
<1>6. CASE CommitOne
  <2>1. /\ 1 \in DOMAIN window /\ window[1].state = "done"
        /\ window' \in Seq(Entry) /\ Len(window') = Len(window) - 1
        /\ \A j \in DOMAIN window' :
              j + 1 \in DOMAIN window /\ window'[j].state = window[j + 1].state
        /\ k + 1 \in DOMAIN window
        /\ window'[k].rs = IF window[k + 1].rs = 0 THEN 0 ELSE window[k + 1].rs - 1
        /\ window'[k].rt = IF window[k + 1].rt = 0 THEN 0 ELSE window[k + 1].rt - 1
        /\ window'[k].state = window[k + 1].state
        /\ window'[k].rs_ready = window[k + 1].rs_ready
        /\ window'[k].rt_ready = window[k + 1].rt_ready
    BY <1>3, <1>6, CommitWindow
  <2>2. ASSUME NEW reg \in 0 .. k
        PROVE  DoneNext(IF reg = 0 THEN 0 ELSE reg - 1) = Done(reg)
    <3>0. k \in 1 .. Len(window) - 1 /\ DOMAIN window' = 1 .. Len(window) - 1
      BY <2>1, <1>3
    <3>1. CASE reg = 0
      BY <3>1
    <3>2. CASE reg = 1
      BY <3>2, <2>1
    <3>3. CASE reg \notin {0, 1}
      <4>1. reg - 1 \in DOMAIN window' /\ (reg - 1) + 1 = reg /\ reg - 1 # 0
        BY <3>0, <3>3, <1>1
      <4>2. window'[reg - 1].state = window[reg].state
        BY <4>1, <2>1
      <4> QED
        BY <4>1, <4>2, <3>3
    <3> QED
      BY <3>1, <3>2, <3>3
  <2>3. window[k + 1].rs \in 0 .. k /\ window[k + 1].rt \in 0 .. k
    <3>1. k \in Nat
      BY <2>1, <1>3
    <3> QED
      BY <3>1, <2>1, <1>1
  <2> HIDE DEF Done, DoneNext
  <2> QED
    BY <2>1, <2>2, <2>3, <1>2, <1>3
<1>7. ASSUME WindowKept
      PROVE  /\ k \in DOMAIN window /\ window'[k].rs = window[k].rs /\ window'[k].rt = window[k].rt
             /\ \A reg \in {window[k].rs, window[k].rt} :
                   reg = 0 \/ (reg \in DOMAIN window /\ reg \in DOMAIN window')
  <2>1. /\ window' \in Seq(Entry) /\ k \in 1 .. Len(window') /\ Len(window') \in Nat
        /\ k \in DOMAIN window /\ window'[k].rs = window[k].rs /\ window'[k].rt = window[k].rt
    BY <1>3, <1>7 DEF WindowKept
  <2> QED
    BY <2>1, <1>1
<1>8. CASE WindowKept /\ NothingProduced
  <2>1. /\ window[k].state = "queued"
        /\ window'[k].rs_ready = window[k].rs_ready /\ window'[k].rt_ready = window[k].rt_ready
    BY <1>3, <1>8 DEF NothingProduced
  <2>2. \A reg \in {window[k].rs, window[k].rt} : DoneNext(reg) = Done(reg)
    BY <1>7, <1>8 DEF NothingProduced
  <2> QED
    BY <2>1, <2>2, <1>2, <1>7, <1>8
<1>9. ASSUME WindowKept, NEW done, Produced(done)
      PROVE  /\ window'[k].rs_ready = DoneNext(window'[k].rs)
             /\ window'[k].rt_ready = DoneNext(window'[k].rt)
  <2>1. k \notin done /\ window[k].state = "queued"
    BY <1>3, <1>9 DEF Produced
  <2>2. /\ window'[k].rs_ready = (window[k].rs_ready \/ window[k].rs \in done)
        /\ window'[k].rt_ready = (window[k].rt_ready \/ window[k].rt \in done)
    BY <2>1, <1>3, <1>9 DEF Produced
  <2>3. \A reg \in {window[k].rs, window[k].rt} : DoneNext(reg) = (Done(reg) \/ reg \in done)
    <3>1. \A j \in DOMAIN window' : window'[j].state = IF j \in done THEN "done" ELSE window[j].state
      BY <1>9 DEF Produced
    <3>2. 0 \notin done
      BY <1>1, <1>9 DEF Produced
    <3> QED
      BY <3>1, <3>2, <1>7, <1>9
  <2> HIDE DEF Done, DoneNext
  <2> QED
    BY <2>1, <2>2, <2>3, <1>2, <1>7, <1>9
<1> QED
  BY <1>4, <1>5, <1>6, <1>8, <1>9, WindowCases

\* An instruction that waits in the queue is marked ready for an operand
\* exactly when the operand has been written: broadcasts, squashes, commits and
\* renaming cannot fall between each other.
THEOREM WakeupsAreExact == Spec => []NoLostWakeup
<1>1. Init => NoLostWakeup
  BY DEF Init, NoLostWakeup, InState
<1>2. NoLostWakeup /\ UNCHANGED vars => NoLostWakeup'
  BY DEF NoLostWakeup, InState, PRFReady, vars
<1> QED
  BY <1>1, <1>2, WakeupStep, CoreTracked, PTL DEF Spec

----------------------------------------------------------------------------
(* The branch predictor.                                                   *)

LEMMA SameEntry ==
    ASSUME NEW a \in Nat, NEW b \in Nat, a % 2 ^ BTB_BITS = b % 2 ^ BTB_BITS, Tag(a) = Tag(b)
    PROVE  a = b
<1> DEFINE m == 2 ^ BTB_BITS
<1>1. m \in Nat \ {0} /\ a % m = b % m /\ a \div m = b \div m
  BY TwoToThe, CoreAssumption DEF Tag
<1> HIDE DEF m
<1> QED
  BY <1>1

\* Where the branch of that word leads when it is taken.
TakenTarget(at) == BranchTarget(Fetch(program, at), Decode(Fetch(program, at)), at)

\* The entries are those of control transfers, and an entry that predicts its
\* branch taken holds its target.
Learnt ==
    \A at \in Nat :
        IsBranch(at) =>
            /\ IsControlTransfer(Fetch(program, at))
            /\ Fetch(program, at).op \in Branches /\ Predict(at) => EntryOf(at).target = TakenTarget(at)

\* A branch that was predicted taken, and whose entry nothing else uses, finds
\* its target in that entry.
Kept ==
    \A f \in InFlight :
        f.branch_taken /\ f.instr.op \in Branches /\ Unshared(f.pc) =>
            IsBranch(f.pc) /\ EntryOf(f.pc).target = TakenTarget(f.pc)

\* What training with the transfer at "at" does to the entries.
LEMMA Trains ==
    ASSUME CoreInvariant, NEW at \in Nat, NEW target \in Nat, NEW taken \in BOOLEAN,
           btb' = Trained(taken, at, target), NEW other \in Nat
    PROVE  /\ other % 2 ^ BTB_BITS # at % 2 ^ BTB_BITS =>
                 /\ IsBranch(other)' = IsBranch(other) /\ Predict(other)' = Predict(other)
                 /\ EntryOf(other)' = EntryOf(other)
           /\ other # at /\ IsBranch(other)' => other % 2 ^ BTB_BITS # at % 2 ^ BTB_BITS
           /\ IsBranch(at)'
           /\ EntryOf(at)'.target = IF IsBranch(at) /\ ~taken THEN EntryOf(at).target ELSE target
           /\ Predict(at)' => taken \/ (IsBranch(at) /\ Predict(at))
<1> DEFINE here == at % 2 ^ BTB_BITS
           there == other % 2 ^ BTB_BITS
<1>1. btb \in [BTBIndex -> BTBEntry]
  BY DEF CoreInvariant, TypeOK, BTBEntry
<1>2. /\ btb' \in [BTBIndex -> BTBEntry]
      /\ \A i \in BTBIndex \ {here} : btb'[i] = btb[i]
      /\ btb'[here].valid /\ btb'[here].tag = Tag(at)
      /\ btb'[here].target = IF IsBranch(at) /\ ~taken THEN btb[here].target ELSE target
      /\ btb'[here].bimodal_counter =
           IF IsBranch(at) THEN Counted(taken, btb[here].bimodal_counter)
           ELSE IF taken THEN 2 ELSE 1
  BY <1>1, Training
<1>3. here \in BTBIndex /\ there \in BTBIndex
  BY BTBIndices
<1>4. /\ EntryOf(at) = btb[here] /\ EntryOf(at)' = btb'[here]
      /\ EntryOf(other) = btb[there] /\ EntryOf(other)' = btb'[there]
  BY DEF EntryOf
<1>5. btb[here].bimodal_counter \in 0 .. 3
  BY <1>1, <1>3 DEF BTBEntry
<1> HIDE DEF here, there
<1>6. there # here => btb'[there] = btb[there]
  BY <1>2, <1>3
<1>7. there # here => /\ IsBranch(other)' = IsBranch(other) /\ Predict(other)' = Predict(other)
                      /\ EntryOf(other)' = EntryOf(other)
  BY <1>4, <1>6 DEF IsBranch, Predict, Tag
<1>8. there = here /\ IsBranch(other)' => other = at
  <2>1. there = here /\ IsBranch(other)' => Tag(other) = Tag(at)
    BY <1>2, <1>4 DEF IsBranch, Tag
  <2> QED
    BY <2>1, SameEntry DEF here, there
<1>9. IsBranch(at)'
  BY <1>2, <1>4 DEF IsBranch, Tag
<1>10. Predict(at)' => taken \/ (IsBranch(at) /\ Predict(at))
  BY <1>2, <1>4, <1>5 DEF Predict, Counted
<1> QED
  BY <1>2, <1>4, <1>7, <1>8, <1>9, <1>10 DEF here, there

\* The transfer that a unit resolves, and what it teaches the predictor.
LEMMA ExecuteTrains ==
    ASSUME CoreInvariant, ExecuteOne
    PROVE  \/ UNCHANGED <<btb, squash>>
           \/ \E k \in DOMAIN window, at, target \in Nat, taken \in BOOLEAN :
                 LET e == window[k]
                 IN /\ at = e.pc /\ btb' = Trained(taken, at, target)
                    /\ squash' = IF Mispredicted(e, taken, target) THEN Requested(k, target) ELSE squash
                    /\ IsControlTransfer(Fetch(program, at))
                    /\ e.instr = Fetch(program, at) /\ Flight(e) \in InFlight
                    /\ e.instr.op \in Branches => target = IF taken THEN TakenTarget(at) ELSE at + 1
<1>1. PICK k \in DOMAIN window, branch_taken \in BOOLEAN, read_data_1 \in Word :
         Resolves(k, branch_taken, read_data_1)
  BY ExecuteEffect
<1> DEFINE e == window[k]
           control == Decode(e.instr)
           target == TargetOf(e, control, branch_taken, read_data_1)
           taken == branch_taken \/ control.jump \/ control.jump_reg
<1>2. Flight(e) \in InFlight /\ e.instr = Fetch(program, e.pc)
  <2>1. Flight(e) \in InFlight
    BY DEF InFlight
  <2> QED
    BY <2>1 DEF CoreInvariant, Fetched, Flight
<1>3. CASE ~IsControlTransfer(e.instr)
  BY <1>1, <1>3 DEF Resolves
<1>4. CASE IsControlTransfer(e.instr)
  <2>1. e.pc \in 0 .. Len(program) - 1 /\ target \in Nat
    BY <1>4, Transferred
  <2>2. /\ btb' = Trained(taken, e.pc, target)
        /\ squash' = IF Mispredicted(e, taken, target) THEN Requested(k, target) ELSE squash
    BY <1>1, <1>4 DEF Resolves
  <2>3. taken \in BOOLEAN
    BY DEF Decode
  <2>4. e.instr.op \in Branches => target = IF taken THEN TakenTarget(e.pc) ELSE e.pc + 1
    <3> SUFFICES ASSUME e.instr.op \in Branches
                 PROVE  target = IF taken THEN TakenTarget(e.pc) ELSE e.pc + 1
      OBVIOUS
    <3>1. ~control.jump /\ ~control.jump_reg
      BY DEF Decode, Branches, JType
    <3>2. taken = branch_taken
      BY <3>1
    <3>3. target = IF branch_taken THEN BranchTarget(e.instr, control, e.pc) ELSE e.pc + 1
      BY <3>1 DEF TargetOf
    <3> QED
      BY <3>2, <3>3, <1>2 DEF TakenTarget
  <2>5. e.pc \in Nat
    BY <2>1
  <2> HIDE DEF e, target, taken
  <2> QED
    BY <1>2, <1>4, <2>1, <2>2, <2>3, <2>4, <2>5 DEF e
<1> QED
  BY <1>3, <1>4

LEMMA LearntStep == CoreInvariant /\ Learnt /\ [Next]_vars => Learnt'
<1> SUFFICES ASSUME CoreInvariant, Learnt, [Next]_vars PROVE Learnt'
  OBVIOUS
<1>1. program' = program /\ \A at \in Nat : TakenTarget(at)' = TakenTarget(at)
  BY ProgramStays DEF TakenTarget, Fetch
<1>2. CASE btb' = btb
  BY <1>1, <1>2 DEF Learnt, IsBranch, Predict, EntryOf, Tag, Fetch
<1>3. CASE ExecuteOne /\ btb' # btb
  <2>1. PICK here \in Nat, target \in Nat, taken \in BOOLEAN :
           /\ btb' = Trained(taken, here, target)
           /\ IsControlTransfer(Fetch(program, here))
           /\ Fetch(program, here).op \in Branches =>
                 target = IF taken THEN TakenTarget(here) ELSE here + 1
    BY <1>3, ExecuteTrains
  <2>2. ASSUME NEW at \in Nat, IsBranch(at)'
        PROVE  /\ IsControlTransfer(Fetch(program, at))
               /\ Fetch(program, at).op \in Branches /\ Predict(at)' =>
                     EntryOf(at)'.target = TakenTarget(at)
    <3>1. CASE at # here
      <4>1. /\ IsBranch(at)' = IsBranch(at) /\ Predict(at)' = Predict(at)
            /\ EntryOf(at)' = EntryOf(at)
        BY <2>1, <2>2, <3>1, Trains
      <4> QED
        BY <4>1, <2>2 DEF Learnt
    <3>2. CASE at = here
      <4>1. /\ EntryOf(here)'.target = IF IsBranch(here) /\ ~taken THEN EntryOf(here).target ELSE target
            /\ Predict(here)' => taken \/ (IsBranch(here) /\ Predict(here))
        BY <2>1, Trains
      <4>2. IsControlTransfer(Fetch(program, here))
        BY <2>1
      <4>3. ASSUME Fetch(program, here).op \in Branches, Predict(here)'
            PROVE  EntryOf(here)'.target = TakenTarget(here)
        <5>1. CASE taken
          BY <2>1, <4>1, <4>3, <5>1
        <5>2. CASE ~taken
          <6>1. IsBranch(here) /\ Predict(here) /\ EntryOf(here)'.target = EntryOf(here).target
            BY <4>1, <4>3, <5>2
          <6> QED
            BY <6>1, <4>3, <2>1 DEF Learnt
        <5> QED
          BY <5>1, <5>2
      <4> QED
        BY <3>2, <4>2, <4>3
    <3> QED
      BY <3>1, <3>2
  <2> QED
    BY <1>1, <2>2 DEF Learnt, Fetch
<1>4. btb' = btb \/ ExecuteOne
  BY NextCases DEF vars, FetchOne, FetchStageEnds, DecodeOne, DecodeStageEnds, RenameOne,
      RenameStageEnds, DispatchOne, DispatchStageEnds, ExecuteStageEnds, Response,
      MemoryStageEnds, WritebackStage, CommitOne, CommitStageEnds
<1> QED
  BY <1>2, <1>3, <1>4

LEMMA KeptStep == CoreInvariant /\ Learnt /\ Kept /\ [Next]_vars => Kept'
<1> SUFFICES ASSUME CoreInvariant, Learnt, Kept, [Next]_vars PROVE Kept'
  OBVIOUS
<1>1. /\ program' = program /\ \A at \in Nat : TakenTarget(at)' = TakenTarget(at)
      /\ \A at : Unshared(at)' = Unshared(at)
  BY ProgramStays DEF TakenTarget, Fetch, Unshared
<1>2. \A f \in InFlight \cup {NextFlight} : f.pc \in Nat /\ f.instr = Fetch(program, f.pc)
  <2>1. \A s \in InUse(if_id_buffer) : if_id_buffer[s].pc \in Nat
    BY DEF CoreInvariant, TypeOK, InUse, Slot
  <2>2. \A s \in InUse(id_rn_buffer) : id_rn_buffer[s].pc \in Nat
    BY DEF CoreInvariant, TypeOK, InUse, Slot
  <2>3. \A k \in DOMAIN window : window[k].pc \in Nat
    BY WindowTypes DEF CoreInvariant, Entry
  <2>4. pc \in Nat
    BY DEF CoreInvariant, TypeOK
  <2>5. \A f \in InFlight \cup {NextFlight} : f.pc \in Nat
    BY <2>1, <2>2, <2>3, <2>4 DEF InFlight, Flights, Flight, NextFlight
  <2> QED
    BY <2>5 DEF CoreInvariant, Fetched, NextFlight
<1>3. ASSUME NEW f \in InFlight \cup {NextFlight},
             f.branch_taken, f.instr.op \in Branches, Unshared(f.pc)
      PROVE  IsBranch(f.pc) /\ EntryOf(f.pc).target = TakenTarget(f.pc)
  <2>1. CASE f \in InFlight
    BY <1>3, <2>1 DEF Kept
  <2>2. CASE f = NextFlight
    <3>1. IsBranch(pc) /\ Predict(pc) /\ Fetch(program, pc).op \in Branches /\ f.pc = pc
      BY <1>3, <2>2 DEF NextFlight
    <3>2. pc \in Nat
      BY DEF CoreInvariant, TypeOK
    <3> QED
      BY <3>1, <3>2 DEF Learnt
  <2> QED
    BY <1>3, <2>1, <2>2
<1>4. InFlight' \subseteq InFlight \cup {NextFlight}
  BY InFlightStep
<1>5. ASSUME NEW f \in InFlight \cup {NextFlight},
             f.branch_taken, f.instr.op \in Branches, Unshared(f.pc)
      PROVE  IsBranch(f.pc)' /\ EntryOf(f.pc)'.target = TakenTarget(f.pc)
  <2> DEFINE at == f.pc
  <2>1. at \in Nat /\ IsBranch(at) /\ EntryOf(at).target = TakenTarget(at)
    BY <1>2, <1>3, <1>5
  <2>2. CASE btb' = btb
    BY <2>1, <2>2 DEF IsBranch, EntryOf, Tag
  <2>3. CASE ExecuteOne /\ btb' # btb
    <3>1. PICK here \in Nat, target \in Nat, taken \in BOOLEAN :
             /\ btb' = Trained(taken, here, target)
             /\ IsControlTransfer(Fetch(program, here))
             /\ Fetch(program, here).op \in Branches =>
                   target = IF taken THEN TakenTarget(here) ELSE here + 1
      BY <2>3, ExecuteTrains
    <3>2. CASE at % 2 ^ BTB_BITS # here % 2 ^ BTB_BITS
      <4>1. IsBranch(at)' = IsBranch(at) /\ EntryOf(at)' = EntryOf(at)
        BY <2>1, <3>1, <3>2, Trains
      <4> QED
        BY <2>1, <4>1
    <3>3. CASE at % 2 ^ BTB_BITS = here % 2 ^ BTB_BITS
      <4>1. at = here
        <5>1. here \in 0 .. Len(program) - 1
          BY <3>1, FetchTypes DEF CoreInvariant
        <5> QED
          BY <1>5, <3>1, <3>3, <5>1 DEF Unshared
      <4>2. /\ IsBranch(here)'
            /\ EntryOf(here)'.target = IF IsBranch(here) /\ ~taken THEN EntryOf(here).target ELSE target
        BY <3>1, Trains
      <4>3. Fetch(program, here).op \in Branches
        BY <1>2, <1>5, <3>1, <4>1
      <4> QED
        BY <2>1, <3>1, <4>1, <4>2, <4>3
    <3> QED
      BY <3>2, <3>3
  <2>4. btb' = btb \/ ExecuteOne
    BY NextCases DEF vars, FetchOne, FetchStageEnds, DecodeOne, DecodeStageEnds, RenameOne,
        RenameStageEnds, DispatchOne, DispatchStageEnds, ExecuteStageEnds, Response,
        MemoryStageEnds, WritebackStage, CommitOne, CommitStageEnds
  <2> QED
    BY <2>2, <2>3, <2>4
<1> QED
  BY <1>1, <1>2, <1>4, <1>5 DEF Kept

PredictorInvariant == CoreInvariant /\ Learnt /\ Kept

\* In every state, what the predictor has learnt of a branch is right where it
\* predicts it taken, and stays in its entry as long as an instance that was
\* predicted by it is in flight, unless another transfer uses the entry.
THEOREM PredictorTracked == Spec => []PredictorInvariant
<1>1. Init => Learnt /\ Kept
  <2> SUFFICES ASSUME Init PROVE Learnt /\ Kept
    OBVIOUS
  <2>1. ASSUME NEW at \in Nat PROVE ~IsBranch(at)
    BY BTBIndices DEF Init, IsBranch, EntryOf
  <2>2. InFlight = {}
    BY NoFlights DEF Init, InFlight
  <2> QED
    BY <2>1, <2>2 DEF Learnt, Kept
<1>2. CoreInvariant /\ UNCHANGED vars => CoreInvariant'
  BY CoreInvariantStep
<1>3. CoreInvariant /\ Learnt /\ Kept /\ [Next]_vars => Learnt' /\ Kept'
  BY LearntStep, KeptStep
<1> QED
  BY <1>1, <1>2, <1>3, CoreTracked, PTL DEF Spec, PredictorInvariant

\* Fetch follows a taken prediction to where the branch goes, whatever branches
\* have shared, lost and retaken the entry before.
THEOREM PredictionsAreTargets == Spec => []TakenPredictionsKnowTheTarget
<1>1. PredictorInvariant => TakenPredictionsKnowTheTarget
  <2> SUFFICES ASSUME PredictorInvariant, NEW at \in 0 .. Len(program) - 1, IsBranch(at), Predict(at)
               PROVE  /\ IsControlTransfer(Fetch(program, at))
                      /\ Fetch(program, at).op \in Branches => EntryOf(at).target = TakenTarget(at)
    BY DEF TakenPredictionsKnowTheTarget, TakenTarget
  <2>1. at \in Nat
    BY CoreAssumption DEF PredictorInvariant, CoreInvariant
  <2> QED
    BY <2>1 DEF PredictorInvariant, Learnt
<1> QED
  BY <1>1, PredictorTracked, PTL

\* A step that asks for a squash other than to pc + 4 does not ask for that of a
\* branch that was predicted taken and whose entry is its own.
LEMMA SquashesAreNeeded ==
    ASSUME PredictorInvariant, [Next]_vars, squash' # squash, NEW k \in DOMAIN window,
           squash'.pending, squash'.seq = k, window[k].instr.op \in Branches,
           Unshared(window[k].pc), squash'.target # window[k].pc + 1
    PROVE  ~window[k].branch_taken
<1>1. CoreInvariant /\ Kept
  BY DEF PredictorInvariant
<1>2. ExecuteOne
  <2>1. CASE ExecuteStageEnds
    BY <2>1 DEF ExecuteStageEnds, NoSquash
  <2>2. squash' = squash \/ ExecuteOne \/ ExecuteStageEnds
    BY NextCases DEF vars, FetchOne, FetchStageEnds, DecodeOne, DecodeStageEnds, RenameOne,
        RenameStageEnds, DispatchOne, DispatchStageEnds, Response,
        MemoryStageEnds, WritebackStage, CommitOne, CommitStageEnds
  <2> QED
    BY <2>1, <2>2
<1>3. PICK j \in DOMAIN window, at \in Nat, target \in Nat, taken \in BOOLEAN :
         LET e == window[j]
         IN /\ at = e.pc
            /\ squash' = IF Mispredicted(e, taken, target) THEN Requested(j, target) ELSE squash
            /\ e.instr = Fetch(program, at) /\ Flight(e) \in InFlight
            /\ e.instr.op \in Branches => target = IF taken THEN TakenTarget(at) ELSE at + 1
  BY <1>1, <1>2, ExecuteTrains
<1>4. /\ Mispredicted(window[j], taken, target)
      /\ squash' = [pending |-> TRUE, seq |-> j, target |-> target]
  BY <1>3 DEF Requested
<1>5. j = k /\ squash'.target = target
  BY <1>4
<1>6. taken /\ target = TakenTarget(at) /\ at = window[k].pc
  BY <1>3, <1>5
<1>7. ASSUME window[k].branch_taken PROVE FALSE
  <2>1. IsBranch(at) /\ EntryOf(at).target = TakenTarget(at)
    BY <1>1, <1>3, <1>5, <1>6, <1>7 DEF Kept, Flight
  <2>2. TargetMatch(at, target)
    BY <2>1, <1>6 DEF TargetMatch
  <2>3. taken # window[k].branch_taken
    BY <1>4, <1>5, <1>6, <2>2 DEF Mispredicted
  <2>4. window[k].branch_taken \in BOOLEAN
    BY WindowTypes, <1>1 DEF CoreInvariant, Entry
  <2> QED
    BY <1>6, <1>7, <2>3, <2>4
<1> QED
  BY <1>7

\* The only squashes for nothing are those of branches rightly predicted
\* untaken, and of those whose entry another transfer may have taken over.
THEOREM TakenPredictionsStand == Spec => NoSquashOfTakenPrediction
<1> DEFINE Stands ==
      \A k \in DOMAIN window :
         (/\ squash'.pending /\ squash'.seq = k
          /\ window[k].instr.op \in Branches /\ Unshared(window[k].pc)
          /\ squash'.target # window[k].pc + 1)
            => ~window[k].branch_taken
<1>1. PredictorInvariant /\ [Next]_vars => [Stands]_squash
  BY SquashesAreNeeded
<1> HIDE DEF Stands
<1>2. [][Stands]_squash => NoSquashOfTakenPrediction
  BY DEF Stands, NoSquashOfTakenPrediction
<1> QED
  BY <1>1, <1>2, PredictorTracked, PTL DEF Spec
=============================================================================
