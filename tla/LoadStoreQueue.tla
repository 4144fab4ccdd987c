--------------------------- MODULE LoadStoreQueue ---------------------------
(***************************************************************************)
(* Memory ordering in the -O2 core: class LoadStoreQueue                   *)
(* (load_store_queue.cpp), the parts of the stages that use it             *)
(* (processorOOO.cpp) and the dispatch condition of the instruction queue  *)
(* (instruction_queue.cpp).                                                *)
(*                                                                         *)
(* The window of renamed instructions is the part of path after the first  *)
(* retired elements; the reorder buffer that holds it is the subject of    *)
(* RenameROB.  Addresses come with the instruction, since the order in     *)
(* which they become known is what matters here.  A memory word is split   *)
(* into the parts that byte and halfword accesses tell apart, and a part   *)
(* holds the sequence number of the store that wrote it.  The caches are   *)
(* the subject of MemoryHierarchy: here an access may miss or not.         *)
(***************************************************************************)
EXTENDS Integers, Sequences, FiniteSets

CONSTANTS
    LOAD_QUEUE_SIZE,
    STORE_QUEUE_SIZE,
    Instrs,     \* the memory and branch instructions the program may issue
    TextEnd,    \* smc_text_end: stores below it modify the program
    MayMiss,    \* MemoryOOO::access may answer false
    MaxSeq      \* bound on the number of instructions renamed

Kind == {"load", "store", "branch"}
Size == {"word", "halfword", "byte"}

ASSUME QueuesAssumption ==
    /\ LOAD_QUEUE_SIZE \in Nat \ {0} /\ STORE_QUEUE_SIZE \in Nat \ {0}
    /\ TextEnd \in Nat /\ MayMiss \in BOOLEAN /\ MaxSeq \in Nat

ASSUME MemoryInstrsAssumption ==
    Instrs # {} /\ Instrs \subseteq [kind : Kind, addr : Nat, size : Size]

Word(addr) == addr \div 4
Words == {Word(i.addr) : i \in Instrs}

Initial == -1
Part == {"low byte", "second byte", "upper half"}
Value == [Part -> Nat \cup {Initial}]
\* What the instructions name, as the -O0 reference masks it.
Named(size) == CASE size = "byte" -> {"low byte"}
                 [] size = "halfword" -> {"low byte", "second byte"}
                 [] size = "word" -> Part

VARIABLES
    path,       \* the instructions renamed and not squashed, in program order
    retired,    \* how many of them have committed
    lq, sq,     \* the circular queues
    mem,        \* memory as the hierarchy presents it
    next_seq, squash_pending, squash_seq,
    missed,     \* history: the stores that missed or were queued behind one that did
    undone      \* history: a squash went back behind what had committed

squashVars == <<squash_pending, squash_seq>>
history == <<missed, undone>>
vars == <<path, retired, lq, sq, mem, next_seq, squashVars, history>>

----------------------------------------------------------------------------
(* Circular queues of capacity n.                                          *)
(* (A definition whose name ends in _Bug is a plausible mistake in the one *)
(* that follows it, kept to show that some property notices.)              *)

Slots(n) == 0 .. n - 1
At(q, k, n) == q.entries[(q.head + k) % n]
Ages(q) == 0 .. q.size - 1
Oldest(S) == CHOOSE k \in S : \A j \in S : k <= j
Youngest(S) == CHOOSE k \in S : \A j \in S : j <= k

Add(q, entry, n) ==
    [q EXCEPT !.entries[q.tail] = entry, !.tail = (q.tail + 1) % n, !.size = @ + 1]
PopHead_Bug(q, count, n) == [q EXCEPT !.head = q.head + count, !.size = @ - count]
PopHead(q, count, n) == [q EXCEPT !.head = (q.head + count) % n, !.size = @ - count]
\* squash: pop from the tail until an entry is not younger than the branch.
Kept_Bug(q, seq, n) == q.size
Kept(q, seq, n) ==
    LET stay == {k \in Ages(q) : At(q, k, n).seq <= seq}
    IN IF stay = {} THEN 0 ELSE Youngest(stay) + 1
Squashed(q, seq, n) ==
    [q EXCEPT !.size = Kept(q, seq, n), !.tail = (q.head + Kept(q, seq, n)) % n]

UnusedEntry == [seq |-> 0, instr |-> CHOOSE i \in Instrs : TRUE,
                addr_ready |-> FALSE, completed |-> FALSE]
EmptyQueue(n) == [entries |-> [i \in Slots(n) |-> UnusedEntry],
                  head |-> 0, tail |-> 0, size |-> 0]

Init ==
    /\ path = <<>> /\ retired = 0
    /\ lq = EmptyQueue(LOAD_QUEUE_SIZE) /\ sq = EmptyQueue(STORE_QUEUE_SIZE)
    /\ mem = [w \in Words |-> [part \in Part |-> Initial]]
    /\ next_seq = 0 /\ squash_pending = FALSE /\ squash_seq = 0
    /\ missed = {} /\ undone = FALSE

Store(k) == At(sq, k, STORE_QUEUE_SIZE)
Load(k) == At(lq, k, LOAD_QUEUE_SIZE)
\* The data of a store: sw, sh and sb alike write the whole register.
Data(seq) == [part \in Part |-> seq]

----------------------------------------------------------------------------
\* rename_stage: add_load or add_store, which is also where a full queue stalls.
Rename(instr) ==
    LET entry == [seq |-> next_seq, instr |-> instr, addr_ready |-> FALSE,
                  completed |-> FALSE]
        slot == CASE instr.kind = "load" -> lq.tail
                  [] instr.kind = "store" -> sq.tail
                  [] OTHER -> -1
    IN /\ next_seq < MaxSeq
       /\ ~squash_pending
       /\ instr.kind = "load" => lq.size < LOAD_QUEUE_SIZE
       /\ instr.kind = "store" => sq.size < STORE_QUEUE_SIZE
       /\ lq' = IF instr.kind = "load" THEN Add(lq, entry, LOAD_QUEUE_SIZE) ELSE lq
       /\ sq' = IF instr.kind = "store" THEN Add(sq, entry, STORE_QUEUE_SIZE) ELSE sq
       /\ path' = Append(path, [seq |-> next_seq, instr |-> instr, stage |-> "queued",
                                slot |-> slot, value |-> Data(Initial)])
       /\ next_seq' = next_seq + 1
       /\ UNCHANGED <<retired, mem, squashVars, history>>

HasUnresolvedEarlierStore_Bug(load_seq) == FALSE
\* has_unresolved_earlier_store
HasUnresolvedEarlierStore(load_seq) ==
    \E k \in Ages(sq) : /\ \A j \in 0 .. k : Store(j).seq < load_seq
                        /\ ~Store(k).addr_ready

\* dispatch_stage: get_oldest_ready holds a load back behind unresolved stores.
\* (It also waits for the source registers, which may be ready in any order.)
Dispatch(k) ==
    /\ path[k].stage = "queued"
    /\ path[k].instr.kind = "load" => ~HasUnresolvedEarlierStore(path[k].seq)
    /\ path' = [path EXCEPT ![k].stage = "unit"]
    /\ UNCHANGED <<retired, lq, sq, mem, next_seq, squashVars, history>>

\* The stores try_forward may answer from; it takes the youngest. A store has an
\* address only once it executed, with both registers ready, so its data is too.
ForwardingStores(load_seq, load) ==
    {k \in Ages(sq) : /\ Store(k).seq < load_seq
                      /\ Store(k).addr_ready
                      /\ Store(k).instr.addr = load.addr
                      /\ Store(k).instr.size = load.size}

\* execute_stage, a load: store-to-load forwarding, else the L1 probe, else an
\* MSHR if there is one left (if not, the unit tries again in the next cycle).
ExecuteLoad(k) ==
    LET load == path[k]
        from == ForwardingStores(load.seq, load.instr)
    IN /\ load.stage = "unit" /\ load.instr.kind = "load"
       /\ lq' = [lq EXCEPT !.entries[load.slot].addr_ready = TRUE]
       /\ \/ /\ from # {}
             /\ path' = [path EXCEPT ![k].stage = "result",
                                     ![k].value = Data(Store(Youngest(from)).seq)]
          \/ /\ from = {}
             /\ \/ path' = [path EXCEPT ![k].stage = "result",
                                        ![k].value = mem[Word(load.instr.addr)]]
                \/ path' = [path EXCEPT ![k].stage = "mshr"]
                \/ path' = path
       /\ UNCHANGED <<retired, sq, mem, next_seq, squashVars, history>>

\* execute_stage, a store: address and data are now known.
ExecuteStore(k) ==
    /\ path[k].stage = "unit" /\ path[k].instr.kind = "store"
    /\ sq' = [sq EXCEPT !.entries[path[k].slot].addr_ready = TRUE]
    /\ path' = [path EXCEPT ![k].stage = "result"]
    /\ UNCHANGED <<retired, lq, mem, next_seq, squashVars, history>>

Older_Bug(seq) == TRUE
\* A request to squash counts if there is none yet that goes as far back.
Older(seq) == ~squash_pending \/ seq < squash_seq

\* execute_stage, a branch: the oldest mispredicted one is squashed to.
ExecuteBranch(k) ==
    /\ path[k].stage = "unit" /\ path[k].instr.kind = "branch"
    /\ path' = [path EXCEPT ![k].stage = "result"]
    /\ \/ UNCHANGED squashVars
       \/ /\ squash_pending' = TRUE
          /\ squash_seq' = IF Older(path[k].seq) THEN path[k].seq ELSE squash_seq
    /\ UNCHANGED <<retired, lq, sq, mem, next_seq, history>>

\* writeback_stage
Writeback(k) ==
    /\ path[k].stage = "result"
    /\ path' = [path EXCEPT ![k].stage = "done"]
    /\ UNCHANGED <<retired, lq, sq, mem, next_seq, squashVars, history>>

\* memory_stage: the MSHR's line has arrived and the word is read from it.
MemoryResponse(k) ==
    /\ path[k].stage = "mshr"
    /\ path' = [path EXCEPT ![k].stage = "done",
                            ![k].value = mem[Word(path[k].instr.addr)]]
    /\ UNCHANGED <<retired, lq, sq, mem, next_seq, squashVars, history>>

CommittedPrefix_Bug(q) ==
    {k \in Ages(q) : \A j \in 0 .. k : At(q, j, STORE_QUEUE_SIZE).addr_ready}
\* The committed stores at the head of queue q.
CommittedPrefix(q) ==
    {k \in Ages(q) : \A j \in 0 .. k : At(q, j, STORE_QUEUE_SIZE).completed}

\* evict_commited_stores on queue q: the count oldest committed stores go to
\* memory in order and the next one misses, if there is one.  A store into the
\* program text asks for a squash of all that follows it; the oldest wins.
Evict(q, count) ==
    LET drained(k) == At(q, k, STORE_QUEUE_SIZE)
        smc == {k \in 0 .. count - 1 : drained(k).instr.addr < TextEnd}
        smc_seq == drained(Oldest(smc)).seq
        to(w) == {k \in 0 .. count - 1 : Word(drained(k).instr.addr) = w}
    IN /\ count \in 0 .. Cardinality(CommittedPrefix(q))
       /\ MayMiss \/ count = Cardinality(CommittedPrefix(q))
       /\ sq' = PopHead(q, count, STORE_QUEUE_SIZE)
       /\ missed' = missed \cup {drained(k).seq : k \in {j \in CommittedPrefix(q) : j >= count}}
       /\ mem' = [w \in Words |-> IF to(w) = {} THEN mem[w]
                                                ELSE Data(drained(Youngest(to(w))).seq)]
       /\ IF smc # {} /\ Older(smc_seq)
            THEN squash_pending' = TRUE /\ squash_seq' = smc_seq
            ELSE UNCHANGED squashVars

MarkStoreComplete(seq) ==
    [sq EXCEPT !.entries = [i \in Slots(STORE_QUEUE_SIZE) |->
        IF \E k \in Ages(sq) : /\ i = (sq.head + k) % STORE_QUEUE_SIZE
                               /\ Store(k).seq = seq
          THEN [sq.entries[i] EXCEPT !.completed = TRUE]
          ELSE sq.entries[i]]]

DrainAfterCommit_Bug(q) == sq' = q /\ UNCHANGED <<mem, squashVars, missed>>
DrainAfterCommit(q) == \E count \in 0 .. q.size : Evict(q, count)

\* One iteration of commit_stage: ReorderBuffer::commit, then the drain, so
\* that nothing commits after a store that modified the program.
Commit ==
    LET head == path[retired + 1]
    IN /\ ~squash_pending
       /\ retired < Len(path)
       /\ head.stage = "done"
       /\ retired' = retired + 1
       /\ lq' = IF head.instr.kind = "load" THEN PopHead(lq, 1, LOAD_QUEUE_SIZE) ELSE lq
       /\ DrainAfterCommit(IF head.instr.kind = "store" THEN MarkStoreComplete(head.seq)
                                                       ELSE sq)
       /\ UNCHANGED <<path, next_seq, undone>>

\* The drain in memory_stage, for the stores that missed.
DrainStores ==
    /\ \E count \in 1 .. sq.size : Evict(sq, count)
    /\ UNCHANGED <<path, retired, lq, next_seq, undone>>

\* perform_squash; lsq.squash drops every younger entry, whatever its state.
PerformSquash ==
    LET stay == {k \in DOMAIN path : path[k].seq <= squash_seq}
        kept == SubSeq(path, 1, IF stay = {} THEN 0 ELSE Youngest(stay))
    IN /\ squash_pending
       /\ path' = kept
       /\ retired' = IF retired <= Len(kept) THEN retired ELSE Len(kept)
       /\ lq' = Squashed(lq, squash_seq, LOAD_QUEUE_SIZE)
       /\ sq' = Squashed(sq, squash_seq, STORE_QUEUE_SIZE)
       /\ squash_pending' = FALSE /\ squash_seq' = 0
       /\ undone' = (undone \/ retired > Len(kept))
       /\ UNCHANGED <<mem, next_seq, missed>>

Halted ==
    /\ retired = Len(path) /\ sq.size = 0 /\ ~squash_pending
    /\ UNCHANGED vars

Next ==
    \/ \E instr \in Instrs : Rename(instr)
    \/ \E k \in retired + 1 .. Len(path) :
          \/ Dispatch(k) \/ Writeback(k) \/ MemoryResponse(k)
          \/ ExecuteLoad(k) \/ ExecuteStore(k) \/ ExecuteBranch(k)
    \/ Commit \/ DrainStores \/ PerformSquash \/ Halted

Spec == Init /\ [][Next]_vars
----------------------------------------------------------------------------
Stages == {"queued", "unit", "result", "mshr", "done"}
EntryOf(n) == [entries : [Slots(n) -> [seq : Nat, instr : Instrs, addr_ready : BOOLEAN,
                                       completed : BOOLEAN]],
               head : Slots(n), tail : Slots(n), size : 0 .. n]

(***************************************************************************)
(* Types of the variables.                                                 *)
(***************************************************************************)
TypeOK ==
    /\ path \in Seq([seq : Nat, instr : Instrs, stage : Stages, slot : Int, value : Value])
    /\ retired \in 0 .. Len(path)
    /\ lq \in EntryOf(LOAD_QUEUE_SIZE) /\ sq \in EntryOf(STORE_QUEUE_SIZE)
    /\ mem \in [Words -> Value]
    /\ next_seq \in Nat /\ squash_pending \in BOOLEAN /\ squash_seq \in Nat
    /\ missed \subseteq 0 .. next_seq - 1 /\ undone \in BOOLEAN

IndicesOf(kind, from) == {k \in from .. Len(path) : path[k].instr.kind = kind}
\* The position of path[k] among the instructions of its kind from a position on.
Rank(k, from) == Cardinality({j \in IndicesOf(path[k].instr.kind, from) : j < k})
UndrainedStores == {k \in IndicesOf("store", 1) : \E j \in Ages(sq) : Store(j).seq = path[k].seq}

\* The queues are the window's loads and stores in program order, oldest at the
\* head, through every wrap-around, commit and squash, and the load_index or
\* store_index an instruction carries still names its own entry: ReorderBuffer::commit
\* pops the head of the load queue without looking whose it is, and
\* execute_stage writes the slot without looking either.  This is so even when a
\* squash goes back behind a commit (see SquashSparesCommitted).
QueuesFollowWindow ==
    /\ lq.tail = (lq.head + lq.size) % LOAD_QUEUE_SIZE
    /\ sq.tail = (sq.head + sq.size) % STORE_QUEUE_SIZE
    /\ lq.size = Cardinality(IndicesOf("load", retired + 1))
    /\ \A k \in IndicesOf("load", retired + 1) :
          /\ path[k].slot = (lq.head + Rank(k, retired + 1)) % LOAD_QUEUE_SIZE
          /\ lq.entries[path[k].slot].seq = path[k].seq
    /\ IndicesOf("store", retired + 1) \subseteq UndrainedStores
    /\ sq.size = Cardinality(UndrainedStores)
    /\ \A k \in UndrainedStores :
          /\ path[k].slot = (sq.head + Cardinality({j \in UndrainedStores : j < k}))
                               % STORE_QUEUE_SIZE
          /\ sq.entries[path[k].slot].seq = path[k].seq
          /\ sq.entries[path[k].slot].completed = (k <= retired)

\* The store that wrote a part of a word as far as path[k] may know: the last
\* one before it in program order, by the masking of the -O0 reference.
LastWriter(k, word, part) ==
    LET writers == {j \in 1 .. k - 1 : /\ path[j].instr.kind = "store"
                                       /\ Word(path[j].instr.addr) = word
                                       /\ part \in Named(path[j].instr.size)}
    IN IF writers = {} THEN Initial ELSE path[Youngest(writers)].seq

\* Every load has, in what it names of the word, what the last store before it
\* in program order put there, though loads pass loads and resolved stores,
\* answers come late from MSHRs, and stores reach memory long after they
\* commit.
LoadsFollowProgramOrder == ~undone =>
    \A k \in IndicesOf("load", 1) :
        path[k].stage \in {"result", "done"} =>
            \A part \in Named(path[k].instr.size) :
                path[k].value[part] = LastWriter(k, Word(path[k].instr.addr), part)

\* Memory holds, word by word, the last store in program order that is no
\* longer queued: stores drain in order, none is lost and none on a squashed
\* path ever gets there.
MemoryFollowsProgramOrder ==
    LET drained(w) == {k \in IndicesOf("store", 1) \ UndrainedStores :
                         Word(path[k].instr.addr) = w}
    IN ~undone => \A w \in Words :
        mem[w] = Data(IF drained(w) = {} THEN Initial ELSE path[Youngest(drained(w))].seq)

\* A squash never goes back behind an instruction that has committed: it would
\* be fetched and executed a second time.  commit_stage drains each store as it
\* commits "so that if a store wrote into the instruction-memory range (SMC),
\* we can squash everything that follows it before any of those entries commit".
SquashSparesCommitted ==
    squash_pending => \A k \in 1 .. retired : path[k].seq <= squash_seq

\* It does so for no other reason than a miss: the store into the text was not
\* drained by the commit_stage that committed it, since its own access or that of
\* a store ahead of it in the queue missed.
OnlyMissesUndoCommits == SquashSparesCommitted \/ squash_seq \in missed
=============================================================================
