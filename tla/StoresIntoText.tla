--------------------------- MODULE StoresIntoText ---------------------------
(***************************************************************************)
(* What a store into the text of the program makes stale: the instructions *)
(* behind it that had been fetched when it reached memory.  They are       *)
(* remembered beside the state of LoadStoreQueue, whose steps are not      *)
(* changed by it.                                                          *)
(***************************************************************************)
EXTENDS LoadStoreQueue

VARIABLE stale      \* history: the seq of each of them that is on the path

Queued(q, seq) == \E k \in Ages(q) : At(q, k, STORE_QUEUE_SIZE).seq = seq
\* The stores into the text that this step drains: a squash takes those that it
\* drops from the path, too.
DrainedText ==
    {k \in DOMAIN path : /\ path[k].instr.kind = "store" /\ path[k].instr.addr < TextEnd
                         /\ Queued(sq, path[k].seq) /\ ~Queued(sq', path[k].seq)
                         /\ k <= retired'}
StaleStep ==
    stale' = {path'[j].seq : j \in {i \in DOMAIN path' :
                 \/ path'[i].seq \in stale
                 \/ \E k \in DrainedText : k < i}}

StaleInit == Init /\ stale = {}
StaleSpec == StaleInit /\ [][Next /\ StaleStep]_<<vars, stale>>
----------------------------------------------------------------------------
\* Whatever was fetched behind a store into the text before that changed the text
\* is squashed, whoever else asks for a squash in the meantime: of two stores
\* into the text, or of a store and a branch, the oldest is squashed to.
StaleTextIsSquashed ==
    stale # {} => squash_pending /\ \A seq \in stale : squash_seq < seq
=============================================================================
