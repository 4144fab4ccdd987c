-------------------------- MODULE MCLoadStoreQueue --------------------------
(***************************************************************************)
(* Small programs for LoadStoreQueue.  Address 0 is in the text of the     *)
(* program when TextEnd is 4, address 4 is data.                         *)
(***************************************************************************)
EXTENDS StoresIntoText

Access(kind, addr, size) == [kind |-> kind, addr |-> addr, size |-> size]
Branch == Access("branch", 4, "word")

\* Word accesses to two words, of which one is in the text: every conflict and
\* every independent pair.
MCWordInstrs == {Access("load", 4, "word"), Access("store", 4, "word"),
                 Access("store", 0, "word"), Branch}
\* Accesses of two sizes to one word.
MCMixedInstrs == {Access("store", 4, "word"), Access("store", 4, "byte"),
                  Access("load", 4, "word"), Access("load", 4, "byte")}
=============================================================================
