--------------------------- MODULE InOrderRetire ---------------------------
(***************************************************************************)
(* What the out-of-order core promises to the programmer, whatever it does *)
(* inside: instructions enter a window in program order, may be dropped    *)
(* only from the young end, and leave it in program order, each leaving    *)
(* its result in the architectural register it names.                      *)
(*                                                                         *)
(* A result is represented by the sequence number of the instruction that  *)
(* produced it, so "arch[a] = s" reads: register a holds what instruction  *)
(* s computed.  Initial (-1) stands for the value at reset.                *)
(***************************************************************************)
EXTENDS Integers, Sequences

CONSTANT NUM_ARCHITECTURAL_REGISTERS

VARIABLES
    window,     \* renamed, not retired instructions, oldest first
    arch,       \* architectural register -> the instruction it was written by
    next_seq    \* sequence number of the next instruction

vars == <<window, arch, next_seq>>

Initial == -1
\* Register 0 is hard-wired: it is never the destination of an instruction.
Target == 1 .. NUM_ARCHITECTURAL_REGISTERS - 1
\* 0 as a destination means that the instruction writes no register.
NoTarget == 0

Init == /\ window = <<>>
        /\ arch = [a \in Target |-> Initial]
        /\ next_seq = 0

Issue(dest) ==
    /\ window' = Append(window, [seq |-> next_seq, dest |-> dest])
    /\ next_seq' = next_seq + 1
    /\ UNCHANGED arch

DropYoungest ==
    /\ window # <<>>
    /\ window' = SubSeq(window, 1, Len(window) - 1)
    /\ UNCHANGED <<arch, next_seq>>

Retire ==
    /\ window # <<>>
    /\ window' = Tail(window)
    /\ arch' = IF Head(window).dest = NoTarget
                 THEN arch
                 ELSE [arch EXCEPT ![Head(window).dest] = Head(window).seq]
    /\ UNCHANGED next_seq

Next == \/ \E dest \in Target \cup {NoTarget} : Issue(dest)
        \/ DropYoungest
        \/ Retire

Spec == Init /\ [][Next]_vars
=============================================================================
