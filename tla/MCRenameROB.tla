---------------------------- MODULE MCRenameROB ----------------------------
(***************************************************************************)
(* A small machine: registers 0, 1 and 2, and one instruction of each kind *)
(* the reorder buffer tells apart.                                         *)
(***************************************************************************)
EXTENDS RenameROB

Instr(kind, reg_write, dest) ==
    [kind |-> kind, reg_write |-> reg_write, dest_arch_reg |-> dest]

\* Writers of register 1 in flight at once, a load that may miss, a load into
\* the hard-wired register (it completes without a destination), a branch and a
\* store.  (The dest_arch_reg of the last two is what the rt field holds.)
MCInstrs == {Instr("alu", TRUE, 1), Instr("load", TRUE, 2), Instr("load", TRUE, 0),
             Instr("branch", FALSE, 1), Instr("store", FALSE, 2)}
=============================================================================
