-------------------------- MODULE MCMemoryHierarchy --------------------------
(***************************************************************************)
(* Small caches for MemoryHierarchy, direct successors of the real ones in *)
(* shape: L2 has more sets than L1 and the same associativity.             *)
(***************************************************************************)
EXTENDS MemoryHierarchy

\* Blocks 0, 2 and 4 compete for two ways of an L2 set, and with 1 in L1.
MCOverflowL2 == {0, 1, 2, 4}
\* Blocks 0, 1 and 2 fit in L2 and compete in L1.
MCOverflowL1 == {0, 1, 2}
\* Blocks 0 and 1 fit in L1.
MCFitL1 == {0, 1}
MCText == {1}
MCTextOfTwoBlocks == {0, 1}
MCLoads == {1, 2}
MCNoLoads == {}
=============================================================================
