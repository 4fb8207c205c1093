---------------------------- MODULE MCAllocStats ----------------------------
(***************************************************************************)
(* TLC instances of AllocStats: one allocator with batches of one block.   *)
(***************************************************************************)
EXTENDS AllocStats

OnePool    == [b \in Blocks |-> CHOOSE p \in Pools : TRUE]
BatchOfOne == [p \in Pools |-> 1]
OneSlot    == [p \in Pools |-> "thread_local cache"]

Symmetry == Permutations(Threads) \cup Permutations(Blocks)
=============================================================================
