---------------------------- MODULE MCTlFreelist ----------------------------
(***************************************************************************)
(* TLC instances of TlFreelist.  In an instance with one allocator all     *)
(* threads and all blocks are interchangeable.                             *)
(***************************************************************************)
EXTENDS TlFreelist

CONSTANTS p1, p2, b1

OnePool     == [b \in Blocks |-> p1]
TwoPools    == [b \in Blocks |-> IF b = b1 THEN p1 ELSE p2]
BatchOfOne  == [p \in Pools |-> 1]
BatchOfTwo  == [p \in Pools |-> 2]
OneSlot     == [p \in Pools |-> "thread_local cache"]

Symmetry == Permutations(Threads) \cup Permutations(Blocks)
=============================================================================
