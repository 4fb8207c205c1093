---------------------------- MODULE MCMultiSize -----------------------------
(***************************************************************************)
(* TLC instances of MultiSize: a block b is a pair of its class and a      *)
(* number.                                                                 *)
(***************************************************************************)
EXTENDS MultiSize

CONSTANT BlocksPerClass

ClassBlocks == Classes \X (1..BlocksPerClass)
ClassOf     == [b \in ClassBlocks |-> b[1]]
BatchOfOne  == [p \in Pools |-> 1]
OneSlot     == [p \in Pools |-> "thread_local cache"]

CONSTANTS Small, Large   \* the threads that ask for up to a cache line, and beyond

\* Sizes at the borders of the classes.  One thread may ask for all of them, or
\* only for those whose blocks are as large: classes 0 to 2 are, class 3 is not.
UpToALine   == {0, 16, 17, 64}
BeyondLine  == {65, 128, 257}
OneSizeEach == [t \in Small |-> UpToALine] @@ [t \in Large |-> BeyondLine]
Mixed       == [t \in Threads |-> {64, 65, 257}]

Symmetry == Permutations(Small) \cup Permutations(Large)
=============================================================================
