------------------------------- MODULE MCNuma -------------------------------
(***************************************************************************)
(* TLC instances of Numa.  Regions are placed by hand: they may be         *)
(* adjacent, as mmap places them, and one may be missing.                  *)
(***************************************************************************)
EXTENDS Numa

CONSTANTS a1, a2

\* Three nodes of one allocator: the second region could not be mapped, the
\* third begins where the first ends.
ThreeNodes == (<<a1, 0>> :> 4) @@ (<<a1, 1>> :> 0) @@ (<<a1, 2>> :> 6)

\* Two allocators on two nodes.
TwoByTwo == (<<a1, 0>> :> 4) @@ (<<a1, 1>> :> 5) @@ (<<a2, 0>> :> 6) @@ (<<a2, 1>> :> 7)

\* One allocator on two nodes.
TwoNodes == (<<a1, 0>> :> 4) @@ (<<a1, 1>> :> 5)

MCPools  == Allocators \X Nodes
MCBlocks == UNION {Base[p]..Base[p] + BlocksPerNode - 1 : p \in Mapped}
MCHome   == [b \in MCBlocks |-> CHOOSE p \in Mapped : InRegion(p, b)]
BatchOfZero == [p \in Pools |-> 0]
BatchOfOne  == [p \in Pools |-> 1]
MCSlot   == [p \in Pools |-> cache_key(p)]

\* A processor per node, named by the node, in a package of its own or all in
\* one package.
Same       == [c \in Cpus |-> c]
OnePackage == [c \in Cpus |-> 0]

Symmetry == Permutations(Threads)
=============================================================================
