----------------------------- MODULE MCTlBitmap -----------------------------
(***************************************************************************)
(* TLC instances of TlBitmap.  Threads are interchangeable.                *)
(***************************************************************************)
EXTENDS TlBitmap, TLC

CONSTANTS a1, a2

OneRegion    == [a \in Allocators |-> 1]
TwoRegions   == [a \in Allocators |-> 2]
OneAndTwo    == [a \in Allocators |-> IF a = a1 THEN 1 ELSE 2]

\* The regions lie side by side in the order of their indexes.
Adjacent ==
  [r \in Regions |-> (2 * (IF r[1] = a1 THEN 1 ELSE 2) + r[2]) * BlocksPerThread]

Symmetry == Permutations(Threads)
=============================================================================
