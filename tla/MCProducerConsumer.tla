------------------------- MODULE MCProducerConsumer -------------------------
(***************************************************************************)
(* The instance for TLC: more operations than blocks, so that the producer *)
(* may find the pool empty.  Blocks are interchangeable for the invariant, *)
(* but no symmetry is used: the run checks liveness.                       *)
(***************************************************************************)
EXTENDS ProducerConsumer
=============================================================================
