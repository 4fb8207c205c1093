----------------------------- MODULE MCFreelist -----------------------------
(***************************************************************************)
(* The instances of Freelist for TLC.                                      *)
(***************************************************************************)
EXTENDS Freelist

\* Blocks at least as large as a pointer, and blocks all of which are smaller.
WholeWords == [b \in Blocks |-> {}]
TinyBlocks == [b \in Blocks |-> Blocks \ {b}]
=============================================================================
