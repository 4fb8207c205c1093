------------------------------ MODULE MCBitmap ------------------------------
(***************************************************************************)
(* TLC instances of Bitmap.  Threads are interchangeable.                  *)
(***************************************************************************)
EXTENDS Bitmap, TLC

Symmetry == Permutations(Threads)
=============================================================================
