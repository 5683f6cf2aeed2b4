----------------------------- MODULE MCUserCode -----------------------------
(***************************************************************************)
(* Instances of UserCode for TLC; threads are model values.                *)
(***************************************************************************)
EXTENDS UserCode

Symmetry == Permutations(Threads)

=============================================================================
