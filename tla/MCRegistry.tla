----------------------------- MODULE MCRegistry -----------------------------
(***************************************************************************)
(* Instances of Registry for TLC; everything is a model value.             *)
(***************************************************************************)
EXTENDS Registry

Symmetry == Permutations(Threads) \cup Permutations(Futures) \cup Permutations(Wakers)

=============================================================================
