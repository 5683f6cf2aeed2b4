----------------------------- MODULE MCSmallMap -----------------------------
(***************************************************************************)
(* Instances of SmallMap for TLC; keys are model values.                   *)
(***************************************************************************)
EXTENDS SmallMap

Symmetry == Permutations(Keys)

=============================================================================
