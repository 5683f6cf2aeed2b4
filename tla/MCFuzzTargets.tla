---------------------------- MODULE MCFuzzTargets ----------------------------
(***************************************************************************)
(* Instances of FuzzTargets for TLC; keys, handles and slots are model     *)
(* values, and the owners are the keys.                                    *)
(***************************************************************************)
EXTENDS FuzzTargets

Symmetry == Permutations(Keys) \cup Permutations(Handles) \cup Permutations(Slots)

==============================================================================
