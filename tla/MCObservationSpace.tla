------------------------- MODULE MCObservationSpace -------------------------
(***************************************************************************)
(* Instances of ObservationSpace for TLC.                                  *)
(***************************************************************************)
EXTENDS ObservationSpace, TLC

Symmetry ==
    Permutations(Keys) \cup Permutations(Owners)
        \cup Permutations(Handles) \cup Permutations(Slots)

=============================================================================
