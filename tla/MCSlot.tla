------------------------------- MODULE MCSlot -------------------------------
(***************************************************************************)
(* Instances of Slot for TLC: the sets of processes and wakers come from   *)
(* the configuration, as model values.                                     *)
(***************************************************************************)
EXTENDS Slot, TLC

Symmetry ==
    Permutations(Threads) \cup Permutations(Futures)
        \cup Permutations(Wakers) \cup Permutations(Outcomes)

\* Bound: futures migrate between wakers as they like until a caller calls
\* register_waker; from then on all processes pass the same waker.  The
\* registrations that futures made before, with any waker, are kept.
OneWakerWithCallers ==
    \/ \A c \in Callers : waker[c] = Null
    \/ Cardinality({waker[p] : p \in Callers \cup Futures} \ {Null}) <= 1

=============================================================================
