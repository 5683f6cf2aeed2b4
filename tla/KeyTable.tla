------------------------------- MODULE KeyTable -------------------------------
(***************************************************************************)
(* What the key table promises to the namespace: a partial function from   *)
(* keys to generations, whatever its representation.  A key is taken by a  *)
(* subject and given back by that same subject.  Panics of the user's key  *)
(* code (Eq, Hash, Clone) may cost entries, and never add or change one.   *)
(***************************************************************************)
EXTENDS Naturals

CONSTANTS Keys, KeyPanics

VARIABLES
    entry,   \* entry[k]: the generation registered at k, 0 if none
    owned,   \* the subjects that exist, as [key, generation]
    next     \* the next generation

Vacate(gone) == [k \in Keys |-> IF k \in gone THEN 0 ELSE entry[k]]

Init == entry = [k \in Keys |-> 0] /\ owned = {} /\ next = 1

Create(k) ==
    /\ entry[k] = 0
    /\ entry' = [entry EXCEPT ![k] = next]
    /\ owned' = owned \cup {[key |-> k, generation |-> next]}
    /\ next' = next + 1

\* A generation is used up, no subject comes of it, entries may get lost.
CreateFails ==
    /\ KeyPanics
    /\ \E gone \in SUBSET Keys : entry' = Vacate(gone)
    /\ next' = next + 1
    /\ UNCHANGED owned

\* Its own entry goes with a subject, and no other subject's.
Retire(s) ==
    /\ s \in owned
    /\ owned' = owned \ {s}
    /\ entry' = Vacate({k \in {s.key} : entry[k] = s.generation})
    /\ UNCHANGED next

\* A subject whose drop panics is gone and leaves its entry behind.
Abandon(s) ==
    /\ KeyPanics
    /\ s \in owned
    /\ owned' = owned \ {s}
    /\ UNCHANGED <<entry, next>>

Next ==
    \/ \E k \in Keys : Create(k)
    \/ CreateFails
    \/ \E s \in owned : Retire(s) \/ Abandon(s)

Spec == Init /\ [][Next]_<<entry, owned, next>>

===============================================================================
