------------------------ MODULE ObservationSpaceProofs ------------------------
(***************************************************************************)
(* Proofs about ObservationSpace, for all finite sets of keys, owners and  *)
(* observations, any set of slots, any capacity of the pool and any width  *)
(* of the generation counter, with or without panics of user code.         *)
(*                                                                         *)
(* The heart of the invariant is Uses(s, b): somebody who is not about to  *)
(* drop s takes it for the slot of birth b.  A used slot has one birth, is *)
(* not in the pool and says what is true of that birth (InvGenerations).   *)
(* A step that only drops handles makes fewer users (the lemmas of the     *)
(* first sections serve all of these); subject and pair obtain a slot that *)
(* has no users; complete speaks for the only birth its slot has; and drop *)
(* recycles a slot with no handle but the subject's own.  The outcomes are *)
(* counted along with it: one that was published is in one slot or ended.  *)
(* That argument stops where dropping an outcome panics, so NoUseAfterDrop *)
(* has one of its own: an outcome ends only in slots that nobody uses.     *)
(*                                                                         *)
(* Refinement maps the table and the observations to births and uses the   *)
(* invariant to show that an answer depends on the birth alone.            *)
(***************************************************************************)
EXTENDS ObservationSpace, FiniteSetTheorems, SequenceTheorems, TLAPS

\* Who holds a handle of s, one kind of holder at a time.
HandlesAre(s) ==
    /\ \A k : <<"table", k>> \in HandlesOf(s) <=>
                 k \in Keys /\ Retained(k) /\ table[k].slot = s
    /\ \A i : <<"pool", i>> \in HandlesOf(s) <=>
                 i \in 1 .. Len(pool) /\ pool[i] = s
    /\ \A c : <<"subject", c>> \in HandlesOf(s) <=>
                 c \in Owners /\ Exists(c) /\ subjects[c].slot = s
    /\ \A h : <<"obs", h>> \in HandlesOf(s) <=>
                 h \in Handles /\ Observes(h) /\ obs[h].slot = s
    /\ \A x \in HandlesOf(s) :
          \/ \E k \in Keys : x = <<"table", k>>
          \/ \E i \in 1 .. Len(pool) : x = <<"pool", i>>
          \/ \E c \in Owners : x = <<"subject", c>>
          \/ \E h \in Handles : x = <<"obs", h>>

\* HandlesOf as one equivalence per kind of holder, before and after a step.
LEMMA HandleFacts ==
    ASSUME NEW s
    PROVE  HandlesAre(s) /\ HandlesAre(s)'
<1>1. HandlesAre(s)
  BY DEF HandlesAre, HandlesOf
<1>2. HandlesAre(s)'
  BY DEF HandlesAre, HandlesOf
<1> QED
  BY <1>1, <1>2

\* A slot has finitely many handles.
LEMMA HandlesFinite ==
    ASSUME TypeOK, NEW s
    PROVE  IsFiniteSet(HandlesOf(s))
<1> DEFINE Tag(t, S) == [x \in S |-> <<t, x>>]
           Tagged(t, S) == {<<t, x>> : x \in S}
<1>1. ASSUME NEW S, IsFiniteSet(S), NEW t
      PROVE  IsFiniteSet(Tagged(t, S))
  <2>1. Tag(t, S) \in Surjection(S, Tagged(t, S))
    BY DEF Surjection
  <2> HIDE DEF Tagged, Tag
  <2> QED
    BY <1>1, <2>1, FS_Surjection
<1> DEFINE All == Tagged("table", Keys) \cup Tagged("pool", 1 .. Len(pool))
                    \cup Tagged("subject", Owners) \cup Tagged("obs", Handles)
<1>2. IsFiniteSet(1 .. Len(pool))
  BY FS_Interval DEF TypeOK
<1>3. IsFiniteSet(All)
  <2> HIDE DEF Tagged
  <2> QED
    BY <1>1, <1>2, SpaceAssumption, FS_Union
<1>4. HandlesOf(s) \subseteq All
  BY DEF HandlesOf
<1> HIDE DEF All
<1> QED
  BY <1>3, <1>4, FS_Subset

\* The test strong_count == 1: an element of a set with one element is alone.
LEMMA CountOne ==
    ASSUME NEW S, IsFiniteSet(S), Cardinality(S) = 1, NEW x \in S
    PROVE  S = {x}
BY FS_Singleton

\* What TypeOK says of the records in the tables.
LEMMA FieldTypes ==
    ASSUME TypeOK
    PROVE  /\ \A k \in Keys : Retained(k) =>
                 /\ table[k] \in SlotEntry /\ table[k].slot \in Slots
                 /\ table[k].birth \in Births /\ table[k].generation \in 0 .. MaxGen
           /\ \A c \in Owners : Exists(c) =>
                 /\ subjects[c] \in Subject /\ subjects[c].slot \in Slots
                 /\ subjects[c].birth \in Births
                 /\ subjects[c].generation \in 0 .. MaxGen
                 /\ subjects[c].key \in Keys \cup {Null}
           /\ \A h \in Handles : Observes(h) =>
                 /\ obs[h] \in Observation /\ obs[h].slot \in Slots
                 /\ obs[h].birth \in Births
           /\ Len(pool) \in Nat
           /\ \A i \in 1 .. Len(pool) : pool[i] \in Slots
           /\ Births \subseteq Nat \ {0}
BY SpaceAssumption
   DEF TypeOK, Retained, Exists, Observes, SlotEntry, Subject, Observation, Births

\* A user of a slot holds a handle of it; so does the pool.
LEMMA UsersHold ==
    ASSUME TypeOK, NEW s \in Slots
    PROVE  /\ \A b : Uses(s, b) => HandlesOf(s) # {}
           /\ Pooled(s) => HandlesOf(s) # {}
BY HandleFacts DEF Uses, Pooled, HandlesAre

\* fetch_add keeps the counter in its range.
LEMMA GenerationWraps ==
    ASSUME next_generation \in 0 .. MaxGen, NextGeneration
    PROVE  next_generation' \in 0 .. MaxGen
BY SpaceAssumption DEF NextGeneration

\* A sequence without its last element.
LEMMA FrontSeq ==
    ASSUME NEW S, NEW q \in Seq(S), q # <<>>
    PROVE  /\ Len(SubSeq(q, 1, Len(q) - 1)) = Len(q) - 1
           /\ SubSeq(q, 1, Len(q) - 1) \in Seq(S)
           /\ \A i \in 1 .. Len(q) - 1 : SubSeq(q, 1, Len(q) - 1)[i] = q[i]
<1>1. PICK n \in Int : n = Len(q) - 1 /\ n >= 0
  OBVIOUS
<1>2. \A i \in 1 .. n : q[i] \in S
  BY <1>1
<1>3. SubSeq(q, 1, n) \in Seq(S)
  <2>1. 1 \in Int
    OBVIOUS
  <2> QED
    BY <1>2, <2>1, SubSeqProperties
<1>4. Len(SubSeq(q, 1, n)) = n
  BY <1>1
<1>5. \A i \in 1 .. n : SubSeq(q, 1, n)[i] = q[i]
  BY <1>1
<1> QED
  BY <1>1, <1>3, <1>4, <1>5

\* Popping the pool.
LEMMA PopFacts ==
    ASSUME TypeOK, InvPool, pool' = Popped
    PROVE  /\ pool' \in Seq(Slots) /\ InvPool'
           /\ \A i \in 1 .. Len(pool') : i \in 1 .. Len(pool) /\ pool'[i] = pool[i]
           /\ 1 .. Len(pool') = (1 .. Len(pool)) \ {Len(pool)}
           /\ \A s : Pooled(s)' <=> Pooled(s) /\ ~(pool # <<>> /\ s = Top)
           /\ pool # <<>> => Top \in Slots /\ Pooled(Top) /\ Len(pool) \in 1 .. Len(pool)
<1>1. CASE pool = <<>>
  BY <1>1 DEF TypeOK, InvPool, Popped, Pooled
<1>2. CASE pool # <<>>
  <2>1. Len(pool) \in Nat \ {0}
    BY <1>2 DEF TypeOK
  <2>2. Len(pool') = Len(pool) - 1 /\ pool' \in Seq(Slots)
    BY <1>2, FrontSeq DEF TypeOK, Popped
  <2>3. \A i \in 1 .. Len(pool') : i \in 1 .. Len(pool) /\ pool'[i] = pool[i]
    BY <1>2, <2>1, <2>2 DEF TypeOK, Popped
  <2>4. 1 .. Len(pool') = (1 .. Len(pool)) \ {Len(pool)}
    BY <2>1, <2>2
  <2>5. Top \in Slots /\ Pooled(Top) /\ Len(pool) \in 1 .. Len(pool)
    BY <2>1 DEF TypeOK, Top, Pooled
  <2>6. InvPool'
    BY <2>1, <2>2, <2>3, SpaceAssumption DEF InvPool
  <2>7. ASSUME NEW s PROVE Pooled(s)' <=> Pooled(s) /\ s # Top
    BY <2>1, <2>3, <2>4, <2>5 DEF Pooled, Top, InvPool
  <2> QED
    BY <1>2, <2>2, <2>3, <2>4, <2>5, <2>6, <2>7
<1> QED
  BY <1>1, <1>2

\* What is left of the handles when the pool alone is popped.
LEMMA PopHandles ==
    ASSUME TypeOK, InvPool, pool' = Popped, UNCHANGED <<table, subjects, obs>>, NEW s
    PROVE  HandlesOf(s)' = HandlesOf(s) \ PoppedHandle
BY PopFacts, HandleFacts
   DEF HandlesAre, PoppedHandle, Retained, Exists, Observes

\* Dropping the handles in gone frees the slots that have no other.
LEMMA FreedFacts ==
    ASSUME TypeOK, InvSlots, NEW gone, live' = live \ Freed(gone),
           \A s \in Slots : HandlesOf(s)' # {} <=> HandlesOf(s) \ gone # {}
    PROVE  /\ Freed(gone) \subseteq live /\ live' \in SUBSET Slots
           /\ \A s \in Slots : s \in live' <=> HandlesOf(s)' # {}
BY DEF TypeOK, InvSlots, Freed

\* An outcome is in at most one slot, so dropping those of ss counts it once.
LEMMA DropCount ==
    ASSUME TypeOK, InvSlots, NEW ss \in SUBSET live
    PROVE  /\ DropOutcomes(ss) \in [Births -> Nat]
           /\ \A b \in Births : DropOutcomes(ss)[b] =
                 ended[b] + IF \E s \in ss : Holds(s, b) THEN 1 ELSE 0
<1> DEFINE Holders(b) == {s \in ss : OUTCOME_VALID \in state[s] /\ outcome[s] = b}
<1>1. ASSUME NEW b \in Births
      PROVE  Cardinality(Holders(b)) = IF \E s \in ss : Holds(s, b) THEN 1 ELSE 0
  <2>1. CASE \E s \in ss : Holds(s, b)
    <3>1. PICK s \in ss : Holds(s, b)
      BY <2>1
    <3>2. Holders(b) = {s}
      BY <3>1 DEF Holds, InvSlots
    <3> QED
      BY <2>1, <3>2, FS_Singleton
  <2>2. CASE ~\E s \in ss : Holds(s, b)
    <3>1. Holders(b) = {}
      BY <2>2 DEF Holds
    <3> QED
      BY <2>2, <3>1, FS_EmptySet
  <2> QED
    BY <2>1, <2>2
<1>2. \A b \in Births : ended[b] \in Nat
  BY DEF TypeOK
<1>3. DropOutcomes(ss) = [b \in Births |-> ended[b] + Cardinality(Holders(b))]
  BY DEF DropOutcomes
<1> HIDE DEF Holders
<1> QED
  BY <1>1, <1>2, <1>3

-------------------------------------------------------------------------------
(***************************************************************************)
(* Steps that change no slot: what they must show.                         *)
(***************************************************************************)

\* Fewer users, and only unused slots in the pool.
LEMMA GenerationsKept ==
    ASSUME InvGenerations, UNCHANGED <<births, state, outcome, registry, published>>,
           \A s \in Slots, b \in Births : Uses(s, b)' => Uses(s, b) /\ ~Pooled(s)'
    PROVE  InvGenerations'
BY DEF InvGenerations

\* Fewer slots, allocated as long as they have handles.
LEMMA SlotsKept ==
    ASSUME InvSlots, UNCHANGED <<state, outcome, registry, published>>, live' \subseteq live,
           \A s \in Slots : s \in live' <=> HandlesOf(s)' # {}
    PROVE  InvSlots'
BY DEF InvSlots, Holds

\* What was dropped has ended, and nothing else has.
LEMMA EndedKept ==
    ASSUME TypeOK, InvSlots, InvEnded, published' = published,
           NEW dropped \in SUBSET live, ended' = DropOutcomes(dropped),
           \A b \in Births : (\E s \in live' : Holds(s, b)') <=>
                             (\E s \in live \ dropped : Holds(s, b))
    PROVE  InvEnded'
<1>1. \A b \in Births : ended'[b] = ended[b] + IF \E s \in dropped : Holds(s, b) THEN 1 ELSE 0
  BY DropCount
<1>2. SUFFICES ASSUME ~DropPanics, NEW b \in Births
               PROVE  ended'[b] = IF b \in published /\ ~\E s \in live \ dropped : Holds(s, b)
                                  THEN 1 ELSE 0
  BY DEF InvEnded
<1>3. CASE \E s \in dropped : Holds(s, b)
  <2>1. b \in published /\ ~\E s \in live \ dropped : Holds(s, b)
    BY <1>3 DEF InvSlots, Holds
  <2>2. ended[b] = 0
    BY <1>2, <1>3 DEF InvEnded
  <2> QED
    BY <1>1, <1>3, <2>1, <2>2
<1>4. CASE ~\E s \in dropped : Holds(s, b)
  <2>1. ended'[b] = ended[b]
    BY <1>1, <1>4 DEF TypeOK
  <2> QED
    BY <1>2, <1>4, <2>1 DEF InvEnded
<1> QED
  BY <1>3, <1>4

\* All of it for a step that drops the handles in gone.
LEMMA ReleaseKeeps ==
    ASSUME Inv, NEW gone, Release(gone),
           UNCHANGED <<births, state, outcome, registry, published>>,
           \A s \in Slots : HandlesOf(s)' # {} <=> HandlesOf(s) \ gone # {},
           \A s \in Slots, b \in Births : Uses(s, b)' => Uses(s, b) /\ ~Pooled(s)'
    PROVE  /\ live' \in SUBSET Slots /\ ended' \in [Births -> Nat]
           /\ InvGenerations' /\ InvSlots' /\ InvEnded'
<1>1. /\ Freed(gone) \subseteq live /\ live' \in SUBSET Slots
      /\ \A s \in Slots : s \in live' <=> HandlesOf(s)' # {}
  BY FreedFacts DEF Release, Inv
<1>2. ended' \in [Births -> Nat]
  BY <1>1, DropCount DEF Release, Inv
<1>3. InvGenerations'
  BY GenerationsKept DEF Inv
<1>4. InvSlots'
  BY <1>1, SlotsKept DEF Inv, Release
<1>5. InvEnded'
  BY <1>1, EndedKept DEF Inv, Release, Holds
<1> QED
  BY <1>1, <1>2, <1>3, <1>4, <1>5

\* And for a step that drops none.
LEMMA NothingReleased ==
    ASSUME Inv, UNCHANGED <<live, ended, births, state, outcome, registry, published>>,
           \A s \in Slots : HandlesOf(s)' # {} <=> HandlesOf(s) # {},
           \A s \in Slots, b \in Births : Uses(s, b)' => Uses(s, b) /\ ~Pooled(s)'
    PROVE  InvGenerations' /\ InvSlots' /\ InvEnded'
<1>1. InvGenerations'
  BY GenerationsKept DEF Inv
<1>2. InvSlots'
  BY SlotsKept DEF Inv, InvSlots
<1>3. InvEnded'
  BY DEF Inv, InvEnded, Holds
<1> QED
  BY <1>1, <1>2, <1>3

-------------------------------------------------------------------------------
(***************************************************************************)
(* Steps that pop the pool and create nothing.                             *)
(***************************************************************************)

\* subject panics on the last generation, or in a key comparison.
LEMMA PopInv ==
    ASSUME Inv, NEW c \in Owners, NEW k \in Keys,
           GenerationExhausted(c, k) \/ VacancyPanics(c)
    PROVE  Inv'
<1> USE DEF GenerationExhausted, VacancyPanics
<1>1. next_generation' \in 0 .. MaxGen
  BY GenerationWraps DEF Inv, TypeOK
<1>2. pool' \in Seq(Slots) /\ InvPool'
  BY PopFacts DEF Inv
<1>3. \A s \in Slots : HandlesOf(s)' = HandlesOf(s) \ PoppedHandle
  BY PopHandles DEF Inv
<1>4. \A s \in Slots, b \in Births : Uses(s, b)' => Uses(s, b) /\ ~Pooled(s)'
  BY PopFacts DEF Inv, InvGenerations, Uses, Retained, Observes, Exists
<1>5. /\ live' \in SUBSET Slots /\ ended' \in [Births -> Nat]
      /\ InvGenerations' /\ InvSlots' /\ InvEnded'
  BY <1>3, <1>4, ReleaseKeeps
<1>6. TypeOK'
  BY <1>1, <1>2, <1>5 DEF Inv, TypeOK
<1>7. InvSubjects' /\ InvFaults' /\ EntryOfSubject' /\ NoCrossGenerationWake'
  BY DEF Inv, InvSubjects, InvFaults, EntryOfSubject, NoCrossGenerationWake,
         Removes, Exists, Retained
<1> QED
  BY <1>2, <1>5, <1>6, <1>7 DEF Inv

\* The drop of the old outcome panics inside reset.
LEMMA ResetPanicsInv ==
    ASSUME Inv, NEW c \in Owners, NEW k \in Keys, ResetPanics(c, k)
    PROVE  Inv'
<1> USE DEF ResetPanics
<1>1. next_generation' \in 0 .. MaxGen
  BY GenerationWraps DEF Inv, TypeOK
<1>2. pool' \in Seq(Slots) /\ InvPool'
  BY PopFacts DEF Inv
<1>3. \A s \in Slots : HandlesOf(s)' = HandlesOf(s) \ PoppedHandle
  BY PopHandles DEF Inv
<1>4. \A s \in Slots, b \in Births : Uses(s, b)' => Uses(s, b) /\ ~Pooled(s)'
  BY PopFacts DEF Inv, InvGenerations, Uses, Retained, Observes, Exists
<1>5. /\ Freed(PoppedHandle) \subseteq live /\ live' \in SUBSET Slots
      /\ \A s \in Slots : s \in live' <=> HandlesOf(s)' # {}
  BY <1>3, FreedFacts DEF Inv
<1>6. ended' \in [Births -> Nat]
  <2> HIDE DEF ResetPanics
  <2>1. PICK dropped \in [Births -> Nat] : dropped = DropOutcomes(Freed(PoppedHandle))
    BY <1>5, DropCount DEF Inv
  <2>2. ended' = [dropped EXCEPT ![outcome[Top]] = @ + 1]
    BY <2>1 DEF ResetPanics
  <2>3. ended' = [b \in Births |-> IF b = outcome[Top] THEN dropped[b] + 1 ELSE dropped[b]]
    BY <2>2
  <2> QED
    BY <2>3
<1>7. TypeOK'
  BY <1>1, <1>2, <1>5, <1>6 DEF Inv, TypeOK
<1>8. InvGenerations'
  BY <1>4, GenerationsKept DEF Inv
<1>9. InvSlots'
  BY <1>5, SlotsKept DEF Inv
<1>10. InvSubjects' /\ InvFaults' /\ EntryOfSubject' /\ NoCrossGenerationWake' /\ InvEnded'
  BY DEF Inv, InvSubjects, InvFaults, EntryOfSubject, NoCrossGenerationWake,
         Removes, Exists, Retained, InvEnded
<1> QED
  BY <1>2, <1>7, <1>8, <1>9, <1>10 DEF Inv

\* The key code panics after the popped slot was reset.
LEMMA InsertPanicsInv ==
    ASSUME Inv, NEW c \in Owners, NEW k \in Keys, InsertPanics(c, k)
    PROVE  Inv'
<1> USE DEF InsertPanics
<1> DEFINE reset == {s \in Slots : pool # <<>> /\ s = Top}
           Handed(gone) == PoppedHandle \cup {<<"table", j>> : j \in gone}
<1>1. PICK gone \in SUBSET {j \in Keys : Retained(j)} :
         /\ table' = [j \in Keys |-> IF j \in gone THEN Null ELSE table[j]]
         /\ live' = live \ Freed(Handed(gone))
         /\ ended' = DropOutcomes(reset \cup Freed(Handed(gone)))
         /\ registry' = [s \in Slots |->
               IF s \in reset /\ HAS_WAITER \in state[s] THEN {} ELSE registry[s]]
         /\ state' = [s \in Slots |-> IF s \in reset THEN {} ELSE state[s]]
         /\ lost' = lost \cup {[key |-> j, generation |-> table[j].generation] : j \in gone}
  BY DEF InsertPanics
<1> HIDE DEF InsertPanics
<1>2. /\ KeyPanics /\ pool' = Popped /\ NextGeneration
      /\ UNCHANGED <<open, births, subjects, obs, outcome, published, fired, left>>
  BY DEF InsertPanics
<1>3. next_generation' \in 0 .. MaxGen
  BY <1>2, GenerationWraps DEF Inv, TypeOK
<1>4. pool' \in Seq(Slots) /\ InvPool'
  BY <1>2, PopFacts DEF Inv
<1>5. ASSUME NEW j \in Keys
      PROVE  Retained(j)' => Retained(j) /\ j \notin gone /\ table'[j] = table[j]
  BY <1>1 DEF Retained
<1>6. ASSUME NEW s \in Slots PROVE HandlesOf(s)' = HandlesOf(s) \ Handed(gone)
  BY <1>1, <1>2, <1>5, PopFacts, HandleFacts
     DEF HandlesAre, PoppedHandle, Retained, Exists, Observes, Inv
<1>7. \A s \in Slots, b \in Births : Uses(s, b)' => Uses(s, b) /\ ~Pooled(s)' /\ s \notin reset
  BY <1>2, <1>5, PopFacts DEF Inv, InvGenerations, Uses, Exists, Observes
<1>8. /\ Freed(Handed(gone)) \subseteq live /\ live' \in SUBSET Slots
      /\ \A s \in Slots : s \in live' <=> HandlesOf(s)' # {}
  <2> HIDE DEF Handed
  <2> QED
    BY <1>1, <1>6, FreedFacts DEF Inv
<1>9. reset \subseteq live
  BY <1>2, PopFacts, UsersHold DEF Inv, InvSlots
<1>10. ended' \in [Births -> Nat]
  BY <1>1, <1>8, <1>9, DropCount DEF Inv
<1>11. TypeOK'
  <2>1. table' \in [Keys -> SlotEntry \cup {Null}]
    BY <1>1 DEF Inv, TypeOK
  <2>2. registry' \in [Slots -> SUBSET Births] /\ state' \in [Slots -> SUBSET Bits]
    BY <1>1 DEF Inv, TypeOK
  <2>3. lost' \in SUBSET [key : Keys, generation : 0 .. MaxGen]
    BY <1>1, FieldTypes DEF Inv, TypeOK
  <2> QED
    BY <1>2, <1>3, <1>4, <1>8, <1>10, <2>1, <2>2, <2>3 DEF Inv, TypeOK
<1>12. InvGenerations'
  BY <1>1, <1>2, <1>7 DEF Inv, InvGenerations
<1>13. InvSlots'
  BY <1>1, <1>2, <1>8 DEF Inv, InvSlots, Holds, TypeOK
<1>14. InvEnded'
  <2> DEFINE dropped == reset \cup Freed(Handed(gone))
  <2>1. dropped \in SUBSET live /\ ended' = DropOutcomes(dropped)
    BY <1>1, <1>8, <1>9
  <2>2. \A b \in Births : (\E s \in live' : Holds(s, b)') <=>
                          (\E s \in live \ dropped : Holds(s, b))
    BY <1>1, <1>2, <1>8 DEF Inv, TypeOK, Holds
  <2> HIDE DEF dropped
  <2> QED
    BY <1>2, <2>1, <2>2, EndedKept DEF Inv
<1>15. InvSubjects' /\ InvFaults' /\ NoCrossGenerationWake'
  BY <1>2, <1>5 DEF Inv, InvSubjects, InvFaults, NoCrossGenerationWake, Exists
<1>16. EntryOfSubject'
  <2>1. ASSUME NEW d \in Owners, Exists(d)', subjects'[d].key # Null,
               subjects'[d].phase # "dropping"
        PROVE  \/ Removes(d)' /\ table'[subjects'[d].key].birth = subjects'[d].birth
               \/ [key |-> subjects'[d].key, generation |-> subjects'[d].generation] \in lost'
    BY <1>1, <1>2, <2>1, FieldTypes DEF Inv, EntryOfSubject, Removes, Retained, Exists
  <2>2. ASSUME NEW j \in Keys, Retained(j)'
        PROVE  \/ table'[j].birth \in left'
               \/ \E d \in Owners : /\ Exists(d)' /\ subjects'[d].phase # "dropping"
                                    /\ subjects'[d].birth = table'[j].birth
                                    /\ subjects'[d].slot = table'[j].slot
    BY <1>2, <1>5, <2>2 DEF Inv, EntryOfSubject, Exists
  <2> QED
    BY <2>1, <2>2 DEF EntryOfSubject
<1> QED
  BY <1>4, <1>11, <1>12, <1>13, <1>14, <1>15, <1>16 DEF Inv

-------------------------------------------------------------------------------
(***************************************************************************)
(* Creation: subject and pair.                                             *)
(***************************************************************************)

\* s is allocated, or popped and reset, for a new generation.
Obtained(s) ==
    \/ pool # <<>> /\ s = Top /\ pool' = Popped /\ Reset(s) /\ UNCHANGED <<live, outcome>>
    \/ s \notin live /\ UNCHANGED pool /\ NewSlot(s)

\* Either way s is pristine, in nobody's use, and no outcome is lost.
LEMMA ObtainedFacts ==
    ASSUME Inv, NEW s \in Slots, Obtained(s), published' = published
    PROVE  /\ pool' \in Seq(Slots) /\ InvPool' /\ live' = live \cup {s}
           /\ \A t : Pooled(t)' => Pooled(t) /\ t # s
           /\ \A i \in 1 .. Len(pool') : i \in 1 .. Len(pool) /\ pool'[i] = pool[i]
           /\ \A i \in 1 .. Len(pool) : i \in 1 .. Len(pool') \/ pool[i] = s
           /\ \A b \in Births : ~Uses(s, b)
           /\ state' = [state EXCEPT ![s] = {}]
           /\ registry' = [registry EXCEPT ![s] = {}]
           /\ outcome' \in [Slots -> Births \cup {NoOutcome}]
           /\ \A t \in Slots : t # s => outcome'[t] = outcome[t]
           /\ ended' \in [Births -> Nat] /\ InvEnded'
<1>1. CASE pool # <<>> /\ s = Top /\ pool' = Popped /\ Reset(s) /\ UNCHANGED <<live, outcome>>
  <2>1. Pooled(s) /\ s \in live
    BY <1>1, PopFacts, UsersHold DEF Inv, InvSlots
  <2>2. registry' = [registry EXCEPT ![s] = {}]
    BY <1>1, <2>1 DEF Reset, Inv, InvSlots, TypeOK
  <2>3. ended' \in [Births -> Nat]
    BY <1>1, <2>1, DropCount DEF Reset, Inv
  <2>4. \A b \in Births : (\E t \in live' : Holds(t, b)') <=> (\E t \in live \ {s} : Holds(t, b))
    BY <1>1 DEF Reset, Holds, Inv, TypeOK
  <2>5. InvEnded'
    BY <1>1, <2>1, <2>4, EndedKept DEF Reset, Inv
  <2>6. \A b \in Births : ~Uses(s, b)
    BY <2>1 DEF Inv, InvGenerations
  <2>7. \A i \in 1 .. Len(pool) : i \in 1 .. Len(pool') \/ pool[i] = s
    BY <1>1, PopFacts DEF Inv, Top
  <2>8. /\ pool' \in Seq(Slots) /\ InvPool'
        /\ \A t : Pooled(t)' => Pooled(t) /\ t # s
        /\ \A i \in 1 .. Len(pool') : i \in 1 .. Len(pool) /\ pool'[i] = pool[i]
    BY <1>1, PopFacts DEF Inv
  <2>9. live' = live \cup {s} /\ state' = [state EXCEPT ![s] = {}]
    BY <1>1, <2>1 DEF Reset
  <2>10. /\ outcome' \in [Slots -> Births \cup {NoOutcome}]
         /\ \A t \in Slots : t # s => outcome'[t] = outcome[t]
    BY <1>1 DEF Inv, TypeOK
  <2> QED
    BY <2>2, <2>3, <2>5, <2>6, <2>7, <2>8, <2>9, <2>10
<1>2. CASE s \notin live /\ UNCHANGED pool /\ NewSlot(s)
  <2>1. ~Pooled(s) /\ \A b \in Births : ~Uses(s, b)
    BY <1>2, UsersHold DEF Inv, InvSlots
  <2>2. InvEnded'
    BY <1>2 DEF NewSlot, Inv, InvEnded, Holds, TypeOK
  <2> QED
    BY <1>2, <2>1, <2>2 DEF NewSlot, Inv, InvPool, TypeOK, Pooled
<1> QED
  BY <1>1, <1>2 DEF Obtained

\* The variables of the slots keep their types.
LEMMA ObtainedTypes ==
    ASSUME Inv, NEW s \in Slots, Obtained(s), published' = published
    PROVE  /\ pool' \in Seq(Slots) /\ live' \in SUBSET Slots
           /\ state' \in [Slots -> SUBSET Bits] /\ registry' \in [Slots -> SUBSET Births]
           /\ outcome' \in [Slots -> Births \cup {NoOutcome}] /\ ended' \in [Births -> Nat]
<1>1. /\ pool' \in Seq(Slots) /\ live' = live \cup {s}
      /\ state' = [state EXCEPT ![s] = {}] /\ registry' = [registry EXCEPT ![s] = {}]
      /\ outcome' \in [Slots -> Births \cup {NoOutcome}] /\ ended' \in [Births -> Nat]
  BY ObtainedFacts
<1> QED
  BY <1>1 DEF Inv, TypeOK

\* The new generation is the only user of its slot.
LEMMA NewGeneration ==
    ASSUME Inv, NEW s \in Slots, Obtained(s), published' = published,
           births < MaxBirths, births' = births + 1, HandlesOf(s)' # {},
           \A t \in Slots : t # s => (HandlesOf(t)' # {} <=> HandlesOf(t) # {}),
           \A t \in Slots, b \in Births :
              Uses(t, b)' => Uses(t, b) \/ (t = s /\ b = births + 1)
    PROVE  InvGenerations' /\ InvSlots'
<1>1. births \in Nat /\ births + 1 \in Births /\ \A b \in Births : b \in Nat
  BY SpaceAssumption DEF Inv, TypeOK, Births
<1>2. births + 1 \notin published
  BY <1>1 DEF Inv, InvGenerations
<1>3. published' \subseteq 1 .. births'
  BY <1>1 DEF Inv, InvGenerations
<1>4. ASSUME NEW t \in Slots, NEW b \in Births, Uses(t, b)'
      PROVE  /\ b <= births' /\ ~Pooled(t)'
             /\ COMPLETED \in state'[t] <=> b \in published'
             /\ COMPLETED \in state'[t] => outcome'[t] = b
             /\ registry'[t] \subseteq {b}
             /\ (t = s /\ b = births + 1) \/ (t # s /\ b # births + 1 /\ Uses(t, b))
  <2>1. CASE t = s /\ b = births + 1
    <3>1. ~Pooled(s)'
      BY ObtainedFacts
    <3>2. state'[s] = {} /\ registry'[s] = {}
      BY ObtainedFacts DEF Inv, TypeOK
    <3> QED
      BY <1>1, <1>2, <2>1, <3>1, <3>2
  <2>2. CASE Uses(t, b)
    <3>1. t # s
      BY <2>2, ObtainedFacts
    <3>2. /\ b <= births /\ ~Pooled(t)
          /\ COMPLETED \in state[t] <=> b \in published
          /\ COMPLETED \in state[t] => outcome[t] = b
          /\ registry[t] \subseteq {b}
      BY <2>2 DEF Inv, InvGenerations
    <3>3. state'[t] = state[t] /\ registry'[t] = registry[t] /\ outcome'[t] = outcome[t]
      BY <3>1, ObtainedFacts DEF Inv, TypeOK
    <3> QED
      BY <1>1, <2>2, <3>1, <3>2, <3>3, ObtainedFacts
  <2> QED
    BY <1>4, <2>1, <2>2
<1>5. ASSUME NEW t \in Slots, NEW b \in Births, Uses(t, b)',
             NEW r \in Slots, NEW d \in Births, Uses(r, d)'
      PROVE  t = r <=> b = d
  BY <1>4, <1>5 DEF Inv, InvGenerations
<1>6. InvGenerations'
  BY <1>3, <1>4, <1>5 DEF InvGenerations
<1>7. InvSlots'
  <2>1. live' = live \cup {s} /\ state'[s] = {} /\ registry'[s] = {}
    BY ObtainedFacts DEF Inv, TypeOK
  <2>2. \A t \in Slots : t # s => /\ state'[t] = state[t] /\ registry'[t] = registry[t]
                                  /\ outcome'[t] = outcome[t]
    BY ObtainedFacts DEF Inv, TypeOK
  <2>3. \A t \in Slots : t \in live' <=> HandlesOf(t)' # {}
    BY <2>1 DEF Inv, InvSlots
  <2>4. live \subseteq Slots
    BY DEF Inv, TypeOK
  <2> QED
    BY <2>1, <2>2, <2>3, <2>4 DEF Inv, InvSlots, Holds
<1> QED
  BY <1>6, <1>7

\* So do the subjects, with a birth within the bound.
LEMMA NewSubjectType ==
    ASSUME Inv, births < MaxBirths, NEW c \in Owners, NEW k \in Keys \cup {Null},
           NEW s \in Slots, NewSubject(c, k, s)
    PROVE  /\ births' \in 0 .. MaxBirths /\ births + 1 \in Births
           /\ subjects'[c] \in Subject
           /\ subjects' \in [Owners -> Subject \cup {Null}]
BY SpaceAssumption DEF Inv, TypeOK, NewSubject, Subject, Births

\* subject: no other entry, observation or subject uses the slot it obtains.
LEMMA CreateSubjectInv ==
    ASSUME Inv, NEW c \in Owners, NEW k \in Keys, CreateSubject(c, k)
    PROVE  Inv'
<1>1. PICK s \in Slots :
         /\ Obtained(s)
         /\ NewSubject(c, k, s)
         /\ table' = [table EXCEPT ![k] = [generation |-> next_generation, slot |-> s,
                                           birth |-> births + 1]]
  BY DEF CreateSubject, Obtained, Popped
<1>2. /\ ~Exists(c) /\ ~Retained(k) /\ births < MaxBirths /\ NextGeneration
      /\ UNCHANGED <<open, obs, published, fired, lost, left>>
  BY DEF CreateSubject, MayCreate, Vacant
<1>3. next_generation' \in 0 .. MaxGen
  BY <1>2, GenerationWraps DEF Inv, TypeOK
<1>4. /\ births' \in 0 .. MaxBirths /\ births + 1 \in Births /\ births' = births + 1
      /\ subjects'[c] \in Subject /\ subjects' \in [Owners -> Subject \cup {Null}]
  BY <1>1, <1>2, NewSubjectType DEF NewSubject
<1>5. table'[k] \in SlotEntry /\ table' \in [Keys -> SlotEntry \cup {Null}]
  BY <1>1, <1>4 DEF Inv, TypeOK, SlotEntry
<1>6. TypeOK'
  BY <1>1, <1>2, <1>3, <1>4, <1>5, ObtainedTypes DEF Inv, TypeOK
<1>7. /\ Retained(k)' /\ table'[k].slot = s /\ table'[k].birth = births + 1
      /\ table'[k].generation = next_generation
      /\ \A j \in Keys : j # k => table'[j] = table[j]
  BY <1>1, <1>5, NullAssumption DEF Inv, TypeOK, Retained
<1>8. /\ Exists(c)' /\ subjects'[c].slot = s /\ subjects'[c].birth = births + 1
      /\ subjects'[c].key = k /\ subjects'[c].generation = next_generation
      /\ subjects'[c].completed = FALSE /\ subjects'[c].phase = "live"
      /\ \A d \in Owners : d # c => subjects'[d] = subjects[d]
  BY <1>1, <1>4, NullAssumption DEF Inv, TypeOK, Exists, NewSubject
<1>9. InvGenerations' /\ InvSlots'
  <2>1. HandlesOf(s)' # {}
    BY <1>7, HandleFacts DEF HandlesAre
  <2>2. ASSUME NEW t \in Slots, t # s PROVE HandlesOf(t)' # {} <=> HandlesOf(t) # {}
    <3>1. HandlesAre(t) /\ HandlesAre(t)'
      BY HandleFacts
    <3>2. ASSUME NEW x \in HandlesOf(t)' PROVE x \in HandlesOf(t)
      <4>1. CASE \E i \in 1 .. Len(pool') : x = <<"pool", i>>
        BY <1>1, <1>2, <3>1, <3>2, <4>1, ObtainedFacts DEF HandlesAre
      <4>2. CASE ~\E i \in 1 .. Len(pool') : x = <<"pool", i>>
        BY <1>2, <1>7, <1>8, <2>2, <3>1, <3>2, <4>2
           DEF HandlesAre, Retained, Exists, Observes
      <4> QED
        BY <4>1, <4>2
    <3>3. ASSUME NEW x \in HandlesOf(t) PROVE x \in HandlesOf(t)'
      <4>1. CASE \E i \in 1 .. Len(pool) : x = <<"pool", i>>
        BY <1>1, <1>2, <2>2, <3>1, <3>3, <4>1, ObtainedFacts DEF HandlesAre
      <4>2. CASE ~\E i \in 1 .. Len(pool) : x = <<"pool", i>>
        BY <1>2, <1>7, <1>8, <2>2, <3>1, <3>3, <4>2
           DEF HandlesAre, Retained, Exists, Observes
      <4> QED
        BY <4>1, <4>2
    <3> QED
      BY <3>2, <3>3
  <2>3. ASSUME NEW t \in Slots, NEW b \in Births, Uses(t, b)'
        PROVE  Uses(t, b) \/ (t = s /\ b = births + 1)
    BY <1>2, <1>7, <1>8, <2>3 DEF Uses, Retained, Exists, Observes
  <2> QED
    BY <1>1, <1>2, <1>4, <2>1, <2>2, <2>3, NewGeneration
<1>10. ASSUME NEW d \in Owners, Exists(d)', d # c
       PROVE  Exists(d) /\ subjects'[d] = subjects[d] /\ subjects[d].birth # births + 1
                /\ subjects[d].birth <= births + 1
  <2>1. Exists(d) /\ subjects'[d] = subjects[d]
    BY <1>8, <1>10 DEF Exists
  <2>2. subjects[d].birth <= births /\ births \in Nat /\ subjects[d].birth \in Nat
    BY <2>1, FieldTypes DEF Inv, InvSubjects, TypeOK
  <2> QED
    BY <2>1, <2>2
<1>11. ASSUME NEW j \in Keys, Retained(j)', j # k
       PROVE  Retained(j) /\ table'[j] = table[j] /\ table[j].birth # births + 1
  <2>1. Retained(j) /\ table'[j] = table[j]
    BY <1>7, <1>11 DEF Retained
  <2>2. table[j].slot \in Slots /\ table[j].birth \in Births
    BY <2>1, FieldTypes DEF Inv
  <2>3. table[j].birth <= births
    BY <2>1, <2>2 DEF Inv, InvGenerations, Uses
  <2>4. births \in Nat /\ table[j].birth \in Nat
    BY <2>2 DEF Inv, TypeOK, Births
  <2> QED
    BY <2>1, <2>3, <2>4
<1>12. InvSubjects'
  <2>1. births + 1 \notin published /\ births \in Nat
    BY DEF Inv, TypeOK, InvGenerations
  <2> QED
    BY <1>2, <1>4, <1>7, <1>8, <1>10, <1>11, <2>1 DEF Inv, InvSubjects
<1>13. EntryOfSubject'
  <2>1. ASSUME NEW d \in Owners, Exists(d)', subjects'[d].key # Null,
               subjects'[d].phase # "dropping"
        PROVE  \/ Removes(d)' /\ table'[subjects'[d].key].birth = subjects'[d].birth
               \/ [key |-> subjects'[d].key, generation |-> subjects'[d].generation] \in lost'
    <3>1. CASE d = c
      BY <1>7, <1>8, <3>1 DEF Removes
    <3>2. CASE d # c
      BY <1>2, <1>7, <1>10, <2>1, <3>2, FieldTypes
         DEF Inv, EntryOfSubject, Removes, Retained
    <3> QED
      BY <3>1, <3>2
  <2>2. ASSUME NEW j \in Keys, Retained(j)'
        PROVE  \/ table'[j].birth \in left'
               \/ \E d \in Owners : /\ Exists(d)' /\ subjects'[d].phase # "dropping"
                                    /\ subjects'[d].birth = table'[j].birth
                                    /\ subjects'[d].slot = table'[j].slot
    <3>1. CASE j = k
      BY <1>7, <1>8, <3>1
    <3>2. CASE j # k
      <4>1. Retained(j) /\ table'[j] = table[j]
        BY <1>11, <2>2, <3>2
      <4>2. \A d \in Owners : Exists(d) => Exists(d)' /\ subjects'[d] = subjects[d]
        BY <1>2, <1>8 DEF Exists
      <4> QED
        BY <1>2, <4>1, <4>2 DEF Inv, EntryOfSubject
    <3> QED
      BY <3>1, <3>2
  <2> QED
    BY <2>1, <2>2 DEF EntryOfSubject
<1>14. InvPool' /\ InvEnded' /\ InvFaults' /\ NoCrossGenerationWake'
  BY <1>1, <1>2, ObtainedFacts DEF Inv, InvFaults, NoCrossGenerationWake
<1> QED
  BY <1>6, <1>9, <1>12, <1>13, <1>14 DEF Inv

\* pair: the same for a slot that is in no table.
LEMMA PairInv ==
    ASSUME Inv, NEW c \in Owners, NEW h \in Handles, Pair(c, h)
    PROVE  Inv'
<1>1. PICK s \in Slots : Obtained(s) /\ NewSubject(c, Null, s) /\ Capture(h, s, births + 1)
  BY DEF Pair, Obtained
<1>2. /\ ~Exists(c) /\ births < MaxBirths
      /\ UNCHANGED <<open, table, pool, next_generation, published, fired, lost, left>>
  BY DEF Pair, MayCreate
<1>3. /\ births' \in 0 .. MaxBirths /\ births + 1 \in Births /\ births' = births + 1
      /\ subjects'[c] \in Subject /\ subjects' \in [Owners -> Subject \cup {Null}]
  BY <1>1, <1>2, NewSubjectType DEF NewSubject
<1>4. obs'[h] \in Observation /\ obs' \in [Handles -> Observation \cup {Null}]
  BY <1>1, <1>3 DEF Inv, TypeOK, Capture, Observation
<1>5. TypeOK'
  BY <1>1, <1>2, <1>3, <1>4, ObtainedTypes DEF Inv, TypeOK
<1>6. /\ Observes(h)' /\ obs'[h].slot = s /\ obs'[h].birth = births + 1 /\ ~Observes(h)
      /\ \A g \in Handles : g # h => obs'[g] = obs[g]
  BY <1>1, <1>4, NullAssumption DEF Inv, TypeOK, Observes, Capture
<1>7. /\ Exists(c)' /\ subjects'[c].slot = s /\ subjects'[c].birth = births + 1
      /\ subjects'[c].key = Null
      /\ subjects'[c].completed = FALSE /\ subjects'[c].phase = "live"
      /\ \A d \in Owners : d # c => subjects'[d] = subjects[d]
  BY <1>1, <1>3, NullAssumption DEF Inv, TypeOK, Exists, NewSubject
<1>8. InvGenerations' /\ InvSlots'
  <2>1. HandlesOf(s)' # {}
    BY <1>6, HandleFacts DEF HandlesAre
  <2>2. ASSUME NEW t \in Slots, t # s PROVE HandlesOf(t)' # {} <=> HandlesOf(t) # {}
    <3>1. HandlesAre(t) /\ HandlesAre(t)'
      BY HandleFacts
    <3> QED
      BY <1>2, <1>6, <1>7, <2>2, <3>1 DEF HandlesAre, Retained, Exists, Observes
  <2>3. ASSUME NEW t \in Slots, NEW b \in Births, Uses(t, b)'
        PROVE  Uses(t, b) \/ (t = s /\ b = births + 1)
    BY <1>2, <1>6, <1>7, <2>3 DEF Uses, Retained, Exists, Observes
  <2> QED
    BY <1>1, <1>2, <1>3, <2>1, <2>2, <2>3, NewGeneration
<1>9. \A d \in Owners : d # c => (Exists(d)' <=> Exists(d)) /\ subjects'[d] = subjects[d]
  BY <1>7 DEF Exists
<1>10. ASSUME NEW d \in Owners, Exists(d)
       PROVE  subjects[d].birth # births + 1 /\ subjects[d].birth <= births + 1
  <2>1. subjects[d].birth <= births /\ births \in Nat /\ subjects[d].birth \in Nat
    BY <1>10, FieldTypes DEF Inv, InvSubjects, TypeOK
  <2> QED
    BY <2>1
<1>11. ASSUME NEW j \in Keys, Retained(j) PROVE table[j].birth # births + 1
  <2>1. table[j].slot \in Slots /\ table[j].birth \in Births
    BY <1>11, FieldTypes DEF Inv
  <2>2. table[j].birth <= births
    BY <1>11, <2>1 DEF Inv, InvGenerations, Uses
  <2>3. births \in Nat /\ table[j].birth \in Nat
    BY <2>1 DEF Inv, TypeOK, Births
  <2> QED
    BY <2>2, <2>3
<1>12. InvSubjects'
  <2>1. births + 1 \notin published /\ births \in Nat
    BY DEF Inv, TypeOK, InvGenerations
  <2> QED
    BY <1>2, <1>3, <1>7, <1>9, <1>10, <1>11, <2>1 DEF Inv, InvSubjects, Retained
<1>13. EntryOfSubject'
  BY <1>2, <1>7, <1>9 DEF Inv, EntryOfSubject, Retained, Removes
<1>14. InvPool' /\ InvEnded' /\ InvFaults' /\ NoCrossGenerationWake'
  BY <1>1, <1>2, ObtainedFacts DEF Inv, InvFaults, NoCrossGenerationWake
<1> QED
  BY <1>5, <1>8, <1>12, <1>13, <1>14 DEF Inv

-------------------------------------------------------------------------------
(***************************************************************************)
(* Observations.                                                           *)
(***************************************************************************)

\* observe and clone: another handle of a slot that is in use for b.
LEMMA CaptureInv ==
    ASSUME Inv, NEW h \in Handles, NEW s \in Slots, NEW b \in Births, Uses(s, b),
           Capture(h, s, b),
           UNCHANGED <<open, table, pool, next_generation, births, subjects, live, state,
                       outcome, registry, published, ended, fired, lost, left>>
    PROVE  Inv'
<1>1. obs'[h] \in Observation /\ obs' \in [Handles -> Observation \cup {Null}]
  BY DEF Inv, TypeOK, Capture, Observation
<1>2. TypeOK'
  BY <1>1 DEF Inv, TypeOK
<1>3. /\ Observes(h)' /\ obs'[h].slot = s /\ obs'[h].birth = b /\ ~Observes(h)
      /\ \A g \in Handles : g # h => obs'[g] = obs[g]
  BY <1>1, NullAssumption DEF Inv, TypeOK, Observes, Capture
<1>4. ASSUME NEW t \in Slots PROVE HandlesOf(t)' # {} <=> HandlesOf(t) # {}
  <2>1. HandlesAre(t) /\ HandlesAre(t)'
    BY HandleFacts
  <2>2. CASE t = s
    BY <1>3, <2>1, <2>2, UsersHold DEF Inv, HandlesAre
  <2>3. CASE t # s
    BY <1>3, <2>1, <2>3 DEF HandlesAre, Retained, Exists, Observes
  <2> QED
    BY <2>2, <2>3
<1>5. ASSUME NEW t \in Slots, NEW d \in Births, Uses(t, d)'
      PROVE  Uses(t, d) /\ ~Pooled(t)'
  <2>1. Uses(t, d)
    BY <1>3, <1>5 DEF Uses, Retained, Exists, Observes
  <2> QED
    BY <2>1 DEF Inv, InvGenerations, Pooled
<1>6. InvGenerations' /\ InvSlots' /\ InvEnded'
  BY <1>4, <1>5, NothingReleased
<1>7. InvSubjects' /\ InvPool' /\ InvFaults' /\ EntryOfSubject' /\ NoCrossGenerationWake'
  BY DEF Inv, InvSubjects, InvPool, InvFaults, EntryOfSubject, NoCrossGenerationWake,
         Removes, Exists, Retained
<1> QED
  BY <1>2, <1>6, <1>7 DEF Inv

\* observe: the entry uses the slot for the birth that is captured.
LEMMA ObserveInv ==
    ASSUME Inv, NEW h \in Handles, NEW k \in Keys, Observe(h, k)
    PROVE  Inv'
<1>1. table[k].slot \in Slots /\ table[k].birth \in Births /\ Uses(table[k].slot, table[k].birth)
  BY FieldTypes DEF Observe, Inv, Uses
<1> QED
  BY <1>1, CaptureInv DEF Observe

\* clone: the cloned observation does.
LEMMA CloneInv ==
    ASSUME Inv, NEW h \in Handles, NEW g \in Handles, Clone(h, g)
    PROVE  Inv'
<1>1. obs[h].slot \in Slots /\ obs[h].birth \in Births /\ Uses(obs[h].slot, obs[h].birth)
  BY FieldTypes DEF Clone, Usable, Inv, Uses
<1> QED
  BY <1>1, CaptureInv DEF Clone

\* The drop of an observation.
LEMMA DropObservationInv ==
    ASSUME Inv, NEW h \in Handles, DropObservation(h)
    PROVE  Inv'
<1> USE DEF DropObservation
<1>1. obs' \in [Handles -> Observation \cup {Null}]
  BY DEF Inv, TypeOK
<1>2. \A g \in Handles : Observes(g)' <=> g # h /\ Observes(g)
  BY DEF Inv, TypeOK, Observes
<1>3. \A g \in Handles : g # h => obs'[g] = obs[g]
  BY DEF Inv, TypeOK
<1>4. ASSUME NEW s \in Slots PROVE HandlesOf(s)' = HandlesOf(s) \ {<<"obs", h>>}
  <2>1. HandlesAre(s) /\ HandlesAre(s)'
    BY HandleFacts
  <2> QED
    BY <1>2, <1>3, <2>1 DEF HandlesAre, Retained, Exists
<1>5. ASSUME NEW s \in Slots, NEW b \in Births, Uses(s, b)'
      PROVE  Uses(s, b) /\ ~Pooled(s)'
  <2>1. Uses(s, b)
    BY <1>2, <1>3, <1>5 DEF Uses, Retained, Exists
  <2> QED
    BY <2>1 DEF Inv, InvGenerations, Pooled
<1>6. /\ live' \in SUBSET Slots /\ ended' \in [Births -> Nat]
      /\ InvGenerations' /\ InvSlots' /\ InvEnded'
  BY <1>4, <1>5, ReleaseKeeps
<1>7. TypeOK'
  BY <1>1, <1>6 DEF Inv, TypeOK
<1>8. InvSubjects' /\ InvPool' /\ InvFaults' /\ EntryOfSubject' /\ NoCrossGenerationWake'
  BY DEF Inv, InvSubjects, InvPool, InvFaults, EntryOfSubject, NoCrossGenerationWake,
         Removes, Exists, Retained
<1> QED
  BY <1>6, <1>7, <1>8 DEF Inv

\* register_waker: the slot's waker is of the generation that uses it.
LEMMA RegisterWakerInv ==
    ASSUME Inv, NEW h \in Handles, RegisterWaker(h)
    PROVE  Inv'
<1> DEFINE s == obs[h].slot
           b == obs[h].birth
<1> USE DEF RegisterWaker, Usable
<1>1. s \in Slots /\ b \in Births /\ Uses(s, b)
  BY FieldTypes DEF Inv, Uses
<1>2. s \in live
  BY <1>1, UsersHold DEF Inv, InvSlots
<1>3. /\ state' = [state EXCEPT ![s] = @ \cup {HAS_WAITER}]
      /\ registry' = [registry EXCEPT ![s] = @ \cup {b}]
      /\ COMPLETED \notin state[s]
  OBVIOUS
<1>4. TypeOK'
  BY <1>1, <1>3 DEF Inv, TypeOK, Bits
<1>5. ASSUME NEW t \in Slots
      PROVE  /\ COMPLETED \in state'[t] <=> COMPLETED \in state[t]
             /\ OUTCOME_VALID \in state'[t] <=> OUTCOME_VALID \in state[t]
             /\ HAS_WAITER \in state'[t] <=> HAS_WAITER \in state[t] \/ t = s
             /\ registry'[t] = IF t = s THEN registry[s] \cup {b} ELSE registry[t]
  BY <1>1, <1>3 DEF Inv, TypeOK, COMPLETED, OUTCOME_VALID, HAS_WAITER
<1> HIDE DEF s, b
<1>6. \A t : HandlesOf(t)' = HandlesOf(t)
  BY DEF HandlesOf, Retained, Exists, Observes
<1>7. \A t, d : Uses(t, d)' <=> Uses(t, d)
  BY DEF Uses, Retained, Exists, Observes
<1>8. InvGenerations'
  <2>1. \A t : Pooled(t)' <=> Pooled(t)
    BY DEF Pooled
  <2>2. ASSUME NEW t \in Slots, NEW d \in Births, Uses(t, d)'
        PROVE  registry'[t] \subseteq {d}
    <3>1. Uses(t, d) /\ registry[t] \subseteq {d}
      BY <1>7, <2>2 DEF Inv, InvGenerations
    <3>2. t = s => d = b
      BY <1>1, <3>1 DEF Inv, InvGenerations
    <3> QED
      BY <1>5, <3>1, <3>2
  <2> QED
    BY <1>5, <1>7, <2>1, <2>2 DEF Inv, InvGenerations
<1>9. InvSlots'
  <2>1. \A t \in Slots : t \in live' <=> HandlesOf(t)' # {}
    BY <1>2, <1>6 DEF Inv, InvSlots
  <2>2. \A t \in live : t \in Slots
    BY DEF Inv, TypeOK
  <2>3. \A t \in Slots : \A d : Holds(t, d)' <=> Holds(t, d)
    BY <1>2, <1>5 DEF Holds
  <2>4. \A t \in live : registry'[t] # {} => HAS_WAITER \in state'[t]
    BY <1>5, <2>2 DEF Inv, InvSlots
  <2> QED
    BY <1>2, <1>5, <2>1, <2>2, <2>3, <2>4 DEF Inv, InvSlots
<1>10. InvEnded'
  BY <1>5 DEF Inv, InvEnded, Holds, TypeOK
<1>11. InvSubjects' /\ InvPool' /\ InvFaults' /\ EntryOfSubject' /\ NoCrossGenerationWake'
  BY DEF Inv, InvSubjects, InvPool, InvFaults, EntryOfSubject, NoCrossGenerationWake,
         Removes, Exists, Retained
<1> QED
  BY <1>4, <1>8, <1>9, <1>10, <1>11 DEF Inv

\* into_outcome succeeds: the last handle and the value leave together.
LEMMA IntoOutcomeInv ==
    ASSUME Inv, NEW h \in Handles, IntoOutcome(h)
    PROVE  Inv'
<1> USE DEF IntoOutcome, Usable
<1>1. PICK s \in Slots : s = obs[h].slot /\ Observes(h)
  BY FieldTypes DEF Inv
<1>2. HandlesOf(s) = {<<"obs", h>>}
  <2>1. <<"obs", h>> \in HandlesOf(s)
    BY <1>1, HandleFacts DEF HandlesAre
  <2>2. IsFiniteSet(HandlesOf(s)) /\ Cardinality(HandlesOf(s)) = 1
    BY <1>1, HandlesFinite DEF Inv, strong_count
  <2> QED
    BY <2>1, <2>2, CountOne
<1>3. s \in live
  BY <1>1, <1>2 DEF Inv, InvSlots
<1>4. obs' \in [Handles -> Observation \cup {Null}] /\ live' = live \ {s}
  BY <1>1 DEF Inv, TypeOK
<1>5. \A g \in Handles : /\ Observes(g)' <=> g # h /\ Observes(g)
                         /\ g # h => obs'[g] = obs[g]
  BY DEF Inv, TypeOK, Observes
<1>6. ASSUME NEW t \in Slots PROVE HandlesOf(t)' = HandlesOf(t) \ {<<"obs", h>>}
  <2>1. HandlesAre(t) /\ HandlesAre(t)'
    BY HandleFacts
  <2> QED
    BY <1>5, <2>1 DEF HandlesAre, Retained, Exists
<1>7. \A t \in Slots : t \in live' <=> HandlesOf(t)' # {}
  <2>1. ASSUME NEW t \in Slots, t # s PROVE HandlesOf(t)' = HandlesOf(t)
    <3>1. <<"obs", h>> \notin HandlesOf(t)
      BY <1>1, <2>1, HandleFacts DEF HandlesAre
    <3> QED
      BY <1>6, <3>1
  <2>2. HandlesOf(s)' = {}
    BY <1>1, <1>2, <1>6
  <2> QED
    BY <1>4, <2>1, <2>2 DEF Inv, InvSlots
<1>8. ASSUME NEW t \in Slots, NEW b \in Births, Uses(t, b)'
      PROVE  Uses(t, b) /\ t # s /\ ~Pooled(t)'
  <2>1. Uses(t, b)
    BY <1>5, <1>8 DEF Uses, Retained, Exists
  <2>2. HandlesOf(t)' # {}
    BY <1>5, <1>8, HandleFacts DEF HandlesAre, Uses
  <2>3. t # s
    BY <1>2, <1>6, <2>2
  <2> QED
    BY <2>1, <2>3 DEF Inv, InvGenerations, Pooled
<1>9. /\ state' \in [Slots -> SUBSET Bits]
      /\ \A t \in Slots : t # s => state'[t] = state[t]
  <2>1. state' = [state EXCEPT ![s] = MarkTaken(@)] \/ state' = state
    BY <1>1
  <2> QED
    BY <2>1 DEF Inv, TypeOK, MarkTaken
<1>10. /\ ended' \in [Births -> Nat]
       /\ \A b \in Births : ended'[b] = IF Holds(s, b) THEN ended[b] + 1 ELSE ended[b]
  <2>1. CASE COMPLETED \in state[s]
    <3>1. OUTCOME_VALID \in state[s] /\ outcome[s] \in Births
      BY <1>3, <2>1 DEF Inv, InvSlots, TypeOK
    <3>2. ended' = [ended EXCEPT ![outcome[s]] = @ + 1]
      BY <1>1, <2>1 DEF MarkTaken
    <3> QED
      BY <3>1, <3>2 DEF Holds, Inv, TypeOK
  <2>2. CASE COMPLETED \notin state[s]
    BY <1>1, <1>3, <2>2 DEF Holds, Inv, InvSlots, TypeOK
  <2> QED
    BY <2>1, <2>2
<1>11. UNCHANGED <<open, table, pool, next_generation, births, subjects, outcome, registry,
                   published, fired, lost, left>>
  OBVIOUS
<1> HIDE DEF IntoOutcome
<1>12. TypeOK'
  BY <1>4, <1>9, <1>10, <1>11 DEF Inv, TypeOK
<1>13. InvGenerations'
  BY <1>8, <1>9, <1>11 DEF Inv, InvGenerations
<1>14. InvSlots'
  BY <1>4, <1>7, <1>9, <1>11 DEF Inv, InvSlots, Holds, TypeOK
<1>15. InvEnded'
  <2>1. SUFFICES ASSUME ~DropPanics, NEW b \in Births
                 PROVE  ended'[b] = IF b \in published' /\ ~\E t \in live' : Holds(t, b)'
                                    THEN 1 ELSE 0
    BY DEF InvEnded
  <2>2. \A t \in live' : t \in live /\ t # s /\ (Holds(t, b)' <=> Holds(t, b))
    BY <1>4, <1>9, <1>11 DEF Holds, Inv, TypeOK
  <2>3. CASE Holds(s, b)
    BY <1>3, <1>10, <1>11, <2>1, <2>2, <2>3 DEF Inv, InvSlots, InvEnded, Holds
  <2>4. CASE ~Holds(s, b)
    BY <1>3, <1>4, <1>10, <1>11, <2>1, <2>2, <2>4 DEF Inv, InvEnded
  <2> QED
    BY <2>3, <2>4
<1>16. InvSubjects' /\ InvPool' /\ InvFaults' /\ EntryOfSubject' /\ NoCrossGenerationWake'
  BY <1>11 DEF Inv, InvSubjects, InvPool, InvFaults, EntryOfSubject, NoCrossGenerationWake,
               Removes, Exists, Retained
<1> QED
  BY <1>12, <1>13, <1>14, <1>15, <1>16 DEF Inv

\* into_outcome is refused: only the phase of the observation changes.
LEMMA IntoOutcomeRefusedInv ==
    ASSUME Inv, NEW h \in Handles, IntoOutcomeRefused(h)
    PROVE  Inv'
<1> USE DEF IntoOutcomeRefused, Usable
<1>1. obs[h] \in Observation
  BY FieldTypes DEF Inv
<1>2. PICK p \in {"refused", "stranger"} : obs' = [obs EXCEPT ![h].phase = p]
  OBVIOUS
<1>3. obs' \in [Handles -> Observation \cup {Null}]
  <2>1. [obs[h] EXCEPT !.phase = p] \in Observation
    BY <1>1, <1>2 DEF Observation
  <2>2. obs' = [obs EXCEPT ![h] = [obs[h] EXCEPT !.phase = p]]
    BY <1>2
  <2> HIDE DEF IntoOutcomeRefused
  <2> QED
    BY <2>1, <2>2 DEF Inv, TypeOK
<1>4. \A g \in Handles : /\ Observes(g)' <=> Observes(g)
                         /\ Observes(g) => obs'[g].slot = obs[g].slot /\ obs'[g].birth = obs[g].birth
  <2>1. obs'[h] = [obs[h] EXCEPT !.phase = p] /\ \A g \in Handles : g # h => obs'[g] = obs[g]
    BY <1>2 DEF Inv, TypeOK
  <2>2. obs'[h] \in Observation /\ obs'[h].slot = obs[h].slot /\ obs'[h].birth = obs[h].birth
    BY <1>1, <2>1 DEF Observation
  <2> QED
    BY <1>1, <2>1, <2>2, NullAssumption DEF Observes
<1>5. ASSUME NEW t \in Slots PROVE HandlesOf(t)' # {} <=> HandlesOf(t) # {}
  <2>1. HandlesAre(t) /\ HandlesAre(t)'
    BY HandleFacts
  <2> QED
    BY <1>4, <2>1 DEF HandlesAre, Retained, Exists
<1>6. ASSUME NEW t \in Slots, NEW b \in Births, Uses(t, b)'
      PROVE  Uses(t, b) /\ ~Pooled(t)'
  <2>1. Uses(t, b)
    BY <1>4, <1>6 DEF Uses, Retained, Exists
  <2> QED
    BY <2>1 DEF Inv, InvGenerations, Pooled
<1>7. InvGenerations' /\ InvSlots' /\ InvEnded'
  BY <1>5, <1>6, NothingReleased
<1>8. TypeOK'
  BY <1>3 DEF Inv, TypeOK
<1>9. InvSubjects' /\ InvPool' /\ InvFaults' /\ EntryOfSubject' /\ NoCrossGenerationWake'
  BY DEF Inv, InvSubjects, InvPool, InvFaults, EntryOfSubject, NoCrossGenerationWake,
         Removes, Exists, Retained
<1> QED
  BY <1>7, <1>8, <1>9 DEF Inv

-------------------------------------------------------------------------------
(***************************************************************************)
(* Subjects.                                                               *)
(***************************************************************************)

\* The subject's phase changes, and nothing else about whose slot is whose.
LEMMA SamePlaces ==
    ASSUME Inv, NEW c \in Owners, Exists(c),
           subjects' \in [Owners -> Subject \cup {Null}], subjects'[c] \in Subject,
           subjects'[c].slot = subjects[c].slot, subjects'[c].birth = subjects[c].birth,
           subjects'[c].key = subjects[c].key,
           subjects'[c].generation = subjects[c].generation,
           \A d \in Owners : d # c => subjects'[d] = subjects[d]
    PROVE  \A d \in Owners :
              /\ Exists(d)' <=> Exists(d)
              /\ Exists(d) => /\ subjects'[d].slot = subjects[d].slot
                              /\ subjects'[d].birth = subjects[d].birth
                              /\ subjects'[d].key = subjects[d].key
                              /\ subjects'[d].generation = subjects[d].generation
              /\ d # c => subjects'[d] = subjects[d]
BY NullAssumption DEF Exists

\* The publication: every user of the slot has the subject's birth.
LEMMA CompleteInv ==
    ASSUME Inv, NEW c \in Owners, Complete(c)
    PROVE  Inv'
<1> USE DEF Complete
<1>1. PICK s \in Slots, b \in Births, p \in {"live", "drain", "dropping"} :
         /\ s = subjects[c].slot /\ b = subjects[c].birth
         /\ subjects' = [subjects EXCEPT ![c].completed = TRUE, ![c].phase = p]
         /\ p = "dropping" => subjects[c].key = Null
         /\ outcome' = [outcome EXCEPT ![s] = b]
         /\ state' = [state EXCEPT ![s] = @ \cup {COMPLETED, OUTCOME_VALID}]
         /\ published' = published \cup {b}
  <2>1. subjects[c].slot \in Slots /\ subjects[c].birth \in Births
    BY FieldTypes DEF Inv
  <2> QED
    BY <2>1 DEF AfterComplete
<1>2. /\ Exists(c) /\ subjects[c].phase = "live" /\ ~subjects[c].completed
      /\ UNCHANGED <<open, table, pool, next_generation, births, obs, live, registry, ended,
                     fired, lost, left>>
  OBVIOUS
<1> HIDE DEF Complete
<1>3. Uses(s, b) /\ s \in live
  <2>1. Uses(s, b)
    BY <1>1, <1>2 DEF Uses
  <2> QED
    BY <2>1, UsersHold DEF Inv, InvSlots
<1>4. b \notin published /\ COMPLETED \notin state[s] /\ OUTCOME_VALID \notin state[s]
  BY <1>1, <1>2, <1>3 DEF Inv, InvSubjects, InvGenerations, InvSlots
<1>5. /\ subjects' \in [Owners -> Subject \cup {Null}] /\ subjects'[c] \in Subject
      /\ subjects'[c].slot = s /\ subjects'[c].birth = b
      /\ subjects'[c].key = subjects[c].key /\ subjects'[c].generation = subjects[c].generation
      /\ subjects'[c].completed = TRUE /\ subjects'[c].phase = p
      /\ \A d \in Owners : d # c => subjects'[d] = subjects[d]
  <2>1. subjects[c] \in Subject /\ subjects \in [Owners -> Subject \cup {Null}]
    BY <1>2, FieldTypes DEF Inv, TypeOK
  <2>2. PICK r \in Subject : r = [subjects[c] EXCEPT !.completed = TRUE, !.phase = p]
    BY <2>1 DEF Subject
  <2>3. subjects' = [subjects EXCEPT ![c] = r]
    BY <1>1, <2>1, <2>2
  <2> QED
    BY <1>1, <2>1, <2>2, <2>3 DEF Subject
<1>6. \A d \in Owners :
         /\ Exists(d)' <=> Exists(d)
         /\ Exists(d) => /\ subjects'[d].slot = subjects[d].slot
                         /\ subjects'[d].birth = subjects[d].birth
                         /\ subjects'[d].key = subjects[d].key
                         /\ subjects'[d].generation = subjects[d].generation
         /\ d # c => subjects'[d] = subjects[d]
  BY <1>1, <1>2, <1>5, SamePlaces
<1>7. TypeOK'
  <2>1. /\ state' \in [Slots -> SUBSET Bits] /\ outcome' \in [Slots -> Births \cup {NoOutcome}]
        /\ published' \in SUBSET Births
    BY <1>1 DEF Inv, TypeOK, Bits
  <2> QED
    BY <1>2, <1>5, <2>1 DEF Inv, TypeOK
<1>8. ASSUME NEW t \in Slots
      PROVE  /\ HAS_WAITER \in state'[t] <=> HAS_WAITER \in state[t]
             /\ COMPLETED \in state'[t] <=> COMPLETED \in state[t] \/ t = s
             /\ OUTCOME_VALID \in state'[t] <=> OUTCOME_VALID \in state[t] \/ t = s
             /\ outcome'[t] = IF t = s THEN b ELSE outcome[t]
  BY <1>1 DEF Inv, TypeOK, COMPLETED, OUTCOME_VALID, HAS_WAITER
<1>9. ASSUME NEW t \in Slots, NEW d, Uses(t, d)' PROVE Uses(t, d)
  <2>1. CASE \E e \in Owners : /\ Exists(e)' /\ subjects'[e].phase # "dropping"
                               /\ subjects'[e].slot = t /\ subjects'[e].birth = d
    BY <1>2, <1>6, <2>1 DEF Uses
  <2>2. CASE ~\E e \in Owners : /\ Exists(e)' /\ subjects'[e].phase # "dropping"
                                /\ subjects'[e].slot = t /\ subjects'[e].birth = d
    BY <1>2, <1>9, <2>2 DEF Uses, Retained, Observes
  <2> QED
    BY <2>1, <2>2
<1>10. InvGenerations'
  <2>1. published' \subseteq 1 .. births'
    BY <1>1, <1>2, <1>3 DEF Inv, InvGenerations, TypeOK, Births
  <2>2. ASSUME NEW t \in Slots, NEW d \in Births, Uses(t, d)
        PROVE  /\ t = s <=> d = b
               /\ d <= births /\ ~Pooled(t)
               /\ COMPLETED \in state[t] <=> d \in published
               /\ COMPLETED \in state[t] => outcome[t] = d
               /\ registry[t] \subseteq {d}
               /\ \A r \in Slots, e \in Births : Uses(r, e) => (t = r <=> d = e)
    BY <1>3, <2>2 DEF Inv, InvGenerations
  <2> QED
    BY <1>1, <1>2, <1>8, <1>9, <2>1, <2>2 DEF InvGenerations, Pooled
<1>11. ASSUME NEW t \in Slots PROVE HandlesOf(t)' # {} <=> HandlesOf(t) # {}
  <2>1. HandlesAre(t) /\ HandlesAre(t)'
    BY HandleFacts
  <2> QED
    BY <1>2, <1>6, <2>1 DEF HandlesAre, Retained, Observes
<1>12. \A t \in live, d \in Births : Holds(t, d)' <=> Holds(t, d) \/ (t = s /\ d = b)
  BY <1>4, <1>8 DEF Holds, Inv, TypeOK
<1>13. \A t \in live : ~Holds(t, b)
  BY <1>4 DEF Inv, InvSlots, Holds
<1>14. InvSlots'
  <2>1. ASSUME NEW t \in live, NEW r \in live, NEW d \in Births, Holds(t, d)', Holds(r, d)'
        PROVE  t = r
    BY <1>12, <1>13, <2>1 DEF Inv, InvSlots
  <2>2. \A t \in live : /\ COMPLETED \in state'[t] <=> OUTCOME_VALID \in state'[t]
                        /\ OUTCOME_VALID \in state'[t] => outcome'[t] \in published'
                        /\ registry'[t] # {} => HAS_WAITER \in state'[t]
    BY <1>1, <1>2, <1>8 DEF Inv, InvSlots, TypeOK
  <2> QED
    BY <1>2, <1>11, <2>1, <2>2 DEF Inv, InvSlots
<1>15. InvEnded'
  BY <1>1, <1>2, <1>3, <1>4, <1>12, <1>13 DEF Inv, InvEnded
<1>16. InvSubjects'
  BY <1>1, <1>2, <1>5, <1>6 DEF Inv, InvSubjects, Retained
<1>17. EntryOfSubject'
  <2>1. ASSUME NEW k \in Keys, Retained(k), table[k].birth = b PROVE p # "dropping"
    BY <1>1, <1>2, <2>1, SpaceAssumption DEF Inv, InvSubjects
  <2> QED
    BY <1>1, <1>2, <1>5, <1>6, <2>1 DEF Inv, EntryOfSubject, Retained, Removes
<1>18. InvPool' /\ InvFaults' /\ NoCrossGenerationWake'
  BY <1>2 DEF Inv, InvPool, InvFaults, NoCrossGenerationWake
<1> QED
  BY <1>7, <1>10, <1>14, <1>15, <1>16, <1>17, <1>18 DEF Inv

\* A step that only moves c to phase p.
LEMMA PhaseStep ==
    ASSUME Inv, NEW c \in Owners, Exists(c), NEW p \in {"live", "drain", "dropping"},
           subjects' = [subjects EXCEPT ![c].phase = p]
    PROVE  /\ subjects' \in [Owners -> Subject \cup {Null}]
           /\ subjects'[c].phase = p /\ subjects'[c].completed = subjects[c].completed
           /\ \A d \in Owners :
                 /\ Exists(d)' <=> Exists(d)
                 /\ Exists(d) => /\ subjects'[d].slot = subjects[d].slot
                                 /\ subjects'[d].birth = subjects[d].birth
                                 /\ subjects'[d].key = subjects[d].key
                                 /\ subjects'[d].generation = subjects[d].generation
                 /\ d # c => subjects'[d] = subjects[d]
<1>1. subjects[c] \in Subject /\ subjects \in [Owners -> Subject \cup {Null}]
  BY FieldTypes DEF Inv, TypeOK
<1>2. subjects'[c] = [subjects[c] EXCEPT !.phase = p]
  BY <1>1
<1>3. /\ subjects'[c] \in Subject /\ subjects'[c].phase = p
      /\ subjects'[c].completed = subjects[c].completed
      /\ subjects'[c].slot = subjects[c].slot /\ subjects'[c].birth = subjects[c].birth
      /\ subjects'[c].key = subjects[c].key /\ subjects'[c].generation = subjects[c].generation
  BY <1>1, <1>2 DEF Subject
<1>4. \A d \in Owners : d # c => subjects'[d] = subjects[d]
  BY <1>1
<1>5. subjects' \in [Owners -> Subject \cup {Null}]
  BY <1>1, <1>2, <1>3
<1> QED
  BY <1>3, <1>4, <1>5, SamePlaces

\* The drain fires the wakers of its own generation only.
LEMMA DrainInv ==
    ASSUME Inv, NEW c \in Owners, Drain(c)
    PROVE  Inv'
<1> USE DEF Drain
<1>1. PICK s \in Slots, b \in Births, p \in {"live", "drain", "dropping"} :
         /\ s = subjects[c].slot /\ b = subjects[c].birth
         /\ subjects' = [subjects EXCEPT ![c].phase = p]
         /\ p = "dropping" => subjects[c].key = Null
         /\ fired' = fired \cup {<<a, b>> : a \in registry[s]}
         /\ registry' = [registry EXCEPT ![s] = {}]
  <2>1. subjects[c].slot \in Slots /\ subjects[c].birth \in Births
    BY FieldTypes DEF Inv
  <2> QED
    BY <2>1 DEF AfterComplete
<1>2. /\ Exists(c) /\ subjects[c].phase = "drain"
      /\ UNCHANGED <<open, table, pool, next_generation, births, obs, live, state, outcome,
                     published, ended, lost, left>>
  OBVIOUS
<1> HIDE DEF Drain
<1>3. Uses(s, b) /\ registry[s] \subseteq {b}
  <2>1. Uses(s, b)
    BY <1>1, <1>2 DEF Uses
  <2> QED
    BY <2>1 DEF Inv, InvGenerations
<1>4. /\ subjects' \in [Owners -> Subject \cup {Null}]
      /\ subjects'[c].phase = p /\ subjects'[c].completed = subjects[c].completed
      /\ \A d \in Owners :
            /\ Exists(d)' <=> Exists(d)
            /\ Exists(d) => /\ subjects'[d].slot = subjects[d].slot
                            /\ subjects'[d].birth = subjects[d].birth
                            /\ subjects'[d].key = subjects[d].key
                            /\ subjects'[d].generation = subjects[d].generation
            /\ d # c => subjects'[d] = subjects[d]
  BY <1>1, <1>2, PhaseStep
<1>5. TypeOK'
  <2>1. fired' \in SUBSET (Births \X Births) /\ registry' \in [Slots -> SUBSET Births]
    BY <1>1 DEF Inv, TypeOK
  <2> QED
    BY <1>2, <1>4, <2>1 DEF Inv, TypeOK
<1>6. ASSUME NEW t \in Slots, NEW d, Uses(t, d)' PROVE Uses(t, d)
  <2>1. CASE \E e \in Owners : /\ Exists(e)' /\ subjects'[e].phase # "dropping"
                               /\ subjects'[e].slot = t /\ subjects'[e].birth = d
    BY <1>2, <1>4, <2>1 DEF Uses
  <2>2. CASE ~\E e \in Owners : /\ Exists(e)' /\ subjects'[e].phase # "dropping"
                                /\ subjects'[e].slot = t /\ subjects'[e].birth = d
    BY <1>2, <1>6, <2>2 DEF Uses, Retained, Observes
  <2> QED
    BY <2>1, <2>2
<1>7. \A t \in Slots : registry'[t] = registry[t] \/ registry'[t] = {}
  BY <1>1 DEF Inv, TypeOK
<1>8. InvGenerations'
  BY <1>2, <1>6, <1>7 DEF Inv, InvGenerations, Pooled
<1>9. ASSUME NEW t \in Slots PROVE HandlesOf(t)' # {} <=> HandlesOf(t) # {}
  <2>1. HandlesAre(t) /\ HandlesAre(t)'
    BY HandleFacts
  <2> QED
    BY <1>2, <1>4, <2>1 DEF HandlesAre, Retained, Observes
<1>10. InvSlots'
  <2>1. \A t \in Slots : t \in live' <=> HandlesOf(t)' # {}
    BY <1>2, <1>9 DEF Inv, InvSlots
  <2>2. \A t \in live : t \in Slots /\ (registry'[t] # {} => HAS_WAITER \in state[t])
    BY <1>7 DEF Inv, InvSlots, TypeOK
  <2>3. \A t, d : Holds(t, d)' <=> Holds(t, d)
    BY <1>2 DEF Holds
  <2> QED
    BY <1>2, <2>1, <2>2, <2>3 DEF Inv, InvSlots
<1>11. InvSubjects'
  BY <1>2, <1>4 DEF Inv, InvSubjects, Retained
<1>12. EntryOfSubject'
  <2>1. ASSUME NEW k \in Keys, Retained(k), table[k].birth = b PROVE p # "dropping"
    BY <1>1, <1>2, <2>1, SpaceAssumption DEF Inv, InvSubjects
  <2> QED
    BY <1>1, <1>2, <1>4, <2>1 DEF Inv, EntryOfSubject, Retained, Removes
<1>13. NoCrossGenerationWake'
  BY <1>1, <1>3 DEF Inv, NoCrossGenerationWake
<1>14. InvPool' /\ InvFaults' /\ InvEnded'
  BY <1>2 DEF Inv, InvPool, InvFaults, InvEnded, Holds
<1> QED
  BY <1>5, <1>8, <1>10, <1>11, <1>12, <1>13, <1>14 DEF Inv

\* The critical section of drop.  What is recycled has no user left: with the
\* entry gone, the subject's is the only handle.
LEMMA RetireInv ==
    ASSUME Inv, NEW c \in Owners, Retire(c)
    PROVE  Inv'
<1>1. PICK s \in Slots, b \in Births, k \in Keys :
         s = subjects[c].slot /\ b = subjects[c].birth /\ k = subjects[c].key
  BY FieldTypes DEF Inv, Retire
<1>2. /\ Exists(c) /\ subjects[c].phase = "live"
      /\ table' = IF Removes(c) THEN [table EXCEPT ![k] = Null] ELSE table
      /\ pool' = IF Removes(c) /\ Recyclable(c) THEN Append(pool, s) ELSE pool
      /\ IF Removes(c) THEN Release({<<"table", k>>}) ELSE UNCHANGED <<live, ended>>
      /\ UNCHANGED <<open, next_generation, births, obs, state, outcome, registry,
                     published, fired, lost, left>>
  BY <1>1 DEF Retire
<1>3. /\ subjects' \in [Owners -> Subject \cup {Null}]
      /\ subjects'[c].phase = "dropping"
      /\ \A d \in Owners :
            /\ Exists(d)' <=> Exists(d)
            /\ Exists(d) => /\ subjects'[d].slot = subjects[d].slot
                            /\ subjects'[d].birth = subjects[d].birth
                            /\ subjects'[d].key = subjects[d].key
                            /\ subjects'[d].generation = subjects[d].generation
            /\ d # c => subjects'[d] = subjects[d]
  BY PhaseStep DEF Retire
<1>4. \A j \in Keys : /\ Retained(j)' <=> Retained(j) /\ ~(Removes(c) /\ j = k)
                      /\ Retained(j)' => table'[j] = table[j]
  BY <1>1, <1>2 DEF Retained, Removes, Inv, TypeOK
<1>5. Uses(s, b) /\ ~Pooled(s)
  <2>1. Uses(s, b)
    BY <1>1, <1>2 DEF Uses
  <2> QED
    BY <2>1 DEF Inv, InvGenerations
<1>6. ASSUME Recyclable(c) PROVE HandlesOf(s) \ {<<"table", k>>} = {<<"subject", c>>}
  <2>1. <<"subject", c>> \in HandlesOf(s) \ {<<"table", k>>}
    BY <1>1, <1>2, HandleFacts DEF HandlesAre
  <2>2. /\ IsFiniteSet(HandlesOf(s) \ {<<"table", k>>})
        /\ Cardinality(HandlesOf(s) \ {<<"table", k>>}) = 1
    BY <1>1, <1>6, HandlesFinite, FS_RemoveElement DEF Inv, Recyclable
  <2> QED
    BY <2>1, <2>2, CountOne
<1>7. ASSUME NEW t \in Slots, NEW d \in Births, Uses(t, d)' PROVE Uses(t, d)
  BY <1>2, <1>3, <1>4, <1>7 DEF Uses, Observes
<1>8. /\ pool' \in Seq(Slots) /\ InvPool'
      /\ \A t \in Slots : Pooled(t)' => Pooled(t) \/ (Removes(c) /\ Recyclable(c) /\ t = s)
      /\ \A i \in 1 .. Len(pool) : i \in 1 .. Len(pool') /\ pool'[i] = pool[i]
  <2>1. CASE pool' = pool
    BY <2>1 DEF Inv, TypeOK, InvPool, Pooled
  <2>2. CASE pool' = Append(pool, s) /\ Removes(c) /\ Recyclable(c)
    <3>1. pool \in Seq(Slots) /\ Len(pool) \in Nat /\ Len(pool) < PoolCap
      BY <2>2 DEF Inv, TypeOK, Recyclable
    <3>2. /\ pool' \in Seq(Slots) /\ Len(pool') = Len(pool) + 1
          /\ \A i \in 1 .. Len(pool) : pool'[i] = pool[i]
          /\ pool'[Len(pool) + 1] = s
      BY <2>2, <3>1
    <3>3. \A i \in 1 .. Len(pool') : i \in 1 .. Len(pool) \/ i = Len(pool) + 1
      BY <3>1, <3>2
    <3>4. 1 .. Len(pool) \subseteq 1 .. Len(pool')
      BY <3>1, <3>2
    <3>5. Len(pool') <= PoolCap
      BY <3>1, <3>2, SpaceAssumption
    <3>6. \A i, j \in 1 .. Len(pool') : i # j => pool'[i] # pool'[j]
      BY <1>5, <3>2, <3>3 DEF Inv, InvPool, Pooled
    <3> QED
      BY <2>2, <3>2, <3>3, <3>4, <3>5, <3>6 DEF InvPool, Pooled
  <2> QED
    BY <1>2, <2>1, <2>2
<1>9. ASSUME NEW t \in Slots, NEW d \in Births, Uses(t, d)' PROVE ~Pooled(t)'
  <2>1. ~Pooled(t)
    BY <1>7, <1>9 DEF Inv, InvGenerations
  <2>2. ASSUME t = s, Removes(c), Recyclable(c) PROVE FALSE
    <3>1. HandlesAre(s)
      BY HandleFacts
    <3>4. ASSUME NEW j \in Keys, Retained(j)', table'[j].slot = s
          PROVE  j # k /\ <<"table", j>> \in HandlesOf(s)
      BY <1>4, <2>2, <3>1, <3>4 DEF HandlesAre
    <3>5. ASSUME NEW h \in Handles, Observes(h)', obs'[h].slot = s
          PROVE  <<"obs", h>> \in HandlesOf(s)
      BY <1>2, <3>1, <3>5 DEF HandlesAre, Observes
    <3>6. ASSUME NEW e \in Owners, Exists(e)', subjects'[e].phase # "dropping",
                 subjects'[e].slot = s
          PROVE  e # c /\ <<"subject", e>> \in HandlesOf(s)
      BY <1>3, <3>1, <3>6 DEF HandlesAre
    <3>2. \/ \E j \in Keys : j # k /\ <<"table", j>> \in HandlesOf(s)
          \/ \E h \in Handles : <<"obs", h>> \in HandlesOf(s)
          \/ \E e \in Owners : e # c /\ <<"subject", e>> \in HandlesOf(s)
      BY <1>9, <2>2, <3>4, <3>5, <3>6 DEF Uses
    <3>3. \A x \in HandlesOf(s) : x = <<"table", k>> \/ x = <<"subject", c>>
      BY <1>6, <2>2
    <3> QED
      BY <3>2, <3>3
  <2> QED
    BY <1>8, <2>1, <2>2
<1>10. /\ live' \in SUBSET Slots /\ ended' \in [Births -> Nat]
       /\ InvGenerations' /\ InvSlots' /\ InvEnded'
  <2>1. CASE Removes(c)
    <3>1. ASSUME NEW t \in Slots
          PROVE  HandlesOf(t)' # {} <=> HandlesOf(t) \ {<<"table", k>>} # {}
      <4>1. HandlesAre(t) /\ HandlesAre(t)'
        BY HandleFacts
      <4> DEFINE rest == HandlesOf(t) \ {<<"table", k>>}
      <4>2. t = s => <<"subject", c>> \in HandlesOf(t)' /\ <<"subject", c>> \in rest
        BY <1>1, <1>2, <1>3, <4>1 DEF HandlesAre
      <4>3. Pooled(t) => \E i : <<"pool", i>> \in HandlesOf(t)' /\ <<"pool", i>> \in rest
        BY <1>8, <4>1 DEF HandlesAre, Pooled
      <4>4. ASSUME NEW x \in HandlesOf(t)' PROVE rest # {}
        <5>1. CASE \E i : x = <<"pool", i>>
          <6>1. Pooled(t)'
            BY <4>1, <4>4, <5>1 DEF HandlesAre, Pooled
          <6> QED
            BY <1>8, <4>2, <4>3, <6>1
        <5>2. CASE ~\E i : x = <<"pool", i>>
          <6>1. x \in rest
            BY <1>2, <1>3, <1>4, <2>1, <4>1, <4>4, <5>2 DEF HandlesAre, Observes
          <6> QED
            BY <6>1
        <5> QED
          BY <5>1, <5>2
      <4>5. ASSUME NEW x \in rest PROVE HandlesOf(t)' # {}
        <5>1. CASE \E i : x = <<"pool", i>>
          <6>1. Pooled(t)
            BY <4>1, <4>5, <5>1 DEF HandlesAre, Pooled
          <6> QED
            BY <4>3, <6>1
        <5>2. CASE ~\E i : x = <<"pool", i>>
          <6>1. x \in HandlesOf(t)'
            BY <1>2, <1>3, <1>4, <2>1, <4>1, <4>5, <5>2 DEF HandlesAre, Observes
          <6> QED
            BY <6>1
        <5> QED
          BY <5>1, <5>2
      <4> QED
        BY <4>4, <4>5
    <3> QED
      BY <1>2, <1>7, <1>9, <2>1, <3>1, ReleaseKeeps
  <2>2. CASE ~Removes(c)
    <3>1. ASSUME NEW t \in Slots PROVE HandlesOf(t)' # {} <=> HandlesOf(t) # {}
      <4>1. HandlesAre(t) /\ HandlesAre(t)'
        BY HandleFacts
      <4> QED
        BY <1>2, <1>3, <1>4, <2>2, <4>1 DEF HandlesAre, Observes
    <3> QED
      BY <1>2, <1>7, <1>9, <2>2, <3>1, NothingReleased DEF Inv, TypeOK
  <2> QED
    BY <2>1, <2>2
<1>11. TypeOK'
  <2>1. table' \in [Keys -> SlotEntry \cup {Null}]
    BY <1>2 DEF Inv, TypeOK
  <2> QED
    BY <1>2, <1>3, <1>8, <1>10, <2>1 DEF Inv, TypeOK
<1>12. InvSubjects'
  BY <1>2, <1>3, <1>4 DEF Inv, InvSubjects
<1>13. EntryOfSubject'
  <2>1. ASSUME NEW d \in Owners, Exists(d)', subjects'[d].key # Null,
               subjects'[d].phase # "dropping"
        PROVE  \/ Removes(d)' /\ table'[subjects'[d].key].birth = subjects'[d].birth
               \/ [key |-> subjects'[d].key, generation |-> subjects'[d].generation] \in lost'
    <3>1. d # c /\ Exists(d) /\ subjects'[d] = subjects[d] /\ subjects[d].key \in Keys
      BY <1>3, <2>1, FieldTypes DEF Inv
    <3>2. CASE [key |-> subjects[d].key, generation |-> subjects[d].generation] \in lost
      BY <1>2, <3>1, <3>2
    <3>3. CASE Removes(d) /\ table[subjects[d].key].birth = subjects[d].birth
      <4>1. CASE Removes(c) /\ subjects[d].key = k
        <5>1. subjects[d].generation = subjects[c].generation
          BY <1>1, <3>3, <4>1 DEF Removes
        <5>2. table[k].birth # b
          BY <1>1, <1>2, <3>1, <3>3, <4>1 DEF Inv, InvSubjects
        <5>3. [key |-> k, generation |-> subjects[c].generation] \in lost
          BY <1>1, <1>2, <5>2, SpaceAssumption DEF Inv, EntryOfSubject
        <5> QED
          BY <1>2, <3>1, <4>1, <5>1, <5>3
      <4>2. CASE ~(Removes(c) /\ subjects[d].key = k)
        BY <1>4, <3>1, <3>3, <4>2 DEF Removes
      <4> QED
        BY <4>1, <4>2
    <3> QED
      BY <2>1, <3>1, <3>2, <3>3 DEF Inv, EntryOfSubject
  <2>2. ASSUME NEW j \in Keys, Retained(j)'
        PROVE  \/ table'[j].birth \in left'
               \/ \E d \in Owners : /\ Exists(d)' /\ subjects'[d].phase # "dropping"
                                    /\ subjects'[d].birth = table'[j].birth
                                    /\ subjects'[d].slot = table'[j].slot
    <3>1. Retained(j) /\ table'[j] = table[j] /\ ~(Removes(c) /\ j = k)
      BY <1>4, <2>2
    <3>2. table[j].birth # b
      BY <1>1, <1>2, <3>1 DEF Inv, InvSubjects, Removes
    <3> QED
      BY <1>1, <1>2, <1>3, <3>1, <3>2 DEF Inv, EntryOfSubject
  <2> QED
    BY <2>1, <2>2 DEF EntryOfSubject
<1>14. InvFaults' /\ NoCrossGenerationWake'
  BY <1>2 DEF Inv, InvFaults, NoCrossGenerationWake
<1> QED
  BY <1>8, <1>10, <1>11, <1>12, <1>13, <1>14 DEF Inv

\* remove_if panics: the entry stays behind, and left says whose it is.
LEMMA RetirePanicsInv ==
    ASSUME Inv, NEW c \in Owners, RetirePanics(c)
    PROVE  Inv'
<1> USE DEF RetirePanics
<1>1. subjects[c].birth \in Births
  BY FieldTypes DEF Inv
<1>2. /\ subjects' \in [Owners -> Subject \cup {Null}]
      /\ subjects'[c].phase = "dropping"
      /\ \A d \in Owners :
            /\ Exists(d)' <=> Exists(d)
            /\ Exists(d) => /\ subjects'[d].slot = subjects[d].slot
                            /\ subjects'[d].birth = subjects[d].birth
                            /\ subjects'[d].key = subjects[d].key
                            /\ subjects'[d].generation = subjects[d].generation
            /\ d # c => subjects'[d] = subjects[d]
  BY PhaseStep
<1>3. TypeOK'
  BY <1>1, <1>2 DEF Inv, TypeOK
<1>4. ASSUME NEW t \in Slots PROVE HandlesOf(t)' # {} <=> HandlesOf(t) # {}
  <2>1. HandlesAre(t) /\ HandlesAre(t)'
    BY HandleFacts
  <2> QED
    BY <1>2, <2>1 DEF HandlesAre, Retained, Observes
<1>5. ASSUME NEW t \in Slots, NEW b \in Births, Uses(t, b)'
      PROVE  Uses(t, b) /\ ~Pooled(t)'
  <2>1. Uses(t, b)
    BY <1>2, <1>5 DEF Uses, Retained, Observes
  <2> QED
    BY <2>1 DEF Inv, InvGenerations, Pooled
<1>6. InvGenerations' /\ InvSlots' /\ InvEnded'
  BY <1>4, <1>5, NothingReleased
<1>7. InvSubjects'
  BY <1>2 DEF Inv, InvSubjects, Retained
<1>8. EntryOfSubject'
  BY <1>2 DEF Inv, EntryOfSubject, Retained, Removes
<1>9. InvPool' /\ InvFaults' /\ NoCrossGenerationWake'
  BY DEF Inv, InvPool, InvFaults, NoCrossGenerationWake
<1> QED
  BY <1>3, <1>6, <1>7, <1>8, <1>9 DEF Inv

\* Inner stays as it is, or goes with all it has.
LEMMA InnerFacts ==
    ASSUME Inv, NEW kept \in BOOLEAN, NEW gone, ReleaseInner(kept, gone)
    PROVE  /\ pool' \in Seq(Slots) /\ InvPool'
           /\ table' \in [Keys -> SlotEntry \cup {Null}]
           /\ \A k \in Keys : Retained(k)' <=> kept /\ Retained(k)
           /\ \A k \in Keys : Retained(k)' => table'[k] = table[k]
           /\ \A i : i \in 1 .. Len(pool') <=> kept /\ i \in 1 .. Len(pool)
           /\ \A i \in 1 .. Len(pool') : pool'[i] = pool[i]
           /\ \A s : Pooled(s)' => Pooled(s)
<1>1. CASE kept
  BY <1>1 DEF ReleaseInner, Inv, TypeOK, InvPool, Pooled, Retained
<1>2. CASE ~kept
  <2>1. pool' = <<>> /\ table' = [k \in Keys |-> Null]
    BY <1>2 DEF ReleaseInner
  <2> QED
    BY <1>2, <2>1, SpaceAssumption DEF Inv, TypeOK, InvPool, Pooled, Retained
<1> QED
  BY <1>1, <1>2

\* The fields of a subject or publisher are dropped after the lock.
LEMMA DropFieldsInv ==
    ASSUME Inv, NEW c \in Owners, DropFields(c)
    PROVE  Inv'
<1> DEFINE kept == subjects[c].key = Null \/ InnerKept(open, c)
           gone == {<<"subject", c>>} \cup IF kept THEN {}
                      ELSE {<<"pool", i>> : i \in 1 .. Len(pool)}
                             \cup {<<"table", k>> : k \in Keys}
<1>1. /\ Exists(c)
      /\ subjects[c].phase = "dropping" \/ (subjects[c].phase = "live" /\ subjects[c].key = Null)
      /\ subjects' = [subjects EXCEPT ![c] = Null]
      /\ ReleaseInner(kept, {<<"subject", c>>}) /\ Release(gone)
      /\ UNCHANGED <<open, next_generation, births, obs, state, outcome, registry, published,
                     fired, lost, left>>
  BY DEF DropFields, ReleaseInner
<1>2. /\ pool' \in Seq(Slots) /\ InvPool'
      /\ table' \in [Keys -> SlotEntry \cup {Null}]
      /\ \A k \in Keys : Retained(k)' <=> kept /\ Retained(k)
      /\ \A k \in Keys : Retained(k)' => table'[k] = table[k]
      /\ \A i : i \in 1 .. Len(pool') <=> kept /\ i \in 1 .. Len(pool)
      /\ \A i \in 1 .. Len(pool') : pool'[i] = pool[i]
      /\ \A s : Pooled(s)' => Pooled(s)
  <2> HIDE DEF kept
  <2>1. kept \in BOOLEAN
    BY DEF kept
  <2> QED
    BY <1>1, <2>1, InnerFacts
<1>3. /\ subjects' \in [Owners -> Subject \cup {Null}]
      /\ \A d \in Owners : /\ Exists(d)' <=> d # c /\ Exists(d)
                           /\ d # c => subjects'[d] = subjects[d]
  BY <1>1 DEF Inv, TypeOK, Exists
<1>4. \A d \in Owners : Exists(d)' /\ subjects'[d].key # Null => kept
  BY <1>3 DEF InnerKept
<1>5. PICK lives \in BOOLEAN : lives = kept
  OBVIOUS
<1>6. PICK drops : drops = gone
  OBVIOUS
<1>7. ASSUME NEW t \in Slots PROVE HandlesOf(t)' = HandlesOf(t) \ drops
  <2>1. HandlesAre(t) /\ HandlesAre(t)'
    BY HandleFacts
  <2>2. \A x : x \in drops <=> \/ x = <<"subject", c>>
                               \/ ~lives /\ \E i \in 1 .. Len(pool) : x = <<"pool", i>>
                               \/ ~lives /\ \E k \in Keys : x = <<"table", k>>
    BY <1>5, <1>6
  <2> HIDE DEF kept, gone
  <2>3. ASSUME NEW x \in HandlesOf(t)' PROVE x \in HandlesOf(t) /\ x \notin drops
    BY <1>1, <1>2, <1>3, <1>5, <2>1, <2>2, <2>3 DEF HandlesAre, Observes
  <2>4. ASSUME NEW x \in HandlesOf(t), x \notin drops PROVE x \in HandlesOf(t)'
    BY <1>1, <1>2, <1>3, <1>5, <2>1, <2>2, <2>4 DEF HandlesAre, Observes
  <2> QED
    BY <2>3, <2>4
<1> HIDE DEF kept, gone
<1>8. ASSUME NEW t \in Slots, NEW b \in Births, Uses(t, b)'
      PROVE  Uses(t, b) /\ ~Pooled(t)'
  <2>1. Uses(t, b)
    BY <1>1, <1>2, <1>3, <1>8 DEF Uses, Observes
  <2> QED
    BY <1>2, <2>1 DEF Inv, InvGenerations
<1>9. /\ live' \in SUBSET Slots /\ ended' \in [Births -> Nat]
      /\ InvGenerations' /\ InvSlots' /\ InvEnded'
  BY <1>1, <1>6, <1>7, <1>8, ReleaseKeeps
<1>10. TypeOK'
  BY <1>1, <1>2, <1>3, <1>9 DEF Inv, TypeOK
<1>11. InvSubjects'
  BY <1>1, <1>2, <1>3 DEF Inv, InvSubjects
<1>12. EntryOfSubject'
  <2>1. ASSUME NEW d \in Owners, Exists(d)', subjects'[d].key # Null,
               subjects'[d].phase # "dropping"
        PROVE  \/ Removes(d)' /\ table'[subjects'[d].key].birth = subjects'[d].birth
               \/ [key |-> subjects'[d].key, generation |-> subjects'[d].generation] \in lost'
    <3>1. Exists(d) /\ subjects'[d] = subjects[d] /\ subjects[d].key \in Keys /\ kept
      BY <1>3, <1>4, <2>1, FieldTypes DEF Inv
    <3> QED
      BY <1>1, <1>2, <2>1, <3>1 DEF Inv, EntryOfSubject, Removes
  <2>2. ASSUME NEW j \in Keys, Retained(j)'
        PROVE  \/ table'[j].birth \in left'
               \/ \E d \in Owners : /\ Exists(d)' /\ subjects'[d].phase # "dropping"
                                    /\ subjects'[d].birth = table'[j].birth
                                    /\ subjects'[d].slot = table'[j].slot
    <3>1. Retained(j) /\ table'[j] = table[j]
      BY <1>2, <2>2
    <3>2. CASE table[j].birth \in left
      BY <1>1, <3>1, <3>2
    <3>3. CASE \E d \in Owners : /\ Exists(d) /\ subjects[d].phase # "dropping"
                                 /\ subjects[d].birth = table[j].birth
                                 /\ subjects[d].slot = table[j].slot
      <4>1. PICK d \in Owners : /\ Exists(d) /\ subjects[d].phase # "dropping"
                                /\ subjects[d].birth = table[j].birth
                                /\ subjects[d].slot = table[j].slot
        BY <3>3
      <4>2. subjects[d].key = j
        BY <3>1, <4>1 DEF Inv, InvSubjects
      <4>3. d # c
        BY <1>1, <4>1, <4>2, SpaceAssumption
      <4> QED
        BY <1>3, <3>1, <4>1, <4>3
    <3> QED
      BY <3>1, <3>2, <3>3 DEF Inv, EntryOfSubject
  <2> QED
    BY <2>1, <2>2 DEF EntryOfSubject
<1>13. InvFaults' /\ NoCrossGenerationWake'
  BY <1>1 DEF Inv, InvFaults, NoCrossGenerationWake
<1> QED
  BY <1>2, <1>9, <1>10, <1>11, <1>12, <1>13 DEF Inv

\* The last handle of the space is dropped.
LEMMA DropSpaceInv ==
    ASSUME Inv, DropSpace
    PROVE  Inv'
<1> DEFINE kept == InnerKept(FALSE, Null)
           gone == {} \cup IF kept THEN {}
                      ELSE {<<"pool", i>> : i \in 1 .. Len(pool)}
                             \cup {<<"table", k>> : k \in Keys}
<1>1. /\ ReleaseInner(kept, {}) /\ Release(gone) /\ open' = FALSE
      /\ UNCHANGED <<next_generation, births, subjects, obs, state, outcome, registry,
                     published, fired, lost, left>>
  BY DEF DropSpace, ReleaseInner
<1>2. /\ pool' \in Seq(Slots) /\ InvPool'
      /\ table' \in [Keys -> SlotEntry \cup {Null}]
      /\ \A k \in Keys : Retained(k)' <=> kept /\ Retained(k)
      /\ \A k \in Keys : Retained(k)' => table'[k] = table[k]
      /\ \A i : i \in 1 .. Len(pool') <=> kept /\ i \in 1 .. Len(pool)
      /\ \A i \in 1 .. Len(pool') : pool'[i] = pool[i]
      /\ \A s : Pooled(s)' => Pooled(s)
  <2> HIDE DEF kept
  <2>1. kept \in BOOLEAN
    BY DEF kept, InnerKept
  <2> QED
    BY <1>1, <2>1, InnerFacts
<1>3. \A d \in Owners : Exists(d) /\ subjects[d].key # Null => kept
  BY SpaceAssumption DEF InnerKept
<1>4. PICK lives \in BOOLEAN : lives = kept
  BY DEF InnerKept
<1>5. PICK drops : drops = gone
  OBVIOUS
<1>6. ASSUME NEW t \in Slots PROVE HandlesOf(t)' = HandlesOf(t) \ drops
  <2>1. HandlesAre(t) /\ HandlesAre(t)'
    BY HandleFacts
  <2>2. \A x : x \in drops <=> \/ ~lives /\ \E i \in 1 .. Len(pool) : x = <<"pool", i>>
                               \/ ~lives /\ \E k \in Keys : x = <<"table", k>>
    BY <1>4, <1>5
  <2> HIDE DEF kept, gone
  <2>3. ASSUME NEW x \in HandlesOf(t)' PROVE x \in HandlesOf(t) /\ x \notin drops
    BY <1>1, <1>2, <1>4, <2>1, <2>2, <2>3 DEF HandlesAre, Observes, Exists
  <2>4. ASSUME NEW x \in HandlesOf(t), x \notin drops PROVE x \in HandlesOf(t)'
    BY <1>1, <1>2, <1>4, <2>1, <2>2, <2>4 DEF HandlesAre, Observes, Exists
  <2> QED
    BY <2>3, <2>4
<1> HIDE DEF kept, gone
<1>7. ASSUME NEW t \in Slots, NEW b \in Births, Uses(t, b)'
      PROVE  Uses(t, b) /\ ~Pooled(t)'
  <2>1. Uses(t, b)
    BY <1>1, <1>2, <1>7 DEF Uses, Observes, Exists
  <2> QED
    BY <1>2, <2>1 DEF Inv, InvGenerations
<1>8. /\ live' \in SUBSET Slots /\ ended' \in [Births -> Nat]
      /\ InvGenerations' /\ InvSlots' /\ InvEnded'
  BY <1>1, <1>5, <1>6, <1>7, ReleaseKeeps
<1>9. TypeOK'
  BY <1>1, <1>2, <1>8 DEF Inv, TypeOK
<1>10. InvSubjects'
  BY <1>1, <1>2 DEF Inv, InvSubjects, Exists
<1>11. EntryOfSubject'
  <2>1. ASSUME NEW d \in Owners, Exists(d), subjects[d].key # Null
        PROVE  Removes(d) /\ table[subjects[d].key].birth = subjects[d].birth =>
                  Removes(d)' /\ table'[subjects[d].key].birth = subjects[d].birth
    <3>1. subjects[d].key \in Keys /\ kept
      BY <1>3, <2>1, FieldTypes DEF Inv
    <3> QED
      BY <1>1, <1>2, <3>1 DEF Removes
  <2> QED
    BY <1>1, <1>2, <2>1 DEF Inv, EntryOfSubject, Exists
<1>12. InvFaults' /\ NoCrossGenerationWake'
  BY <1>1 DEF Inv, InvFaults, NoCrossGenerationWake
<1> QED
  BY <1>2, <1>8, <1>9, <1>10, <1>11, <1>12 DEF Inv

-------------------------------------------------------------------------------
(***************************************************************************)
(* The invariant, and the properties that follow from it.                  *)
(***************************************************************************)

\* The empty space satisfies the invariant.
LEMMA InitInv == Init => Inv
<1> SUFFICES ASSUME Init PROVE Inv
  OBVIOUS
<1> USE DEF Init
<1>1. 1 % (MaxGen + 1) \in 0 .. MaxGen
  BY SpaceAssumption
<1>2. TypeOK
  BY <1>1, SpaceAssumption DEF TypeOK
<1>3. \A s \in Slots : HandlesOf(s) = {}
  BY DEF HandlesOf, Retained, Exists, Observes
<1>4. \A s \in Slots, b \in Births : ~Uses(s, b)
  BY DEF Uses, Retained, Exists, Observes
<1>5. InvGenerations /\ InvSlots
  BY <1>3, <1>4 DEF InvGenerations, InvSlots
<1>6. InvSubjects /\ InvPool /\ InvEnded /\ InvFaults
  BY SpaceAssumption DEF InvSubjects, InvPool, InvEnded, InvFaults, Exists
<1>7. EntryOfSubject /\ NoCrossGenerationWake
  BY DEF EntryOfSubject, NoCrossGenerationWake, Exists, Retained
<1> QED
  BY <1>2, <1>5, <1>6, <1>7 DEF Inv

\* Every step keeps it.
LEMMA NextInv == Inv /\ [Next]_vars => Inv'
<1> SUFFICES ASSUME Inv, [Next]_vars PROVE Inv'
  OBVIOUS
<1>1. ASSUME NEW c \in Owners, OwnerStep(c) PROVE Inv'
  <2>1. CASE \E k \in Keys : CreateSubject(c, k) \/ GenerationExhausted(c, k)
                             \/ ResetPanics(c, k) \/ InsertPanics(c, k)
    BY <2>1, CreateSubjectInv, PopInv, ResetPanicsInv, InsertPanicsInv
  <2>2. CASE \E h \in Handles : Pair(c, h)
    BY <2>2, PairInv
  <2>3. CASE VacancyPanics(c)
    BY <2>3, PopInv DEF VacancyPanics
  <2>4. CASE Complete(c) \/ Drain(c) \/ Retire(c) \/ RetirePanics(c) \/ DropFields(c)
    BY <2>4, CompleteInv, DrainInv, RetireInv, RetirePanicsInv, DropFieldsInv
  <2> QED
    BY <1>1, <2>1, <2>2, <2>3, <2>4 DEF OwnerStep
<1>2. ASSUME NEW h \in Handles, ObserverStep(h) PROVE Inv'
  BY <1>2, ObserveInv, CloneInv, DropObservationInv, RegisterWakerInv, IntoOutcomeInv,
     IntoOutcomeRefusedInv DEF ObserverStep
<1>3. CASE DropSpace
  BY <1>3, DropSpaceInv
<1>4. CASE UNCHANGED vars
  <2>1. \A s : HandlesOf(s)' = HandlesOf(s)
    BY <1>4 DEF vars, HandlesOf, Retained, Exists, Observes
  <2>2. \A s, b : Uses(s, b)' <=> Uses(s, b)
    BY <1>4 DEF vars, Uses, Retained, Exists, Observes
  <2>3. TypeOK' /\ InvGenerations' /\ InvSlots' /\ InvPool' /\ InvEnded' /\ InvFaults'
    BY <1>4, <2>1, <2>2 DEF vars, Inv, TypeOK, InvGenerations, InvSlots, InvPool, InvEnded,
                            InvFaults, Pooled, Holds
  <2>4. InvSubjects' /\ EntryOfSubject' /\ NoCrossGenerationWake'
    BY <1>4 DEF vars, Inv, InvSubjects, EntryOfSubject, NoCrossGenerationWake, Removes,
                Exists, Retained
  <2> QED
    BY <2>3, <2>4 DEF Inv
<1> QED
  BY <1>1, <1>2, <1>3, <1>4 DEF Next

\* The inductive invariant holds in every reachable state of the space.
THEOREM Invariance == Spec => []Inv
BY InitInv, NextInv, PTL DEF Spec

\* Every variable keeps its type: the generation wraps, births stay in bounds.
THEOREM TypeCorrect == Spec => []TypeOK
<1>1. Inv => TypeOK
  BY DEF Inv
<1> QED
  BY <1>1, Invariance, PTL

\* An observation reads its own generation: its slot is not recycled or freed.
THEOREM ObservationsAreIsolated == Spec => []Isolation
<1>1. Inv => Isolation
  <2> SUFFICES ASSUME Inv, NEW h \in Handles, Observes(h)
               PROVE  /\ obs[h].slot \in live
                      /\ \A i \in 1 .. Len(pool) : pool[i] # obs[h].slot
                      /\ COMPLETED \in state[obs[h].slot] <=> obs[h].birth \in published
                      /\ COMPLETED \in state[obs[h].slot] => outcome[obs[h].slot] = obs[h].birth
    BY DEF Isolation
  <2>1. /\ obs[h].slot \in Slots /\ obs[h].birth \in Births
        /\ Uses(obs[h].slot, obs[h].birth)
    BY FieldTypes DEF Inv, Uses
  <2>2. obs[h].slot \in live
    BY <2>1, UsersHold DEF Inv, InvSlots
  <2> QED
    BY <2>1, <2>2 DEF Inv, InvGenerations, Pooled
<1> QED
  BY <1>1, Invariance, PTL

\* No step moves an observation to another slot or generation, and no step
\* takes a publication back.
LEMMA ObservationsStay ==
    ASSUME Inv, [Next]_vars
    PROVE  /\ published \subseteq published'
           /\ \A h \in Handles : Observes(h) /\ Observes(h)' =>
                 obs'[h].slot = obs[h].slot /\ obs'[h].birth = obs[h].birth
<1> DEFINE Stays == \A h \in Handles : Observes(h) /\ Observes(h)' =>
                       obs'[h].slot = obs[h].slot /\ obs'[h].birth = obs[h].birth
<1>0. obs \in [Handles -> Observation \cup {Null}]
  BY DEF Inv, TypeOK
<1>1. obs' = obs => Stays
  OBVIOUS
<1>2. ASSUME NEW h \in Handles, NEW s, NEW b, Capture(h, s, b) PROVE Stays
  BY <1>0, <1>2 DEF Capture, Observes
<1>3. ASSUME NEW c \in Owners, OwnerStep(c) PROVE published \subseteq published' /\ Stays
  <2>1. CASE \E k \in Keys : CreateSubject(c, k) \/ GenerationExhausted(c, k)
    BY <1>1, <2>1 DEF CreateSubject, GenerationExhausted
  <2>2. CASE \E k \in Keys : ResetPanics(c, k) \/ InsertPanics(c, k)
    BY <1>1, <2>2 DEF ResetPanics, InsertPanics
  <2>3. CASE \E h \in Handles : Pair(c, h)
    BY <1>2, <2>3 DEF Pair
  <2>4. CASE VacancyPanics(c) \/ RetirePanics(c) \/ Retire(c)
    BY <1>1, <2>4 DEF VacancyPanics, RetirePanics, Retire
  <2>5. CASE Complete(c) \/ Drain(c) \/ DropFields(c)
    BY <1>1, <2>5 DEF Complete, Drain, DropFields
  <2> HIDE DEF Stays
  <2> QED
    BY <1>3, <2>1, <2>2, <2>3, <2>4, <2>5 DEF OwnerStep
<1>4. ASSUME NEW h \in Handles, ObserverStep(h)
      PROVE  published \subseteq published' /\ Stays
  <2>1. CASE \E k \in Keys : Observe(h, k)
    BY <1>2, <2>1 DEF Observe
  <2>2. CASE \E g \in Handles : Clone(h, g)
    BY <1>2, <2>2 DEF Clone
  <2>3. CASE RegisterWaker(h)
    BY <1>1, <2>3 DEF RegisterWaker
  <2>4. CASE DropObservation(h) \/ IntoOutcome(h)
    BY <1>0, <2>4 DEF DropObservation, IntoOutcome, Observes
  <2>5. CASE IntoOutcomeRefused(h)
    <3>1. obs[h] \in Observation
      BY <1>0, <2>5 DEF IntoOutcomeRefused, Usable, Observes
    <3> QED
      BY <1>0, <2>5, <3>1 DEF IntoOutcomeRefused, Observes, Observation
  <2> HIDE DEF Stays
  <2> QED
    BY <1>4, <2>1, <2>2, <2>3, <2>4, <2>5 DEF ObserverStep
<1>5. ASSUME DropSpace \/ UNCHANGED vars PROVE published \subseteq published' /\ Stays
  BY <1>1, <1>5 DEF DropSpace, vars
<1> HIDE DEF Stays
<1>6. published \subseteq published' /\ Stays
  BY <1>3, <1>4, <1>5 DEF Next
<1> QED BY <1>6 DEF Stays

\* What try_get of an observation has answered it answers for as long as the
\* observation exists, however slots are retired, reset and recycled.
THEOREM AnswersAreFinal == Spec => AnswerIsFinal
<1>1. ASSUME Inv, NEW h \in Handles, Observes(h)
      PROVE  /\ COMPLETED \in state[obs[h].slot] <=> obs[h].birth \in published
             /\ COMPLETED \in state[obs[h].slot] => outcome[obs[h].slot] = obs[h].birth
  <2>1. /\ obs[h].slot \in Slots /\ obs[h].birth \in Births
        /\ Uses(obs[h].slot, obs[h].birth)
    BY <1>1, FieldTypes DEF Inv, Uses
  <2> QED
    BY <1>1, <2>1 DEF Inv, InvGenerations
<1>2. ASSUME Inv', NEW h \in Handles, Observes(h)'
      PROVE  /\ COMPLETED \in state'[obs'[h].slot] <=> obs'[h].birth \in published'
             /\ COMPLETED \in state'[obs'[h].slot] => outcome'[obs'[h].slot] = obs'[h].birth
  <2>1. /\ obs'[h].slot \in Slots /\ obs'[h].birth \in Births
        /\ Uses(obs[h].slot, obs[h].birth)'
    <3>1. TypeOK'
      BY <1>2 DEF Inv
    <3>2. obs'[h].slot \in Slots /\ obs'[h].birth \in Births
      BY <1>2, <3>1 DEF TypeOK, Observes, Observation
    <3> QED
      BY <1>2, <3>2 DEF Uses
  <2> QED
    BY <1>2, <2>1 DEF Inv, InvGenerations
<1>3. Inv /\ Inv' /\ [Next]_vars =>
         [\A h \in Handles : Observes(h) /\ Observes(h)' =>
            /\ obs'[h].slot = obs[h].slot /\ obs'[h].birth = obs[h].birth
            /\ COMPLETED \in state[obs[h].slot] =>
                  /\ COMPLETED \in state'[obs[h].slot]
                  /\ outcome'[obs[h].slot] = outcome[obs[h].slot]]_vars
  <2> SUFFICES ASSUME Inv, Inv', [Next]_vars, NEW h \in Handles, Observes(h), Observes(h)'
               PROVE  /\ obs'[h].slot = obs[h].slot /\ obs'[h].birth = obs[h].birth
                      /\ COMPLETED \in state[obs[h].slot] =>
                            /\ COMPLETED \in state'[obs[h].slot]
                            /\ outcome'[obs[h].slot] = outcome[obs[h].slot]
    OBVIOUS
  <2>1. /\ published \subseteq published'
        /\ obs'[h].slot = obs[h].slot /\ obs'[h].birth = obs[h].birth
    BY ObservationsStay
  <2> QED
    BY <1>1, <1>2, <2>1
<1> QED
  BY <1>3, Invariance, PTL DEF Spec, AnswerIsFinal

\* Retirement finds the entry of its own subject, or an entry was lost.
THEOREM EntriesAreOfSubjects == Spec => []EntryOfSubject
<1>1. Inv => EntryOfSubject
  BY DEF Inv
<1> QED
  BY <1>1, Invariance, PTL

\* complete finds a pristine slot, recycled or not.
THEOREM SlotsArePristine == Spec => []PristineUntilComplete
<1>1. Inv => PristineUntilComplete
  <2> SUFFICES ASSUME Inv, NEW c \in Owners, Exists(c), ~subjects[c].completed,
                      subjects[c].phase = "live"
               PROVE  state[subjects[c].slot] \cap {COMPLETED, OUTCOME_VALID} = {}
    BY DEF PristineUntilComplete
  <2>1. /\ subjects[c].slot \in Slots /\ subjects[c].birth \in Births
        /\ Uses(subjects[c].slot, subjects[c].birth)
    BY FieldTypes DEF Inv, Uses
  <2>2. subjects[c].slot \in live
    BY <2>1, UsersHold DEF Inv, InvSlots
  <2>3. COMPLETED \notin state[subjects[c].slot]
    BY <2>1 DEF Inv, InvSubjects, InvGenerations
  <2> QED
    BY <2>2, <2>3 DEF Inv, InvSlots
<1> QED
  BY <1>1, Invariance, PTL

\* While dropping an outcome does not panic, a published outcome is dropped or
\* moved out once, and until then a slot that somebody holds has it.
THEOREM OutcomesEndOnce ==
    ASSUME ~DropPanics
    PROVE  Spec => []OutcomeEndsOnce
<1>1. Inv => OutcomeEndsOnce
  <2> SUFFICES ASSUME Inv, NEW b \in published PROVE
        \/ ended[b] = 1
        \/ /\ ended[b] = 0
           /\ \E s \in live : /\ HandlesOf(s) # {}
                              /\ OUTCOME_VALID \in state[s] /\ outcome[s] = b
    BY DEF OutcomeEndsOnce
  <2> QED
    BY DEF Inv, InvEnded, InvSlots, Holds, TypeOK
<1> QED
  BY <1>1, Invariance, PTL

\* A waker that an earlier generation left in a slot is never woken by another.
THEOREM WakesStayInGeneration == Spec => []NoCrossGenerationWake
<1>1. Inv => NoCrossGenerationWake
  BY DEF Inv
<1> QED
  BY <1>1, Invariance, PTL

\* The pool is bounded and holds distinct, allocated slots that nobody uses.
THEOREM PoolIsSound == Spec => []PoolSound
<1>1. Inv => PoolSound
  <2> SUFFICES ASSUME Inv, NEW i \in 1 .. Len(pool)
               PROVE  pool[i] \in live /\ \A b \in Births : ~Uses(pool[i], b)
    BY DEF PoolSound, Inv, InvPool
  <2>1. pool[i] \in Slots /\ Pooled(pool[i])
    BY FieldTypes DEF Inv, Pooled
  <2>2. pool[i] \in live
    BY <2>1, UsersHold DEF Inv, InvSlots
  <2> QED
    BY <2>1, <2>2 DEF Inv, InvGenerations
<1> QED
  BY <1>1, Invariance, PTL

-------------------------------------------------------------------------------
(***************************************************************************)
(* Nothing is used after its drop.  Inv says nothing about ended when a    *)
(* drop may panic; what is kept then is NoUseAfterDrop, given Inv.         *)
(***************************************************************************)

\* The outcomes in the slots dropped end, other slots keep theirs, and none of
\* the slots that can be reached is among the dropped.
LEMMA DroppedUnread ==
    ASSUME Inv, NoUseAfterDrop, published' = published, NEW dropped \in SUBSET live,
           ended' \in [Births -> Nat],
           \A b \in Births : ended'[b] > 0 <=> ended[b] > 0 \/ \E s \in dropped : Holds(s, b),
           \A s \in live \ dropped, b \in Births : Holds(s, b) => s \in live' /\ Holds(s, b)',
           \A s \in live', b \in Births : Reachable(s)' /\ Holds(s, b)' =>
              s \in live /\ s \notin dropped /\ Holds(s, b) /\ Reachable(s)
    PROVE  NoUseAfterDrop'
<1>0. \A b \in Births : ended[b] \in Nat /\ ended'[b] \in Nat
  BY DEF Inv, TypeOK
<1>1. ASSUME NEW s \in live', NEW b \in Births, Reachable(s)', Holds(s, b)'
      PROVE  ended'[b] = 0
  <2>1. s \in live /\ s \notin dropped /\ Holds(s, b) /\ Reachable(s)
    BY <1>1
  <2>2. ended[b] = 0
    BY <2>1 DEF NoUseAfterDrop
  <2>3. ~\E t \in dropped : Holds(t, b)
    BY <2>1 DEF Inv, InvSlots
  <2>4. ~(ended'[b] > 0)
    BY <2>2, <2>3
  <2> QED
    BY <1>0, <2>4
<1>2. ASSUME NEW b \in published', ~(ended'[b] > 0)
      PROVE  \E s \in live' : Holds(s, b)'
  <2>1. b \in Births /\ b \in published
    BY DEF Inv, TypeOK
  <2>2. ~(ended[b] > 0) /\ ~\E s \in dropped : Holds(s, b)
    BY <1>2, <2>1
  <2>3. PICK s \in live : Holds(s, b)
    BY <2>1, <2>2 DEF NoUseAfterDrop
  <2> QED
    BY <2>1, <2>2, <2>3
<1>3. ASSUME NEW b \in Births \ published' PROVE ended'[b] = 0
  <2>1. ended[b] = 0
    BY DEF NoUseAfterDrop
  <2>2. ~\E s \in dropped : Holds(s, b)
    BY DEF Inv, InvSlots, Holds
  <2>3. ~(ended'[b] > 0)
    BY <2>1, <2>2
  <2> QED
    BY <1>0, <2>3
<1> QED
  BY <1>1, <1>2, <1>3 DEF NoUseAfterDrop

\* A step that ends no outcome.
LEMMA NoneDropped ==
    ASSUME Inv, NoUseAfterDrop, UNCHANGED <<live, published, ended>>,
           \A s \in live, b \in Births : Holds(s, b)' <=> Holds(s, b),
           \A s \in live : Reachable(s)' => Reachable(s)
    PROVE  NoUseAfterDrop'
<1>1. {} \in SUBSET live /\ ended' \in [Births -> Nat]
  BY DEF Inv, TypeOK
<1> QED
  BY <1>1, DroppedUnread

\* A step that drops the handles in gone, and the slots that have no other.
LEMMA ReleaseUnread ==
    ASSUME Inv, NoUseAfterDrop, NEW gone, Release(gone),
           UNCHANGED <<published, state, outcome>>,
           \A s \in live : Reachable(s)' => Reachable(s)
    PROVE  NoUseAfterDrop'
<1>1. Freed(gone) \in SUBSET live /\ live' = live \ Freed(gone)
  BY DEF Freed, Release
<1>2. /\ ended' \in [Births -> Nat]
      /\ \A b \in Births : ended'[b] =
            ended[b] + IF \E s \in Freed(gone) : Holds(s, b) THEN 1 ELSE 0
  BY <1>1, DropCount DEF Release, Inv
<1>3. \A b \in Births : ended[b] \in Nat
  BY DEF Inv, TypeOK
<1>4. \A b \in Births : ended'[b] > 0 <=> ended[b] > 0 \/ \E s \in Freed(gone) : Holds(s, b)
  BY <1>2, <1>3
<1>5. \A s, b : Holds(s, b)' <=> Holds(s, b)
  BY DEF Holds
<1> QED
  BY <1>1, <1>2, <1>4, <1>5, DroppedUnread

\* subject panics after it has popped a slot, and that slot was not reset.
LEMMA PopUnread ==
    ASSUME Inv, NoUseAfterDrop, NEW c \in Owners, NEW k \in Keys,
           GenerationExhausted(c, k) \/ VacancyPanics(c)
    PROVE  NoUseAfterDrop'
<1> USE DEF GenerationExhausted, VacancyPanics
<1>1. \A s \in Slots : Reachable(s)' => Reachable(s)
  BY PopFacts DEF Inv, Reachable, Uses, Retained, Observes, Exists
<1>2. live \subseteq Slots
  BY DEF Inv, TypeOK
<1> QED
  BY <1>1, <1>2, ReleaseUnread

\* The drop panics in reset: the outcome counts as dropped although the state
\* word still says it is there, but the slot is out of the pool and unused.
LEMMA ResetPanicsUnread ==
    ASSUME Inv, NoUseAfterDrop, NEW c \in Owners, NEW k \in Keys, ResetPanics(c, k)
    PROVE  NoUseAfterDrop'
<1>1. /\ pool' = Popped /\ pool # <<>> /\ OUTCOME_VALID \in state[Top]
      /\ live' = live \ Freed(PoppedHandle)
      /\ ended' = [DropOutcomes(Freed(PoppedHandle)) EXCEPT ![outcome[Top]] = @ + 1]
      /\ UNCHANGED <<table, subjects, obs, state, outcome, published>>
  BY DEF ResetPanics
<1>2. /\ Top \in Slots /\ Pooled(Top)
      /\ \A s : Pooled(s)' <=> Pooled(s) /\ s # Top
  BY <1>1, PopFacts DEF Inv
<1>3. Top \in live
  BY <1>2, UsersHold DEF Inv, InvSlots
<1>4. PICK b0 \in Births : b0 = outcome[Top] /\ Holds(Top, b0)
  <2>1. outcome[Top] \in Births
    BY <1>1, <1>3 DEF Inv, InvSlots, TypeOK
  <2> QED
    BY <1>1, <2>1 DEF Holds
<1> DEFINE dropped == Freed(PoppedHandle) \cup {Top}
<1>5. dropped \in SUBSET live
  BY <1>3 DEF Freed
<1>6. PICK counted \in [Births -> Nat] :
         /\ counted = DropOutcomes(Freed(PoppedHandle))
         /\ \A b \in Births : counted[b] =
               ended[b] + IF \E s \in Freed(PoppedHandle) : Holds(s, b) THEN 1 ELSE 0
  BY <1>5, DropCount DEF Inv
<1>7. ended' = [b \in Births |-> IF b = b0 THEN counted[b] + 1 ELSE counted[b]]
  BY <1>1, <1>4, <1>6
<1>8. ended' \in [Births -> Nat]
  BY <1>7
<1>9. ASSUME NEW b \in Births
      PROVE  ended'[b] > 0 <=> ended[b] > 0 \/ \E s \in dropped : Holds(s, b)
  <2>1. ended[b] \in Nat
    BY DEF Inv, TypeOK
  <2>2. CASE b = b0
    BY <1>4, <1>7, <2>2
  <2>3. CASE b # b0
    <3>1. ~Holds(Top, b)
      BY <1>4, <2>3 DEF Holds
    <3> QED
      BY <1>6, <1>7, <2>1, <2>3, <3>1
  <2> QED
    BY <2>2, <2>3
<1>10. \A s, b : Holds(s, b)' <=> Holds(s, b)
  BY <1>1 DEF Holds
<1>11. \A s \in Slots : Reachable(s)' => Reachable(s) /\ s # Top
  <2>1. \A s, b : Uses(s, b)' <=> Uses(s, b)
    BY <1>1 DEF Uses, Retained, Observes, Exists
  <2>2. \A b \in Births : ~Uses(Top, b)
    BY <1>2 DEF Inv, InvGenerations
  <2> QED
    BY <1>2, <2>1, <2>2 DEF Reachable
<1>12. live \subseteq Slots
  BY DEF Inv, TypeOK
<1>13. \A s \in live \ dropped, b \in Births : Holds(s, b) => s \in live' /\ Holds(s, b)'
  BY <1>1, <1>10
<1>14. \A s \in live', b \in Births : Reachable(s)' /\ Holds(s, b)' =>
          s \in live /\ s \notin dropped /\ Holds(s, b) /\ Reachable(s)
  BY <1>1, <1>10, <1>11, <1>12
<1> HIDE DEF dropped
<1> QED
  BY <1>1, <1>5, <1>8, <1>9, <1>13, <1>14, DroppedUnread

\* Key code panics after reset: the popped slot is empty, entries may be lost.
LEMMA InsertPanicsUnread ==
    ASSUME Inv, NoUseAfterDrop, NEW c \in Owners, NEW k \in Keys, InsertPanics(c, k)
    PROVE  NoUseAfterDrop'
<1> DEFINE reset == {s \in Slots : pool # <<>> /\ s = Top}
           Handed(gone) == PoppedHandle \cup {<<"table", j>> : j \in gone}
<1>1. PICK gone \in SUBSET {j \in Keys : Retained(j)} :
         /\ table' = [j \in Keys |-> IF j \in gone THEN Null ELSE table[j]]
         /\ live' = live \ Freed(Handed(gone))
         /\ ended' = DropOutcomes(reset \cup Freed(Handed(gone)))
         /\ state' = [s \in Slots |-> IF s \in reset THEN {} ELSE state[s]]
  BY DEF InsertPanics
<1>2. pool' = Popped /\ UNCHANGED <<subjects, obs, outcome, published>>
  BY DEF InsertPanics
<1> DEFINE dropped == reset \cup Freed(Handed(gone))
<1>3. dropped \in SUBSET live
  <2>1. reset \subseteq live
    BY <1>2, PopFacts, UsersHold DEF Inv, InvSlots
  <2> QED
    BY <2>1 DEF Freed
<1>4. live \subseteq Slots
  BY DEF Inv, TypeOK
<1>5. \A s \in Slots : \A b : Holds(s, b)' <=> Holds(s, b) /\ s \notin reset
  BY <1>1, <1>2 DEF Holds
<1>6. \A s \in Slots : Reachable(s)' => Reachable(s)
  <2>1. \A j \in Keys : Retained(j)' => Retained(j) /\ table'[j] = table[j]
    BY <1>1 DEF Retained
  <2> QED
    BY <1>2, <2>1, PopFacts DEF Inv, Reachable, Uses, Exists, Observes
<1>7. live' = live \ Freed(Handed(gone)) /\ ended' = DropOutcomes(dropped)
  BY <1>1
<1>8. \A s \in live \ dropped, b \in Births : Holds(s, b) => s \in live' /\ Holds(s, b)'
  BY <1>4, <1>5, <1>7
<1>9. \A s \in live', b \in Births : Reachable(s)' /\ Holds(s, b)' =>
         s \in live /\ s \notin dropped /\ Holds(s, b) /\ Reachable(s)
  BY <1>4, <1>5, <1>6, <1>7
<1> HIDE DEF dropped
<1>10. /\ ended' \in [Births -> Nat]
       /\ \A b \in Births : ended'[b] =
             ended[b] + IF \E s \in dropped : Holds(s, b) THEN 1 ELSE 0
  BY <1>3, <1>7, DropCount DEF Inv
<1>11. \A b \in Births : ended'[b] > 0 <=> ended[b] > 0 \/ \E s \in dropped : Holds(s, b)
  <2>1. \A b \in Births : ended[b] \in Nat
    BY DEF Inv, TypeOK
  <2> QED
    BY <1>10, <2>1
<1> QED
  BY <1>2, <1>3, <1>8, <1>9, <1>10, <1>11, DroppedUnread

\* subject and pair: the slot obtained is empty, and what it held has ended.
LEMMA ObtainedUnread ==
    ASSUME Inv, NoUseAfterDrop, NEW s \in Slots, Obtained(s), published' = published,
           \A t \in Slots : t # s /\ Reachable(t)' => Reachable(t)
    PROVE  NoUseAfterDrop'
<1>1. /\ live' = live \cup {s} /\ state' = [state EXCEPT ![s] = {}]
      /\ \A t \in Slots : t # s => outcome'[t] = outcome[t]
      /\ ended' \in [Births -> Nat]
  BY ObtainedFacts
<1>2. live \subseteq Slots /\ state \in [Slots -> SUBSET Bits]
      /\ \A b \in Births : ended[b] \in Nat
  BY DEF Inv, TypeOK
<1>3. \A t \in Slots : \A b : Holds(t, b)' <=> Holds(t, b) /\ t # s
  BY <1>1, <1>2 DEF Holds
<1>4. PICK dropped \in SUBSET live :
         /\ dropped \subseteq {s}
         /\ s \in live => s \in dropped
         /\ \A b \in Births : ended'[b] =
               ended[b] + IF \E t \in dropped : Holds(t, b) THEN 1 ELSE 0
  <2>1. CASE s \notin live /\ UNCHANGED pool /\ NewSlot(s)
    <3>1. \A b \in Births : ended'[b] = ended[b] + IF \E t \in {} : Holds(t, b) THEN 1 ELSE 0
      BY <1>2, <2>1 DEF NewSlot
    <3> WITNESS {} \in SUBSET live
    <3> QED
      BY <2>1, <3>1
  <2>2. CASE pool # <<>> /\ s = Top /\ pool' = Popped /\ Reset(s) /\ UNCHANGED <<live, outcome>>
    <3>1. s \in live
      BY <2>2, PopFacts, UsersHold DEF Inv, InvSlots
    <3>2. {s} \in SUBSET live /\ ended' = DropOutcomes({s})
      BY <2>2, <3>1 DEF Reset
    <3>3. \A b \in Births : ended'[b] = ended[b] + IF \E t \in {s} : Holds(t, b) THEN 1 ELSE 0
      BY <3>2, DropCount DEF Inv
    <3> QED
      BY <3>2, <3>3
  <2> QED
    BY <2>1, <2>2 DEF Obtained
<1>5. \A b \in Births : ended'[b] > 0 <=> ended[b] > 0 \/ \E t \in dropped : Holds(t, b)
  BY <1>2, <1>4
<1>6. \A t \in live \ dropped, b \in Births : Holds(t, b) => t \in live' /\ Holds(t, b)'
  BY <1>1, <1>2, <1>3, <1>4
<1>7. \A t \in live', b \in Births : Reachable(t)' /\ Holds(t, b)' =>
         t \in live /\ t \notin dropped /\ Holds(t, b) /\ Reachable(t)
  BY <1>1, <1>2, <1>3, <1>4
<1> QED
  BY <1>1, <1>4, <1>5, <1>6, <1>7, DroppedUnread

\* subject: besides the slot obtained, the new entry and handle reach none that
\* was not reached before.
LEMMA CreateUnread ==
    ASSUME Inv, NoUseAfterDrop, NEW c \in Owners, NEW k \in Keys, CreateSubject(c, k)
    PROVE  NoUseAfterDrop'
<1>1. PICK s \in Slots :
         /\ Obtained(s)
         /\ NewSubject(c, k, s)
         /\ table' = [table EXCEPT ![k] = [generation |-> next_generation, slot |-> s,
                                           birth |-> births + 1]]
  BY DEF CreateSubject, Obtained, Popped
<1>2. UNCHANGED <<obs, published>>
  BY DEF CreateSubject
<1>3. ASSUME NEW t \in Slots, t # s, Reachable(t)' PROVE Reachable(t)
  <2>1. /\ table'[k].slot = s /\ \A j \in Keys : j # k => table'[j] = table[j]
    BY <1>1 DEF Inv, TypeOK
  <2>2. /\ subjects'[c].slot = s /\ \A d \in Owners : d # c => subjects'[d] = subjects[d]
    BY <1>1 DEF Inv, TypeOK, NewSubject
  <2>3. \A b : Uses(t, b)' => Uses(t, b)
    BY <1>2, <1>3, <2>1, <2>2 DEF Uses, Retained, Exists, Observes
  <2>4. Pooled(t)' => Pooled(t)
    BY <1>1, <1>2, ObtainedFacts
  <2> QED
    BY <1>3, <2>3, <2>4 DEF Reachable
<1> QED
  BY <1>1, <1>2, <1>3, ObtainedUnread

\* pair: the subject and the observation reach only the slot obtained.
LEMMA PairUnread ==
    ASSUME Inv, NoUseAfterDrop, NEW c \in Owners, NEW h \in Handles, Pair(c, h)
    PROVE  NoUseAfterDrop'
<1>1. PICK s \in Slots : Obtained(s) /\ NewSubject(c, Null, s) /\ Capture(h, s, births + 1)
  BY DEF Pair, Obtained
<1>2. UNCHANGED <<table, published>>
  BY DEF Pair
<1>3. ASSUME NEW t \in Slots, t # s, Reachable(t)' PROVE Reachable(t)
  <2>1. /\ obs'[h].slot = s /\ \A g \in Handles : g # h => obs'[g] = obs[g]
    BY <1>1 DEF Inv, TypeOK, Capture
  <2>2. /\ subjects'[c].slot = s /\ \A d \in Owners : d # c => subjects'[d] = subjects[d]
    BY <1>1 DEF Inv, TypeOK, NewSubject
  <2>3. \A b : Uses(t, b)' => Uses(t, b)
    BY <1>2, <1>3, <2>1, <2>2 DEF Uses, Retained, Exists, Observes
  <2>4. Pooled(t)' => Pooled(t)
    BY <1>1, <1>2, ObtainedFacts
  <2> QED
    BY <1>3, <2>3, <2>4 DEF Reachable
<1> QED
  BY <1>1, <1>2, <1>3, ObtainedUnread

\* The publication: the outcome that is written has not ended.
LEMMA CompleteUnread ==
    ASSUME Inv, NoUseAfterDrop, NEW c \in Owners, Complete(c)
    PROVE  NoUseAfterDrop'
<1>1. PICK s \in Slots, b \in Births :
         /\ s = subjects[c].slot /\ b = subjects[c].birth
         /\ outcome' = [outcome EXCEPT ![s] = b]
         /\ state' = [state EXCEPT ![s] = @ \cup {COMPLETED, OUTCOME_VALID}]
         /\ published' = published \cup {b}
  <2>1. subjects[c].slot \in Slots /\ subjects[c].birth \in Births
    BY FieldTypes DEF Inv, Complete
  <2> QED
    BY <2>1 DEF Complete
<1>2. /\ Exists(c) /\ subjects[c].phase = "live" /\ ~subjects[c].completed
      /\ UNCHANGED <<table, pool, obs, live, ended>>
  BY DEF Complete
<1>3. PICK p \in {"live", "drain", "dropping"} :
         subjects' = [subjects EXCEPT ![c].completed = TRUE, ![c].phase = p]
  BY DEF Complete, AfterComplete
<1>4. b \notin published /\ Uses(s, b)
  BY <1>1, <1>2 DEF Inv, InvSubjects, Uses
<1>5. s \in live
  BY <1>4, UsersHold DEF Inv, InvSlots
<1>6. ended[b] = 0
  BY <1>4 DEF NoUseAfterDrop
<1>7. /\ \A t \in Slots : \A d : t # s => (Holds(t, d)' <=> Holds(t, d))
      /\ \A d : Holds(s, d)' <=> d = b
  BY <1>1 DEF Holds, Inv, TypeOK
<1>8. ~\E d : Holds(s, d)
  BY <1>4, <1>5 DEF Inv, InvSlots, InvGenerations, Holds
<1>9. \A t \in Slots : Reachable(t)' => Reachable(t)
  <2>1. \A d \in Owners : d # c => subjects'[d] = subjects[d]
    BY <1>3 DEF Inv, TypeOK
  <2>2. subjects'[c].slot = s /\ subjects'[c].birth = b
    <3>1. subjects[c] \in Subject
      BY <1>2, FieldTypes DEF Inv
    <3>2. subjects'[c] = [[subjects[c] EXCEPT !.completed = TRUE] EXCEPT !.phase = p]
      BY <1>3 DEF Inv, TypeOK
    <3> QED
      BY <1>1, <3>1, <3>2 DEF Subject
  <2>3. \A t \in Slots, d \in Births : Uses(t, d)' => Uses(t, d)
    BY <1>2, <1>4, <2>1, <2>2 DEF Uses, Retained, Observes, Exists
  <2> QED
    BY <1>2, <2>3 DEF Reachable, Pooled
<1>10. live \subseteq Slots
  BY DEF Inv, TypeOK
<1>11. ASSUME NEW t \in live', NEW d \in Births, Reachable(t)', Holds(t, d)'
       PROVE  ended'[d] = 0
  <2>1. CASE t = s
    BY <1>2, <1>6, <1>7, <1>11, <2>1
  <2>2. CASE t # s
    BY <1>2, <1>7, <1>9, <1>10, <1>11, <2>2 DEF NoUseAfterDrop
  <2> QED
    BY <2>1, <2>2
<1>12. ASSUME NEW d \in published' PROVE ended'[d] > 0 \/ \E t \in live' : Holds(t, d)'
  <2>1. CASE d = b
    BY <1>2, <1>5, <1>7, <2>1
  <2>2. CASE d # b
    <3>1. d \in published
      BY <1>1, <2>2
    <3>2. ended[d] > 0 \/ \E t \in live : t # s /\ Holds(t, d)
      BY <1>8, <3>1 DEF NoUseAfterDrop
    <3> QED
      BY <1>2, <1>7, <1>10, <3>2
  <2> QED
    BY <2>1, <2>2
<1>13. \A d \in Births \ published' : ended'[d] = 0
  BY <1>1, <1>2 DEF NoUseAfterDrop
<1> QED
  BY <1>11, <1>12, <1>13 DEF NoUseAfterDrop

\* The drain, and a drop that unwinds from remove_if, end no outcome.
LEMMA PhaseUnread ==
    ASSUME Inv, NoUseAfterDrop, NEW c \in Owners, Drain(c) \/ RetirePanics(c)
    PROVE  NoUseAfterDrop'
<1>1. /\ Exists(c)
      /\ UNCHANGED <<table, pool, obs, live, state, outcome, published, ended>>
      /\ subjects[c].phase # "dropping"
  BY DEF Drain, RetirePanics
<1>2. PICK p \in {"live", "drain", "dropping"} : subjects' = [subjects EXCEPT ![c].phase = p]
  BY DEF Drain, RetirePanics, AfterComplete
<1>3. \A d \in Owners :
         /\ Exists(d)' <=> Exists(d)
         /\ Exists(d) => /\ subjects'[d].slot = subjects[d].slot
                         /\ subjects'[d].birth = subjects[d].birth
         /\ d # c => subjects'[d] = subjects[d]
  BY <1>1, <1>2, PhaseStep
<1>4. \A t, b : Uses(t, b)' => Uses(t, b)
  BY <1>1, <1>3 DEF Uses, Retained, Observes
<1>5. \A t : Reachable(t)' => Reachable(t)
  BY <1>1, <1>4 DEF Reachable, Pooled
<1> QED
  BY <1>1, <1>5, NoneDropped DEF Holds

\* drop: what is pushed into the pool was the subject's slot before.
LEMMA RetireUnread ==
    ASSUME Inv, NoUseAfterDrop, NEW c \in Owners, Retire(c)
    PROVE  NoUseAfterDrop'
<1>1. PICK s \in Slots, b \in Births, k \in Keys :
         s = subjects[c].slot /\ b = subjects[c].birth /\ k = subjects[c].key
  BY FieldTypes DEF Inv, Retire
<1>2. /\ Exists(c) /\ subjects[c].phase = "live"
      /\ table' = IF Removes(c) THEN [table EXCEPT ![k] = Null] ELSE table
      /\ pool' = pool \/ pool' = Append(pool, s)
      /\ IF Removes(c) THEN Release({<<"table", k>>}) ELSE UNCHANGED <<live, ended>>
      /\ UNCHANGED <<obs, state, outcome, published>>
  BY <1>1 DEF Retire
<1>3. \A d \in Owners :
         /\ Exists(d)' <=> Exists(d)
         /\ Exists(d) => /\ subjects'[d].slot = subjects[d].slot
                         /\ subjects'[d].birth = subjects[d].birth
         /\ d # c => subjects'[d] = subjects[d]
  BY PhaseStep DEF Retire
<1>4. \A j \in Keys : Retained(j)' => Retained(j) /\ table'[j] = table[j]
  BY <1>2 DEF Retained, Inv, TypeOK
<1>5. \A t, d : Uses(t, d)' => Uses(t, d)
  BY <1>2, <1>3, <1>4 DEF Uses, Observes
<1>6. \A t : Pooled(t)' => Pooled(t) \/ t = s
  <2>1. pool \in Seq(Slots)
    BY DEF Inv, TypeOK
  <2>2. CASE pool' = Append(pool, s)
    BY <2>1, <2>2 DEF Pooled
  <2> QED
    BY <1>2, <2>2 DEF Pooled
<1>7. Uses(s, b)
  BY <1>1, <1>2 DEF Uses
<1>8. \A t : Reachable(t)' => Reachable(t)
  BY <1>5, <1>6, <1>7 DEF Reachable
<1>9. CASE Removes(c)
  BY <1>2, <1>8, <1>9, ReleaseUnread
<1>10. CASE ~Removes(c)
  BY <1>2, <1>8, <1>10, NoneDropped DEF Holds
<1> QED
  BY <1>9, <1>10

\* The fields of a subject are dropped, and perhaps Inner with them.
LEMMA DropFieldsUnread ==
    ASSUME Inv, NoUseAfterDrop, NEW c \in Owners, DropFields(c)
    PROVE  NoUseAfterDrop'
<1>1. PICK kept \in BOOLEAN : ReleaseInner(kept, {<<"subject", c>>})
  BY DEF DropFields, InnerKept
<1>2. PICK gone : Release(gone)
  BY <1>1 DEF ReleaseInner
<1>3. /\ subjects' = [subjects EXCEPT ![c] = Null]
      /\ UNCHANGED <<obs, state, outcome, published>>
  BY DEF DropFields
<1>4. /\ \A k \in Keys : Retained(k)' => Retained(k) /\ table'[k] = table[k]
      /\ \A s : Pooled(s)' => Pooled(s)
  BY <1>1, InnerFacts
<1>5. \A d \in Owners : Exists(d)' => Exists(d) /\ subjects'[d] = subjects[d]
  BY <1>3 DEF Inv, TypeOK, Exists
<1>6. \A t, b : Uses(t, b)' => Uses(t, b)
  BY <1>3, <1>4, <1>5 DEF Uses, Observes
<1> QED
  BY <1>2, <1>3, <1>4, <1>6, ReleaseUnread DEF Reachable

\* The last handle of the space is dropped.
LEMMA DropSpaceUnread ==
    ASSUME Inv, NoUseAfterDrop, DropSpace
    PROVE  NoUseAfterDrop'
<1>1. PICK kept \in BOOLEAN : ReleaseInner(kept, {})
  BY DEF DropSpace, InnerKept
<1>2. PICK gone : Release(gone)
  BY <1>1 DEF ReleaseInner
<1>3. UNCHANGED <<subjects, obs, state, outcome, published>>
  BY DEF DropSpace
<1>4. /\ \A k \in Keys : Retained(k)' => Retained(k) /\ table'[k] = table[k]
      /\ \A s : Pooled(s)' => Pooled(s)
  BY <1>1, InnerFacts
<1>5. \A t, b : Uses(t, b)' => Uses(t, b)
  BY <1>3, <1>4 DEF Uses, Observes, Exists
<1> QED
  BY <1>2, <1>3, <1>4, <1>5, ReleaseUnread DEF Reachable

\* observe and clone reach what was in use.
LEMMA CaptureUnread ==
    ASSUME Inv, NoUseAfterDrop, NEW h \in Handles, NEW s \in Slots, NEW b \in Births,
           Uses(s, b), Capture(h, s, b),
           UNCHANGED <<table, pool, subjects, live, state, outcome, published, ended>>
    PROVE  NoUseAfterDrop'
<1>1. /\ obs'[h].slot = s /\ obs'[h].birth = b
      /\ \A g \in Handles : g # h => obs'[g] = obs[g]
  BY DEF Inv, TypeOK, Capture
<1>2. \A t, d : Uses(t, d)' => Uses(t, d)
  BY <1>1 DEF Uses, Retained, Exists, Observes
<1> QED
  BY <1>2, NoneDropped DEF Reachable, Pooled, Holds

\* The steps of an observation: into_outcome ends what nobody else can reach.
LEMMA ObserverUnread ==
    ASSUME Inv, NoUseAfterDrop, NEW h \in Handles, ObserverStep(h)
    PROVE  NoUseAfterDrop'
<1>1. CASE \E k \in Keys : Observe(h, k)
  <2>1. PICK k \in Keys : Observe(h, k)
    BY <1>1
  <2>2. /\ table[k].slot \in Slots /\ table[k].birth \in Births
        /\ Uses(table[k].slot, table[k].birth)
    BY <2>1, FieldTypes DEF Observe, Inv, Uses
  <2> QED
    BY <2>1, <2>2, CaptureUnread DEF Observe
<1>2. CASE \E g \in Handles : Clone(h, g)
  <2>1. PICK g \in Handles : Clone(h, g)
    BY <1>2
  <2>2. obs[h].slot \in Slots /\ obs[h].birth \in Births /\ Uses(obs[h].slot, obs[h].birth)
    BY <2>1, FieldTypes DEF Clone, Usable, Inv, Uses
  <2> QED
    BY <2>1, <2>2, CaptureUnread DEF Clone
<1>3. CASE DropObservation(h)
  <2>1. \A g \in Handles : Observes(g)' => Observes(g) /\ obs'[g] = obs[g]
    BY <1>3 DEF DropObservation, Observes, Inv, TypeOK
  <2>2. \A t, d : Uses(t, d)' => Uses(t, d)
    BY <1>3, <2>1 DEF DropObservation, Uses, Retained, Exists
  <2> QED
    BY <1>3, <2>2, ReleaseUnread DEF DropObservation, Reachable, Pooled
<1>4. CASE RegisterWaker(h)
  <2>1. obs[h].slot \in Slots
    BY <1>4, FieldTypes DEF RegisterWaker, Usable, Inv
  <2>2. \A t \in Slots : OUTCOME_VALID \in state'[t] <=> OUTCOME_VALID \in state[t]
    BY <1>4, <2>1 DEF RegisterWaker, Inv, TypeOK, OUTCOME_VALID, HAS_WAITER
  <2>3. \A t, d : Uses(t, d)' <=> Uses(t, d)
    BY <1>4 DEF RegisterWaker, Uses, Retained, Exists, Observes
  <2>4. live \subseteq Slots
    BY DEF Inv, TypeOK
  <2>5. \A t \in live, d \in Births : Holds(t, d)' <=> Holds(t, d)
    BY <1>4, <2>2, <2>4 DEF RegisterWaker, Holds
  <2>6. \A t : Reachable(t)' => Reachable(t)
    BY <1>4, <2>3 DEF RegisterWaker, Reachable, Pooled
  <2> QED
    BY <1>4, <2>5, <2>6, NoneDropped DEF RegisterWaker
<1>5. CASE IntoOutcomeRefused(h)
  <2>1. obs[h] \in Observation
    BY <1>5, FieldTypes DEF IntoOutcomeRefused, Usable, Inv
  <2>2. \A g \in Handles : Observes(g)' => /\ Observes(g) /\ obs'[g].slot = obs[g].slot
                                           /\ obs'[g].birth = obs[g].birth
    BY <1>5, <2>1 DEF IntoOutcomeRefused, Usable, Observes, Observation, Inv, TypeOK
  <2>3. \A t, d : Uses(t, d)' => Uses(t, d)
    BY <1>5, <2>2 DEF IntoOutcomeRefused, Uses, Retained, Exists
  <2>4. UNCHANGED <<pool, live, state, outcome, published, ended>>
    BY <1>5 DEF IntoOutcomeRefused
  <2> QED
    BY <2>3, <2>4, NoneDropped DEF Reachable, Pooled, Holds
<1>6. CASE IntoOutcome(h)
  <2>1. PICK s \in Slots : s = obs[h].slot /\ Observes(h)
    BY <1>6, FieldTypes DEF Inv, IntoOutcome, Usable
  <2>2. s \in live
    BY <2>1, HandleFacts DEF Inv, InvSlots, HandlesAre
  <2>3. /\ live' = live \ {s}
        /\ UNCHANGED <<table, pool, subjects, outcome, published>>
        /\ obs' = [obs EXCEPT ![h] = Null]
    BY <1>6, <2>1 DEF IntoOutcome
  <2>4. state' = [state EXCEPT ![s] = MarkTaken(@)] \/ state' = state
    BY <1>6, <2>1 DEF IntoOutcome
  <2>5. \A t \in Slots : t # s => state'[t] = state[t]
    BY <2>4 DEF Inv, TypeOK
  <2>6. /\ ended' \in [Births -> Nat]
        /\ \A b \in Births : ended'[b] = IF Holds(s, b) THEN ended[b] + 1 ELSE ended[b]
    <3>1. CASE COMPLETED \in state[s]
      <4>1. OUTCOME_VALID \in state[s] /\ outcome[s] \in Births
        BY <2>2, <3>1 DEF Inv, InvSlots, TypeOK
      <4>2. ended' = [ended EXCEPT ![outcome[s]] = @ + 1]
        BY <1>6, <2>1, <3>1 DEF IntoOutcome, MarkTaken
      <4> QED
        BY <4>1, <4>2 DEF Holds, Inv, TypeOK
    <3>2. CASE COMPLETED \notin state[s]
      BY <1>6, <2>1, <2>2, <3>2 DEF IntoOutcome, Holds, Inv, InvSlots, TypeOK
    <3> QED
      BY <3>1, <3>2
  <2>7. \A b \in Births : ended'[b] > 0 <=> ended[b] > 0 \/ \E t \in {s} : Holds(t, b)
    <3>1. \A b \in Births : ended[b] \in Nat
      BY DEF Inv, TypeOK
    <3> QED
      BY <2>6, <3>1
  <2>8. \A g \in Handles : Observes(g)' => Observes(g) /\ obs'[g] = obs[g]
    BY <2>3 DEF Observes, Inv, TypeOK
  <2>9. \A t, d : Uses(t, d)' => Uses(t, d)
    BY <2>3, <2>8 DEF Uses, Retained, Exists
  <2>10. \A t : Reachable(t)' => Reachable(t)
    BY <2>3, <2>9 DEF Reachable, Pooled
  <2>11. live \subseteq Slots
    BY DEF Inv, TypeOK
  <2>12. \A t \in live \ {s}, b \in Births : Holds(t, b)' <=> Holds(t, b)
    BY <2>3, <2>5, <2>11 DEF Holds
  <2> QED
    BY <2>2, <2>3, <2>6, <2>7, <2>10, <2>12, DroppedUnread
<1> QED
  BY <1>1, <1>2, <1>3, <1>4, <1>5, <1>6 DEF ObserverStep

\* An outcome that somebody can still read, or that the pool will hand to reset,
\* has not been dropped or moved out, and none is leaked, also when the drop of
\* an outcome panics inside reset and when key code panics.
THEOREM NothingUsedAfterDrop == Spec => []NoUseAfterDrop
<1>1. Init => NoUseAfterDrop
  BY DEF Init, NoUseAfterDrop
<1>2. Inv /\ NoUseAfterDrop /\ [Next]_vars => NoUseAfterDrop'
  <2> SUFFICES ASSUME Inv, NoUseAfterDrop, [Next]_vars PROVE NoUseAfterDrop'
    OBVIOUS
  <2>1. ASSUME NEW c \in Owners, OwnerStep(c) PROVE NoUseAfterDrop'
    <3>1. CASE \E k \in Keys : CreateSubject(c, k) \/ GenerationExhausted(c, k)
                               \/ ResetPanics(c, k) \/ InsertPanics(c, k)
      BY <3>1, CreateUnread, PopUnread, ResetPanicsUnread, InsertPanicsUnread
    <3>2. CASE \E h \in Handles : Pair(c, h)
      BY <3>2, PairUnread
    <3>3. CASE VacancyPanics(c)
      BY <3>3, PopUnread DEF VacancyPanics
    <3>4. CASE Complete(c) \/ Drain(c) \/ Retire(c) \/ RetirePanics(c) \/ DropFields(c)
      BY <3>4, CompleteUnread, PhaseUnread, RetireUnread, DropFieldsUnread
    <3> QED
      BY <2>1, <3>1, <3>2, <3>3, <3>4 DEF OwnerStep
  <2>2. CASE UNCHANGED vars
    <3>1. \A t, b : Uses(t, b)' <=> Uses(t, b)
      BY <2>2 DEF vars, Uses, Retained, Exists, Observes
    <3> QED
      BY <2>2, <3>1 DEF vars, NoUseAfterDrop, Reachable, Pooled, Holds
  <2> QED
    BY <2>1, <2>2, ObserverUnread, DropSpaceUnread DEF Next
<1> QED
  BY <1>1, <1>2, Invariance, PTL DEF Spec

-------------------------------------------------------------------------------
(***************************************************************************)
(* The space implements Namespace.                                         *)
(***************************************************************************)

\* What clients see, without slots.
CurrentView  == [k \in Keys |-> BirthOrZero(table[k])]
CapturedView == [h \in Handles |-> BirthOrZero(obs[h])]
AnswerView   == [h \in Handles |-> IF Observes(h) /\ COMPLETED \in state[obs[h].slot]
                                   THEN outcome[obs[h].slot] ELSE 0]

\* A changed view that is a step of Namespace: a subject is created, ...
LEMMA NamesCreate ==
    ASSUME NEW k \in Keys, CurrentView[k] = 0, births' = births + 1,
           CurrentView' = [CurrentView EXCEPT ![k] = births + 1],
           UNCHANGED <<published, CapturedView, AnswerView>>
    PROVE  Names!Next
<1>1. Names!Create(k)
  BY DEF Names!Create, CurrentView, CapturedView, AnswerView
<1> QED
  BY <1>1 DEF Names!Next

\* ... a pair is made, ...
LEMMA NamesPair ==
    ASSUME NEW h \in Handles, CapturedView[h] = 0, births' = births + 1,
           CapturedView' = [CapturedView EXCEPT ![h] = births + 1],
           UNCHANGED <<CurrentView, published, AnswerView>>
    PROVE  Names!Next
<1>1. Names!Pair(h)
  BY DEF Names!Pair, CurrentView, CapturedView, AnswerView
<1> QED
  BY <1>1 DEF Names!Next

\* ... an outcome is published, ...
LEMMA NamesPublish ==
    ASSUME NEW b \in Births, b <= births, b \notin published, published' = published \cup {b},
           AnswerView' = [h \in Handles |-> IF CapturedView[h] = b THEN b ELSE AnswerView[h]],
           UNCHANGED <<births, CurrentView, CapturedView>>
    PROVE  Names!Next
<1>1. Names!Publish(b)
  BY DEF Names!Publish, CurrentView, CapturedView, AnswerView
<1> QED
  BY <1>1 DEF Names!Next, Births

\* ... a key becomes vacant, ...
LEMMA NamesRetire ==
    ASSUME NEW k \in Keys, CurrentView' = [CurrentView EXCEPT ![k] = 0],
           UNCHANGED <<births, published, CapturedView, AnswerView>>
    PROVE  Names!Next
<1>1. Names!Retire(k)
  BY DEF Names!Retire, CurrentView, CapturedView, AnswerView
<1> QED
  BY <1>1 DEF Names!Next

\* ... key code panics and entries are lost, ...
LEMMA NamesLose ==
    ASSUME KeyPanics, NEW gone \in SUBSET Keys,
           CurrentView' = [k \in Keys |-> IF k \in gone THEN 0 ELSE CurrentView[k]],
           UNCHANGED <<births, published, CapturedView, AnswerView>>
    PROVE  Names!Next
<1>1. Names!Lose(gone)
  BY DEF Names!Lose, CurrentView, CapturedView, AnswerView
<1> QED
  BY <1>1 DEF Names!Next

\* ... an observation captures what a key or another observation has, ...
LEMMA NamesCapture ==
    ASSUME NEW h \in Handles, NEW b,
           (\E k \in Keys : b = CurrentView[k]) \/ (\E g \in Handles : b = CapturedView[g]),
           CapturedView[h] = 0, b # 0, CapturedView' = [CapturedView EXCEPT ![h] = b],
           AnswerView' = [AnswerView EXCEPT ![h] = IF b \in published THEN b ELSE 0],
           UNCHANGED <<births, CurrentView, published>>
    PROVE  Names!Next
<1>1. CASE \E k \in Keys : b = CurrentView[k]
  <2>1. PICK k \in Keys : b = CurrentView[k]
    BY <1>1
  <2>2. Names!Capture(h, [j \in Keys |-> BirthOrZero(table[j])][k])
    BY <2>1 DEF Names!Capture, Names!Known, CurrentView, CapturedView, AnswerView
  <2> QED
    BY <2>2 DEF Names!Next, Names!Capture, Names!Known
<1>2. CASE \E g \in Handles : b = CapturedView[g]
  <2>1. PICK g \in Handles : b = CapturedView[g]
    BY <1>2
  <2>2. Names!Capture(h, [f \in Handles |-> BirthOrZero(obs[f])][g])
    BY <2>1 DEF Names!Capture, Names!Known, CurrentView, CapturedView, AnswerView
  <2> QED
    BY <2>2 DEF Names!Next, Names!Capture, Names!Known
<1> QED
  BY <1>1, <1>2

\* ... or is dropped.
LEMMA NamesForget ==
    ASSUME NEW h \in Handles, CapturedView' = [CapturedView EXCEPT ![h] = 0],
           AnswerView' = [AnswerView EXCEPT ![h] = 0],
           UNCHANGED <<births, CurrentView, published>>
    PROVE  Names!Next
<1>1. Names!Forget(h)
  BY DEF Names!Forget, CurrentView, CapturedView, AnswerView
<1> QED
  BY <1>1 DEF Names!Next

\* By isolation, what an observation answers depends only on what it captured.
Answers == \A h \in Handles :
    AnswerView[h] = IF CapturedView[h] \in published THEN CapturedView[h] ELSE 0

Captures == \A h \in Handles :
    /\ CapturedView[h] = IF Observes(h) THEN obs[h].birth ELSE 0
    /\ Observes(h) => CapturedView[h] \in Births

Currents == \A k \in Keys :
    /\ CurrentView[k] = IF Retained(k) THEN table[k].birth ELSE 0
    /\ Retained(k) => CurrentView[k] \in Births

\* The three parts of the view in every reachable state,
LEMMA ViewFacts == Inv => Answers /\ Captures /\ Currents /\ 0 \notin published
<1> SUFFICES ASSUME Inv PROVE Answers /\ Captures /\ Currents /\ 0 \notin published
  OBVIOUS
<1>1. \A k \in Keys : /\ CurrentView[k] = IF Retained(k) THEN table[k].birth ELSE 0
                      /\ Retained(k) => CurrentView[k] \in Births
  BY FieldTypes DEF Inv, CurrentView, BirthOrZero, Retained
<1>2. \A h \in Handles : /\ CapturedView[h] = IF Observes(h) THEN obs[h].birth ELSE 0
                         /\ Observes(h) => CapturedView[h] \in Births
  BY FieldTypes DEF Inv, CapturedView, BirthOrZero, Observes
<1>3. 0 \notin published
  BY FieldTypes DEF Inv, TypeOK
<1>4. ASSUME NEW h \in Handles
      PROVE  AnswerView[h] = IF CapturedView[h] \in published THEN CapturedView[h] ELSE 0
  <2>1. AnswerView[h] = IF Observes(h) /\ COMPLETED \in state[obs[h].slot]
                        THEN outcome[obs[h].slot] ELSE 0
    BY DEF AnswerView
  <2>2. CASE Observes(h)
    <3>1. /\ obs[h].slot \in Slots /\ obs[h].birth \in Births
          /\ Uses(obs[h].slot, obs[h].birth)
      BY <2>2, FieldTypes DEF Inv, Uses
    <3>2. /\ COMPLETED \in state[obs[h].slot] <=> obs[h].birth \in published
          /\ COMPLETED \in state[obs[h].slot] => outcome[obs[h].slot] = obs[h].birth
      BY <3>1 DEF Inv, InvGenerations
    <3> QED
      BY <1>2, <2>1, <2>2, <3>2
  <2>3. CASE ~Observes(h)
    BY <1>2, <1>3, <2>1, <2>3
  <2> QED
    BY <2>2, <2>3
<1> QED
  BY <1>1, <1>2, <1>3, <1>4 DEF Answers, Captures, Currents

\* and in the next one.
LEMMA ViewFactsPrimed ==
    Inv' => Answers' /\ Captures' /\ Currents' /\ ~(0 \in published)'
<1>1. Inv => Answers /\ Captures /\ Currents /\ ~(0 \in published)
  BY ViewFacts
<1> QED
  BY <1>1, PTL

\* An unchanged view of generations leaves every answer as it is.
LEMMA SameAnswers ==
    ASSUME Answers, Answers', UNCHANGED <<CapturedView, published>>
    PROVE  UNCHANGED AnswerView
<1>1. \A h \in Handles : AnswerView'[h] = AnswerView[h]
  BY DEF Answers
<1> QED
  BY <1>1 DEF AnswerView

\* Nothing that a client sees changes.
LEMMA SameViews ==
    ASSUME Answers, Answers', UNCHANGED <<births, CurrentView, CapturedView, published>>
    PROVE  UNCHANGED (Names!vars)
<1>1. UNCHANGED AnswerView
  BY SameAnswers
<1> QED
  BY <1>1 DEF Names!vars, CurrentView, CapturedView, AnswerView

\* The table may be dropped with Inner because nobody's entry is in it, except
\* for those that key code left behind.
LEMMA TableIsEmpty ==
    ASSUME Inv, ~KeyPanics,
           \A d \in Owners : Exists(d) /\ subjects[d].phase # "dropping" => subjects[d].key = Null,
           NEW k \in Keys
    PROVE  ~Retained(k)
<1>1. SUFFICES ASSUME Retained(k) PROVE FALSE
  OBVIOUS
<1>2. PICK d \in Owners : /\ Exists(d) /\ subjects[d].phase # "dropping"
                          /\ subjects[d].birth = table[k].birth
  BY <1>1 DEF Inv, EntryOfSubject, InvFaults
<1>3. subjects[d].key = k
  BY <1>1, <1>2 DEF Inv, InvSubjects
<1> QED
  BY <1>2, <1>3, SpaceAssumption

\* Dropping Inner, or keeping it: no generation, or lost ones.
LEMMA InnerRefines ==
    ASSUME Inv, Inv', NEW kept \in BOOLEAN, NEW gone, ReleaseInner(kept, gone),
           UNCHANGED <<births, obs, published>>,
           ~kept => \A d \in Owners :
              Exists(d) /\ subjects[d].phase # "dropping" => subjects[d].key = Null
    PROVE  [Names!Next]_(Names!vars)
<1>1. Answers /\ Answers'
  BY ViewFacts, ViewFactsPrimed
<1>2. UNCHANGED <<CapturedView, AnswerView>>
  <2>1. UNCHANGED CapturedView
    BY DEF CapturedView, BirthOrZero
  <2> QED
    BY <1>1, <2>1, SameAnswers
<1>3. CASE kept
  <2>1. UNCHANGED CurrentView
    BY <1>3 DEF ReleaseInner, CurrentView, BirthOrZero
  <2> QED
    BY <1>1, <1>2, <2>1, SameViews
<1>4. CASE ~kept
  <2>1. CurrentView' = [k \in Keys |-> 0]
    BY <1>4 DEF ReleaseInner, CurrentView, BirthOrZero
  <2>2. CASE KeyPanics
    <3>1. CurrentView' = [k \in Keys |-> IF k \in Keys THEN 0 ELSE CurrentView[k]]
      BY <2>1
    <3> QED
      BY <1>2, <2>2, <3>1, NamesLose
  <2>3. CASE ~KeyPanics
    <3>1. \A k \in Keys : ~Retained(k)
      BY <1>4, <2>3, TableIsEmpty
    <3>2. UNCHANGED CurrentView
      BY <2>1, <3>1 DEF CurrentView, BirthOrZero, Retained
    <3> QED
      BY <1>1, <1>2, <3>2, SameViews
  <2> QED
    BY <2>2, <2>3
<1> QED
  BY <1>3, <1>4

\* Every step is a step of Namespace, or changes nothing that clients see.
LEMMA StepRefines ==
    ASSUME Inv, Inv', [Next]_vars
    PROVE  [Names!Next]_(Names!vars)
<1> USE ViewFacts, ViewFactsPrimed
<1>1. ASSUME UNCHANGED <<births, table, obs, published>>
      PROVE  UNCHANGED (Names!vars)
  <2>1. UNCHANGED <<CurrentView, CapturedView>>
    BY <1>1 DEF CurrentView, CapturedView
  <2> QED
    BY <1>1, <2>1, SameViews
<1>2. ASSUME UNCHANGED <<obs, published>>
      PROVE  UNCHANGED <<CapturedView, AnswerView>>
  <2>1. UNCHANGED CapturedView
    BY <1>2 DEF CapturedView
  <2> QED
    BY <1>2, <2>1, SameAnswers
<1>3. ASSUME NEW c \in Owners, NEW k \in Keys, CreateSubject(c, k)
      PROVE  Names!Next
  <2>1. CurrentView[k] = 0
    BY <1>3 DEF CreateSubject, Vacant, Currents
  <2>2. births' = births + 1 /\ UNCHANGED <<obs, published>>
    BY <1>3 DEF CreateSubject, NewSubject
  <2>3. CurrentView' = [CurrentView EXCEPT ![k] = births + 1]
    <3>1. /\ Retained(k)' /\ table'[k].birth = births + 1
          /\ \A j \in Keys : j # k => table'[j] = table[j]
      <4>1. PICK s \in Slots : table' = [table EXCEPT ![k] =
                  [generation |-> next_generation, slot |-> s, birth |-> births + 1]]
        BY <1>3 DEF CreateSubject
      <4>2. births + 1 \in Births /\ next_generation \in 0 .. MaxGen
        BY <1>3, SpaceAssumption DEF CreateSubject, MayCreate, Inv, TypeOK, Births
      <4> QED
        BY <4>1, <4>2, NullAssumption DEF Inv, TypeOK, SlotEntry, Retained
    <3>2. \A j \in Keys : CurrentView'[j] = IF j = k THEN births + 1 ELSE CurrentView[j]
      BY <3>1 DEF Currents, Retained
    <3> QED
      BY <3>2 DEF CurrentView
  <2> QED
    BY <1>2, <2>1, <2>2, <2>3, NamesCreate
<1>4. ASSUME NEW c \in Owners, NEW k \in Keys, InsertPanics(c, k)
      PROVE  Names!Next
  <2>1. PICK gone \in SUBSET Keys :
           table' = [j \in Keys |-> IF j \in gone THEN Null ELSE table[j]]
    BY <1>4 DEF InsertPanics
  <2>2. KeyPanics /\ UNCHANGED <<births, obs, published>>
    BY <1>4 DEF InsertPanics
  <2>3. CurrentView' = [j \in Keys |-> IF j \in gone THEN 0 ELSE CurrentView[j]]
    BY <2>1 DEF CurrentView, BirthOrZero
  <2> QED
    BY <1>2, <2>2, <2>3, NamesLose
<1>5. ASSUME NEW c \in Owners, NEW h \in Handles, Pair(c, h)
      PROVE  Names!Next
  <2>1. /\ births' = births + 1 /\ births + 1 \in Births /\ births + 1 \notin published
        /\ UNCHANGED <<table, published>>
    BY <1>5, SpaceAssumption
       DEF Pair, NewSubject, MayCreate, Inv, TypeOK, InvGenerations, Births
  <2>2. PICK s \in Slots : /\ ~Observes(h)
                           /\ obs' = [obs EXCEPT ![h] = [slot |-> s, birth |-> births + 1,
                                                         phase |-> "live"]]
    BY <1>5 DEF Pair, Capture
  <2>3. /\ Observes(h)' /\ obs'[h].birth = births + 1
        /\ \A g \in Handles : g # h => obs'[g] = obs[g]
    BY <2>1, <2>2, NullAssumption DEF Inv, TypeOK, Observation, Observes
  <2>4. CapturedView[h] = 0
    BY <2>2 DEF Captures
  <2>5. \A g \in Handles : CapturedView'[g] = IF g = h THEN births + 1 ELSE CapturedView[g]
    BY <2>3 DEF Captures, Observes
  <2>6. CapturedView' = [CapturedView EXCEPT ![h] = births + 1]
    BY <2>5 DEF CapturedView
  <2>7. \A g \in Handles : AnswerView'[g] = AnswerView[g]
    BY <2>1, <2>4, <2>5 DEF Answers
  <2>8. UNCHANGED <<AnswerView, CurrentView>>
    BY <2>1, <2>7 DEF AnswerView, CurrentView
  <2> QED
    BY <2>1, <2>4, <2>6, <2>8, NamesPair
<1>6. ASSUME NEW c \in Owners, Complete(c)
      PROVE  Names!Next
  <2>1. PICK b \in Births : b = subjects[c].birth /\ published' = published \cup {b}
    BY <1>6, FieldTypes DEF Complete, Inv
  <2>2. b <= births /\ b \notin published /\ UNCHANGED <<births, table, obs>>
    BY <1>6, <2>1 DEF Complete, Inv, InvSubjects
  <2>3. UNCHANGED <<CurrentView, CapturedView>>
    BY <2>2 DEF CurrentView, CapturedView
  <2>4. \A h \in Handles : AnswerView'[h] = IF CapturedView[h] = b THEN b ELSE AnswerView[h]
    BY <2>1, <2>3 DEF Answers
  <2>5. AnswerView' = [h \in Handles |-> IF CapturedView[h] = b THEN b ELSE AnswerView[h]]
    BY <2>4 DEF AnswerView
  <2> QED
    BY <2>1, <2>2, <2>3, <2>5, NamesPublish
<1>7. ASSUME NEW c \in Owners, Retire(c)
      PROVE  [Names!Next]_(Names!vars)
  <2>1. CASE Removes(c)
    <3>1. PICK k \in Keys : table' = [table EXCEPT ![k] = Null]
      BY <1>7, <2>1, FieldTypes DEF Retire, Inv
    <3>2. UNCHANGED <<births, obs, published>>
      BY <1>7 DEF Retire
    <3>3. \A j \in Keys : CurrentView'[j] = IF j = k THEN 0 ELSE CurrentView[j]
      BY <3>1 DEF Currents, Retained, Inv, TypeOK
    <3>4. CurrentView' = [CurrentView EXCEPT ![k] = 0]
      BY <3>3 DEF CurrentView
    <3> QED
      BY <1>2, <3>2, <3>4, NamesRetire
  <2>2. CASE ~Removes(c)
    BY <1>1, <1>7, <2>2 DEF Retire
  <2> QED
    BY <2>1, <2>2
<1>8. ASSUME NEW c \in Owners, DropFields(c)
      PROVE  [Names!Next]_(Names!vars)
  <2>1. PICK kept \in BOOLEAN : /\ kept = (subjects[c].key = Null \/ InnerKept(open, c))
                                /\ ReleaseInner(kept, {<<"subject", c>>})
    BY <1>8 DEF DropFields
  <2>2. ASSUME ~kept, NEW d \in Owners, Exists(d), subjects[d].phase # "dropping"
        PROVE  subjects[d].key = Null
    BY <1>8, <2>1, <2>2 DEF DropFields, InnerKept
  <2>3. UNCHANGED <<births, obs, published>>
    BY <1>8 DEF DropFields
  <2> QED
    BY <2>1, <2>2, <2>3, InnerRefines
<1>9. CASE DropSpace
  <2>1. PICK kept \in BOOLEAN : kept = InnerKept(FALSE, Null) /\ ReleaseInner(kept, {})
    BY <1>9 DEF DropSpace, InnerKept
  <2>2. ASSUME ~kept, NEW d \in Owners, Exists(d), subjects[d].phase # "dropping"
        PROVE  subjects[d].key = Null
    BY <2>1, <2>2, SpaceAssumption DEF InnerKept
  <2>3. UNCHANGED <<births, obs, published>>
    BY <1>9 DEF DropSpace
  <2> QED
    BY <2>1, <2>2, <2>3, InnerRefines
<1>10. ASSUME NEW h \in Handles, NEW s \in Slots, NEW b \in Births, Capture(h, s, b),
              (\E k \in Keys : b = CurrentView[k]) \/ (\E g \in Handles : b = CapturedView[g]),
              UNCHANGED <<births, table, published>>
       PROVE  Names!Next
  <2>1. /\ Observes(h)' /\ obs'[h].birth = b /\ ~Observes(h)
        /\ \A g \in Handles : g # h => obs'[g] = obs[g]
    BY <1>10, NullAssumption DEF Capture, Inv, TypeOK, Observation, Observes
  <2>2. CapturedView[h] = 0 /\ b # 0
    BY <2>1, FieldTypes DEF Captures, Inv
  <2>3. \A g \in Handles : CapturedView'[g] = IF g = h THEN b ELSE CapturedView[g]
    BY <2>1 DEF Captures, Observes
  <2>4. CapturedView' = [CapturedView EXCEPT ![h] = b] /\ UNCHANGED CurrentView
    BY <1>10, <2>3 DEF CapturedView, CurrentView
  <2>5. \A g \in Handles : AnswerView'[g] = IF g # h THEN AnswerView[g]
                                            ELSE IF b \in published THEN b ELSE 0
    BY <1>10, <2>3 DEF Answers
  <2>6. AnswerView' = [AnswerView EXCEPT ![h] = IF b \in published THEN b ELSE 0]
    BY <2>5 DEF AnswerView
  <2> QED
    BY <1>10, <2>2, <2>4, <2>6, NamesCapture
<1>11. ASSUME NEW h \in Handles, NEW k \in Keys, Observe(h, k)
       PROVE  Names!Next
  <2>1. PICK s \in Slots, b \in Births : Capture(h, s, b) /\ b = CurrentView[k]
    BY <1>11, FieldTypes DEF Observe, Inv, Currents
  <2>2. UNCHANGED <<births, table, published>>
    BY <1>11 DEF Observe
  <2> QED
    BY <1>10, <2>1, <2>2
<1>12. ASSUME NEW h \in Handles, NEW g \in Handles, Clone(h, g)
       PROVE  Names!Next
  <2>1. PICK s \in Slots, b \in Births : Capture(g, s, b) /\ b = CapturedView[h]
    BY <1>12, FieldTypes DEF Clone, Usable, Inv, Captures
  <2>2. UNCHANGED <<births, table, published>>
    BY <1>12 DEF Clone
  <2> QED
    BY <1>10, <2>1, <2>2
<1>13. ASSUME NEW h \in Handles, DropObservation(h) \/ IntoOutcome(h)
       PROVE  Names!Next
  <2>1. obs' = [obs EXCEPT ![h] = Null] /\ UNCHANGED <<births, table, published>>
    BY <1>13 DEF DropObservation, IntoOutcome
  <2>2. \A g \in Handles : CapturedView'[g] = IF g = h THEN 0 ELSE CapturedView[g]
    BY <2>1 DEF Captures, Observes, Inv, TypeOK
  <2>3. CapturedView' = [CapturedView EXCEPT ![h] = 0] /\ UNCHANGED CurrentView
    BY <2>1, <2>2 DEF CapturedView, CurrentView
  <2>4. \A g \in Handles : AnswerView'[g] = IF g = h THEN 0 ELSE AnswerView[g]
    BY <2>1, <2>2 DEF Answers
  <2>5. AnswerView' = [AnswerView EXCEPT ![h] = 0]
    BY <2>4 DEF AnswerView
  <2> QED
    BY <2>1, <2>3, <2>5, NamesForget
<1>14. ASSUME NEW h \in Handles, IntoOutcomeRefused(h)
       PROVE  UNCHANGED (Names!vars)
  <2>1. PICK p \in {"refused", "stranger"} : obs' = [obs EXCEPT ![h].phase = p]
    BY <1>14 DEF IntoOutcomeRefused
  <2>2. Observes(h) /\ obs[h] \in Observation /\ UNCHANGED <<births, table, published>>
    BY <1>14, FieldTypes DEF IntoOutcomeRefused, Usable, Inv
  <2>3. obs'[h].birth = obs[h].birth /\ \A g \in Handles : g # h => obs'[g] = obs[g]
    BY <2>1, <2>2 DEF Inv, TypeOK, Observation
  <2>4. obs'[h] # Null
    <3>1. obs'[h] = [obs[h] EXCEPT !.phase = p]
      BY <2>1 DEF Inv, TypeOK
    <3>2. obs'[h] \in Observation
      BY <2>2, <3>1 DEF Observation
    <3> QED
      BY <3>2, NullAssumption
  <2>5. \A g \in Handles : CapturedView'[g] = CapturedView[g]
    BY <2>2, <2>3, <2>4 DEF Captures, Observes
  <2>6. UNCHANGED <<CapturedView, CurrentView>>
    BY <2>2, <2>5 DEF CapturedView, CurrentView
  <2> QED
    BY <2>2, <2>6, SameViews
<1> HIDE ViewFacts, ViewFactsPrimed
<1>15. ASSUME NEW c \in Owners, OwnerStep(c) PROVE [Names!Next]_(Names!vars)
  <2>1. CASE \E k \in Keys : GenerationExhausted(c, k) \/ ResetPanics(c, k)
    BY <1>1, <2>1 DEF GenerationExhausted, ResetPanics
  <2>2. CASE VacancyPanics(c) \/ Drain(c) \/ RetirePanics(c)
    BY <1>1, <2>2 DEF VacancyPanics, Drain, RetirePanics
  <2> QED
    BY <1>3, <1>4, <1>5, <1>6, <1>7, <1>8, <1>15, <2>1, <2>2 DEF OwnerStep
<1>16. ASSUME NEW h \in Handles, ObserverStep(h) PROVE [Names!Next]_(Names!vars)
  <2>1. CASE RegisterWaker(h)
    BY <1>1, <2>1 DEF RegisterWaker
  <2> QED
    BY <1>11, <1>12, <1>13, <1>14, <1>16, <2>1 DEF ObserverStep
<1>17. CASE UNCHANGED vars
  BY <1>1, <1>17 DEF vars
<1> QED
  BY <1>9, <1>15, <1>16, <1>17 DEF Next

\* The space implements Namespace: recycling is invisible to clients, for any
\* number of keys, owners and observations and any size of the pool.
THEOREM Refinement == Spec => ImplementsNamespace
<1>1. Init => Names!Init
  BY DEF Init, Names!Init, BirthOrZero, Observes
<1>2. Inv /\ Inv' /\ [Next]_vars => [Names!Next]_(Names!vars)
  BY StepRefines
<1> QED
  BY <1>1, <1>2, Invariance, PTL DEF Spec, ImplementsNamespace, Names!Spec

===============================================================================
