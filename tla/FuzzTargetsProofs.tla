--------------------------- MODULE FuzzTargetsProofs ---------------------------
(***************************************************************************)
(* Proofs about FuzzTargets: the assertions of the fuzz targets hold after *)
(* every input, of any length, over any finite set of keys.                *)
(*                                                                         *)
(* A step of a target is a step of the namespace, or one of the shadow     *)
(* alone, so the invariant of ObservationSpace holds throughout.  On top   *)
(* of it ShadowInv says what the shadow has to do with the namespace:      *)
(* births and tags are in bijection, and through it the shadow's maps are  *)
(* what the namespace published, dropped and woke.  The four oracles       *)
(* follow from the two invariants in the states between operations.        *)
(***************************************************************************)
EXTENDS FuzzTargets, ObservationSpaceProofs

\* What ShadowTypes says of the elements of the shadow's sequences.
LEMMA ShadowFields ==
    ASSUME ShadowTypes
    PROVE  /\ Len(observations) \in Nat /\ Len(tags) \in Nat
           /\ \A i \in 1 .. Len(observations) :
                 /\ observations[i] \in Item
                 /\ observations[i].handle \in Handles /\ observations[i].tag \in Tag
           /\ \A b \in 1 .. Len(tags) :
                 /\ tags[b] \in Tag /\ tags[b][1] \in Nat /\ tags[b][2] \in Keys
                 /\ tags[b] = <<tags[b][1], tags[b][2]>>
           /\ \A k \in Keys : epochs[k] \in Nat
<1>1. \A i \in 1 .. Len(observations) : observations[i] \in Item
  BY ElementOfSeq DEF ShadowTypes
<1>2. \A b \in 1 .. Len(tags) : tags[b] \in Tag
  BY ElementOfSeq DEF ShadowTypes
<1>3. \A x \in Tag : x[1] \in Nat /\ x[2] \in Keys /\ x = <<x[1], x[2]>>
  BY DEF Tag
<1>4. \A x \in Item : x.handle \in Handles /\ x.tag \in Tag
  BY DEF Item
<1> QED
  BY <1>1, <1>2, <1>3, <1>4 DEF ShadowTypes

\* The ends of the Vec.
LEMMA VecEnds ==
    ASSUME ShadowTypes, observations # <<>>
    PROVE  /\ Len(observations) \in Nat \ {0}
           /\ Newest = observations[Len(observations)]
           /\ Head(observations) = observations[1]
           /\ Newest.handle \in Handles /\ Head(observations).handle \in Handles
<1>1. Len(observations) \in Nat \ {0}
  BY DEF ShadowTypes
<1>2. Newest = observations[Len(observations)]
  BY DEF Newest, Last
<1>3. Head(observations) = observations[1]
  BY DEF ShadowTypes
<1> QED
  BY <1>1, <1>2, <1>3, ShadowFields

\* A birth that is in use has a tag.
LEMMA BirthsHaveTags ==
    ASSUME Inv
    PROVE  /\ births \in Nat /\ published \subseteq 1 .. births
           /\ \A k \in Keys : Exists(k) => subjects[k].birth \in 1 .. births
           /\ \A h \in Handles : Observes(h) => obs[h].birth \in 1 .. births
<1>1. births \in Nat /\ published \subseteq 1 .. births
  BY SpaceAssumption DEF Inv, TypeOK, InvGenerations
<1>2. \A k \in Keys : Exists(k) => subjects[k].birth \in 1 .. births
  BY <1>1, FieldTypes, OwnersAreKeys DEF Inv, InvSubjects
<1>3. \A h \in Handles : Observes(h) => Uses(obs[h].slot, obs[h].birth)
  BY DEF Uses
<1>4. \A h \in Handles : Observes(h) => obs[h].birth \in 1 .. births
  BY <1>1, <1>3, FieldTypes DEF Inv, InvGenerations
<1> QED
  BY <1>1, <1>2, <1>4

-------------------------------------------------------------------------------
(***************************************************************************)
(* The targets only take steps of the namespace.                           *)
(***************************************************************************)

\* Every operation of a target calls the library, or changes the shadow alone.
LEMMA StepsAreOfTheSpace ==
    ASSUME ShadowTypes, FuzzNext
    PROVE  [Next]_vars
<1>1. ASSUME NEW k \in Keys, Register(k) \/ CompleteKey(k) \/ ObserveKey(k) \/ RetireKey(k)
      PROVE  Next
  BY <1>1, OwnersAreKeys
     DEF Register, CompleteKey, ObserveKey, RetireKey, Next, OwnerStep, ObserverStep
<1>2. CASE IntoOutcomeNewest \/ RegisterWakerNewest \/ DropNewest
  <2>1. Newest.handle \in Handles
    BY <1>2, VecEnds DEF IntoOutcomeNewest, RegisterWakerNewest, DropNewest
  <2>2. ObserverStep(Newest.handle)
    BY <1>2 DEF IntoOutcomeNewest, RegisterWakerNewest, DropNewest, ObserverStep
  <2> QED
    BY <2>1, <2>2 DEF Next
<1>3. CASE Finish
  BY <1>3, OwnersAreKeys DEF Finish, Next, OwnerStep, ObserverStep
<1>4. CASE BeginTeardown
  BY <1>4 DEF BeginTeardown
<1>5. CASE Teardown
  <2>1. CASE observations # <<>> /\ DropObservation(Head(observations).handle)
    BY <2>1, VecEnds DEF Next, ObserverStep
  <2>2. CASE (\E k \in Keys : Retire(k)) \/ DropSpace
    BY <2>2, OwnersAreKeys DEF Next, OwnerStep
  <2> QED
    BY <1>5, <2>1, <2>2 DEF Teardown
<1> QED
  BY <1>1, <1>2, <1>3, <1>4, <1>5 DEF FuzzNext

-------------------------------------------------------------------------------
(***************************************************************************)
(* Operations on observations.                                             *)
(***************************************************************************)

\* An operation that changes neither subjects nor wakers.
LEMMA SubjectsUntouched ==
    ASSUME ShadowInv,
           UNCHANGED <<births, subjects, registry, published, fired>>,
           UNCHANGED <<epochs, tags, completed, retired, wakers>>,
           ending => ending', ending /\ observations = <<>> => observations' = <<>>
    PROVE  ShadowTags' /\ ShadowSubjects' /\ ShadowOutcomes' /\ ShadowWakers'
<1>1. ShadowTags' /\ ShadowSubjects'
  BY DEF ShadowInv, ShadowTags, ShadowSubjects, Exists, encode
<1>2. ShadowOutcomes'
  BY DEF ShadowInv, ShadowOutcomes, Undropped, Exists
<1>3. ShadowWakers'
  BY DEF ShadowInv, ShadowWakers, Undrained, Draining, Exists, encode
<1> QED
  BY <1>1, <1>2, <1>3

\* The Vec loses its first or its last element, and the library its handle.
LEMMA ObservationTaken ==
    ASSUME ShadowTypes, ShadowObservations, observations # <<>>, NEW h \in Handles,
           \/ h = Newest.handle /\ observations' = Front(observations)
           \/ h = Head(observations).handle /\ observations' = Tail(observations),
           UNCHANGED tags,
           \A g \in Handles : Usable(g)' <=> Usable(g) /\ g # h,
           \A g \in Handles : Usable(g)' => obs'[g].birth = obs[g].birth
    PROVE  observations' \in Seq(Item) /\ ShadowObservations'
<1> DEFINE n == Len(observations)
<1>1. n \in Nat \ {0} /\ Newest = observations[n] /\ Head(observations) = observations[1]
  BY VecEnds
<1>2. PICK shift \in {0, 1} :
         /\ observations' \in Seq(Item)
         /\ Len(observations') = n - 1
         /\ \A i \in 1 .. n - 1 : observations'[i] = observations[i + shift]
         /\ observations[IF shift = 0 THEN n ELSE 1].handle = h
  <2>1. CASE h = Newest.handle /\ observations' = Front(observations)
    <3>1. observations' = SubSeq(observations, 1, n - 1)
      BY <2>1 DEF Front
    <3>2. /\ observations' \in Seq(Item)
          /\ Len(observations') = n - 1
          /\ \A i \in 1 .. n - 1 : observations'[i] = observations[i]
      BY <3>1, FrontSeq DEF ShadowTypes
    <3>3. \A i \in 1 .. n - 1 : i + 0 = i
      BY <1>1
    <3> QED
      BY <1>1, <2>1, <3>2, <3>3
  <2>2. CASE h = Head(observations).handle /\ observations' = Tail(observations)
    <3>1. observations' \in Seq(Item)
      BY <2>2 DEF ShadowTypes
    <3>2. /\ Len(observations') = n - 1
          /\ \A i \in 1 .. n - 1 : observations'[i] = observations[i + 1]
      BY <1>1, <2>2 DEF ShadowTypes
    <3> QED
      BY <1>1, <2>2, <3>1, <3>2
  <2> QED
    BY <2>1, <2>2
<1> DEFINE out == IF shift = 0 THEN n ELSE 1
<1>3. \A i \in 1 .. n - 1 : i + shift \in 1 .. n /\ i + shift # out
  BY <1>1, <1>2
<1>4. \A i \in 1 .. n : i # out => i - shift \in 1 .. n - 1 /\ (i - shift) + shift = i
  BY <1>1, <1>2
<1>9. out \in 1 .. n /\ observations[out].handle = h
  BY <1>1, <1>2
<1> HIDE DEF out, n
<1>5. \A i \in 1 .. n : observations[i].handle \in Handles
  BY ShadowFields DEF n
<1>6. ASSUME NEW i \in 1 .. n - 1
      PROVE  /\ Usable(observations[i].handle)'
             /\ observations'[i].tag = tags'[obs'[observations'[i].handle].birth]
  <2>1. observations'[i] = observations[i + shift] /\ i + shift \in 1 .. n /\ i + shift # out
    BY <1>2, <1>3
  <2>2. PICK g \in Handles : g = observations[i + shift].handle
    BY <1>5, <2>1
  <2>3. Usable(g) /\ observations[i + shift].tag = tags[obs[g].birth] /\ g # h
    BY <1>9, <2>1, <2>2 DEF ShadowObservations, n
  <2>4. Usable(g)' /\ obs'[g].birth = obs[g].birth
    BY <2>3
  <2> QED
    BY <2>1, <2>2, <2>3, <2>4 DEF Usable, Observes
<1>7. ASSUME NEW i \in 1 .. n - 1, NEW j \in 1 .. n - 1,
             observations'[i].handle = observations'[j].handle
      PROVE  i = j
  <2>1. /\ observations'[i] = observations[i + shift] /\ i + shift \in 1 .. n
        /\ observations'[j] = observations[j + shift] /\ j + shift \in 1 .. n
    BY <1>2, <1>3
  <2>2. i + shift = j + shift
    BY <1>7, <2>1 DEF ShadowObservations, n
  <2>3. i \in Int /\ j \in Int /\ shift \in Int
    BY <1>2
  <2> QED
    BY <2>2, <2>3
<1>8. ASSUME NEW g \in Handles, Usable(g)'
      PROVE  \E i \in 1 .. n - 1 : observations'[i].handle = g
  <2>1. PICK i \in 1 .. n : observations[i].handle = g
    BY <1>8 DEF ShadowObservations, n
  <2>2. i # out
    BY <1>8, <1>9, <2>1
  <2> QED
    BY <1>2, <1>4, <2>1, <2>2
<1> QED
  BY <1>2, <1>6, <1>7, <1>8 DEF ShadowObservations, n

\* into_outcome and drop consume an observation of the Vec.
LEMMA TakeKeepsShadow ==
    ASSUME Inv, ShadowInv, observations # <<>>, NEW h \in Handles,
           \/ h = Newest.handle /\ observations' = Front(observations)
           \/ h = Head(observations).handle /\ observations' = Tail(observations),
           DropObservation(h) \/ IntoOutcome(h) \/ IntoOutcomeRefused(h),
           UNCHANGED <<epochs, tags, completed, retired, wakers, ending>>
    PROVE  ShadowInv'
<1>1. /\ UNCHANGED <<open, births, subjects, registry, published, fired>>
      /\ \/ obs' = [obs EXCEPT ![h] = Null]
         \/ \E p \in {"stranger", "refused"} : obs' = [obs EXCEPT ![h].phase = p]
  <2>1. CASE DropObservation(h)
    BY <2>1 DEF DropObservation
  <2>2. CASE IntoOutcome(h)
    BY <2>2 DEF IntoOutcome
  <2>3. CASE IntoOutcomeRefused(h)
    BY <2>3 DEF IntoOutcomeRefused
  <2> QED
    BY <2>1, <2>2, <2>3
<1>2. \A g \in Handles : g # h => obs'[g] = obs[g]
  BY <1>1 DEF Inv, TypeOK
<1>3. ~Usable(h)'
  <2>1. CASE obs' = [obs EXCEPT ![h] = Null]
    BY <2>1 DEF Inv, TypeOK, Usable, Observes
  <2>2. ASSUME NEW p \in {"stranger", "refused"}, obs' = [obs EXCEPT ![h].phase = p]
        PROVE  ~Usable(h)'
    <3>1. Observes(h)
      BY DEF DropObservation, IntoOutcome, IntoOutcomeRefused, Usable
    <3>2. obs[h] \in Observation
      BY <3>1, FieldTypes DEF Inv
    <3>3. obs'[h] = [obs[h] EXCEPT !.phase = p]
      BY <2>2 DEF Inv, TypeOK
    <3>4. obs'[h].phase = p
      BY <3>2, <3>3 DEF Observation
    <3> QED
      BY <3>4 DEF Usable
  <2> QED
    BY <1>1, <2>1, <2>2
<1>4. \A g \in Handles : Usable(g)' <=> Usable(g) /\ g # h
  BY <1>2, <1>3 DEF Usable, Observes
<1>5. \A g \in Handles : Usable(g)' => obs'[g].birth = obs[g].birth
  BY <1>2, <1>4
<1>6. observations' \in Seq(Item) /\ ShadowObservations'
  BY <1>4, <1>5, ObservationTaken DEF ShadowInv
<1>7. ShadowTypes'
  BY <1>6 DEF ShadowInv, ShadowTypes
<1>8. ShadowTags' /\ ShadowSubjects' /\ ShadowOutcomes' /\ ShadowWakers'
  BY <1>1, SubjectsUntouched
<1>9. ShadowEnd'
  BY <1>1 DEF ShadowInv, ShadowEnd
<1> QED
  BY <1>6, <1>7, <1>8, <1>9 DEF ShadowInv

\* into_outcome was refused, and drops the handle it was given back.
LEMMA RefusedKeepsShadow ==
    ASSUME Inv, ShadowInv, NEW h \in Handles, Observes(h), obs[h].phase # "live",
           DropObservation(h), UNCHANGED shadow
    PROVE  ShadowInv'
<1>1. UNCHANGED <<open, births, subjects, registry, published, fired>>
  BY DEF DropObservation
<1>2. \A g \in Handles : g # h => obs'[g] = obs[g]
  BY DEF DropObservation, Inv, TypeOK
<1>3. ~Observes(h)' /\ ~Usable(h)
  BY DEF DropObservation, Inv, TypeOK, Observes, Usable
<1>4. \A g \in Handles : Usable(g)' <=> Usable(g)
  BY <1>2, <1>3 DEF Usable, Observes
<1>5. \A g \in Handles : Usable(g) => obs'[g].birth = obs[g].birth
  BY <1>2, <1>3
<1>6. ShadowObservations'
  <2>1. \A i \in 1 .. Len(observations) : observations[i].handle \in Handles
    BY ShadowFields DEF ShadowInv
  <2> QED
    BY <1>4, <1>5, <2>1 DEF ShadowInv, ShadowObservations, shadow
<1>7. ShadowTypes'
  BY DEF ShadowInv, ShadowTypes, shadow
<1>8. ShadowTags' /\ ShadowSubjects' /\ ShadowOutcomes' /\ ShadowWakers'
  BY <1>1, SubjectsUntouched DEF shadow
<1>9. ShadowEnd'
  BY <1>1 DEF ShadowInv, ShadowEnd
<1> QED
  BY <1>6, <1>7, <1>8, <1>9 DEF ShadowInv

\* The entry of a key is that of the key's subject.
LEMMA EntryTag ==
    ASSUME Inv, ShadowInv, NEW k \in Keys, Retained(k)
    PROVE  Exists(k) /\ subjects[k].birth = table[k].birth /\ tags[table[k].birth] = encode(k)
<1>1. PICK c \in Owners : Exists(c) /\ subjects[c].birth = table[k].birth
  BY NothingPanics DEF Inv, InvFaults, EntryOfSubject
<1>2. k = subjects[c].key
  BY <1>1 DEF Inv, InvSubjects
<1>3. subjects[c].key = c
  BY <1>1, OwnersAreKeys DEF ShadowInv, ShadowSubjects
<1> QED
  BY <1>1, <1>2, <1>3 DEF ShadowInv, ShadowSubjects

\* observe adds an observation at the end of the Vec.
LEMMA ObserveKeepsShadow ==
    ASSUME Inv, ShadowInv, NEW k \in Keys, ObserveKey(k)
    PROVE  ShadowInv'
<1>1. PICK h \in Handles :
         /\ Observe(h, k)
         /\ observations' = Append(observations, [handle |-> h, tag |-> encode(k)])
  BY DEF ObserveKey
<1>2. /\ open /\ Retained(k) /\ ~Observes(h)
      /\ UNCHANGED <<open, births, subjects, registry, published, fired>>
      /\ obs' = [obs EXCEPT ![h] = [slot |-> table[k].slot, birth |-> table[k].birth,
                                    phase |-> "live"]]
  BY <1>1 DEF Observe, Capture
<1>3. ~ending /\ UNCHANGED <<epochs, tags, completed, retired, wakers, ending>>
  BY DEF ObserveKey, Idle
<1>4. Exists(k) /\ tags[table[k].birth] = encode(k) /\ encode(k) \in Tag
  <2>1. Exists(k) /\ tags[table[k].birth] = encode(k)
    BY <1>2, EntryTag
  <2>2. encode(k) \in Tag
    BY DEF encode, Tag, ShadowInv, ShadowTypes
  <2> QED
    BY <2>1, <2>2
<1>5. /\ \A g \in Handles : g # h => obs'[g] = obs[g]
      /\ Usable(h)' /\ obs'[h].birth = table[k].birth
  BY <1>2, FieldTypes, SpaceAssumption, NullAssumption
     DEF Inv, TypeOK, Usable, Observes, Observation
<1> DEFINE n == Len(observations)
<1>6. /\ n \in Nat /\ \A i \in 1 .. n : observations[i].handle \in Handles
      /\ \A i \in 1 .. n : observations[i].handle # h
  BY <1>2, ShadowFields DEF ShadowInv, ShadowObservations, Usable
<1>7. PICK new \in Item : new = [handle |-> h, tag |-> encode(k)]
  BY <1>4 DEF Item
<1>8. /\ observations' \in Seq(Item) /\ Len(observations') = n + 1
      /\ \A i \in 1 .. n : observations'[i] = observations[i]
      /\ observations'[n + 1] = new
  BY <1>1, <1>6, <1>7 DEF ShadowInv, ShadowTypes
<1>9. ShadowTypes'
  BY <1>3, <1>8 DEF ShadowInv, ShadowTypes
<1>10. ShadowObservations'
  <2>1. \A i \in 1 .. n + 1 : i \in 1 .. n \/ i = n + 1
    BY <1>6
  <2>2. \A i \in 1 .. n : observations'[i].handle # h
    BY <1>6, <1>8
  <2>3. observations'[n + 1].handle = h /\ observations'[n + 1].tag = encode(k)
    BY <1>7, <1>8
  <2>4. ASSUME NEW i \in 1 .. n + 1
        PROVE  /\ Usable(observations[i].handle)'
               /\ observations'[i].tag = tags'[obs'[observations'[i].handle].birth]
    <3>1. CASE i \in 1 .. n
      <4>1. PICK g \in Handles : g = observations[i].handle
        BY <1>6, <3>1
      <4>2. Usable(g) /\ observations[i].tag = tags[obs[g].birth] /\ g # h
        BY <1>6, <3>1, <4>1 DEF ShadowInv, ShadowObservations
      <4> QED
        BY <1>3, <1>5, <1>8, <3>1, <4>1, <4>2 DEF Usable, Observes
    <3>2. CASE i = n + 1
      <4>1. observations'[i].handle = h /\ observations'[i].tag = encode(k)
        BY <2>3, <3>2
      <4> QED
        BY <1>3, <1>4, <1>5, <4>1 DEF Usable, Observes
    <3> QED
      BY <2>1, <3>1, <3>2
  <2>5. ASSUME NEW i \in 1 .. n + 1, NEW j \in 1 .. n + 1,
               observations'[i].handle = observations'[j].handle
        PROVE  i = j
    <3>1. CASE i \in 1 .. n /\ j \in 1 .. n
      BY <1>8, <2>5, <3>1 DEF ShadowInv, ShadowObservations
    <3> QED
      BY <2>1, <2>2, <2>3, <2>5, <3>1
  <2>6. ASSUME NEW g \in Handles, Usable(g)'
        PROVE  \E i \in 1 .. n + 1 : observations'[i].handle = g
    <3>1. CASE g = h
      <4>1. n + 1 \in 1 .. n + 1
        BY <1>6
      <4> QED
        BY <2>3, <3>1, <4>1
    <3>2. CASE g # h
      <4>1. Usable(g)
        BY <1>5, <2>6, <3>2 DEF Usable, Observes
      <4>2. PICK i \in 1 .. n : observations[i].handle = g
        BY <4>1 DEF ShadowInv, ShadowObservations
      <4>3. i \in 1 .. n + 1 /\ observations'[i].handle = g
        BY <1>6, <1>8, <4>2
      <4> QED
        BY <4>3
    <3> QED
      BY <3>1, <3>2
  <2> QED
    BY <1>8, <2>4, <2>5, <2>6 DEF ShadowObservations
<1>11. ShadowTags' /\ ShadowSubjects' /\ ShadowOutcomes' /\ ShadowWakers'
  BY <1>2, <1>3, SubjectsUntouched
<1>12. ShadowEnd'
  BY <1>2 DEF ShadowEnd
<1> QED
  BY <1>9, <1>10, <1>11, <1>12 DEF ShadowInv

\* The slots of subjects and observations, told apart by births.
LEMMA SlotsByBirth ==
    ASSUME Inv
    PROVE  /\ \A j \in Keys, k \in Keys :
                 Exists(j) /\ Exists(k) /\ subjects[j].phase # "dropping" /\ j # k /\
                 subjects[k].phase # "dropping" => subjects[j].slot # subjects[k].slot
           /\ \A k \in Keys, h \in Handles :
                 Exists(k) /\ Observes(h) /\ subjects[k].phase # "dropping" =>
                    (subjects[k].slot = obs[h].slot <=> subjects[k].birth = obs[h].birth)
<1>1. \A k \in Keys : Exists(k) /\ subjects[k].phase # "dropping" =>
         Uses(subjects[k].slot, subjects[k].birth)
  BY OwnersAreKeys DEF Uses
<1>2. \A h \in Handles : Observes(h) => Uses(obs[h].slot, obs[h].birth)
  BY DEF Uses
<1>3. \A j \in Keys, k \in Keys :
         Exists(j) /\ Exists(k) /\ subjects[j].birth = subjects[k].birth => j = k
  BY OwnersAreKeys DEF Inv, InvSubjects
<1>4. \A s \in Slots, b \in Births, t \in Slots, d \in Births :
         Uses(s, b) /\ Uses(t, d) => (s = t <=> b = d)
  BY DEF Inv, InvGenerations
<1> QED
  BY <1>1, <1>2, <1>3, <1>4, FieldTypes, OwnersAreKeys DEF Inv

\* register_waker on an observation of a generation that did not complete.
LEMMA RegisterWakerKeepsShadow ==
    ASSUME Inv, ShadowInv, RegisterWakerNewest
    PROVE  ShadowInv'
<1>1. observations # <<>> /\ UNCHANGED <<epochs, tags, completed, retired, observations, ending>>
  BY DEF RegisterWakerNewest
<1>2. PICK n \in 1 .. Len(observations) : Newest = observations[n]
  BY <1>1, VecEnds DEF ShadowInv
<1>3. PICK h \in Handles : h = observations[n].handle
  BY ShadowFields DEF ShadowInv
<1>4. PICK s \in Slots, b \in 1 .. births : s = obs[h].slot /\ b = obs[h].birth /\ Observes(h)
  BY <1>3, BirthsHaveTags, FieldTypes DEF Inv, ShadowInv, ShadowObservations, Usable
<1>5. observations[n].tag = tags[b]
  BY <1>3, <1>4 DEF ShadowInv, ShadowObservations
<1>6. RegisterWaker(h) /\ wakers' = wakers \cup {tags[b]}
  BY <1>2, <1>3, <1>5 DEF RegisterWakerNewest
<1>7. /\ COMPLETED \notin state[s] /\ registry' = [registry EXCEPT ![s] = @ \cup {b}]
      /\ UNCHANGED <<open, table, pool, births, subjects, obs, published, fired>>
  BY <1>4, <1>6 DEF RegisterWaker
<1>8. b \notin published
  <2>1. Uses(s, b) /\ b \in Births
    BY <1>4, FieldTypes DEF Inv, Uses
  <2> QED
    BY <1>7, <2>1 DEF Inv, InvGenerations
<1>9. ShadowTypes'
  <2>1. tags[b] \in Tag
    BY <1>4, ShadowFields DEF ShadowInv, ShadowTags
  <2> QED
    BY <1>1, <1>6, <2>1 DEF ShadowInv, ShadowTypes
<1>10. ShadowTags' /\ ShadowSubjects'
  BY <1>1, <1>7 DEF ShadowInv, ShadowTags, ShadowSubjects, Exists, encode
<1>11. ShadowObservations'
  BY <1>1, <1>7 DEF ShadowInv, ShadowObservations, Usable, Observes
<1>12. ShadowOutcomes' /\ ShadowEnd'
  BY <1>1, <1>7 DEF ShadowInv, ShadowOutcomes, ShadowEnd, Undropped, Exists, Retained, Observes
<1>13. ShadowWakers'
  <2>1. wakers' \subseteq {tags[d] : d \in 1 .. births}
    BY <1>6 DEF ShadowInv, ShadowWakers
  <2>2. \A d \in Births : Draining(d)' <=> Draining(d)
    BY <1>7 DEF Draining, Exists
  <2>3. \A d \in 1 .. births : tags[d] = tags[b] => d = b
    BY DEF ShadowInv, ShadowTags
  <2>4. \A d \in published : tags[d] \in wakers' <=> tags[d] \in wakers
    BY <1>6, <1>8, <2>3, BirthsHaveTags
  <2>5. published \subseteq Births
    BY DEF Inv, TypeOK
  <2>6. fired' = {<<d, d>> : d \in {e \in published' : tags'[e] \in wakers' /\ ~Draining(e)'}}
    BY <1>1, <1>7, <2>2, <2>4, <2>5 DEF ShadowInv, ShadowWakers
  <2>7. ASSUME NEW k \in Keys, Undrained(k)'
        PROVE  encode(k)' \in wakers' <=> subjects'[k].birth \in registry'[subjects'[k].slot]
    <3>1. Undrained(k) /\ Exists(k) /\ subjects[k].phase # "dropping"
      BY <1>7, <2>7 DEF Undrained, Exists
    <3>2. /\ subjects[k].birth \in 1 .. births /\ tags[subjects[k].birth] = encode(k)
          /\ subjects[k].slot \in Slots
      BY <3>1, BirthsHaveTags, FieldTypes, OwnersAreKeys DEF ShadowInv, ShadowSubjects, Inv
    <3>3. encode(k) \in wakers <=> subjects[k].birth \in registry[subjects[k].slot]
      BY <3>1 DEF ShadowInv, ShadowWakers
    <3>4. subjects[k].slot = s <=> subjects[k].birth = b
      BY <1>4, <3>1, SlotsByBirth
    <3>5. encode(k)' = encode(k) /\ subjects' = subjects
      BY <1>1, <1>7 DEF encode
    <3>6. registry'[s] = registry[s] \cup {b}
      BY <1>7 DEF Inv, TypeOK
    <3>7. \A t \in Slots : t # s => registry'[t] = registry[t]
      BY <1>7 DEF Inv, TypeOK
    <3>8. CASE subjects[k].birth = b
      BY <1>6, <3>2, <3>4, <3>5, <3>6, <3>8
    <3>9. CASE subjects[k].birth # b
      BY <1>6, <2>3, <3>2, <3>3, <3>4, <3>5, <3>7, <3>9
    <3> QED
      BY <3>8, <3>9
  <2>8. \A d \in Births : Draining(d)' => d \in published'
    BY <1>7, <2>2 DEF ShadowInv, ShadowWakers
  <2> QED
    BY <1>1, <1>7, <2>1, <2>6, <2>7, <2>8 DEF ShadowWakers
<1> QED
  BY <1>9, <1>10, <1>11, <1>12, <1>13 DEF ShadowInv

-------------------------------------------------------------------------------
(***************************************************************************)
(* Operations on subjects.                                                 *)
(***************************************************************************)

\* A step of the subject of k that leaves its identity alone, or drops it.
LEMMA SubjectStep ==
    ASSUME Inv, ShadowInv, NEW k \in Keys, Exists(k),
           \A j \in Keys : j # k => subjects'[j] = subjects[j],
           Exists(k)' => /\ subjects'[k].key = subjects[k].key
                         /\ subjects'[k].birth = subjects[k].birth
                         /\ subjects'[k].slot = subjects[k].slot,
           UNCHANGED <<open, births, obs, epochs, tags, observations>>
    PROVE  /\ ShadowTags' /\ ShadowSubjects' /\ ShadowObservations' /\ ShadowEnd'
           /\ \A d : Undropped(d)' <=>
                 IF d = subjects[k].birth
                 THEN Exists(k)' /\ subjects'[k].phase # "dropping"
                 ELSE Undropped(d)
           /\ \A d : Draining(d)' <=>
                 IF d = subjects[k].birth
                 THEN Exists(k)' /\ subjects'[k].phase = "drain"
                 ELSE Draining(d)
           /\ \A j \in Keys : j # k => (Undrained(j)' <=> Undrained(j))
<1>1. ShadowTags'
  BY DEF ShadowInv, ShadowTags
<1>2. ShadowSubjects'
  BY DEF ShadowInv, ShadowSubjects, Exists, encode
<1>3. ShadowObservations'
  BY DEF ShadowInv, ShadowObservations, Usable, Observes
<1>4. ShadowEnd'
  BY DEF ShadowInv, ShadowEnd
<1>5. \A j \in Keys : Exists(j) /\ subjects[j].birth = subjects[k].birth => j = k
  BY OwnersAreKeys DEF Inv, InvSubjects
<1>6. ASSUME NEW d
      PROVE  Undropped(d)' <=> IF d = subjects[k].birth
                               THEN Exists(k)' /\ subjects'[k].phase # "dropping"
                               ELSE Undropped(d)
  BY <1>5 DEF Undropped, Exists
<1>7. ASSUME NEW d
      PROVE  Draining(d)' <=> IF d = subjects[k].birth
                              THEN Exists(k)' /\ subjects'[k].phase = "drain"
                              ELSE Draining(d)
  BY <1>5 DEF Draining, Exists
<1>8. \A j \in Keys : j # k => (Undrained(j)' <=> Undrained(j))
  BY DEF Undrained, Exists
<1> QED
  BY <1>1, <1>2, <1>3, <1>4, <1>6, <1>7, <1>8

\* The tag of an existing subject is its own.
LEMMA SubjectTag ==
    ASSUME Inv, ShadowInv, NEW k \in Keys, Exists(k)
    PROVE  /\ subjects[k].key = k /\ subjects[k].key # Null
           /\ subjects[k] \in Subject /\ subjects[k].slot \in Slots
           /\ subjects[k].birth \in Births /\ subjects[k].birth \in 1 .. births
           /\ tags[subjects[k].birth] = encode(k) /\ encode(k) \in Tag
           /\ \A d \in published : tags[d] = encode(k) => d = subjects[k].birth
<1>1. /\ subjects[k].key = k /\ subjects[k].key # Null
      /\ tags[subjects[k].birth] = encode(k)
  BY SpaceAssumption DEF ShadowInv, ShadowSubjects
<1>2. /\ subjects[k] \in Subject /\ subjects[k].slot \in Slots
      /\ subjects[k].birth \in Births /\ subjects[k].birth \in 1 .. births
  BY FieldTypes, BirthsHaveTags, OwnersAreKeys DEF Inv
<1>3. encode(k) \in Tag
  BY DEF encode, Tag, ShadowInv, ShadowTypes
<1>4. \A d \in published : tags[d] = encode(k) => d = subjects[k].birth
  BY <1>1, <1>2, BirthsHaveTags DEF ShadowInv, ShadowTags
<1> QED
  BY <1>1, <1>2, <1>3, <1>4

\* complete: without a waiter there is no registration to fire.
LEMMA CompleteKeepsShadow ==
    ASSUME Inv, ShadowInv, NEW k \in Keys, CompleteKey(k)
    PROVE  ShadowInv'
<1>1. /\ Exists(k) /\ subjects[k].phase = "live" /\ ~subjects[k].completed
      /\ ~ending /\ completed' = completed \cup {encode(k)}
      /\ UNCHANGED <<epochs, tags, retired, observations, wakers, ending>>
      /\ UNCHANGED <<open, births, obs, registry, fired>>
  BY DEF CompleteKey, Complete, Idle
<1>2. PICK b \in Births, s \in Slots : b = subjects[k].birth /\ s = subjects[k].slot
  BY <1>1, SubjectTag
<1>3. published' = published \cup {b} /\ tags[b] = encode(k)
  BY <1>1, <1>2, SubjectTag DEF CompleteKey, Complete
<1>4. subjects' = [subjects EXCEPT ![k].completed = TRUE,
                                   ![k].phase = IF HAS_WAITER \in state[s] THEN "drain"
                                                                           ELSE "live"]
  BY <1>1, <1>2, SubjectTag DEF CompleteKey, Complete, AfterComplete
<1>5. \A j \in Keys : j # k => subjects'[j] = subjects[j]
  BY <1>4, OwnersAreKeys DEF Inv, TypeOK
<1>6. subjects'[k] = [subjects[k] EXCEPT !.completed = TRUE,
                                         !.phase = IF HAS_WAITER \in state[s] THEN "drain"
                                                                               ELSE "live"]
  BY <1>4, OwnersAreKeys DEF Inv, TypeOK
<1>7. /\ Exists(k)' /\ subjects'[k].completed
      /\ subjects'[k].key = subjects[k].key /\ subjects'[k].birth = subjects[k].birth
      /\ subjects'[k].slot = subjects[k].slot
      /\ subjects'[k].phase = IF HAS_WAITER \in state[s] THEN "drain" ELSE "live"
  <2>1. subjects[k] \in Subject
    BY <1>1, SubjectTag
  <2>2. subjects'[k] \in Subject
    BY <1>6, <2>1 DEF Subject
  <2> QED
    BY <1>6, <2>1, <2>2, NullAssumption DEF Subject, Exists
<1>8. /\ ShadowTags' /\ ShadowSubjects' /\ ShadowObservations' /\ ShadowEnd'
      /\ \A d : Undropped(d)' <=> d = b \/ Undropped(d)
      /\ \A d : Draining(d)' <=> IF d = b THEN HAS_WAITER \in state[s] ELSE Draining(d)
      /\ \A j \in Keys : j # k => (Undrained(j)' <=> Undrained(j))
  BY <1>1, <1>2, <1>5, <1>7, SubjectStep
<1>9. ShadowTypes'
  BY <1>1, SubjectTag DEF ShadowInv, ShadowTypes
<1>10. Undropped(b) /\ b \notin published
  BY <1>1, <1>2, OwnersAreKeys DEF Undropped, Inv, InvSubjects
<1>11. ShadowOutcomes'
  <2>1. completed' = {tags'[d] : d \in published'}
    BY <1>1, <1>3 DEF ShadowInv, ShadowOutcomes
  <2>2. {d \in published' : ~Undropped(d)'} = {d \in published : ~Undropped(d)}
    BY <1>3, <1>8, <1>10
  <2>3. retired' = {tags'[d] : d \in {e \in published' : ~Undropped(e)'}}
    BY <1>1, <2>2 DEF ShadowInv, ShadowOutcomes
  <2> QED
    BY <2>1, <2>3 DEF ShadowOutcomes
<1>12. ShadowWakers'
  <2>1. Undrained(k)
    BY <1>1 DEF Undrained
  <2>2. encode(k) \in wakers <=> b \in registry[s]
    BY <1>2, <2>1 DEF ShadowInv, ShadowWakers
  <2>3. HAS_WAITER \notin state[s] => encode(k) \notin wakers
    <3>1. s \in live
      BY <1>1, <1>2, HandleFacts, OwnersAreKeys DEF HandlesAre, Inv, InvSlots
    <3> QED
      BY <2>2, <3>1 DEF Inv, InvSlots
  <2>4. \A j \in Keys : Undrained(j)' =>
           (encode(j)' \in wakers' <=> subjects'[j].birth \in registry'[subjects'[j].slot])
    <3>1. \A j \in Keys : encode(j)' = encode(j)
      BY <1>1 DEF encode
    <3>2. \A j \in Keys : Undrained(j)' => Undrained(j)
      BY <1>8, <2>1
    <3> QED
      BY <1>1, <1>5, <1>7, <3>1, <3>2 DEF ShadowInv, ShadowWakers
  <2>5. \A d \in Births : Draining(d)' => d \in published'
    BY <1>3, <1>8 DEF ShadowInv, ShadowWakers
  <2>6. {d \in published' : tags'[d] \in wakers' /\ ~Draining(d)'}
          = {d \in published : tags[d] \in wakers /\ ~Draining(d)}
    BY <1>1, <1>3, <1>8, <1>10, <2>3
  <2>7. fired' = {<<d, d>> : d \in {e \in published' : tags'[e] \in wakers' /\ ~Draining(e)'}}
    BY <1>1, <2>6 DEF ShadowInv, ShadowWakers
  <2>8. wakers' \subseteq {tags'[d] : d \in 1 .. births'}
    BY <1>1 DEF ShadowInv, ShadowWakers
  <2> QED
    BY <2>4, <2>5, <2>7, <2>8 DEF ShadowWakers
<1> QED
  BY <1>8, <1>9, <1>11, <1>12 DEF ShadowInv

\* The drain fires the one registration there may be.
LEMMA DrainKeepsShadow ==
    ASSUME Inv, ShadowInv, NEW k \in Keys, Drain(k), UNCHANGED shadow
    PROVE  ShadowInv'
<1>1. /\ Exists(k) /\ subjects[k].phase = "drain"
      /\ UNCHANGED <<epochs, tags, completed, retired, observations, wakers, ending>>
      /\ UNCHANGED <<open, births, obs, published>>
  BY DEF Drain, shadow
<1>2. PICK b \in Births, s \in Slots : b = subjects[k].birth /\ s = subjects[k].slot
  BY <1>1, SubjectTag
<1>3. /\ fired' = fired \cup {<<a, b>> : a \in registry[s]}
      /\ registry' = [registry EXCEPT ![s] = {}]
      /\ tags[b] = encode(k)
  BY <1>1, <1>2, SubjectTag DEF Drain
<1>4. subjects' = [subjects EXCEPT ![k].phase = "live"]
  BY <1>1, SubjectTag DEF Drain, AfterComplete
<1>5. \A j \in Keys : j # k => subjects'[j] = subjects[j]
  BY <1>4, OwnersAreKeys DEF Inv, TypeOK
<1>6. subjects'[k] = [subjects[k] EXCEPT !.phase = "live"]
  BY <1>4, OwnersAreKeys DEF Inv, TypeOK
<1>7. /\ Exists(k)' /\ subjects'[k].completed = subjects[k].completed
      /\ subjects'[k].key = subjects[k].key /\ subjects'[k].birth = subjects[k].birth
      /\ subjects'[k].slot = subjects[k].slot /\ subjects'[k].phase = "live"
  <2>1. subjects[k] \in Subject
    BY <1>1, SubjectTag
  <2>2. subjects'[k] \in Subject
    BY <1>6, <2>1 DEF Subject
  <2> QED
    BY <1>6, <2>1, <2>2, NullAssumption DEF Subject, Exists
<1>8. /\ ShadowTags' /\ ShadowSubjects' /\ ShadowObservations' /\ ShadowEnd'
      /\ \A d : Undropped(d)' <=> d = b \/ Undropped(d)
      /\ \A d : Draining(d)' <=> d # b /\ Draining(d)
      /\ \A j \in Keys : j # k => (Undrained(j)' <=> Undrained(j))
  BY <1>1, <1>2, <1>5, <1>7, SubjectStep
<1>9. ShadowTypes'
  BY <1>1 DEF ShadowInv, ShadowTypes
<1>10. Undropped(b) /\ Draining(b) /\ b \in published /\ subjects[k].completed
  <2>1. Undropped(b) /\ Draining(b)
    BY <1>1, <1>2 DEF Undropped, Draining
  <2>2. b \in published
    BY <2>1 DEF ShadowInv, ShadowWakers
  <2> QED
    BY <1>1, <1>2, <2>1, <2>2, OwnersAreKeys DEF Inv, InvSubjects
<1>11. ShadowOutcomes'
  <2>1. {d \in published' : ~Undropped(d)'} = {d \in published : ~Undropped(d)}
    BY <1>1, <1>8, <1>10
  <2> QED
    BY <1>1, <2>1 DEF ShadowInv, ShadowOutcomes
<1>12. ShadowWakers'
  <2>1. Undrained(k) /\ ~Undrained(k)'
    BY <1>1, <1>7, <1>10 DEF Undrained
  <2>2. encode(k) \in wakers <=> b \in registry[s]
    BY <1>2, <2>1 DEF ShadowInv, ShadowWakers
  <2>3. registry[s] \subseteq {b}
    <3>1. Uses(s, b)
      BY <1>1, <1>2, OwnersAreKeys DEF Uses
    <3> QED
      BY <3>1 DEF Inv, InvGenerations
  <2>4. fired' = fired \cup {<<d, d>> : d \in {e \in {b} : tags[e] \in wakers}}
    BY <1>3, <2>2, <2>3
  <2>5. {d \in published' : tags'[d] \in wakers' /\ ~Draining(d)'}
          = {d \in published : tags[d] \in wakers /\ ~Draining(d)}
              \cup {e \in {b} : tags[e] \in wakers}
    BY <1>1, <1>8, <1>10
  <2>6. fired' = {<<d, d>> : d \in {e \in published' : tags'[e] \in wakers' /\ ~Draining(e)'}}
    BY <2>4, <2>5 DEF ShadowInv, ShadowWakers
  <2>7. ASSUME NEW j \in Keys, Undrained(j)'
        PROVE  encode(j)' \in wakers' <=> subjects'[j].birth \in registry'[subjects'[j].slot]
    <3>1. j # k /\ Undrained(j) /\ Exists(j)
      BY <1>8, <2>1, <2>7 DEF Undrained
    <3>2. subjects[j].slot \in Slots /\ subjects[j].slot # s
      BY <1>1, <1>2, <3>1, SubjectTag, SlotsByBirth DEF Undrained
    <3>3. registry'[subjects[j].slot] = registry[subjects[j].slot]
      BY <1>3, <3>2 DEF Inv, TypeOK
    <3>4. encode(j)' = encode(j) /\ subjects'[j] = subjects[j]
      BY <1>1, <1>5, <3>1 DEF encode
    <3> QED
      BY <1>1, <3>1, <3>3, <3>4 DEF ShadowInv, ShadowWakers
  <2>8. \A d \in Births : Draining(d)' => d \in published'
    BY <1>1, <1>8 DEF ShadowInv, ShadowWakers
  <2>9. wakers' \subseteq {tags'[d] : d \in 1 .. births'}
    BY <1>1 DEF ShadowInv, ShadowWakers
  <2> QED
    BY <2>6, <2>7, <2>8, <2>9 DEF ShadowWakers
<1> QED
  BY <1>8, <1>9, <1>11, <1>12 DEF ShadowInv

\* A subject in its drop, or one that enters it, has no drain to come.
LEMMA DropStepWakers ==
    ASSUME Inv, ShadowInv, NEW k \in Keys, ~Undrained(k)',
           \A j \in Keys : j # k => subjects'[j] = subjects[j],
           \A j \in Keys : j # k => (Undrained(j)' <=> Undrained(j)),
           \A d : Draining(d)' <=> Draining(d),
           UNCHANGED <<births, registry, published, fired, epochs, tags, wakers>>
    PROVE  ShadowWakers'
<1>1. \A j \in Keys : encode(j)' = encode(j)
  BY DEF encode
<1>2. \A j \in Keys : Undrained(j)' => j # k /\ Undrained(j) /\ subjects'[j] = subjects[j]
  OBVIOUS
<1>3. \A j \in Keys : Undrained(j)' =>
         (encode(j)' \in wakers' <=> subjects'[j].birth \in registry'[subjects'[j].slot])
  BY <1>1, <1>2 DEF ShadowInv, ShadowWakers
<1>4. fired' = {<<d, d>> : d \in {e \in published' : tags'[e] \in wakers' /\ ~Draining(e)'}}
  BY DEF ShadowInv, ShadowWakers
<1>5. wakers' \subseteq {tags'[d] : d \in 1 .. births'}
  BY DEF ShadowInv, ShadowWakers
<1>6. \A d \in Births : Draining(d)' => d \in published'
  BY DEF ShadowInv, ShadowWakers
<1> QED
  BY <1>3, <1>4, <1>5, <1>6 DEF ShadowWakers

\* Retirement, recorded by RetireKey and not by the teardown.
LEMMA RetireKeepsShadow ==
    ASSUME Inv, ShadowInv, NEW k \in Keys, Retire(k),
           UNCHANGED <<epochs, tags, completed, observations, wakers, ending>>,
           \/ retired' = retired \cup ({encode(k)} \cap completed)
           \/ ending /\ observations = <<>> /\ retired' = retired
    PROVE  ShadowInv'
<1>1. /\ Exists(k) /\ subjects[k].phase = "live"
      /\ UNCHANGED <<open, births, obs, registry, published, fired>>
      /\ subjects' = [subjects EXCEPT ![k].phase = "dropping"]
  BY DEF Retire
<1>2. PICK b \in Births : b = subjects[k].birth
  BY <1>1, SubjectTag
<1>3. \A j \in Keys : j # k => subjects'[j] = subjects[j]
  BY <1>1, OwnersAreKeys DEF Inv, TypeOK
<1>4. subjects'[k] = [subjects[k] EXCEPT !.phase = "dropping"]
  BY <1>1, OwnersAreKeys DEF Inv, TypeOK
<1>5. /\ Exists(k)' /\ subjects'[k].key = subjects[k].key
      /\ subjects'[k].birth = subjects[k].birth /\ subjects'[k].slot = subjects[k].slot
      /\ subjects'[k].phase = "dropping"
  <2>1. subjects[k] \in Subject
    BY <1>1, SubjectTag
  <2>2. subjects'[k] \in Subject
    BY <1>4, <2>1 DEF Subject
  <2> QED
    BY <1>4, <2>1, <2>2, NullAssumption DEF Subject, Exists
<1>6. /\ ShadowTags' /\ ShadowSubjects' /\ ShadowObservations' /\ ShadowEnd'
      /\ \A d : Undropped(d)' <=> d # b /\ Undropped(d)
      /\ \A d : Draining(d)' <=> d # b /\ Draining(d)
      /\ \A j \in Keys : j # k => (Undrained(j)' <=> Undrained(j))
  BY <1>1, <1>2, <1>3, <1>5, SubjectStep
<1>7. ~Draining(b)
  BY <1>1, <1>2, OwnersAreKeys DEF Draining, Inv, InvSubjects
<1>8. ShadowWakers'
  BY <1>1, <1>3, <1>5, <1>6, <1>7, DropStepWakers DEF Undrained
<1>9. ShadowTypes'
  BY <1>1, SubjectTag DEF ShadowInv, ShadowTypes
<1>10. ShadowOutcomes'
  <2>1. completed' = {tags'[d] : d \in published'}
    BY <1>1 DEF ShadowInv, ShadowOutcomes
  <2>2. CASE ending /\ observations = <<>>
    BY <2>1, <2>2 DEF ShadowOutcomes
  <2>3. CASE ~(ending /\ observations = <<>>)
    <3>1. tags[b] = encode(k) /\ (encode(k) \in completed <=> b \in published)
      BY <1>1, <1>2, SubjectTag DEF ShadowInv, ShadowOutcomes
    <3>2. {d \in published' : ~Undropped(d)'}
            = {d \in published : ~Undropped(d)} \cup ({b} \cap published)
      BY <1>1, <1>6
    <3>3. retired = {tags[d] : d \in {e \in published : ~Undropped(e)}}
      BY <2>3 DEF ShadowInv, ShadowOutcomes
    <3>4. {encode(k)} \cap completed = {tags[d] : d \in {b} \cap published}
      BY <3>1
    <3>5. retired' = {tags[d] : d \in {e \in published : ~Undropped(e)} \cup ({b} \cap published)}
      BY <2>3, <3>3, <3>4
    <3> QED
      BY <2>1, <3>2, <3>5 DEF ShadowOutcomes
  <2> QED
    BY <2>2, <2>3
<1> QED
  BY <1>6, <1>8, <1>9, <1>10 DEF ShadowInv

\* The fields of a retired subject are dropped.
LEMMA DropFieldsKeepsShadow ==
    ASSUME Inv, ShadowInv, NEW k \in Keys, DropFields(k), UNCHANGED shadow
    PROVE  ShadowInv'
<1>1. /\ Exists(k) /\ subjects[k].phase = "dropping"
      /\ UNCHANGED <<open, births, obs, registry, published, fired>>
      /\ UNCHANGED <<epochs, tags, completed, retired, observations, wakers, ending>>
      /\ subjects' = [subjects EXCEPT ![k] = Null]
  BY SubjectTag DEF DropFields, shadow
<1>2. PICK b \in Births : b = subjects[k].birth
  BY <1>1, SubjectTag
<1>3. ~Exists(k)' /\ \A j \in Keys : j # k => subjects'[j] = subjects[j]
  BY <1>1, OwnersAreKeys DEF Inv, TypeOK, Exists
<1>4. /\ ShadowTags' /\ ShadowSubjects' /\ ShadowObservations' /\ ShadowEnd'
      /\ \A d : Undropped(d)' <=> d # b /\ Undropped(d)
      /\ \A d : Draining(d)' <=> d # b /\ Draining(d)
      /\ \A j \in Keys : j # k => (Undrained(j)' <=> Undrained(j))
  BY <1>1, <1>2, <1>3, SubjectStep
<1>5. ~Draining(b) /\ ~Undropped(b)
  BY <1>1, <1>2, OwnersAreKeys DEF Draining, Undropped, Inv, InvSubjects
<1>6. ShadowWakers'
  BY <1>1, <1>3, <1>4, <1>5, DropStepWakers DEF Undrained
<1>7. ShadowTypes'
  BY <1>1 DEF ShadowInv, ShadowTypes
<1>8. ShadowOutcomes'
  <2>1. {d \in published' : ~Undropped(d)'} = {d \in published : ~Undropped(d)}
    BY <1>1, <1>4, <1>5
  <2> QED
    BY <1>1, <2>1 DEF ShadowInv, ShadowOutcomes
<1> QED
  BY <1>4, <1>6, <1>7, <1>8 DEF ShadowInv

\* An epoch of k begins.
NewEpoch(k) ==
    /\ epochs' = [epochs EXCEPT ![k] = @ + 1]
    /\ tags' = Append(tags, <<epochs[k] + 1, k>>)

\* A new birth extends the tags by a tag that none had.
LEMMA NewTag ==
    ASSUME Inv, ShadowInv, NEW k \in Keys, births' = births + 1, NewEpoch(k)
    PROVE  /\ epochs' \in [Keys -> Nat] /\ tags' \in Seq(Tag) /\ ShadowTags'
           /\ encode(k)' = <<epochs[k] + 1, k>> /\ tags'[births + 1] = encode(k)'
           /\ \A j \in Keys : j # k => encode(j)' = encode(j)
           /\ \A b \in 1 .. births : tags'[b] = tags[b] /\ tags[b] # encode(k)'
<1>1. births \in Nat /\ Len(tags) = births /\ epochs[k] \in Nat /\ epochs \in [Keys -> Nat]
  BY BirthsHaveTags DEF ShadowInv, ShadowTags, ShadowTypes
<1>2. PICK new \in Tag : new = <<epochs[k] + 1, k>>
  <2>1. <<epochs[k] + 1, k>> \in Tag
    BY <1>1 DEF Tag
  <2> QED
    BY <2>1
<1>3. tags \in Seq(Tag) /\ tags' = Append(tags, new)
  BY <1>2 DEF ShadowInv, ShadowTypes, NewEpoch
<1>4. /\ tags' \in Seq(Tag) /\ Len(tags') = births + 1 /\ tags'[births + 1] = new
      /\ \A b \in 1 .. births : tags'[b] = tags[b]
  BY <1>1, <1>3
<1>5. epochs' \in [Keys -> Nat] /\ epochs'[k] = epochs[k] + 1
  BY <1>1 DEF NewEpoch
<1>6. \A j \in Keys : j # k => epochs'[j] = epochs[j]
  BY <1>1 DEF NewEpoch
<1>7. new[1] = epochs[k] + 1 /\ new[2] = k /\ encode(k)' = new
  BY <1>2, <1>5 DEF encode
<1>8. \A b \in 1 .. births : /\ tags[b][1] \in Nat /\ tags[b][2] \in Keys
                             /\ tags[b][1] <= epochs[tags[b][2]]
  BY <1>1, ShadowFields DEF ShadowInv, ShadowTags
<1>9. \A b \in 1 .. births : tags[b] # new
  BY <1>1, <1>7, <1>8
<1>10. \A b \in 1 .. births + 1 : b \in 1 .. births \/ b = births + 1
  BY <1>1
<1>11. \A j \in Keys : epochs[j] <= epochs'[j] /\ epochs[j] \in Nat /\ epochs'[j] \in Nat
  BY <1>1, <1>5, <1>6
<1>12. ASSUME NEW b \in 1 .. births + 1
       PROVE  tags'[b][1] <= epochs'[tags'[b][2]]
  <2>1. CASE b \in 1 .. births
    <3>1. PICK x \in Nat, j \in Keys : x = tags[b][1] /\ j = tags[b][2]
      BY <1>8, <2>1
    <3>2. x <= epochs[j]
      BY <1>8, <2>1, <3>1
    <3>3. x <= epochs'[j]
      BY <1>11, <3>2
    <3> QED
      BY <1>4, <2>1, <3>1, <3>3
  <2>2. CASE b = births + 1
    BY <1>4, <1>5, <1>7, <1>11, <2>2
  <2> QED
    BY <1>10, <2>1, <2>2
<1>13. ASSUME NEW b \in 1 .. births + 1, NEW d \in 1 .. births + 1, tags'[b] = tags'[d]
       PROVE  b = d
  BY <1>4, <1>9, <1>10, <1>13 DEF ShadowInv, ShadowTags
<1>14. ShadowTags'
  BY <1>4, <1>12, <1>13 DEF ShadowTags
<1>15. \A j \in Keys : j # k => encode(j)' = encode(j)
  BY <1>6 DEF encode
<1> QED
  BY <1>2, <1>4, <1>5, <1>7, <1>9, <1>14, <1>15

\* subject: a new epoch of the key, with no waker registered.
LEMMA RegisterKeepsShadow ==
    ASSUME Inv, Inv', ShadowInv, NEW k \in Keys, Register(k)
    PROVE  ShadowInv'
<1>1. /\ ~ending /\ CreateSubject(k, k) /\ NewEpoch(k)
      /\ UNCHANGED <<completed, retired, observations, wakers, ending>>
  BY DEF Register, Idle, NewEpoch
<1>2. PICK s \in Slots : Obtained(s) /\ NewSubject(k, k, s)
  BY <1>1 DEF CreateSubject, Obtained, Popped
<1>3. /\ open /\ ~Exists(k) /\ births < MaxBirths
      /\ UNCHANGED <<open, obs, published, fired>>
  BY <1>1 DEF CreateSubject, MayCreate
<1>4. /\ births' = births + 1
      /\ subjects' = [subjects EXCEPT ![k] =
            [key |-> k, generation |-> next_generation, birth |-> births + 1,
             slot |-> s, completed |-> FALSE, phase |-> "live"]]
  BY <1>2 DEF NewSubject
<1>5. /\ epochs' \in [Keys -> Nat] /\ tags' \in Seq(Tag) /\ ShadowTags'
      /\ tags'[births + 1] = encode(k)'
      /\ \A j \in Keys : j # k => encode(j)' = encode(j)
      /\ \A b \in 1 .. births : tags'[b] = tags[b] /\ tags[b] # encode(k)'
  BY <1>1, <1>4, NewTag
<1>6. /\ \A j \in Keys : j # k => subjects'[j] = subjects[j]
      /\ subjects'[k].key = k /\ subjects'[k].birth = births + 1
      /\ subjects'[k].slot = s /\ ~subjects'[k].completed /\ subjects'[k].phase = "live"
  BY <1>4, OwnersAreKeys DEF Inv, TypeOK
<1>7. Exists(k)'
  BY <1>2, <1>3, NewSubjectType, NullAssumption, OwnersAreKeys DEF Exists
<1>8. /\ births \in Nat /\ published \subseteq 1 .. births
      /\ \A j \in Keys : Exists(j) => subjects[j].birth \in 1 .. births
      /\ \A h \in Handles : Observes(h) => obs[h].birth \in 1 .. births
  BY BirthsHaveTags
<1>9. \A j \in Keys : Exists(j)' <=> Exists(j) \/ j = k
  BY <1>6, <1>7 DEF Exists
<1>10. ShadowTypes'
  BY <1>1, <1>5 DEF ShadowInv, ShadowTypes
<1>11. ShadowSubjects'
  <2>1. ASSUME NEW j \in Keys, Exists(j)'
        PROVE  subjects'[j].key = j /\ tags'[subjects'[j].birth] = encode(j)'
    <3>1. CASE j = k
      BY <1>5, <1>6, <3>1
    <3>2. CASE j # k
      <4>1. Exists(j) /\ subjects'[j] = subjects[j] /\ subjects[j].birth \in 1 .. births
        BY <1>6, <1>8, <1>9, <2>1, <3>2
      <4> QED
        BY <1>5, <3>2, <4>1 DEF ShadowInv, ShadowSubjects
    <3> QED
      BY <3>1, <3>2
  <2> QED
    BY <2>1 DEF ShadowSubjects
<1>12. ShadowObservations'
  <2>1. ASSUME NEW i \in 1 .. Len(observations)
        PROVE  /\ Usable(observations[i].handle)'
               /\ observations'[i].tag = tags'[obs'[observations'[i].handle].birth]
    <3>1. PICK h \in Handles : h = observations[i].handle
      BY ShadowFields DEF ShadowInv
    <3>2. Usable(h) /\ observations[i].tag = tags[obs[h].birth]
      BY <3>1 DEF ShadowInv, ShadowObservations
    <3>3. tags'[obs[h].birth] = tags[obs[h].birth]
      BY <1>5, <1>8, <3>2 DEF Usable
    <3> QED
      BY <1>1, <1>3, <3>1, <3>2, <3>3 DEF Usable, Observes
  <2>2. \A h : Usable(h)' <=> Usable(h)
    BY <1>3 DEF Usable, Observes
  <2> QED
    BY <1>1, <2>1, <2>2 DEF ShadowInv, ShadowObservations
<1>13. /\ \A d \in published : Undropped(d)' <=> Undropped(d)
       /\ \A d : Draining(d)' <=> Draining(d)
  <2>1. \A d \in published : d # births + 1
    BY <1>8
  <2>2. \A d \in published : Undropped(d)' <=> Undropped(d)
    BY <1>3, <1>6, <1>9, <2>1 DEF Undropped
  <2>3. \A d : Draining(d)' <=> Draining(d)
    BY <1>3, <1>6, <1>9 DEF Draining
  <2> QED
    BY <2>2, <2>3
<1>14. ShadowOutcomes'
  <2>1. \A d \in published : tags'[d] = tags[d]
    BY <1>5, <1>8
  <2>2. completed' = {tags'[d] : d \in published'}
    BY <1>1, <1>3, <2>1 DEF ShadowInv, ShadowOutcomes
  <2>3. {d \in published' : ~Undropped(d)'} = {d \in published : ~Undropped(d)}
    BY <1>3, <1>13
  <2>4. retired = {tags[d] : d \in {e \in published : ~Undropped(e)}}
    BY <1>1 DEF ShadowInv, ShadowOutcomes
  <2>5. {tags'[d] : d \in {e \in published : ~Undropped(e)}}
          = {tags[d] : d \in {e \in published : ~Undropped(e)}}
    BY <2>1
  <2> QED
    BY <1>1, <2>2, <2>3, <2>4, <2>5 DEF ShadowOutcomes
<1>15. ShadowWakers'
  <2>1. wakers' \subseteq {tags'[d] : d \in 1 .. births'}
    <3>1. 1 .. births \subseteq 1 .. births'
      BY <1>4, <1>8
    <3> QED
      BY <1>1, <1>5, <3>1 DEF ShadowInv, ShadowWakers
  <2>2. encode(k)' \notin wakers
    BY <1>5 DEF ShadowInv, ShadowWakers
  <2>3. registry' = [registry EXCEPT ![s] = {}] /\ registry \in [Slots -> SUBSET Births]
    BY <1>2, <1>3, ObtainedFacts DEF Inv, TypeOK
  <2>4. ASSUME NEW j \in Keys, Undrained(j)'
        PROVE  encode(j)' \in wakers' <=> subjects'[j].birth \in registry'[subjects'[j].slot]
    <3>1. CASE j = k
      <4>1. registry'[s] = {}
        BY <2>3
      <4> QED
        BY <1>1, <1>6, <2>2, <3>1, <4>1
    <3>2. CASE j # k
      <4>1. Exists(j) /\ Undrained(j) /\ subjects'[j] = subjects[j]
        BY <1>6, <1>9, <2>4, <3>2 DEF Undrained
      <4>2. subjects[j].slot \in Slots /\ subjects[j].slot # s
        <5>1. subjects[j].slot \in Slots /\ subjects[j].birth \in Births
          BY <4>1, SubjectTag
        <5>2. Uses(subjects[j].slot, subjects[j].birth)
          BY <4>1, OwnersAreKeys DEF Undrained, Uses
        <5> QED
          BY <1>2, <1>3, <5>1, <5>2, ObtainedFacts
      <4>3. registry'[subjects[j].slot] = registry[subjects[j].slot]
        BY <2>3, <4>2
      <4> QED
        BY <1>1, <1>5, <3>2, <4>1, <4>3 DEF ShadowInv, ShadowWakers
    <3> QED
      BY <3>1, <3>2
  <2>5. {d \in published' : tags'[d] \in wakers' /\ ~Draining(d)'}
          = {d \in published : tags[d] \in wakers /\ ~Draining(d)}
    BY <1>1, <1>3, <1>5, <1>8, <1>13
  <2>6. fired' = {<<d, d>> : d \in {e \in published' : tags'[e] \in wakers' /\ ~Draining(e)'}}
    BY <1>3, <2>5 DEF ShadowInv, ShadowWakers
  <2>7. \A d \in Births : Draining(d)' => d \in published'
    BY <1>3, <1>13 DEF ShadowInv, ShadowWakers
  <2> QED
    BY <2>1, <2>4, <2>6, <2>7 DEF ShadowWakers
<1>16. ShadowEnd'
  BY <1>3 DEF ShadowEnd
<1> QED
  BY <1>5, <1>10, <1>11, <1>12, <1>14, <1>15, <1>16 DEF ShadowInv

-------------------------------------------------------------------------------
(***************************************************************************)
(* The end of the input, and the invariant.                                *)
(***************************************************************************)

\* The teardown begins.
LEMMA BeginKeepsShadow ==
    ASSUME Inv, ShadowInv, BeginTeardown
    PROVE  ShadowInv'
<1>1. /\ UNCHANGED <<open, table, pool, births, subjects, obs, registry, published, fired>>
      /\ UNCHANGED <<epochs, tags, completed, retired, observations, wakers>>
      /\ ~ending /\ ending' = TRUE
  BY DEF BeginTeardown, Idle, vars
<1>2. ShadowTags' /\ ShadowSubjects' /\ ShadowOutcomes' /\ ShadowWakers'
  BY <1>1, SubjectsUntouched
<1>3. ShadowTypes'
  BY <1>1 DEF ShadowInv, ShadowTypes
<1>4. ShadowObservations'
  BY <1>1 DEF ShadowInv, ShadowObservations, Usable, Observes
<1>5. ShadowEnd'
  BY <1>1 DEF ShadowInv, ShadowEnd
<1> QED
  BY <1>2, <1>3, <1>4, <1>5 DEF ShadowInv

\* The space goes when no observation and no subject is left.
LEMMA DropSpaceKeepsShadow ==
    ASSUME Inv, ShadowInv, DropSpace, ending, ~Running, observations = <<>>,
           \A k \in Keys : ~Exists(k), UNCHANGED shadow
    PROVE  ShadowInv'
<1>1. /\ UNCHANGED <<births, subjects, obs, registry, published, fired>>
      /\ UNCHANGED <<epochs, tags, completed, retired, observations, wakers, ending>>
  BY DEF DropSpace, shadow
<1>2. ShadowTags' /\ ShadowSubjects' /\ ShadowOutcomes' /\ ShadowWakers'
  BY <1>1, SubjectsUntouched
<1>3. ShadowTypes'
  BY <1>1 DEF ShadowInv, ShadowTypes
<1>4. ShadowObservations'
  BY <1>1 DEF ShadowInv, ShadowObservations, Usable, Observes
<1>5. \A h \in Handles : ~Observes(h)
  BY DEF ShadowInv, ShadowObservations, Usable, Running
<1>6. ~InnerKept(FALSE, Null)
  BY OwnersAreKeys DEF InnerKept
<1>7. pool' = <<>> /\ table' = [k \in Keys |-> Null]
  BY <1>6 DEF DropSpace, ReleaseInner
<1>8. ShadowEnd'
  BY <1>1, <1>5, <1>7 DEF ShadowEnd, Exists, Retained, Observes
<1> QED
  BY <1>2, <1>3, <1>4, <1>8 DEF ShadowInv

\* The initial states.
LEMMA FuzzInitInv == FuzzInit => Inv /\ ShadowInv
<1> SUFFICES ASSUME FuzzInit PROVE Inv /\ ShadowInv
  OBVIOUS
<1>1. Inv
  BY InitInv DEF FuzzInit
<1>2. /\ \A k \in Keys : ~Exists(k)
      /\ \A h \in Handles : ~Observes(h)
      /\ 1 .. Len(observations) = {} /\ 1 .. births = {} /\ Len(tags) = births
  BY OwnersAreKeys DEF Exists, Observes, FuzzInit, Init
<1>3. ShadowTypes
  <2>1. \A S : <<>> \in Seq(S)
    OBVIOUS
  <2> QED
    BY <2>1 DEF ShadowTypes, FuzzInit
<1>4. ShadowTags /\ ShadowSubjects
  BY <1>2 DEF ShadowTags, ShadowSubjects
<1>5. ShadowObservations
  BY <1>2 DEF ShadowObservations, Usable
<1>6. ShadowOutcomes
  BY DEF ShadowOutcomes, FuzzInit, Init
<1>7. ShadowWakers
  BY <1>2 DEF ShadowWakers, Undrained, Draining, FuzzInit, Init
<1>8. ShadowEnd
  BY DEF ShadowEnd, FuzzInit, Init
<1> QED
  BY <1>1, <1>3, <1>4, <1>5, <1>6, <1>7, <1>8 DEF ShadowInv

\* Every operation of the targets keeps both invariants.
LEMMA FuzzNextInv ==
    Inv /\ ShadowInv /\ [FuzzNext]_<<vars, shadow>> => Inv' /\ ShadowInv'
<1> SUFFICES ASSUME Inv, ShadowInv, [FuzzNext]_<<vars, shadow>>
             PROVE  Inv' /\ ShadowInv'
  OBVIOUS
<1>1. Inv'
  <2>1. [Next]_vars
    BY StepsAreOfTheSpace DEF ShadowInv
  <2> QED
    BY <2>1, NextInv
<1> SUFFICES ShadowInv'
  BY <1>1
<1>2. ASSUME NEW k \in Keys, Register(k)
      PROVE  ShadowInv'
  BY <1>1, <1>2, RegisterKeepsShadow
<1>3. ASSUME NEW k \in Keys, CompleteKey(k)
      PROVE  ShadowInv'
  BY <1>3, CompleteKeepsShadow
<1>4. ASSUME NEW k \in Keys, ObserveKey(k)
      PROVE  ShadowInv'
  BY <1>4, ObserveKeepsShadow
<1>5. ASSUME NEW k \in Keys, RetireKey(k)
      PROVE  ShadowInv'
  BY <1>5, RetireKeepsShadow DEF RetireKey
<1>6. CASE IntoOutcomeNewest \/ DropNewest
  <2>1. observations # <<>> /\ Newest.handle \in Handles
    BY <1>6, VecEnds DEF IntoOutcomeNewest, DropNewest, ShadowInv
  <2> QED
    BY <1>6, <2>1, TakeKeepsShadow DEF IntoOutcomeNewest, DropNewest
<1>7. CASE RegisterWakerNewest
  BY <1>7, RegisterWakerKeepsShadow
<1>8. CASE Finish
  <2>1. ASSUME NEW k \in Keys, Drain(k) \/ DropFields(k)
        PROVE  ShadowInv'
    BY <1>8, <2>1, DrainKeepsShadow, DropFieldsKeepsShadow DEF Finish
  <2>2. ASSUME NEW h \in Handles, obs[h] # Null, obs[h].phase # "live", DropObservation(h)
        PROVE  ShadowInv'
    BY <1>8, <2>2, RefusedKeepsShadow DEF Finish, Observes
  <2> QED
    BY <1>8, <2>1, <2>2 DEF Finish
<1>9. CASE BeginTeardown
  BY <1>9, BeginKeepsShadow
<1>10. CASE Teardown
  <2>1. ending /\ ~Running /\ UNCHANGED <<epochs, tags, completed, retired, wakers, ending>>
    BY <1>10 DEF Teardown
  <2>2. CASE /\ observations # <<>> /\ DropObservation(Head(observations).handle)
             /\ observations' = Tail(observations)
    <3>1. Head(observations).handle \in Handles
      BY <2>2, VecEnds DEF ShadowInv
    <3> QED
      BY <2>1, <2>2, <3>1, TakeKeepsShadow
  <2>3. ASSUME observations = <<>>, UNCHANGED observations, NEW k \in Keys, Retire(k)
        PROVE  ShadowInv'
    BY <2>1, <2>3, RetireKeepsShadow
  <2>4. CASE /\ observations = <<>> /\ UNCHANGED observations
             /\ (\A k \in Keys : ~Exists(k)) /\ DropSpace
    BY <2>1, <2>4, DropSpaceKeepsShadow DEF shadow
  <2> QED
    BY <1>10, <2>2, <2>3, <2>4 DEF Teardown
<1>11. CASE UNCHANGED <<vars, shadow>>
  <2>1. /\ UNCHANGED <<open, table, pool, births, subjects, obs, registry, published, fired>>
        /\ UNCHANGED <<epochs, tags, completed, retired, observations, wakers, ending>>
    BY <1>11 DEF vars, shadow
  <2>2. ShadowTags' /\ ShadowSubjects' /\ ShadowOutcomes' /\ ShadowWakers'
    BY <2>1, SubjectsUntouched
  <2>3. ShadowTypes' /\ ShadowObservations' /\ ShadowEnd'
    BY <2>1 DEF ShadowInv, ShadowTypes, ShadowObservations, ShadowEnd, Usable, Observes,
                Exists, Retained
  <2> QED
    BY <2>2, <2>3 DEF ShadowInv
<1> QED
  BY <1>1, <1>2, <1>3, <1>4, <1>5, <1>6, <1>7, <1>8, <1>9, <1>10, <1>11 DEF FuzzNext

\* Both invariants hold after every step of every input.
LEMMA FuzzInvariance == FuzzSpec => [](Inv /\ ShadowInv)
BY FuzzInitInv, FuzzNextInv, PTL DEF FuzzSpec

\* The shadow of the fuzz targets describes the namespace after every step of
\* every input, in the middle of complete, drop and into_outcome too.
THEOREM ShadowIsFaithful == FuzzSpec => []ShadowInv
BY FuzzInvariance, PTL

-------------------------------------------------------------------------------
(***************************************************************************)
(* The oracles.                                                            *)
(***************************************************************************)

\* Current and completed, by birth.
LEMMA ShadowByBirth ==
    ASSUME Inv, ShadowInv, NEW b \in 1 .. births
    PROVE  /\ Current(tags[b]) <=> \E k \in Keys : Exists(k) /\ subjects[k].birth = b
           /\ tags[b] \in completed <=> b \in published
           /\ ~(ending /\ observations = <<>>) =>
                 (tags[b] \in retired <=> b \in published /\ ~Undropped(b))
<1>1. /\ tags[b][1] \in Nat /\ tags[b][2] \in Keys /\ tags[b] = <<tags[b][1], tags[b][2]>>
      /\ published \subseteq 1 .. births
      /\ \A d \in 1 .. births : tags[d] = tags[b] => d = b
  BY ShadowFields, BirthsHaveTags DEF ShadowInv, ShadowTags
<1>2. \A k \in Keys : Exists(k) => /\ subjects[k].birth \in 1 .. births
                                    /\ tags[subjects[k].birth] = <<epochs[k], k>>
  BY SubjectTag DEF encode
<1>3. ASSUME Current(tags[b])
      PROVE  \E k \in Keys : Exists(k) /\ subjects[k].birth = b
  <2>1. Exists(tags[b][2]) /\ <<epochs[tags[b][2]], tags[b][2]>> = tags[b]
    BY <1>1, <1>3 DEF Current
  <2> QED
    BY <1>1, <1>2, <2>1
<1>4. ASSUME NEW k \in Keys, Exists(k), subjects[k].birth = b
      PROVE  Current(tags[b])
  <2>1. tags[b] = <<epochs[k], k>>
    BY <1>2, <1>4
  <2>2. tags[b][1] = epochs[k] /\ tags[b][2] = k
    BY <2>1
  <2> QED
    BY <1>4, <2>2 DEF Current
<1>5. tags[b] \in completed <=> b \in published
  BY <1>1 DEF ShadowInv, ShadowOutcomes
<1>6. ASSUME ~(ending /\ observations = <<>>)
      PROVE  tags[b] \in retired <=> b \in published /\ ~Undropped(b)
  <2>1. retired = {tags[d] : d \in {e \in published : ~Undropped(e)}}
    BY <1>6 DEF ShadowInv, ShadowOutcomes
  <2> QED
    BY <1>1, <2>1
<1> QED
  BY <1>3, <1>4, <1>5, <1>6

\* An element of the Vec and what the namespace knows of it.
LEMMA VecElement ==
    ASSUME Inv, ShadowInv, NEW i \in 1 .. Len(observations)
    PROVE  LET h == observations[i].handle
               s == obs[h].slot
               b == obs[h].birth
           IN  /\ h \in Handles /\ Observes(h) /\ s \in Slots /\ b \in Births
               /\ b \in 1 .. births /\ Uses(s, b) /\ observations[i].tag = tags[b]
               /\ COMPLETED \in state[s] <=> b \in published
               /\ COMPLETED \in state[s] => outcome[s] = b
<1>1. PICK h \in Handles : h = observations[i].handle
  BY ShadowFields DEF ShadowInv
<1>2. Observes(h) /\ observations[i].tag = tags[obs[h].birth]
  BY <1>1 DEF ShadowInv, ShadowObservations, Usable
<1>3. obs[h].slot \in Slots /\ obs[h].birth \in Births /\ obs[h].birth \in 1 .. births
  BY <1>2, FieldTypes, BirthsHaveTags DEF Inv
<1>4. Uses(obs[h].slot, obs[h].birth)
  BY <1>2 DEF Uses
<1>5. /\ COMPLETED \in state[obs[h].slot] <=> obs[h].birth \in published
      /\ COMPLETED \in state[obs[h].slot] => outcome[obs[h].slot] = obs[h].birth
  BY <1>3, <1>4 DEF Inv, InvGenerations
<1> QED
  BY <1>1, <1>2, <1>3, <1>4, <1>5

\* try_get: the assertion of the three targets after every operation, that an
\* observation resolves iff its own generation completed, to that generation's
\* value, however often slots and keys were reused.
THEOREM TryGetAnswersShadow == FuzzSpec => []TryGetOracle
<1>1. ASSUME Inv, ShadowInv, ~Running, NEW i \in DOMAIN observations
      PROVE  LET o == observations[i]
                 s == obs[o.handle].slot
             IN  /\ COMPLETED \in state[s] <=> o.tag \in completed
                 /\ COMPLETED \in state[s] <=> DoneByOps(o.tag)
                 /\ COMPLETED \in state[s] => tags[outcome[s]] = o.tag
  <2>1. i \in 1 .. Len(observations) /\ observations # <<>>
    BY <1>1 DEF ShadowInv, ShadowTypes
  <2>2. PICK b \in 1 .. births, s \in Slots :
           /\ s = obs[observations[i].handle].slot /\ observations[i].tag = tags[b]
           /\ COMPLETED \in state[s] <=> b \in published
           /\ COMPLETED \in state[s] => outcome[s] = b
    BY <1>1, <2>1, VecElement
  <2>3. Current(tags[b]) <=> Undropped(b)
    BY <1>1, ShadowByBirth DEF Undropped, Running
  <2>4. DoneByOps(tags[b]) <=> b \in published
    BY <1>1, <2>1, <2>3, ShadowByBirth DEF DoneByOps
  <2> QED
    BY <1>1, <2>2, <2>4, ShadowByBirth
<1>2. Inv /\ ShadowInv => TryGetOracle
  BY <1>1 DEF TryGetOracle
<1> QED
  BY <1>2, FuzzInvariance, PTL

\* register_waker: between operations the wakers that fired are exactly the
\* registered ones whose generation completed, each woken by its own.
THEOREM WakersFireAsShadow == FuzzSpec => []WakerOracle
<1>1. ASSUME Inv, ShadowInv, ~Running
      PROVE  {<<tags[wake[1]], tags[wake[2]]>> : wake \in fired} =
                {<<tag, tag>> : tag \in wakers \cap completed}
  <2>1. \A d : ~Draining(d)
    BY <1>1 DEF Draining, Running
  <2>2. fired = {<<d, d>> : d \in {e \in published : tags[e] \in wakers}}
    BY <1>1, <2>1 DEF ShadowInv, ShadowWakers
  <2>3. completed = {tags[b] : b \in published}
    BY <1>1 DEF ShadowInv, ShadowOutcomes
  <2>4. ASSUME NEW wake \in fired
        PROVE  <<tags[wake[1]], tags[wake[2]]>> \in {<<tag, tag>> : tag \in wakers \cap completed}
    <3>1. PICK d \in published : tags[d] \in wakers /\ wake = <<d, d>>
      BY <2>2
    <3>2. wake[1] = d /\ wake[2] = d
      BY <3>1
    <3> QED
      BY <2>3, <3>1, <3>2
  <2>5. ASSUME NEW tag \in wakers \cap completed
        PROVE  <<tag, tag>> \in {<<tags[wake[1]], tags[wake[2]]>> : wake \in fired}
    <3>1. PICK d \in published : tags[d] = tag
      BY <2>3
    <3>2. <<d, d>> \in fired /\ <<d, d>>[1] = d /\ <<d, d>>[2] = d
      BY <2>2, <3>1
    <3> QED
      BY <3>1, <3>2
  <2> QED
    BY <2>4, <2>5
<1>2. Inv /\ ShadowInv => WakerOracle
  BY <1>1 DEF WakerOracle
<1> QED
  BY <1>2, FuzzInvariance, PTL

\* The teardown: with everything dropped, every value that was created was
\* dropped or moved out once, no other was, and no slot is left.
THEOREM TeardownDropsAll == FuzzSpec => []DropOracle
<1>1. ASSUME Inv, ShadowInv, ~open
      PROVE  /\ \A b \in published : ended[b] = 1
             /\ \A b \in Births \ published : ended[b] = 0
             /\ live = {}
  <2>1. /\ pool = <<>> /\ \A k \in Keys : ~Exists(k) /\ ~Retained(k)
        /\ \A h \in Handles : ~Observes(h)
    BY <1>1 DEF ShadowInv, ShadowEnd
  <2>2. 1 .. Len(pool) = {}
    BY <2>1
  <2>3. \A s : HandlesOf(s) = {}
    BY <2>1, <2>2, OwnersAreKeys DEF HandlesOf
  <2>4. live = {}
    BY <1>1, <2>3 DEF Inv, TypeOK, InvSlots
  <2>5. \A b \in Births : ended[b] = IF b \in published THEN 1 ELSE 0
    BY <1>1, <2>4, NothingPanics DEF Inv, InvEnded
  <2> QED
    BY <1>1, <2>4, <2>5 DEF Inv, TypeOK
<1>2. Inv /\ ShadowInv => DropOracle
  BY <1>1 DEF DropOracle
<1> QED
  BY <1>2, FuzzInvariance, PTL

\* With the subject of its generation gone, only peers of that generation hold
\* the slot of an observation; the Vec knows all of them between operations.
LEMMA NewestAlone ==
    ASSUME Inv, ShadowInv, ~Running, observations # <<>>
    PROVE  strong_count(obs[Newest.handle].slot) = 1 <=>
              /\ ~Current(Newest.tag)
              /\ {i \in 1 .. Len(observations) - 1 : observations[i].tag = Newest.tag} = {}
<1> DEFINE n == Len(observations)
<1>1. n \in Nat \ {0} /\ n \in 1 .. n /\ Newest = observations[n]
  BY VecEnds DEF ShadowInv
<1>2. PICK h \in Handles, s \in Slots, b \in Births :
         /\ h = observations[n].handle /\ Observes(h) /\ s = obs[h].slot /\ b = obs[h].birth
         /\ b \in 1 .. births /\ Uses(s, b) /\ observations[n].tag = tags[b]
  BY <1>1, VecElement
<1> DEFINE me == <<"obs", h>>
<1>3. me \in HandlesOf(s) /\ IsFiniteSet(HandlesOf(s))
  BY <1>2, HandleFacts, HandlesFinite DEF HandlesAre, Inv
<1>4. strong_count(s) = 1 <=> HandlesOf(s) = {me}
  <2>1. HandlesOf(s) = {me} => Cardinality(HandlesOf(s)) = 1
    BY FS_Singleton
  <2>2. Cardinality(HandlesOf(s)) = 1 => HandlesOf(s) = {me}
    BY <1>3, CountOne
  <2> QED
    BY <2>1, <2>2 DEF strong_count
<1>5. \A t \in Slots, d \in Births : Uses(t, d) => (s = t <=> b = d)
  BY <1>2 DEF Inv, InvGenerations
<1>6. \A k \in Keys : Exists(k) => (subjects[k].slot = s <=> subjects[k].birth = b)
  <2>1. ASSUME NEW k \in Keys, Exists(k)
        PROVE  Uses(subjects[k].slot, subjects[k].birth)
    BY <2>1, OwnersAreKeys DEF Uses, Running
  <2> QED
    BY <1>5, <2>1, SubjectTag
<1>7. \A g \in Handles : Observes(g) => (obs[g].slot = s <=> obs[g].birth = b)
  <2>1. \A g \in Handles : Observes(g) => Uses(obs[g].slot, obs[g].birth)
    BY DEF Uses
  <2> QED
    BY <1>5, <2>1, FieldTypes DEF Inv
<1>8. Current(tags[b]) <=> \E k \in Keys : Exists(k) /\ subjects[k].birth = b
  BY <1>2, ShadowByBirth
<1>9. ~Pooled(s)
  BY <1>2 DEF Inv, InvGenerations
<1>10. \A k \in Keys : Retained(k) /\ table[k].slot = s => Current(tags[b])
  <2>1. ASSUME NEW k \in Keys, Retained(k), table[k].slot = s
        PROVE  Current(tags[b])
    <3>1. Exists(k) /\ subjects[k].birth = table[k].birth
      BY <2>1, EntryTag
    <3>2. Uses(s, table[k].birth) /\ table[k].birth \in Births
      BY <2>1, FieldTypes DEF Uses, Inv
    <3> QED
      BY <1>5, <1>8, <3>1, <3>2
  <2> QED
    BY <2>1
<1> DEFINE sharers == {i \in 1 .. n - 1 : observations[i].tag = tags[b]}
<1>11. ASSUME NEW g \in Handles, Observes(g), obs[g].slot = s, g # h
       PROVE  sharers # {}
  <2>1. Usable(g)
    BY <1>11 DEF Usable, Running
  <2>2. PICK i \in 1 .. n : observations[i].handle = g
    BY <2>1 DEF ShadowInv, ShadowObservations
  <2>3. observations[i].tag = tags[obs[g].birth]
    BY <2>2 DEF ShadowInv, ShadowObservations
  <2>4. i # n
    BY <1>2, <1>11, <2>2
  <2>5. i \in 1 .. n - 1
    BY <1>1, <2>2, <2>4
  <2> QED
    BY <1>7, <1>11, <2>3, <2>5
<1>12. ASSUME NEW i \in sharers
       PROVE  \E g \in Handles : Observes(g) /\ obs[g].slot = s /\ g # h
  <2>1. i \in 1 .. n /\ i # n /\ observations[i].tag = tags[b]
    BY <1>1, <1>12
  <2>2. PICK g \in Handles :
           /\ g = observations[i].handle /\ Observes(g) /\ obs[g].birth \in 1 .. births
           /\ observations[i].tag = tags[obs[g].birth]
    BY <2>1, VecElement
  <2>3. obs[g].birth = b
    BY <1>2, <2>1, <2>2 DEF ShadowInv, ShadowTags
  <2>4. g # h
    BY <1>1, <1>2, <2>1, <2>2 DEF ShadowInv, ShadowObservations
  <2> QED
    BY <1>7, <2>2, <2>3, <2>4
<1> HIDE DEF sharers
<1>13. ASSUME ~Current(tags[b]), sharers = {}
       PROVE  HandlesOf(s) = {me}
  <2>1. ASSUME NEW x \in HandlesOf(s)
        PROVE  x = me
    <3>1. ASSUME NEW k \in Keys, x = <<"table", k>>
          PROVE  FALSE
      BY <1>10, <1>13, <2>1, <3>1, HandleFacts DEF HandlesAre
    <3>2. ASSUME NEW j \in 1 .. Len(pool), x = <<"pool", j>>
          PROVE  FALSE
      BY <1>9, <2>1, <3>2, HandleFacts DEF HandlesAre, Pooled
    <3>3. ASSUME NEW c \in Owners, x = <<"subject", c>>
          PROVE  FALSE
      BY <1>6, <1>8, <1>13, <2>1, <3>3, HandleFacts, OwnersAreKeys DEF HandlesAre
    <3>4. ASSUME NEW g \in Handles, x = <<"obs", g>>
          PROVE  x = me
      BY <1>11, <1>13, <2>1, <3>4, HandleFacts DEF HandlesAre
    <3> QED
      BY <2>1, <3>1, <3>2, <3>3, <3>4, HandleFacts DEF HandlesAre
  <2> QED
    BY <1>3, <2>1
<1>14. ASSUME HandlesOf(s) = {me}
       PROVE  ~Current(tags[b]) /\ sharers = {}
  <2>1. ASSUME NEW k \in Keys, Exists(k), subjects[k].birth = b
        PROVE  FALSE
    <3>1. <<"subject", k>> \in HandlesOf(s)
      BY <1>6, <2>1, HandleFacts, OwnersAreKeys DEF HandlesAre
    <3> QED
      BY <1>14, <3>1
  <2>2. ASSUME NEW g \in Handles, Observes(g), obs[g].slot = s, g # h
        PROVE  FALSE
    <3>1. <<"obs", g>> \in HandlesOf(s)
      BY <2>2, HandleFacts DEF HandlesAre
    <3> QED
      BY <1>14, <2>2, <3>1
  <2> QED
    BY <1>8, <1>12, <2>1, <2>2
<1> QED
  BY <1>1, <1>2, <1>4, <1>13, <1>14 DEF sharers

\* into_outcome: the assertion of the three targets, that the newest observation
\* yields the outcome iff its subject is gone, it completed and no other
\* observation of the generation is left.
THEOREM IntoOutcomeAnswersShadow == FuzzSpec => []IntoOutcomeOracle
<1>1. ASSUME Inv, ShadowInv, ~Running, observations # <<>>
      PROVE  COMPLETED \in state[obs[Newest.handle].slot] <=> Newest.tag \in completed
  <2>1. Newest = observations[Len(observations)] /\ Len(observations) \in 1 .. Len(observations)
    BY <1>1, VecEnds DEF ShadowInv
  <2>2. PICK b \in 1 .. births :
           /\ Newest.tag = tags[b]
           /\ COMPLETED \in state[obs[Newest.handle].slot] <=> b \in published
    BY <1>1, <2>1, VecElement
  <2> QED
    BY <1>1, <2>2, ShadowByBirth
<1>2. Inv /\ ShadowInv => IntoOutcomeOracle
  BY <1>1, NewestAlone DEF IntoOutcomeOracle, Idle
<1> QED
  BY <1>2, FuzzInvariance, PTL

===============================================================================
