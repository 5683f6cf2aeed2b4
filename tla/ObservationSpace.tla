--------------------------- MODULE ObservationSpace ---------------------------
(***************************************************************************)
(* The keyed namespace of bombay-observe (crates/observe/src/lib.rs, types *)
(* ObservationSpace, Subject, Publisher and Observation) and the life of   *)
(* its slots: allocated, shared through Arc handles, retired, recycled     *)
(* through the pool for another generation, and freed.                     *)
(*                                                                         *)
(* A step is one critical section of the entries lock, or one access to a  *)
(* slot or to its reference count outside that lock.  What happens inside  *)
(* one generation's slot is the subject of module Slot; here complete is   *)
(* the publication and the drain, and register_waker is one step.          *)
(*                                                                         *)
(* Generation numbers wrap at MaxGen, the model's usize::MAX, so a subject *)
(* also has a birth: its position among all subjects ever created.  A      *)
(* birth stands for the outcome that subject publishes, too.               *)
(*                                                                         *)
(* Arc's strong count is the number of handles that exist.                 *)
(***************************************************************************)
EXTENDS Naturals, Sequences, FiniteSets

CONSTANTS
    Keys,
    Owners,      \* those who create and drop subjects and publishers
    Handles,     \* the observations that may exist at the same time
    Slots,       \* addresses of slots
    Null,        \* no entry, no subject, no observation, and pair()'s key
    PoolCap,     \* SLOT_POOL_CAP
    MaxGen,      \* usize::MAX
    MaxBirths,   \* bound: subjects and publishers ever created
    DropPanics,  \* may dropping an outcome panic?
    KeyPanics    \* may Eq, Hash or Clone of a key panic?

ASSUME SpaceAssumption ==
    /\ Null \notin Keys \cup Slots \cup Owners \cup Handles
    /\ IsFiniteSet(Keys) /\ IsFiniteSet(Owners) /\ IsFiniteSet(Handles)
    /\ PoolCap \in Nat /\ MaxGen \in Nat /\ MaxBirths \in Nat
    /\ DropPanics \in BOOLEAN /\ KeyPanics \in BOOLEAN

COMPLETED     == "COMPLETED"
HAS_WAITER    == "HAS_WAITER"
OUTCOME_VALID == "OUTCOME_VALID"
Bits          == {COMPLETED, HAS_WAITER, OUTCOME_VALID}

Births == 1 .. MaxBirths
NoOutcome == 0      \* an outcome cell never written

VARIABLES
    open,      \* does a handle of the space itself still exist?
    table,     \* Entries::map: Null or the SlotEntry of every key
    pool,      \* Entries::pool, top at the end
    next_generation,
    births,    \* how many subjects and publishers have been created
    subjects,  \* subjects[c]: Null, or the Subject (or Publisher) of owner c
    obs,       \* obs[h]: Null, or the Observation h
    live,      \* the slots that are allocated
    state,     \* state[s]: the slot's state word, as a set of bits
    outcome,   \* outcome[s]: the slot's outcome cell
    registry,  \* registry[s]: births whose observers left a waker registered
    published, \* the births whose outcome has been published
    ended,     \* ended[b]: how often b's outcome was dropped or moved out
    fired,     \* <<a, b>>: a waker registered with a was woken by b
    lost,      \* [key, generation] of the entries that unwinding dropped
    left       \* births of the subjects whose drop left the entry behind

vars == <<open, table, pool, next_generation, births, subjects, obs, live,
          state, outcome, registry, published, ended, fired, lost, left>>

SlotEntry == [generation : 0 .. MaxGen, slot : Slots, birth : Births]

\* live: may complete.  drain: inside complete, notifying.  dropping: out of
\* the critical section of drop, the slot field not yet released.
Subject == [key : Keys \cup {Null}, generation : 0 .. MaxGen, birth : Births,
            slot : Slots, completed : BOOLEAN,
            phase : {"live", "drain", "dropping"}]

\* refused: into_outcome found the slot shared and has still to release it;
\* stranger: with an outcome there, and no other handle of its generation.
Observation == [slot : Slots, birth : Births,
                phase : {"live", "refused", "stranger"}]

\* Null is none of these records.
ASSUME NullAssumption == Null \notin SlotEntry \cup Subject \cup Observation

Exists(c)   == subjects[c] # Null
Observes(h) == obs[h] # Null
Retained(k) == table[k] # Null

HandlesOf(s) ==
    {<<"table", k>>   : k \in {k \in Keys : Retained(k) /\ table[k].slot = s}} \cup
    {<<"pool", i>>    : i \in {i \in 1 .. Len(pool) : pool[i] = s}} \cup
    {<<"subject", c>> : c \in {c \in Owners : Exists(c) /\ subjects[c].slot = s}} \cup
    {<<"obs", h>>     : h \in {h \in Handles : Observes(h) /\ obs[h].slot = s}}

strong_count(s) == Cardinality(HandlesOf(s))

-------------------------------------------------------------------------------
(***************************************************************************)
(* Slot: drop_outcome, Drop, reset.                                        *)
(***************************************************************************)

\* ended after the values in the cells of the slots ss were dropped.
DropOutcomes(ss) ==
    [b \in Births |-> ended[b] +
        Cardinality({s \in ss : OUTCOME_VALID \in state[s] /\ outcome[s] = b})]

\* The slots that go with the handles in gone, having no other.
Freed(gone) == {s \in live : HandlesOf(s) \subseteq gone}

\* The handles in gone are dropped (Slot::drop).
Release(gone) ==
    /\ live' = live \ Freed(gone)
    /\ ended' = DropOutcomes(Freed(gone))

\* Faulty variants of Reset: stale registrations survive; the state word
\* survives.
ResetKeepsRegistry(s) ==
    /\ ended' = DropOutcomes({s})
    /\ state' = [state EXCEPT ![s] = {}]
    /\ UNCHANGED registry
ResetKeepsState(s) ==
    /\ ended' = DropOutcomes({s})
    /\ registry' = [registry EXCEPT ![s] = {}]
    /\ UNCHANGED state

\* Slot::reset of a pooled slot: drop the old outcome, clear stale
\* registrations if any were made, then store 0.
Reset(s) ==
    /\ ended' = DropOutcomes({s})
    /\ registry' = [registry EXCEPT ![s] = IF HAS_WAITER \in state[s] THEN {} ELSE @]
    /\ state' = [state EXCEPT ![s] = {}]

\* Slot::new at address s.
NewSlot(s) ==
    /\ live' = live \cup {s}
    /\ state' = [state EXCEPT ![s] = {}]
    /\ outcome' = [outcome EXCEPT ![s] = NoOutcome]
    /\ registry' = [registry EXCEPT ![s] = {}]
    /\ UNCHANGED ended

-------------------------------------------------------------------------------
(***************************************************************************)
(* ObservationSpace::subject and ::observe, and pair.                      *)
(***************************************************************************)

Top    == pool[Len(pool)]
Popped == IF pool = <<>> THEN pool ELSE SubSeq(pool, 1, Len(pool) - 1)

\* The pool's handle of the popped slot.
PoppedHandle == {<<"pool", Len(pool)>>}

\* fetch_add on an AtomicUsize wraps.
NextGeneration == next_generation' = (next_generation + 1) % (MaxGen + 1)

\* Faulty variant: nobody asks whether the key is taken.
AlwaysVacant(k) == TRUE

\* is_vacant; an occupied key puts the popped slot back and is refused.
Vacant(k) == ~Retained(k)

\* Bound: MaxBirths.
MayCreate(c) == ~Exists(c) /\ births < MaxBirths

NewSubject(c, k, s) ==
    /\ births' = births + 1
    /\ subjects' = [subjects EXCEPT ![c] =
          [key |-> k, generation |-> next_generation, birth |-> births + 1,
           slot |-> s, completed |-> FALSE, phase |-> "live"]]

CreateSubject(c, k) ==
    /\ open /\ MayCreate(c) /\ Vacant(k)
    /\ next_generation # MaxGen
    /\ NextGeneration
    /\ pool' = Popped
    /\ \E s \in Slots :
          /\ \/ pool # <<>> /\ s = Top /\ Reset(s) /\ UNCHANGED <<live, outcome>>
             \/ pool = <<>> /\ s \notin live /\ NewSlot(s)
          /\ NewSubject(c, k, s)
          /\ table' = [table EXCEPT ![k] =
                         [generation |-> next_generation, slot |-> s,
                          birth |-> births + 1]]
    /\ UNCHANGED <<open, obs, published, fired, lost, left>>

\* The last generation panics, and unwinding drops the popped slot.
GenerationExhausted(c, k) ==
    /\ open /\ MayCreate(c) /\ Vacant(k)
    /\ next_generation = MaxGen
    /\ NextGeneration
    /\ pool' = Popped
    /\ Release(PoppedHandle)
    /\ UNCHANGED <<open, table, births, subjects, obs, state, outcome, registry,
                   published, fired, lost, left>>

\* Faulty variant: the slot is reset where it lies and popped afterwards.
ResetPanicsInPool(c, k) ==
    /\ DropPanics
    /\ open /\ MayCreate(c) /\ Vacant(k)
    /\ next_generation # MaxGen
    /\ pool # <<>> /\ OUTCOME_VALID \in state[Top]
    /\ NextGeneration
    /\ ended' = [ended EXCEPT ![outcome[Top]] = @ + 1]
    /\ UNCHANGED <<open, table, pool, births, subjects, obs, live, state, outcome,
                   registry, published, fired, lost, left>>

\* Dropping the old outcome in reset panics.  The state word still says
\* OUTCOME_VALID when unwinding drops the popped handle.
ResetPanics(c, k) ==
    /\ DropPanics
    /\ open /\ MayCreate(c) /\ Vacant(k)
    /\ next_generation # MaxGen
    /\ pool # <<>> /\ OUTCOME_VALID \in state[Top]
    /\ NextGeneration
    /\ pool' = Popped
    /\ live' = live \ Freed(PoppedHandle)
    /\ ended' = [DropOutcomes(Freed(PoppedHandle)) EXCEPT ![outcome[Top]] = @ + 1]
    /\ UNCHANGED <<open, table, births, subjects, obs, state, outcome, registry,
                   published, fired, lost, left>>

\* A key comparison panics in is_vacant (there is none in an empty table): the
\* popped slot is gone.
VacancyPanics(c) ==
    /\ KeyPanics
    /\ open /\ ~Exists(c)
    /\ pool # <<>>
    /\ \E k \in Keys : Retained(k)
    /\ pool' = Popped
    /\ Release(PoppedHandle)
    /\ UNCHANGED <<open, table, next_generation, births, subjects, obs, state,
                   outcome, registry, published, fired, lost, left>>

\* The clone or the insertion of the key panics after reset.  The generation
\* and the popped slot are gone, and so are the entries that a promotion or a
\* rehash was moving (see SmallMap).
InsertPanics(c, k) ==
    /\ KeyPanics
    /\ open /\ MayCreate(c) /\ Vacant(k)
    /\ next_generation # MaxGen
    /\ NextGeneration
    /\ pool' = Popped
    /\ \E gone \in SUBSET {j \in Keys : Retained(j)} :
          LET reset == {s \in Slots : pool # <<>> /\ s = Top}
              freed == Freed(PoppedHandle \cup {<<"table", j>> : j \in gone})
          IN  /\ table' = [j \in Keys |-> IF j \in gone THEN Null ELSE table[j]]
              /\ live' = live \ freed
              /\ ended' = DropOutcomes(reset \cup freed)
              /\ registry' = [s \in Slots |->
                    IF s \in reset /\ HAS_WAITER \in state[s] THEN {} ELSE registry[s]]
              /\ state' = [s \in Slots |-> IF s \in reset THEN {} ELSE state[s]]
              /\ lost' = lost \cup {[key |-> j, generation |-> table[j].generation] :
                                      j \in gone}
    /\ UNCHANGED <<open, births, subjects, obs, outcome, published, fired, left>>

Capture(h, s, b) ==
    /\ ~Observes(h)
    /\ obs' = [obs EXCEPT ![h] = [slot |-> s, birth |-> b, phase |-> "live"]]

\* observe; without an entry it is refused.
Observe(h, k) ==
    /\ open /\ Retained(k)
    /\ Capture(h, table[k].slot, table[k].birth)
    /\ UNCHANGED <<open, table, pool, next_generation, births, subjects, live,
                   state, outcome, registry, published, ended, fired, lost, left>>

\* pair: a slot outside the table, with its publisher and an observation.
Pair(c, h) ==
    /\ MayCreate(c)
    /\ \E s \in Slots \ live :
          /\ NewSlot(s)
          /\ NewSubject(c, Null, s)
          /\ Capture(h, s, births + 1)
    /\ UNCHANGED <<open, table, pool, next_generation, published, fired, lost, left>>

-------------------------------------------------------------------------------
(***************************************************************************)
(* Subject and Publisher: complete and drop.                               *)
(***************************************************************************)

\* Publisher::complete consumes the publisher; a Subject stays.
AfterComplete(c) == IF subjects[c].key = Null THEN "dropping" ELSE "live"

\* The publication.  A second complete panics in the assert, changing nothing.
Complete(c) ==
    /\ Exists(c) /\ subjects[c].phase = "live" /\ ~subjects[c].completed
    /\ LET s == subjects[c].slot
           b == subjects[c].birth
       IN  /\ subjects' = [subjects EXCEPT
                 ![c].completed = TRUE,
                 ![c].phase = IF HAS_WAITER \in state[s] THEN "drain"
                                                         ELSE AfterComplete(c)]
           /\ outcome' = [outcome EXCEPT ![s] = b]
           /\ state' = [state EXCEPT ![s] = @ \cup {COMPLETED, OUTCOME_VALID}]
           /\ published' = published \cup {b}
    /\ UNCHANGED <<open, table, pool, next_generation, births, obs, live,
                   registry, ended, fired, lost, left>>

\* The drain; a wake() that panics leaves through the same state.
Drain(c) ==
    /\ Exists(c) /\ subjects[c].phase = "drain"
    /\ LET s == subjects[c].slot
       IN  /\ fired' = fired \cup {<<a, subjects[c].birth>> : a \in registry[s]}
           /\ registry' = [registry EXCEPT ![s] = {}]
    /\ subjects' = [subjects EXCEPT ![c].phase = AfterComplete(c)]
    /\ UNCHANGED <<open, table, pool, next_generation, births, obs, live,
                   state, outcome, published, ended, lost, left>>

\* remove_if: the entry at the key, if it is of this generation.
Removes(c) ==
    LET k == subjects[c].key
    IN  Retained(k) /\ table[k].generation = subjects[c].generation

\* Faulty variants of Recyclable: handles not counted; one slot too many.
RecyclableShared(c) == Len(pool) < PoolCap
RecyclableOverCap(c) ==
    /\ Cardinality(HandlesOf(subjects[c].slot) \ {<<"table", subjects[c].key>>}) = 1
    /\ Len(pool) <= PoolCap

\* With the entry gone, is this handle the only one, and is there room?
Recyclable(c) ==
    /\ Cardinality(HandlesOf(subjects[c].slot) \ {<<"table", subjects[c].key>>}) = 1
    /\ Len(pool) < PoolCap

\* The critical section of Subject::drop.  The handle in the removed entry is
\* dropped there.
Retire(c) ==
    /\ Exists(c) /\ subjects[c].phase = "live" /\ subjects[c].key # Null
    /\ table' = IF Removes(c) THEN [table EXCEPT ![subjects[c].key] = Null] ELSE table
    /\ pool' = IF Removes(c) /\ Recyclable(c) THEN Append(pool, subjects[c].slot)
                                              ELSE pool
    /\ subjects' = [subjects EXCEPT ![c].phase = "dropping"]
    /\ IF Removes(c) THEN Release({<<"table", subjects[c].key>>})
                     ELSE UNCHANGED <<live, ended>>
    /\ UNCHANGED <<open, next_generation, births, obs, state, outcome,
                   registry, published, fired, lost, left>>

\* A key comparison panics in remove_if: the fields are dropped, the entry stays.
RetirePanics(c) ==
    /\ KeyPanics
    /\ Exists(c) /\ subjects[c].phase = "live" /\ subjects[c].key # Null
    /\ \E k \in Keys : Retained(k)
    /\ subjects' = [subjects EXCEPT ![c].phase = "dropping"]
    /\ left' = left \cup {subjects[c].birth}
    /\ UNCHANGED <<open, table, pool, next_generation, births, obs, live, state,
                   outcome, registry, published, ended, fired, lost>>

\* Does Inner outlive the handle that is being dropped (c's, or the space's)?
InnerKept(spaceKept, c) ==
    spaceKept \/ \E d \in Owners \ {c} : Exists(d) /\ subjects[d].key # Null

\* Drop the handles in gone and, unless it is kept, Inner with pool and table.
ReleaseInner(kept, gone) ==
    /\ pool' = IF kept THEN pool ELSE <<>>
    /\ table' = IF kept THEN table ELSE [k \in Keys |-> Null]
    /\ Release(gone \cup IF kept THEN {}
                         ELSE {<<"pool", i>> : i \in 1 .. Len(pool)}
                                \cup {<<"table", k>> : k \in Keys})

\* The fields are dropped after the lock is released: inner, then slot.  For
\* a publisher this is the whole drop, completed or not.
DropFields(c) ==
    /\ Exists(c)
    /\ subjects[c].phase = "dropping" \/
          (subjects[c].phase = "live" /\ subjects[c].key = Null)
    /\ subjects' = [subjects EXCEPT ![c] = Null]
    /\ ReleaseInner(subjects[c].key = Null \/ InnerKept(open, c), {<<"subject", c>>})
    /\ UNCHANGED <<open, next_generation, births, obs, state, outcome, registry,
                   published, fired, lost, left>>

\* The last ObservationSpace handle goes; subjects keep Inner alive.
DropSpace ==
    /\ open
    /\ open' = FALSE
    /\ ReleaseInner(InnerKept(FALSE, Null), {})
    /\ UNCHANGED <<next_generation, births, subjects, obs, state, outcome,
                   registry, published, fired, lost, left>>

-------------------------------------------------------------------------------
(***************************************************************************)
(* Observation: clone, drop, register_waker, into_outcome.                 *)
(***************************************************************************)

Usable(h) == Observes(h) /\ obs[h].phase = "live"

Clone(h, g) ==
    /\ Usable(h)
    /\ Capture(g, obs[h].slot, obs[h].birth)
    /\ UNCHANGED <<open, table, pool, next_generation, births, subjects, live,
                   state, outcome, registry, published, ended, fired, lost, left>>

\* Also the end of an into_outcome that was refused.
DropObservation(h) ==
    /\ Observes(h)
    /\ obs' = [obs EXCEPT ![h] = Null]
    /\ Release({<<"obs", h>>})
    /\ UNCHANGED <<open, table, pool, next_generation, births, subjects, state,
                   outcome, registry, published, fired, lost, left>>

\* register_waker before the publication (after it, nothing happens).
RegisterWaker(h) ==
    /\ Usable(h)
    /\ LET s == obs[h].slot
       IN  /\ COMPLETED \notin state[s]
           /\ state' = [state EXCEPT ![s] = @ \cup {HAS_WAITER}]
           /\ registry' = [registry EXCEPT ![s] = @ \cup {obs[h].birth}]
    /\ UNCHANGED <<open, table, pool, next_generation, births, subjects, obs,
                   live, outcome, published, ended, fired, lost, left>>

\* Faulty variant: the value is moved out but still marked valid.
UnmarkedTaken(word) == word

\* fetch_and(!OUTCOME_VALID).
MarkTaken(word) == word \ {OUTCOME_VALID}

\* into_outcome with the only handle: the value moves out, the slot is freed.
IntoOutcome(h) ==
    /\ Usable(h)
    /\ LET s == obs[h].slot
       IN  /\ strong_count(s) = 1
           /\ live' = live \ {s}
           /\ IF COMPLETED \in state[s]
              THEN /\ state' = [state EXCEPT ![s] = MarkTaken(@)]
                   /\ ended' = [ended EXCEPT ![outcome[s]] =
                         @ + IF OUTCOME_VALID \in MarkTaken(state[s]) THEN 2 ELSE 1]
              ELSE UNCHANGED <<state, ended>>
    /\ obs' = [obs EXCEPT ![h] = Null]
    /\ UNCHANGED <<open, table, pool, next_generation, births, subjects,
                   outcome, registry, published, fired, lost, left>>

\* Does anybody else hold a handle of h's own generation?
SharedInGeneration(h) ==
    \/ \E c \in Owners : Exists(c) /\ subjects[c].birth = obs[h].birth
    \/ \E g \in Handles \ {h} : Observes(g) /\ obs[g].birth = obs[h].birth

\* try_unwrap fails: None, and the handle it gave back is still to be dropped.
IntoOutcomeRefused(h) ==
    /\ Usable(h)
    /\ strong_count(obs[h].slot) # 1
    /\ obs' = [obs EXCEPT ![h].phase =
          IF COMPLETED \in state[obs[h].slot] /\ ~SharedInGeneration(h)
          THEN "stranger" ELSE "refused"]
    /\ UNCHANGED <<open, table, pool, next_generation, births, subjects, live,
                   state, outcome, registry, published, ended, fired, lost, left>>

-------------------------------------------------------------------------------
Init ==
    /\ open = TRUE
    /\ table = [k \in Keys |-> Null]
    /\ pool = <<>>
    /\ next_generation = 1 % (MaxGen + 1)
    /\ births = 0
    /\ subjects = [c \in Owners |-> Null]
    /\ obs = [h \in Handles |-> Null]
    /\ live = {}
    /\ state = [s \in Slots |-> {}]
    /\ outcome = [s \in Slots |-> NoOutcome]
    /\ registry = [s \in Slots |-> {}]
    /\ published = {}
    /\ ended = [b \in Births |-> 0]
    /\ fired = {}
    /\ lost = {} /\ left = {}

OwnerStep(c) ==
    \/ \E k \in Keys : \/ CreateSubject(c, k)
                       \/ GenerationExhausted(c, k)
                       \/ ResetPanics(c, k)
                       \/ InsertPanics(c, k)
    \/ \E h \in Handles : Pair(c, h)
    \/ VacancyPanics(c)
    \/ Complete(c) \/ Drain(c) \/ Retire(c) \/ RetirePanics(c) \/ DropFields(c)

ObserverStep(h) ==
    \/ \E k \in Keys : Observe(h, k)
    \/ \E g \in Handles : Clone(h, g)
    \/ DropObservation(h) \/ RegisterWaker(h)
    \/ IntoOutcome(h) \/ IntoOutcomeRefused(h)

Next ==
    \/ \E c \in Owners : OwnerStep(c)
    \/ \E h \in Handles : ObserverStep(h)
    \/ DropSpace

Spec == Init /\ [][Next]_vars

-------------------------------------------------------------------------------
(***************************************************************************)
(* Properties.                                                             *)
(***************************************************************************)

\* An entry, an observation or an undropped subject takes s for the slot of b.
Uses(s, b) ==
    \/ \E k \in Keys : Retained(k) /\ table[k].slot = s /\ table[k].birth = b
    \/ \E h \in Handles : Observes(h) /\ obs[h].slot = s /\ obs[h].birth = b
    \/ \E c \in Owners : /\ Exists(c) /\ subjects[c].phase # "dropping"
                         /\ subjects[c].slot = s /\ subjects[c].birth = b

Pooled(s)   == \E i \in 1 .. Len(pool) : pool[i] = s
Holds(s, b) == OUTCOME_VALID \in state[s] /\ outcome[s] = b

\* Somebody may still read s or hand it out: a user, or the pool.
Reachable(s) == Pooled(s) \/ \E b \in Births : Uses(s, b)

\* Every variable has its type.
TypeOK ==
    /\ open \in BOOLEAN
    /\ table \in [Keys -> SlotEntry \cup {Null}]
    /\ pool \in Seq(Slots)
    /\ next_generation \in 0 .. MaxGen
    /\ births \in 0 .. MaxBirths
    /\ subjects \in [Owners -> Subject \cup {Null}]
    /\ obs \in [Handles -> Observation \cup {Null}]
    /\ live \in SUBSET Slots
    /\ state \in [Slots -> SUBSET Bits]
    /\ outcome \in [Slots -> Births \cup {NoOutcome}]
    /\ registry \in [Slots -> SUBSET Births]
    /\ published \in SUBSET Births
    /\ ended \in [Births -> Nat]
    /\ fired \in SUBSET (Births \X Births)
    /\ lost \in SUBSET [key : Keys, generation : 0 .. MaxGen]
    /\ left \in SUBSET Births

\* An observation's slot is never recycled or freed under it: what it reads is
\* the outcome of the generation it captured, and only once that is published.
Isolation ==
    \A h \in Handles : Observes(h) =>
        /\ obs[h].slot \in live
        /\ \A i \in 1 .. Len(pool) : pool[i] # obs[h].slot
        /\ COMPLETED \in state[obs[h].slot] <=> obs[h].birth \in published
        /\ COMPLETED \in state[obs[h].slot] => outcome[obs[h].slot] = obs[h].birth

\* An answer is final: an observation whose generation has completed answers
\* the same for as long as it exists (until drop or into_outcome), whatever is
\* retired, pooled, reset and created meanwhile, and it never changes slots.
AnswerIsFinal ==
    [][\A h \in Handles : Observes(h) /\ Observes(h)' =>
          /\ obs'[h].slot = obs[h].slot /\ obs'[h].birth = obs[h].birth
          /\ COMPLETED \in state[obs[h].slot] =>
                /\ COMPLETED \in state'[obs[h].slot]
                /\ outcome'[obs[h].slot] = outcome[obs[h].slot]]_vars

\* Retirement finds its own entry: a retained entry is that of the undropped
\* subject of the key, so the generation test of remove_if fails, and an entry
\* survives its subject, only where key code panicked: after an entry of that
\* key and generation was lost, or in the drop of the entry's own subject.
EntryOfSubject ==
    /\ \A c \in Owners :
          Exists(c) /\ subjects[c].key # Null /\ subjects[c].phase # "dropping" =>
             \/ Removes(c) /\ table[subjects[c].key].birth = subjects[c].birth
             \/ [key |-> subjects[c].key, generation |-> subjects[c].generation] \in lost
    /\ \A k \in Keys : Retained(k) =>
          \/ table[k].birth \in left
          \/ \E c \in Owners : /\ Exists(c) /\ subjects[c].phase # "dropping"
                               /\ subjects[c].birth = table[k].birth
                               /\ subjects[c].slot = table[k].slot

\* A subject that has not completed has a pristine slot, recycled or not: the
\* debug_assert of Slot::complete holds and no old outcome is overwritten.
PristineUntilComplete ==
    \A c \in Owners : Exists(c) /\ ~subjects[c].completed /\ subjects[c].phase = "live" =>
        state[subjects[c].slot] \cap {COMPLETED, OUTCOME_VALID} = {}

\* A published outcome ends exactly once: while it has not been dropped or
\* moved out, some reachable slot holds it and is marked to drop it.
OutcomeEndsOnce ==
    \A b \in published :
        \/ ended[b] = 1
        \/ /\ ended[b] = 0
           /\ \E s \in live : /\ HandlesOf(s) # {}
                              /\ OUTCOME_VALID \in state[s] /\ outcome[s] = b

\* Also when dropping an outcome panics in reset: an outcome in a slot that can
\* still be read or recycled has not been dropped or moved out, and no outcome is
\* leaked: one that was published is in an allocated slot until it ends.
NoUseAfterDrop ==
    /\ \A s \in live, b \in Births : Reachable(s) /\ Holds(s, b) => ended[b] = 0
    /\ \A b \in published : ended[b] > 0 \/ \E s \in live : Holds(s, b)
    /\ \A b \in Births \ published : ended[b] = 0

\* A waker left behind in a slot is never woken by another generation.
NoCrossGenerationWake == \A wake \in fired : wake[1] = wake[2]

\* The pool is bounded and holds distinct, allocated slots of no generation: no
\* entry, observation or undropped subject has one.
PoolSound ==
    /\ Len(pool) <= PoolCap
    /\ \A i, j \in 1 .. Len(pool) : i # j => pool[i] # pool[j]
    /\ \A i \in 1 .. Len(pool) :
          /\ pool[i] \in live
          /\ \A b \in Births : ~Uses(pool[i], b)

\* into_outcome's doc: with a published outcome it is refused only while an
\* observation, a waiter or the subject of that generation holds the slot.
RefusedOnlyByPeers ==
    \A h \in Handles : Observes(h) => obs[h].phase # "stranger"

\* The comment in Slot::reset and the summary of Slot: the outcome is dropped
\* at most once, also when the user's drop panics.
NoDoubleDrop == \A b \in Births : ended[b] <= 1

-------------------------------------------------------------------------------
(***************************************************************************)
(* The inductive invariant.                                                *)
(***************************************************************************)

\* A slot in use has one generation and a generation one slot; what the slot
\* says is about that generation, and the pool does not have it.
InvGenerations ==
    /\ published \subseteq 1 .. births
    /\ \A s \in Slots, b \in Births : Uses(s, b) =>
          /\ b <= births /\ ~Pooled(s)
          /\ COMPLETED \in state[s] <=> b \in published
          /\ COMPLETED \in state[s] => outcome[s] = b
          /\ registry[s] \subseteq {b}
          /\ \A t \in Slots, d \in Births : Uses(t, d) => (s = t <=> b = d)

\* Births tell subjects apart, and lead from an entry to its subject.
InvSubjects ==
    \A c \in Owners : Exists(c) =>
        /\ subjects[c].birth <= births
        /\ subjects[c].phase # "dropping" =>
              (subjects[c].completed <=> subjects[c].birth \in published)
        /\ \A d \in Owners : Exists(d) /\ subjects[d].birth = subjects[c].birth => d = c
        /\ \A k \in Keys : Retained(k) /\ table[k].birth = subjects[c].birth =>
              k = subjects[c].key /\ table[k].generation = subjects[c].generation

\* A slot is allocated while it has a handle; no outcome is in two slots.
InvSlots ==
    /\ \A s \in Slots : s \in live <=> HandlesOf(s) # {}
    /\ \A s \in live :
          /\ COMPLETED \in state[s] <=> OUTCOME_VALID \in state[s]
          /\ OUTCOME_VALID \in state[s] => outcome[s] \in published
          /\ registry[s] # {} => HAS_WAITER \in state[s]
          /\ \A t \in live, b \in Births : Holds(s, b) /\ Holds(t, b) => s = t

InvPool ==
    /\ Len(pool) <= PoolCap
    /\ \A i, j \in 1 .. Len(pool) : i # j => pool[i] # pool[j]

\* An outcome has ended iff it was published and no slot holds it any more.
InvEnded ==
    ~DropPanics =>
        \A b \in Births : ended[b] = IF b \in published /\ ~\E s \in live : Holds(s, b)
                                     THEN 1 ELSE 0

InvFaults == KeyPanics \/ (lost = {} /\ left = {})

\* The inductive invariant: every step of the code keeps all of this.
Inv ==
    /\ TypeOK /\ InvGenerations /\ InvSubjects /\ InvSlots /\ InvPool
    /\ InvEnded /\ InvFaults /\ EntryOfSubject /\ NoCrossGenerationWake

-------------------------------------------------------------------------------
\* What clients see of the space: generations and answers, no slots.
BirthOrZero(x) == IF x = Null THEN 0 ELSE x.birth

Names == INSTANCE Namespace WITH
    current  <- [k \in Keys |-> BirthOrZero(table[k])],
    captured <- [h \in Handles |-> BirthOrZero(obs[h])],
    answer   <- [h \in Handles |->
                   IF Observes(h) /\ COMPLETED \in state[obs[h].slot]
                   THEN outcome[obs[h].slot] ELSE 0]

\* The space implements Namespace: recycling slots is invisible; what an
\* observation answers depends only on the generation it captured.
ImplementsNamespace == Names!Spec

===============================================================================
