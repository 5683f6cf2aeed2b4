# bombay-observe in TLA+

A verification project for `bombay-observe`, the Rust library in
`crates/observe` that publishes one terminal outcome per *subject* and lets any
number of threads and tasks observe it. All of the library is one file,
`crates/observe/src/lib.rs`; line numbers below refer to it.

## 1. Inventory

| part | state it keeps | operations | interacts with |
|---|---|---|---|
| `Slot` (197-427) | one state word (`COMPLETED`, `HAS_WAITER`, `OUTCOME_VALID`), an untagged outcome cell, a lazily created `Mutex<Vec<Waiter>>` | `new`, `waiters`, `complete`, `reset`, `drop` | everything below, through `Arc<Slot>` |
| blocking observers (774-858) | park token, deadline | `try_get`, `wait`, `wait_timeout` | state word, registry |
| `register_waker` (901-934) | a persistent registry entry | – | state word, registry |
| `ObservationFuture` (980-1062) | the wakers it has been polled with | `poll`, `drop` | state word, registry, `future_owners` counts |
| `ObservationSpace` (530-642) | generation counter, key table and slot pool under one `RwLock` | `new`, `subject`, `observe` | slots |
| `Subject`, `Publisher`, `pair` (646-729) | a slot handle; key, generation, `completed` | `complete`, `drop` | table, pool, slot |
| `Observation` handles (731-742, 861-890) | a slot handle | `clone`, `drop`, `into_outcome` | the slot's reference count |
| `SmallMap` (444-518) | inline vector of at most four entries, then a hash map | `get`, `is_vacant`, `insert_vacant`, `remove_if` | – |
| `FxHasher` (25-67) | a 64-bit accumulator | `write*`, `finish` | `SmallMap` |
| user code | – | `Eq`, `Hash`, `Clone`, `Drop` of keys; `Clone`, `Drop` of outcomes; `clone`, `drop`, `wake` of wakers | called by all of the above, some of it under a lock; may panic, may call the library |
| fuzz targets `ops`, `promotion_ops`, `waker_ops` (`crates/observe-tests/fuzz`) | subjects, observations and a shadow of what the library should answer | one operation per input pair, teardown | the public interface |

What is hard here:

* **Publication against registration.** A waiter marks `HAS_WAITER`, creates or
  finds the registry, locks, pushes itself, rechecks, unlocks and parks; the
  completer writes the cell, sets `COMPLETED`, looks at `HAS_WAITER`, locks,
  takes the vector and notifies. No two of these steps are atomic together.
* **Shared wakers.** Futures of one task share one physical entry, counted by
  `future_owners`, also with a direct (`persistent`) registration; the drain
  may take the entry while a future is being cancelled.
* **User code that panics**: `wake()` in the drain, `Drop` of an outcome in
  `reset`, `Eq`, `Hash` or `Clone` of a key in the middle of `subject`, of a
  promotion of the key table, or of a subject's drop.
* **User code that calls back**: which locks are held when the library runs it.
* **Representations.** The key table is a vector or a hash map, the registry a
  vector in which a thread may have several entries; both are used as if they
  were plain maps.
* **Deadlines** that pass at any point of the loop, and spurious wakes.
* **Recycling.** Whether a slot may be reused depends on a reference count that
  observers decrease without the lock; a retired subject keeps its handle
  for a while after the lock is released.
* **Ends**: the generation counter at `usize::MAX`, the pool at its cap.

`PROJECT.json` lists each of these as a hazard at its line, with the properties
that watch it.

What makes each part correct: a slot publishes one outcome, fully written, to
everybody and wakes everybody who is registered; cancellation takes away
exactly the canceller's own registration; blocked calls return. A space keeps
generations apart although they share slots and keys, and drops every outcome
once. The key table finds every subject that exists, whatever moved around it.
The locks deadlock only with user code that calls back under one of them.

## 2. Modules

| module | models |
|---|---|
| `Slot` | one slot in one generation and everything that touches it; one step per atomic access |
| `WaiterBox` | what a registry of waiters means: the operators `Slot` and `Registry` share |
| `Completion` | the promise of one slot, abstractly |
| `Registry` | the `Vec<Waiter>` itself, order and duplicates included; one step per critical section |
| `ObservationSpace` | table, pool, generations, handles and the lives of slots |
| `Namespace` | what clients see of the space: generations and answers, no slots |
| `SmallMap` | the key table's two representations, and what unwinding leaves of them |
| `KeyTable` | the partial function from keys to generations that `SmallMap` implements |
| `UserCode` | locks held while user code runs, and that code calling the library again |
| `FuzzTargets` | the fuzz targets' interpreter and shadow, composed with `ObservationSpace` |
| `SlotProofs`, `RegistryProofs`, `ObservationSpaceProofs`, `SmallMapProofs`, `UserCodeProofs`, `FuzzTargetsProofs` | the theorems about each, checked by TLAPS |
| `MC*` | symmetry for TLC |

`Slot` abstracts the vector that `Registry` has, and `ObservationSpace` the table
that `SmallMap` has; in both cases the detailed module is shown to do what the
other one assumes (`VectorIsBox`, `ImplementsKeyTable`).

### Slot

`state`, `outcome`, `waiters` are the fields of `Slot`. `box[p]` is the registry
that process `p` allocated in `waiters()`; `waiters` names the one that was
published, `boxes` those not yet reclaimed. `pc`, `op`, `reg`, `waker` are a process's
place in its function and its locals; `wakers[f]` is the future's field;
`token` is the park token; `drain` and `panics` are the completer's locals.
`deadline` and `result` record, for the properties, on which side of the
publication a deadline passed and what an operation returned.

Each label of `pc` is the point before one atomic access:

| label | code |
|---|---|
| `check` → `CheckWait`, `TryGet` | 776, 821, 1001 |
| `regcheck` → `RegisterCheck` | 902, 941 |
| `mark` → `Mark` | 781, 826, 905, 944 |
| `load`, `cas` → `LoadWaiters`, `CasWaiters` | 307, 316 |
| `lock` → `Lock` | 115 |
| `locked` → `PushThread`, `DeregisterThread`, `RegisterWaker`, `RegisterFutureWaker`, `ReleaseWakers`, `TakeWaiters` | 783, 847, 907, 946, 1033, 353 |
| `recheck`, `clone` → `Recheck`, `CloneLocked` | 787-795, 832-840 |
| `deadline` → `ParkUntil` | 139-143, 843 |
| `parked` → `Unparked`, `ParkElapsed`, `SpuriousWake` | 144, 796 |
| `check2` → `TryGetAgain` | 1011 |
| `read` → `Read` | 235 |
| `write`, `publish`, `drain` → `BeginWrite`, `FinishWrite`, `Publish`, `Notify*`, `FinishDrain` | 345-376 |

Abstractions, and why they lose nothing the properties tell apart:

* The `Vec<Waiter>` is a set of threads plus, for each waker, its persistence
  and its number of owners (`WaiterBox`; justified by `Registry`, below). Wakers
  are folded by `will_wake`, as an element of `Wakers` is. The order of the
  drain is left open.
* Writing the cell is two steps with a `Torn` value in between, so that a read
  which is not ordered after the write would be seen.
* Memory is sequentially consistent. `COMPLETED` and `HAS_WAITER` share one
  word, so their read-modify-writes are totally ordered whatever their
  orderings; the cell is guarded by a release/acquire pair on that word and the
  registry by a mutex. That these orderings suffice is loom's job
  (`loom_tests.rs`), not this model's.
* A future that returned `Ready` is not polled again: the contract of `Future`.
* `future_owners` is a natural number; its `checked_add` cannot overflow with
  fewer than 2^64 futures.

### Registry

`vec` is the vector, entry by entry. A thread can be in it several times: the
dedup at 784 looks at the last entry only, so a thread that is woken spuriously
while others registered after it is pushed again. A second unpark sets a token
that is already set, and `retain` removes all of its entries. A turn of `wait` is
one critical section with the `COMPLETED` it finds there; the accesses between
critical sections are `Slot`'s. `wakes` counts notifications. `Vec::retain` is the
function `KeepAt`, recursive over the positions, so that it can be reasoned about.

### ObservationSpace

A step is one critical section of the entries lock, or one access to a slot or
its count outside of it. `table` and `pool` are `Entries`; the inline/hash
representation of the table is abstracted to the map it implements (`SmallMap`).
`live` is the set of allocated slots; `strong_count(s)` is the number of
handles to `s` in `table`, `pool`, `subjects` and `obs`, so the count can
never disagree with the handles that exist. `Subject::drop` is two steps:
`Retire`, the critical section, and `DropFields`, the drop of the fields after
the guard is gone. A `Publisher` is a subject without a key.

Generation numbers wrap at `MaxGen`, the model's `usize::MAX`. Because numbers
repeat after that, a subject also has a *birth*, its position among all subjects
ever created, which stands for its outcome too. `published`, `ended` and `fired`
record what was published, how often an outcome was dropped or moved out, and
which generation woke whose waker.

In this module `complete` is the publication and then the drain, and
`register_waker` is one step: `Slot` is where their insides are checked.
`ResetPanics` is `subject()` when the outcome's `Drop` panics in `reset`;
`GenerationExhausted` is its `assert_ne!`. `VacancyPanics`, `InsertPanics` and
`RetirePanics` are the panics of key code in `is_vacant`, in the clone or the
insertion of the key, and in `remove_if`; since the entries lock does not poison,
the space is used on. All include the unwinding: what goes is decided by the handles
that are dropped (`Freed`), also where a slot in the pool still has its retired
subject's handle. `lost` and `left`
record which entries it dropped and which subjects it left one behind of.

### SmallMap

`table` is the `enum`, `Inline` with a sequence or `Hash` with a set of entries
(std's map is external). `Create` and `Retire` are `subject` and `Subject::drop`
as far as the table goes. If key code panics inside `insert_vacant`
(`AfterInsertPanic`), a push has run none of it; a promotion has already emptied
the vector and drops the half-built map with it, so *all* entries go; an
insertion that makes the hash map rehash may drop any of them. `KeyTable` is the
plain function; panics may empty keys of it, and nothing else.

### UserCode

An operation is a script of lock, unlock and call steps. A call is user code that
may run there; where a branch of the code runs none, the call returns at once, so only
branches that differ in the locks they take have scripts of their own. Threads run scripts; where a script calls user
code, another script may start on top of it in the same thread. The locks are
parking_lot's: not reentrant, and a reader waits behind a queued writer. There
are three of them: the entries lock, the registry of the slot in use, and that of
a pooled slot. Parking is left out: no lock is held there.

### FuzzTargets

The three targets drive the namespace through the same operations; they differ in
how they keep their shadow (`ops`: two maps, for current and for retired
generations; the others: one) and in what they assert. The module has both shadows
and all assertions. Operations run one at a time (`Idle`, `Finish`). A value's tag
is its epoch and key; epochs count from 1 here, so that 0 is a key never
registered. The input's length and its bytes modulo the number of keys are the
choice of the next action. `fired` has which wakers fired; how often is
`Registry`'s `FiresExactlyOnce`.

## 3. Runs

| run | instance | shows |
|---|---|---|
| `slot` | 1 direct caller, 2 futures, 2 wakers | owner counts exact, no cancellation disarms another, all wakers woken, no torn read, registry created once, the inductive invariant, refinement of `Completion` |
| `slot_live` | 1 thread, 1 future, 1 waker, fair | no lost wakeup, no stale registration, whoever is notified finds the outcome; `wait`, `wait_timeout`, `complete`, `poll` and the future's `drop` return (`register_waker` takes the path of `poll`; the run has no caller) |
| `registry` | 2 threads, 2 futures, 2 wakers, vector up to 6 | the vector is a box; one entry per waker, exactly while it is wanted; each waker fires once |
| `space` | 2 keys, 2 owners, 2 observations, 2 slots, pool of 1, 3 births | isolation, answers are final, pool, each outcome ends once, the inductive invariant, refinement of `Namespace` |
| `space_faults` | the same with `MaxGen` 2, 2 births, panicking drops and keys | what survives a wrapped counter, a panic in `reset` and panics of key code: nothing is used after its drop or leaked, the table, the inductive invariant (which implies isolation), and the refinement of `Namespace` but for lost entries |
| `small_map` | 5 keys, `INLINE_CAP` 4, 7 generations, panicking keys | one entry per key, lookups find every subject, refinement of `KeyTable` |
| `user_code` | 2 threads, calls nested twice | every deadlock has user code calling back under a lock |
| `fuzz_targets` | 2 keys, 3 observations, 3 births, pool of 1 | the targets' assertions, for every sequence of operations, and the invariant that ties the shadow to the namespace |

Four more runs are expected to fail; each confronts a sentence of the
repository with what the code does (section 6).

**Bounds.** Operations repeat without bound in `Slot`: a thread waits as often
as it likes, a future polls with any waker again and again. The only finite
resources are the processes. Two futures and two wakers give sharing,
migration and a survivor. `slot` is bounded by `OneWakerWithCallers`: futures migrate as
they like until a caller registers directly; from then on everyone passes the same
waker, and the registrations made before stay. One thread, a future and the completer give a winner
and two losers of the registry race. For the safety of `Slot` the theorems cover
every size. The invariants also hold of three other instances that are too large to keep
as runs (`slot` without that bound, 3 119 806 states; two threads and a
future, 3 952 388 states; a thread, a caller and a future with two outcomes,
954 216 states). In the space, `MaxBirths = 3` lets a slot
be retired, recycled while its retired subject still has its handle, and
recycled again, and `PoolCap = 1` is reached with two retirements. Two slots
are all that two births can need; with three births they leave out that three
slots are live at once, which takes `subject` to allocate a third while two are held.
`fuzz_targets` has that case (its three births have three slots), the theorems cover
any number of slots, and `space` with three was explored in full (931 219 states). `MaxGen = 2` makes the counter panic
and wrap; in `space` it is 9 so that it does not. `INLINE_CAP` has its
real value: five keys promote the table, and seven generations let subjects
come back after a panic has emptied it. `MaxLen = 6` is four entries for the two
wakers and threads and two duplicates. Depth 2 in `user_code` is a call back from
user code; a call back from there adds no new pair of locks.

**Deadlock** is checked in `slot` and `slot_live`: each has a thread or a
caller that can always call again, so a state without successor would mean that
everybody waits on everybody. The other runs turn the check off: once the births
or generations are used up, or the slot is complete, everything may be over, and
`user_code` reaches deadlocks and classifies them.

**Fairness** (`FairSpec`). Weak fairness of every operation under way: a
thread inside the library keeps running. Strong fairness of `Lock`:
parking_lot's mutex is eventually fair, so whoever waits for a mutex that is
released again and again acquires it. Weak fairness of the clock. None is
assumed for calls, for the use of the publication authority, or for spurious
wakes: `WaitReturns` is therefore conditional on the publication, and
`WaitTimeoutReturns` holds without one.

**Mutants.** Next to the definitions stand faulty variants, each a slip
someone could make in that code: the recheck dropped, the loser's box leaked,
the owner count ignored, persistence forgotten, publication before the write,
no `catch_unwind`, the guard kept while parked, recycling without the count,
`reset` that keeps the word or the registry, or runs before the slot is popped, a promotion without the entry that
caused it, a removal that ignores the generation, a drain under the mutex, and so
on. For each property
`PROJECT.json` names one under which TLC finds it violated.

## 4. What is proved

Every safety property of the passing runs is a theorem, the refinements included,
for every value of the constants that the named assumptions allow. The theorems of
a component rest on one inductive invariant, `Inv` (`ShadowInv` in `FuzzTargets`),
stated at the end of the component's module and proved with one lemma per action.

### SlotProofs

For every choice of `Threads`, `Callers`, `Futures` (finite),
`Wakers` and `Outcomes`, assuming only that the kinds of processes and values
are distinct (`ProcsAssumption`, `ValuesAssumption`, `FuturesAssumption`):

* `Invariance`: `Spec => []Inv`;
* from it `TypeCorrect`, `ReadsArePublished`, `WakeupNotLost`,
  `FutureWakersAreWoken`, `DirectWakersAreWoken`, `OwnersAreExact`,
  `DropsFindTheirOwner`, `RegistryIsUnique`, `NoRegistrationIsStale`;
* `NotifiedFindTheOutcome`: inductive relative to `Inv`. Before the publication no
  step sets a token or wakes a waker (`QuietBefore`, from the order of publication and
  drain in `InvPublished`), and after it nothing takes the publication back
  (`VisibleValue`, which the refinement needs as well);
* `Refinement`: `Spec => ImplementsCompletion`.

`Inv` adds to the properties what makes them inductive:

* `InvFlow` – which labels belong to which function; while a poll registers,
  its waker is not yet tracked (so that registering adds exactly one claim);
* `InvRegistry` – one published box, everybody past `waiters()` uses it, and its
  `holder` is exactly the process inside the critical section;
* `InvPublished` – `COMPLETED` is set exactly from the publication on, with
  the cell written;
* `InvMarked` – without `HAS_WAITER` there is nobody to notify. This is why
  the completer may skip the drain;
* `InvThreads`, `InvDirect`, `InvOwners` – the heart: whoever may park, or was
  told to expect a wake, has its notification already, or is in the drain's
  hands, or is in the registry *and the completer has not taken it yet*. The
  recheck under the mutex is what establishes the third case: if the drain has
  passed, `COMPLETED` is seen;
* `InvOwners` also relates `future_owners` to the set of futures that claim the
  waker (`Claimants`): equal before the publication. After it the count may
  only be too high, since a poll that registers and then finds the outcome never
  tracks its waker; it stays at least the number of claims until the drain;
* `InvStale` – a registered thread is inside its wait; after the drain it is
  about to deregister, and no waker is left.

There is one lemma per action, except that the steps which leave the registry
alone are grouped by operation. `FiniteSetTheorems` supplies
the counting facts for `Claimants`.

### RegistryProofs

For any threads, finitely many futures, any wakers and any length of the vector
(`RegistryAssumption`; `MaxLen` is a guard and may be any number):
`WakersHaveOneEntry`, `RegisteredFireOnce` and `VectorActsAsBox`, the
action property that ties `Slot`'s boxes to the vector.

* `KeptFacts` says what `Vec::retain` computes: the entries at the given
  positions and no other, each once. It is an induction over the vector, done with
  a set of positions and its least element (`LeastElement`, from the well-founded
  order of the naturals), since the induction theorems with an operator parameter are
  out of reach.
* `AppendBox`, `UpdateBox`, `KeepBox` say what a new entry, a changed one and a
  removal do to the box; `PushBox`, `RetainBox`, `RegisterPersistentBox`,
  `RegisterOwnerBox` and `RetainMutBox` are then the five critical sections. They
  need that a waker has one entry (otherwise the first match of the search is not
  the one that counts), and `RetainMutBox` that no count is 0 when it is
  decremented, the `debug_assert!` at 1044.
* `Inv` supplies both. `InvVector`: an entry is somebody's, and until the vector
  is taken it has everybody who waits, with counts that are exact before the
  publication and never too low after it. `InvDrain`: after that, who waits has
  been notified or is in the drain, no waker twice.

### ObservationSpaceProofs

For finite sets of keys, owners and observations, any slots, pool capacity,
width of the generation counter and number of births, and with or without
panicking keys and outcomes (`SpaceAssumption`; `NullAssumption` says that `Null`
is no record): `TypeCorrect`, `ObservationsAreIsolated`, `EntriesAreOfSubjects`,
`SlotsArePristine`, `WakesStayInGeneration`, `PoolIsSound`, the action property
`AnswersAreFinal` (from `InvGenerations` on both sides of a step and
`ObservationsStay`: publications and captures are never undone), and `Refinement`:
`Spec => ImplementsNamespace`. `OutcomesEndOnce` assumes `~DropPanics`; without that it
is false (section 6), and `NothingUsedAfterDrop` is what remains true. Finiteness is what makes `strong_count` a number.

* `InvGenerations` is the heart. `Uses(s, b)`: an entry, an observation, or a
  subject that is not yet dropping takes `s` for the slot of birth `b`. A used slot has
  one birth, a birth one slot, the slot is not pooled, its word and cell are about
  that birth, and so are the wakers in it. A *dropping* subject is left out on purpose: its
  slot may already be another generation's.
* `InvSubjects` – births, not generation numbers, tell subjects apart and lead from an
  entry to its subject; this is what makes `remove_if` right after the counter wraps.
* `InvSlots` – a slot is allocated exactly while it has a handle, and no outcome is
  in two slots; `InvEnded` – an outcome has ended iff it was published and no slot
  holds it. Together they make each `Release` count an outcome once.
* `InvPool` – distinct slots within the cap. That a recycled slot has no user is
  proved in `Retire`: the count is one, and that one is the retiring subject's own.
* `InvFaults` – without panicking keys no entry is lost or left.
* `NoUseAfterDrop` is inductive relative to `Inv`. `InvEnded` says nothing once a drop
  has panicked: a retired subject may then hold a slot whose outcome has ended and
  whose word still says that it is there. What keeps it harmless is that nobody else
  reaches that slot: every step that ends outcomes does so in slots that are freed,
  popped or emptied with it, so that those which are in the pool or in use afterwards
  are not among them (`DroppedUnread`). Each action is brought into that form.

Most steps only drop handles: for these a few lemmas show once that fewer handles
mean fewer users. The refinement maps table and observations to births; an answer
depends on the captured birth alone by `InvGenerations`.

### SmallMapProofs

For any keys, any `INLINE_CAP` and any number of generations: `OneEntryOfAKey`,
`SubjectsAreFound`, `Refinement` (`Spec => ImplementsKeyTable`). Every operation is
characterised by the *set* of entries it leaves (`Stored`), the same for both
representations; `swap_remove` is the one that needs positions. `Inv` adds
`InvFresh`: no subject, entry or lost entry has a generation still to come, so that
`remove_if` never meets the number of another entry.

### UserCodeProofs

For any number of threads and any depth of calls from user code into the library:
`DeadlocksAreOfUserCode`. What is inductive is a property of the *rest* of a
script (`Disciplined`): wherever it locks it holds nothing, but for the pooled
registry under the entries lock, and wherever it calls user code the locks held
are those of `UnderLock`. Every script is shown disciplined piece by piece (`Runs`). If a
set of threads waits for each other and none was entered from `UnderLock`, then all
locks are held by top frames, a frame that holds a lock waits for the pooled registry only,
its holder waits for nothing, and a reader behind a queued writer comes back to the first case.

### FuzzTargetsProofs

For any finite set of keys and observations, any slots, pool and number of births, and
inputs of any length, in a build in which neither keys nor values panic
(`NothingPanics`; the targets use `u8` keys, and `u64` or counting values):
`TryGetAnswersShadow`, `IntoOutcomeAnswersShadow`, `WakersFireAsShadow` and
`TeardownDropsAll`, the assertions of the three targets. The targets sample inputs; the
theorems say that no input fails.

* `StepsAreOfTheSpace`: a step of a target is a step of `ObservationSpace` or of the
  shadow alone, so `Inv` of the space holds throughout (`NextInv`), and its lemmas
  serve here too.
* `ShadowInv` relates the shadow to it, in the middle of an operation too. Births and
  tags are in bijection (`ShadowTags`, `ShadowSubjects`); `completed` and `retired` are
  the tags of what was published and of what was published and dropped
  (`ShadowOutcomes`; the teardown keeps no record of its drops, hence the exception);
  the vector has each observation once (`ShadowObservations`); a registration the
  shadow knows is in the slot until the drain and has fired after it (`ShadowWakers`,
  which needs that a slot is recycled with an empty registry and that without
  `HAS_WAITER` there is nothing to drain); the space goes last (`ShadowEnd`).
* `NewestAlone` is why `into_outcome` answers as the targets expect *between*
  operations: every handle of the slot is then the subject's, its entry's or an
  observation's of the same generation. With a drop under way on another thread it
  is not so (`space_into_outcome`, section 6), which the sequential targets cannot see.

### Only model-checked

* Liveness (`FairSpec`): fairness and `ENABLED` are out of the prover's reach.
* That the abstractions fit together: `Slot` uses the operators of `WaiterBox` that
  `Registry` is proved to implement, and `ObservationSpace` a table that behaves like
  `KeyTable`; composing the modules into one is not done.

The inductive invariants of `Slot`, `ObservationSpace` and `FuzzTargets` are also checked
by TLC in the runs. Those of `Registry`, `SmallMap` and `UserCode` were checked on the instances
of their runs (482 209, 27 317 and 2 698 484 states) before they were proved.

## 5. Not modelled

* `FxHasher`: arithmetic on which no property depends; any hash serves.
* std's `HashMap`: external, a set of entries with unique keys.
* The `cfg(loom)` variants: the same protocol on loom's primitives, no clock.
* An outcome whose `Drop` panics in the slot's final drop (417): memory of the
  registry leaks, no other state is reachable any more. `Release` drops it once.
  Of a waker's `drop` or `clone` that panics only the unwinding is left out; what
  they may do under a lock is in `UserCode`.
* `future_ops`: it polls each future with wakers of its own over recycled slots. Its
  assertions on wake counts are `Registry`'s, where wakers may also be shared, its
  generations are `ObservationSpace`'s. Where the two meet, registrations left in a
  slot that is recycled, is `NoCrossGenerationWake`.
* The probes of the tests: counters, in the modules `ended`, `wakes`, `fired`. The
  other tests are clients of the library, read for what they expect of it.
* Benchmarks and the performance harness: fixed workloads whose results are times
  and allocated bytes. Build and CI files.

## 6. Findings

| run | the code | what it contradicts |
|---|---|---|
| `slot_timeout_race` | a completion between the recheck (832) and the deadline test (843) is missed if the deadline passes in between, even though it came first | doc of `wait_timeout`, 802-804 |
| `slot_cancel_fires` | a future dropped after the drain took the vector (353) still has its waker fired | `observe-tests/tests/future_cancel.rs:4` (lines 145-146 call the waker count irrelevant after publication, of a future that is polled to its outcome first; this one is dropped unresolved) |
| `space_into_outcome` | a pooled slot has a second handle until the retired subject's fields are dropped (725); it makes `into_outcome` (871) of the next generation return `None` | comment 525-526, doc 862-864, `README.md:28` |
| `space_double_drop` | `reset` drops the outcome before it clears `OUTCOME_VALID`; if that drop panics the value is dropped twice (388, 404, 416) | comments 189-191, 386-387 |

None of the first three breaks isolation: `space` and `space_faults` show that a
second handle never reads the slot. Nor do generation numbers that repeat after
the counter has wrapped (605-606) confuse `remove_if`: as long as key code does
not panic, a retained entry belongs to the one undropped subject of its key
(`EntryOfSubject`).

Not a contradiction of any sentence, but shown by the same property and by
`small_map`: a key whose `Hash` panics once while the table is promoted makes every
subject of the space unobservable although it exists (`lost`), and a key whose
`Eq` panics in a subject's drop leaves a key taken for good (`left`). Nothing else
is affected. `user_code` lists (`UnderLock`) from which user code a call back may
deadlock; `wake` is not among it.

## 7. Plan

Done: `Slot` with `Completion`, `Registry`, `ObservationSpace` with `Namespace`,
`SmallMap` with `KeyTable`, `UserCode`, `FuzzTargets`, and the proofs of all their
safety properties.

Left: the same safety results for the modules composed. `Slot`'s boxes are the vector of
`Registry` by `VectorIsBox`, and the table of `ObservationSpace` is that of `SmallMap` by
`ImplementsKeyTable`; a module in which the one runs inside the other would let
`Completion` and `Namespace` be implemented by both levels at once.
