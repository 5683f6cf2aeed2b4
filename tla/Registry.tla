------------------------------- MODULE Registry -------------------------------
(***************************************************************************)
(* The waiter registry of one slot as the code has it (crates/observe/src/ *)
(* lib.rs): a Vec<Waiter> with one entry per waker, in which a thread may  *)
(* have several entries, because only the last one is looked at before it  *)
(* is pushed again.  Module Slot has every access of the registration      *)
(* protocol and abstracts this vector to a box (WaiterBox); here a step is *)
(* one critical section of the registry's mutex with the COMPLETED it      *)
(* finds, or one notification of the drain, and the vector is exact.       *)
(***************************************************************************)
EXTENDS WaiterBox, SequencesExt

CONSTANTS
    Futures,
    None,       \* no waker
    MaxLen      \* bound: the length of the vector

ASSUME RegistryAssumption ==
    /\ Threads \cap Wakers = {} /\ None \notin Wakers
    /\ IsFiniteSet(Futures)
    /\ MaxLen \in Nat

VARIABLES
    vec,        \* the Vec<Waiter>
    completed,  \* is COMPLETED set?
    waiting,    \* the threads inside wait or wait_timeout, past the push
    direct,     \* the wakers for which register_waker has returned false
    wakers,     \* wakers[f]: ObservationFuture::wakers
    polling,    \* polling[f]: the waker poll has registered and not yet tracked
    drain,      \* the waiters complete has taken and not yet notified
    taken,      \* has complete taken the vector?
    wakes       \* wakes[x]: how often thread or waker x has been notified

vars == <<vec, completed, waiting, direct, wakers, polling, drain, taken, wakes>>

\* A Waiter; a thread's has neither flag nor owners.
Entry(x, persistent, owners) ==
    [who |-> x, persistent |-> persistent, future_owners |-> owners]

-------------------------------------------------------------------------------
(***************************************************************************)
(* What the critical sections do to the vector.                            *)
(***************************************************************************)

Push(v, t) ==
    IF v # <<>> /\ Last(v).who = t THEN v ELSE Append(v, Entry(t, FALSE, 0))

\* Faulty variant: only the first entry of the thread goes.
RetainButFirst(v, t) ==
    LET i == SelectInSeq(v, LAMBDA e : e.who = t)
    IN  IF i = 0 THEN v ELSE RemoveAt(v, i)

\* Vec::retain: the entries at the positions I, in order.
KeepAt(v, I) ==
    LET kept[i \in 0 .. Len(v)] ==
            IF i = 0 THEN <<>>
            ELSE IF i \in I THEN Append(kept[i - 1], v[i])
            ELSE kept[i - 1]
    IN  kept[Len(v)]

Retain(v, t) == KeepAt(v, {i \in DOMAIN v : v[i].who # t})

\* The entry that will_wake w, 0 if there is none.
Matching(v, w) == SelectInSeq(v, LAMBDA e : e.who = w)

RegisterPersistent(v, w) ==
    LET i == Matching(v, w)
    IN  IF i = 0 THEN Append(v, Entry(w, TRUE, 0))
                 ELSE [v EXCEPT ![i].persistent = TRUE]

\* Faulty variant: like a thread's, only the last entry is looked at.
RegisterUnlessLast(v, w) ==
    IF v # <<>> /\ Last(v).who = w THEN [v EXCEPT ![Len(v)].future_owners = @ + 1]
    ELSE Append(v, Entry(w, FALSE, 1))

RegisterOwner(v, w) ==
    LET i == Matching(v, w)
    IN  IF i = 0 THEN Append(v, Entry(w, FALSE, 1))
                 ELSE [v EXCEPT ![i].future_owners = @ + 1]

\* A future that tracks the wakers ws gives up its share of their entries.
OwnerLess(v, ws) ==
    [i \in DOMAIN v |-> IF v[i].who \in ws THEN [v[i] EXCEPT !.future_owners = @ - 1]
                                           ELSE v[i]]

\* Faulty variant: an entry goes with its last owner although persistent.
RetainOwned(v, ws) ==
    LET r == OwnerLess(v, ws)
    IN  KeepAt(r, {i \in DOMAIN r : r[i].who \in ws => r[i].future_owners # 0})

\* retain_mut of a future that tracks the wakers ws.
RetainMut(v, ws) ==
    LET r == OwnerLess(v, ws)
    IN  KeepAt(r, {i \in DOMAIN r :
                      r[i].who \in ws => r[i].persistent \/ r[i].future_owners # 0})

-------------------------------------------------------------------------------
(***************************************************************************)
(* wait and wait_timeout.                                                  *)
(***************************************************************************)

\* A turn of the loop before completion, the first or one after a spurious
\* wake: push and park.  Bound: MaxLen.
WaitTurn(t) ==
    /\ ~completed
    /\ Len(vec) < MaxLen
    /\ vec' = Push(vec, t)
    /\ waiting' = waiting \cup {t}
    /\ UNCHANGED <<completed, direct, wakers, polling, drain, taken, wakes>>

\* A turn that marked the slot before completion and locks the registry after
\* it: push, recheck, deregister, return.
WaitTurnCompleted(t) ==
    /\ completed
    /\ vec' = Retain(Push(vec, t), t)
    /\ waiting' = waiting \ {t}
    /\ UNCHANGED <<completed, direct, wakers, polling, drain, taken, wakes>>

\* A wait that finds COMPLETED at the head of its loop leaves its entry behind.
WaitReturns(t) ==
    /\ completed
    /\ t \in waiting
    /\ waiting' = waiting \ {t}
    /\ UNCHANGED <<vec, completed, direct, wakers, polling, drain, taken, wakes>>

\* wait_timeout gives up.
TimeOut(t) ==
    /\ t \in waiting
    /\ vec' = Retain(vec, t)
    /\ waiting' = waiting \ {t}
    /\ UNCHANGED <<completed, direct, wakers, polling, drain, taken, wakes>>

-------------------------------------------------------------------------------
(***************************************************************************)
(* register_waker and ObservationFuture.                                   *)
(***************************************************************************)

RegisterWaker(w) ==
    /\ ~completed
    /\ Len(vec) < MaxLen
    /\ vec' = RegisterPersistent(vec, w)
    /\ direct' = direct \cup {w}
    /\ UNCHANGED <<completed, waiting, wakers, polling, drain, taken, wakes>>

\* poll with a waker it does not know yet, as far as register_future_waker.
PollRegister(f, w) ==
    /\ ~completed
    /\ polling[f] = None
    /\ w \notin wakers[f]
    /\ Len(vec) < MaxLen
    /\ vec' = RegisterOwner(vec, w)
    /\ polling' = [polling EXCEPT ![f] = w]
    /\ UNCHANGED <<completed, waiting, direct, wakers, drain, taken, wakes>>

\* The rest of poll: Pending with the waker tracked, or Ready.
PollTrack(f) ==
    /\ polling[f] # None
    /\ polling' = [polling EXCEPT ![f] = None]
    /\ wakers' = IF completed THEN wakers
                 ELSE [wakers EXCEPT ![f] = @ \cup {polling[f]}]
    /\ UNCHANGED <<vec, completed, waiting, direct, drain, taken, wakes>>

\* A future without wakers leaves the registry alone; another one may take
\* its place here.
DropFuture(f) ==
    /\ polling[f] = None
    /\ wakers[f] # {}
    /\ vec' = RetainMut(vec, wakers[f])
    /\ wakers' = [wakers EXCEPT ![f] = {}]
    /\ UNCHANGED <<completed, waiting, direct, polling, drain, taken, wakes>>

-------------------------------------------------------------------------------
(***************************************************************************)
(* complete.                                                               *)
(***************************************************************************)

Publish ==
    /\ ~completed
    /\ completed' = TRUE
    /\ UNCHANGED <<vec, waiting, direct, wakers, polling, drain, taken, wakes>>

Take ==
    /\ completed /\ ~taken
    /\ taken' = TRUE
    /\ drain' = vec
    /\ vec' = <<>>
    /\ UNCHANGED <<completed, waiting, direct, wakers, polling, wakes>>

Notify ==
    /\ drain # <<>>
    /\ wakes' = [wakes EXCEPT ![Head(drain).who] = @ + 1]
    /\ drain' = Tail(drain)
    /\ UNCHANGED <<vec, completed, waiting, direct, wakers, polling, taken>>

-------------------------------------------------------------------------------
Init ==
    /\ vec = <<>> /\ drain = <<>>
    /\ completed = FALSE /\ taken = FALSE
    /\ waiting = {} /\ direct = {}
    /\ wakers = [f \in Futures |-> {}]
    /\ polling = [f \in Futures |-> None]
    /\ wakes = [x \in Threads \cup Wakers |-> 0]

Next ==
    \/ \E t \in Threads : \/ WaitTurn(t) \/ WaitTurnCompleted(t)
                         \/ WaitReturns(t) \/ TimeOut(t)
    \/ \E w \in Wakers : RegisterWaker(w) \/ \E f \in Futures : PollRegister(f, w)
    \/ \E f \in Futures : PollTrack(f) \/ DropFuture(f)
    \/ Publish \/ Take \/ Notify

Spec == Init /\ [][Next]_vars

-------------------------------------------------------------------------------
(***************************************************************************)
(* Properties.                                                             *)
(***************************************************************************)

\* The box a vector stands for.
Owners(v, w) == LET i == Matching(v, w) IN IF i = 0 THEN 0 ELSE v[i].future_owners

Box(v) ==
    [threads    |-> {t \in Threads : \E i \in DOMAIN v : v[i].who = t},
     persistent |-> {w \in Wakers : \E i \in DOMAIN v : v[i].who = w /\ v[i].persistent},
     owners     |-> [w \in Wakers |-> Owners(v, w)]]

Listed(v) == {v[i].who : i \in DOMAIN v}

\* What a critical section does to the box is what Slot's operators do.
BoxStep ==
    /\ \A t \in Threads :
          /\ WaitTurn(t) => Box(vec') = PushWaiter(Box(vec), t)
          /\ WaitTurnCompleted(t) \/ TimeOut(t) => Box(vec') = RetainOthers(Box(vec), t)
    /\ \A w \in Wakers :
          /\ RegisterWaker(w) => Box(vec') = AddPersistent(Box(vec), w)
          /\ \A f \in Futures : PollRegister(f, w) => Box(vec') = AddOwner(Box(vec), w)
    /\ \A f \in Futures : DropFuture(f) => Box(vec') = ReleaseOwners(Box(vec), wakers[f])
    /\ Take => Listed(drain') = Entries(Box(vec))

\* Every critical section does to the vector what Slot's operators do to its
\* box: entries in any order, a thread's several entries and the entries that
\* retain_mut drops included.
VectorIsBox == [][BoxStep]_vars

\* The futures that own w's entry: they track w, or are about to.
Claimants(w) == {f \in Futures : w \in wakers[f] \/ polling[f] = w}

\* A waker has an entry, and only one, exactly while somebody wants it: polls
\* and registrations never accumulate, and until completion the entry is that
\* of the direct registrations and of the futures that were not dropped, so a
\* cancelled future's waker is gone before the drain can fire it.
OneEntryPerWaker ==
    /\ \A i, j \in DOMAIN vec :
          vec[i].who \in Wakers /\ vec[j].who = vec[i].who => i = j
    /\ ~completed => \A w \in Wakers :
          /\ Matching(vec, w) # 0 <=> w \in direct \/ Claimants(w) # {}
          /\ Owners(vec, w) = Cardinality(Claimants(w))

\* A registered waker fires exactly once: when the drain is over, the wakers
\* of live futures and of direct registrations have been woken, no waker more
\* than once, and every thread that is still parked at least once.
FiresExactlyOnce ==
    /\ \A w \in Wakers : wakes[w] <= 1
    /\ (taken /\ drain = <<>>) =>
          /\ \A w \in direct \cup (UNION {wakers[f] : f \in Futures}) : wakes[w] = 1
          /\ \A t \in waiting : wakes[t] >= 1

-------------------------------------------------------------------------------
(***************************************************************************)
(* The inductive invariant.                                                *)
(***************************************************************************)

Waiter == [who : Threads \cup Wakers, persistent : BOOLEAN, future_owners : Nat]

TypeOK ==
    /\ vec \in Seq(Waiter) /\ drain \in Seq(Waiter)
    /\ completed \in BOOLEAN /\ taken \in BOOLEAN
    /\ waiting \subseteq Threads /\ direct \subseteq Wakers
    /\ wakers \in [Futures -> SUBSET Wakers]
    /\ polling \in [Futures -> Wakers \cup {None}]
    /\ wakes \in [Threads \cup Wakers -> Nat]

\* A waker has one entry, and somebody needs it.
WellFormed(v) ==
    /\ \A i, j \in DOMAIN v : v[i].who \in Wakers /\ v[j].who = v[i].who => i = j
    /\ \A i \in DOMAIN v : v[i].who \in Wakers => v[i].persistent \/ v[i].future_owners # 0

\* Until complete takes the vector it has whoever waits; the count of a waker is
\* exact until the completion and never too low.
InvVector ==
    /\ WellFormed(vec)
    /\ ~taken =>
          /\ waiting \subseteq Box(vec).threads
          /\ Box(vec).persistent = direct
          /\ \A w \in Wakers : Box(vec).owners[w] >= Cardinality(Claimants(w))
    /\ ~completed => \A w \in Wakers : Box(vec).owners[w] = Cardinality(Claimants(w))
    /\ taken => completed /\ vec = <<>>

\* After that, who waits has been notified or will be; no waker twice.
InvDrain ==
    /\ WellFormed(drain)
    /\ ~taken => drain = <<>> /\ \A w \in Wakers : wakes[w] = 0
    /\ taken =>
          /\ \A w \in direct \cup (UNION {wakers[f] : f \in Futures}) :
                wakes[w] = 1 \/ w \in Listed(drain)
          /\ \A t \in waiting : wakes[t] >= 1 \/ t \in Listed(drain)
    /\ \A w \in Wakers : wakes[w] = 0 \/ (wakes[w] = 1 /\ w \notin Listed(drain))

\* The inductive invariant: whoever waits is in the vector, in the drain's hands
\* or notified, and the vector says exactly who it is.
Inv == TypeOK /\ InvVector /\ InvDrain

===============================================================================
