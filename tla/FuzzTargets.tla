------------------------------ MODULE FuzzTargets ------------------------------
(***************************************************************************)
(* The fuzz targets of crates/observe-tests/fuzz that drive the namespace  *)
(* (ops, promotion_ops, waker_ops): a sequential interpreter of operations *)
(* with a shadow of what the library should answer, composed with the      *)
(* namespace itself (ObservationSpace).  Here every sequence of operations *)
(* is an input, and the targets' assertions are the invariants.            *)
(*                                                                         *)
(* The targets keep one subject per key, so a subject's owner is its key.  *)
(* A value is tagged with (epoch, key); an outcome of ObservationSpace is  *)
(* the birth of its subject, and tags gives the tag of every birth.        *)
(***************************************************************************)
EXTENDS ObservationSpace, SequencesExt

ASSUME OwnersAreKeys == Owners = Keys

\* The targets' keys are bytes, and their values count drops and never panic.
ASSUME NothingPanics == ~DropPanics /\ ~KeyPanics

VARIABLES
    epochs,        \* epochs[k]: the last epoch of key k, 0 before the first
    tags,          \* tags[b]: encode(epoch, key) of the subject with birth b
    completed,     \* the tags whose subject was completed
    retired,       \* ops: the tags that were retired after completion
    observations,  \* the Vec of observations, with the tag they should read
    wakers,        \* waker_ops: the tags with a registered waker
    ending         \* has the teardown begun?

shadow == <<epochs, tags, completed, retired, observations, wakers, ending>>

encode(k) == <<epochs[k], k>>

\* An operation of the library is still running: nothing else starts.
Running ==
    \/ \E k \in Keys : Exists(k) /\ subjects[k].phase # "live"
    \/ \E h \in Handles : Observes(h) /\ obs[h].phase # "live"

Idle == ~Running /\ ~ending

Newest == Last(observations)

-------------------------------------------------------------------------------
(***************************************************************************)
(* The operations.  One that does not apply is skipped by the interpreter; *)
(* try_get changes nothing and is left to the oracle.                      *)
(***************************************************************************)

Register(k) ==
    /\ Idle
    /\ CreateSubject(k, k)
    /\ epochs' = [epochs EXCEPT ![k] = @ + 1]
    /\ tags' = Append(tags, <<epochs[k] + 1, k>>)
    /\ UNCHANGED <<completed, retired, observations, wakers, ending>>

CompleteKey(k) ==
    /\ Idle
    /\ encode(k) \notin completed
    /\ Complete(k)
    /\ completed' = completed \cup {encode(k)}
    /\ UNCHANGED <<epochs, tags, retired, observations, wakers, ending>>

ObserveKey(k) ==
    /\ Idle
    /\ \E h \in Handles :
          /\ Observe(h, k)
          /\ observations' = Append(observations, [handle |-> h, tag |-> encode(k)])
    /\ UNCHANGED <<epochs, tags, completed, retired, wakers, ending>>

RetireKey(k) ==
    /\ Idle
    /\ Retire(k)
    /\ retired' = retired \cup ({encode(k)} \cap completed)
    /\ UNCHANGED <<epochs, tags, completed, observations, wakers, ending>>

IntoOutcomeNewest ==
    /\ Idle /\ observations # <<>>
    /\ IntoOutcome(Newest.handle) \/ IntoOutcomeRefused(Newest.handle)
    /\ observations' = Front(observations)
    /\ UNCHANGED <<epochs, tags, completed, retired, wakers, ending>>

\* A waker of its own for every call; after completion nothing is registered.
RegisterWakerNewest ==
    /\ Idle /\ observations # <<>>
    /\ RegisterWaker(Newest.handle)
    /\ wakers' = wakers \cup {Newest.tag}
    /\ UNCHANGED <<epochs, tags, completed, retired, observations, ending>>

DropNewest ==
    /\ Idle /\ observations # <<>>
    /\ DropObservation(Newest.handle)
    /\ observations' = Front(observations)
    /\ UNCHANGED <<epochs, tags, completed, retired, wakers, ending>>

\* The rest of an operation that takes the library more than one step.
Finish ==
    /\ Running
    /\ \/ \E k \in Keys : Drain(k) \/ DropFields(k)
       \/ \E h \in Handles : obs[h] # Null /\ obs[h].phase # "live" /\ DropObservation(h)
    /\ UNCHANGED shadow

\* After the input: drop(observations), drop(subjects), drop(space).
BeginTeardown ==
    /\ Idle
    /\ ending' = TRUE
    /\ UNCHANGED <<vars, epochs, tags, completed, retired, observations, wakers>>

Teardown ==
    /\ ending /\ ~Running
    /\ \/ /\ observations # <<>>
          /\ DropObservation(Head(observations).handle)
          /\ observations' = Tail(observations)
       \/ /\ observations = <<>>
          /\ \/ \E k \in Keys : Retire(k)
             \/ (\A k \in Keys : ~Exists(k)) /\ DropSpace
          /\ UNCHANGED observations
    /\ UNCHANGED <<epochs, tags, completed, retired, wakers, ending>>

FuzzInit ==
    /\ Init
    /\ epochs = [k \in Keys |-> 0]
    /\ tags = <<>>
    /\ completed = {} /\ retired = {} /\ wakers = {}
    /\ observations = <<>>
    /\ ending = FALSE

FuzzNext ==
    \/ \E k \in Keys : \/ Register(k) \/ CompleteKey(k)
                       \/ ObserveKey(k) \/ RetireKey(k)
    \/ IntoOutcomeNewest \/ RegisterWakerNewest \/ DropNewest
    \/ Finish \/ BeginTeardown \/ Teardown

FuzzSpec == FuzzInit /\ [][FuzzNext]_<<vars, shadow>>

-------------------------------------------------------------------------------
(***************************************************************************)
(* The assertions of the targets.                                          *)
(***************************************************************************)

\* Is the subject of this tag still in the targets' map of subjects?
Current(tag) == Exists(tag[2]) /\ epochs[tag[2]] = tag[1]

\* What the shadow of ops says about a generation, kept in two maps.
DoneByOps(tag) == IF Current(tag) THEN tag \in completed ELSE tag \in retired

\* try_get of every observation resolves iff its own generation completed, to
\* the value of that generation, after any history of retirement and reuse;
\* the two-map shadow of ops and the one-map shadow of the others agree on it.
TryGetOracle ==
    ~Running =>
        \A i \in DOMAIN observations :
            LET o == observations[i]
                s == obs[o.handle].slot
            IN  /\ COMPLETED \in state[s] <=> o.tag \in completed
                /\ COMPLETED \in state[s] <=> DoneByOps(o.tag)
                /\ COMPLETED \in state[s] => tags[outcome[s]] = o.tag

\* into_outcome of the newest observation yields the outcome iff the subject is
\* gone, it completed, and no other observation of the generation is left.
IntoOutcomeOracle ==
    Idle /\ observations # <<>> =>
        LET s == obs[Newest.handle].slot
            sharers == {i \in 1 .. Len(observations) - 1 : observations[i].tag = Newest.tag}
        IN  (COMPLETED \in state[s] /\ strong_count(s) = 1) <=>
            (~Current(Newest.tag) /\ Newest.tag \in completed /\ sharers = {})

\* Between operations, the wakers that have fired are the registered ones whose
\* generation completed, each by its own generation.
WakerOracle ==
    ~Running =>
        {<<tags[wake[1]], tags[wake[2]]>> : wake \in fired} =
            {<<tag, tag>> : tag \in wakers \cap completed}

\* After the teardown every value created was dropped or moved out once, and no
\* slot is left.
DropOracle ==
    ~open /\ ~Running => /\ \A b \in published : ended[b] = 1
                         /\ \A b \in Births \ published : ended[b] = 0
                         /\ live = {}

-------------------------------------------------------------------------------
(***************************************************************************)
(* The inductive invariant: what the shadow has to do with the namespace,  *)
(* also in the middle of an operation.                                     *)
(***************************************************************************)

Tag  == Nat \X Keys
Item == [handle : Handles, tag : Tag]

ShadowTypes ==
    /\ epochs \in [Keys -> Nat]
    /\ tags \in Seq(Tag)
    /\ completed \in SUBSET Tag /\ retired \in SUBSET Tag /\ wakers \in SUBSET Tag
    /\ observations \in Seq(Item)
    /\ ending \in BOOLEAN

\* Every birth has a tag of its own, of an epoch that has begun.
ShadowTags ==
    /\ Len(tags) = births
    /\ \A b \in 1 .. births : tags[b][1] <= epochs[tags[b][2]]
    /\ \A b, d \in 1 .. births : tags[b] = tags[d] => b = d

\* The subject of a key is of the key's last epoch.
ShadowSubjects ==
    \A k \in Keys : Exists(k) =>
        /\ subjects[k].key = k
        /\ tags[subjects[k].birth] = encode(k)

\* The Vec has every observation that no operation has consumed, once.
ShadowObservations ==
    /\ \A i \in 1 .. Len(observations) :
          /\ Usable(observations[i].handle)
          /\ observations[i].tag = tags[obs[observations[i].handle].birth]
    /\ \A i, j \in 1 .. Len(observations) :
          observations[i].handle = observations[j].handle => i = j
    /\ \A h \in Handles : Usable(h) =>
          \E i \in 1 .. Len(observations) : observations[i].handle = h

\* The subject of birth b has not entered its drop.
Undropped(b) ==
    \E k \in Keys : Exists(k) /\ subjects[k].phase # "dropping" /\ subjects[k].birth = b

\* The teardown drops subjects without a record of it, after the observations.
ShadowOutcomes ==
    /\ completed = {tags[b] : b \in published}
    /\ ~(ending /\ observations = <<>>) =>
          retired = {tags[b] : b \in {d \in published : ~Undropped(d)}}

\* The subject of birth b is between its publication and its drain.
Draining(b) ==
    \E k \in Keys : Exists(k) /\ subjects[k].phase = "drain" /\ subjects[k].birth = b

\* The subject of k has its drain, if it comes to one, ahead of it.
Undrained(k) ==
    /\ Exists(k) /\ subjects[k].phase # "dropping"
    /\ subjects[k].completed => subjects[k].phase = "drain"

\* Until its drain a subject's slot has the registration the shadow knows of;
\* after it the waker has fired.
ShadowWakers ==
    /\ wakers \subseteq {tags[b] : b \in 1 .. births}
    /\ \A k \in Keys :
          Undrained(k) =>
             (encode(k) \in wakers <=> subjects[k].birth \in registry[subjects[k].slot])
    /\ \A b \in Births : Draining(b) => b \in published
    /\ fired = {<<b, b>> : b \in {d \in published : tags[d] \in wakers /\ ~Draining(d)}}

\* The space is dropped last, with everything in it.
ShadowEnd ==
    ~open => /\ ending /\ observations = <<>> /\ pool = <<>>
             /\ \A k \in Keys : ~Exists(k) /\ ~Retained(k)
             /\ \A h \in Handles : ~Observes(h)

\* The shadow describes the namespace in every state of the targets.
ShadowInv ==
    /\ ShadowTypes /\ ShadowTags /\ ShadowSubjects /\ ShadowObservations
    /\ ShadowOutcomes /\ ShadowWakers /\ ShadowEnd

===============================================================================
