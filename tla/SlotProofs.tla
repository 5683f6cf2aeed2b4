------------------------------ MODULE SlotProofs ------------------------------
(***************************************************************************)
(* Proofs about Slot, for any sets of threads, callers, futures, wakers    *)
(* and outcomes (futures finite in number).                                *)
(*                                                                         *)
(* Everything rests on Inv, the inductive invariant of Slot: one lemma per *)
(* action shows that the action preserves it.  Actions that leave the      *)
(* registry alone need one fact, that nobody's claim on a waker changes;   *)
(* the critical sections go through CriticalSection and UnlockFacts; the   *)
(* owner counts are compared with the cardinality of Claimants.            *)
(***************************************************************************)
EXTENDS Slot, FiniteSetTheorems, TLAPS

USE DEF AccessLabels, HeldLabels, TakenLabels, WaitOps, COMPLETED, HAS_WAITER,
        OUTCOME_VALID, Pending, Registered, Ready, TimedOut, IsCompleted

\* The kinds of processes are apart, and so are threads and wakers.
LEMMA ProcFacts ==
    /\ Procs = Threads \cup Callers \cup Futures \cup {Completer}
    /\ Completer \in Procs /\ Null \notin Procs
    /\ Threads \subseteq Procs /\ Callers \subseteq Procs /\ Futures \subseteq Procs
    /\ Completer \notin Threads /\ Completer \notin Callers /\ Completer \notin Futures
    /\ Threads \cap Callers = {} /\ Threads \cap Futures = {} /\ Callers \cap Futures = {}
    /\ Threads \cap Wakers = {}
    /\ Null \notin Wakers /\ Null \notin Outcomes
BY ProcsAssumption, ValuesAssumption DEF Procs

\* A freshly allocated registry is free and has no entries.
LEMMA EmptyBoxFacts ==
    /\ EmptyBox \in Boxes
    /\ EmptyBox.holder = Null /\ EmptyBox.threads = {} /\ EmptyBox.persistent = {}
    /\ \A w \in Wakers : EmptyBox.owners[w] = 0
    /\ WakerEntries(EmptyBox) = {}
BY DEF EmptyBox, Boxes, WakerEntries

USE ProcFacts, EmptyBoxFacts

\* What a registry holds, by its type.
LEMMA BoxFacts ==
    ASSUME NEW b \in Boxes
    PROVE  /\ b.threads \subseteq Threads
           /\ b.persistent \subseteq Wakers
           /\ b.owners \in [Wakers -> Nat]
           /\ WakerEntries(b) \subseteq Wakers
BY DEF Boxes, WakerEntries

\* Claims can be counted, and a claim counts.
LEMMA ClaimantsFacts ==
    ASSUME NEW w
    PROVE  /\ IsFiniteSet(Claimants(w))
           /\ Cardinality(Claimants(w)) \in Nat
           /\ \A f \in Claimants(w) : Cardinality(Claimants(w)) >= 1
<1>1. IsFiniteSet(Claimants(w))
  BY FuturesAssumption, FS_Subset DEF Claimants
<1> QED
  BY <1>1, FS_CardinalityType, FS_EmptySet

\* Inside the critical section the registry is p's alone.
LEMMA CriticalSection ==
    ASSUME Inv, NEW p \in Procs, pc[p] \in HeldLabels
    PROVE  /\ waiters \in Procs /\ waiters # Null
           /\ reg[p] = waiters /\ box[reg[p]] = Registry /\ Registry \in Boxes
           /\ Registry.holder = p
           /\ \A q \in Procs : pc[q] \in HeldLabels => q = p
BY DEF Inv, TypeOK, InvRegistry, Registry

\* Leaving it with the registry as b frees the mutex and changes no other box.
LEMMA UnlockFacts ==
    ASSUME Inv, NEW p \in Procs, pc[p] \in HeldLabels, NEW b \in Boxes,
           Unlock(p, b), waiters' = waiters
    PROVE  /\ box' \in [Procs -> Boxes]
           /\ Registry' \in Boxes /\ Registry'.holder = Null
           /\ Registry'.threads = b.threads
           /\ Registry'.persistent = b.persistent
           /\ Registry'.owners = b.owners
           /\ WakerEntries(Registry)' = WakerEntries(b)
           /\ \A q \in Procs : q # waiters => box'[q] = box[q]
<1>1. waiters \in Procs /\ reg[p] = waiters
  BY CriticalSection
<1>2. Registry' = [b EXCEPT !.holder = Null]
  BY <1>1 DEF Unlock, Inv, TypeOK, Registry
<1>3. [b EXCEPT !.holder = Null] \in Boxes
  BY DEF Boxes
<1>4. /\ Registry'.holder = Null /\ Registry'.threads = b.threads
      /\ Registry'.persistent = b.persistent /\ Registry'.owners = b.owners
  BY <1>2 DEF Boxes
<1>5. box' \in [Procs -> Boxes] /\ \A q \in Procs : q # waiters => box'[q] = box[q]
  BY <1>1, <1>3 DEF Unlock, Inv, TypeOK
<1>6. WakerEntries(Registry)' = WakerEntries(b)
  BY <1>4 DEF WakerEntries
<1> QED
  BY <1>2, <1>3, <1>4, <1>5, <1>6

-------------------------------------------------------------------------------
\* Initially nothing is registered and nobody runs.
LEMMA InitInv == Init => Inv
<1> SUFFICES ASSUME Init PROVE Inv
  OBVIOUS
<1> USE DEF Init
<1>1. TypeOK
  BY DEF TypeOK, Boxes, Cells, Labels, Ops, Deadlines, Results
<1>2. InvFlow /\ InvRegistry /\ InvPublished /\ InvMarked /\ InvThreads
        /\ InvDirect /\ InvStale
  BY DEF InvFlow, InvRegistry, InvPublished, InvMarked, InvThreads, InvDirect,
         InvStale
<1>3. InvOwners
  BY DEF InvOwners, OwnersExact, Claimants
<1> QED
  BY <1>1, <1>2, <1>3 DEF Inv

-------------------------------------------------------------------------------
(***************************************************************************)
(* Steps that leave the registry and everybody's claims alone.             *)
(***************************************************************************)

\* The completer's steps around the drain.
LEMMA CompleteInv ==
    ASSUME Inv,
           \/ BeginWrite \/ FinishDrain \/ \E o \in Outcomes : FinishWrite(o)
           \/ \E t \in Threads : NotifyThread(t)
           \/ \E w \in Wakers, b \in BOOLEAN : NotifyWaker(w, b)
    PROVE  Inv'
<1>1. CASE BeginWrite
  <2>1. \A v \in Wakers : Claimants(v)' = Claimants(v)
    BY <1>1 DEF BeginWrite, Goto, Inv, TypeOK, InvFlow,
          InvPublished, Claimants
  <2> QED
    BY <1>1, <2>1, EmptyBox = EmptyBox'
    DEF Inv, TypeOK, Labels, Ops, Bits, Cells, Deadlines, Results, InvFlow,
        InvRegistry, InvPublished, InvMarked, InvThreads, InvDirect, InvOwners,
        InvStale, OwnersExact, Registry, WakerEntries,
        BeginWrite, Goto
<1>2. CASE FinishDrain
  <2>1. \A v \in Wakers : Claimants(v)' = Claimants(v)
    BY <1>2 DEF FinishDrain, Goto, Inv, TypeOK, InvFlow,
          InvPublished, Claimants
  <2> QED
    BY <1>2, <2>1, EmptyBox = EmptyBox'
    DEF Inv, TypeOK, Labels, Ops, Bits, Cells, Deadlines, Results, InvFlow,
        InvRegistry, InvPublished, InvMarked, InvThreads, InvDirect, InvOwners,
        InvStale, OwnersExact, Registry, WakerEntries,
        FinishDrain, Goto
<1>3. ASSUME NEW o \in Outcomes, FinishWrite(o) PROVE Inv'
  <2>1. \A v \in Wakers : Claimants(v)' = Claimants(v)
    BY <1>3 DEF FinishWrite, Goto, Inv, TypeOK, InvFlow,
          InvPublished, Claimants
  <2> QED
    BY <1>3, <2>1, EmptyBox = EmptyBox'
    DEF Inv, TypeOK, Labels, Ops, Bits, Cells, Deadlines, Results, InvFlow,
        InvRegistry, InvPublished, InvMarked, InvThreads, InvDirect, InvOwners,
        InvStale, OwnersExact, Registry, WakerEntries,
        FinishWrite, Goto
<1>4. ASSUME NEW t \in Threads, NotifyThread(t) PROVE Inv'
  <2>1. \A v \in Wakers : Claimants(v)' = Claimants(v)
    BY <1>4 DEF NotifyThread, Goto, Inv, TypeOK, InvFlow,
          InvPublished, Claimants
  <2> QED
    BY <1>4, <2>1, EmptyBox = EmptyBox'
    DEF Inv, TypeOK, Labels, Ops, Bits, Cells, Deadlines, Results, InvFlow,
        InvRegistry, InvPublished, InvMarked, InvThreads, InvDirect, InvOwners,
        InvStale, OwnersExact, Registry, WakerEntries,
        NotifyThread, Goto
<1>5. ASSUME NEW w \in Wakers, NEW b \in BOOLEAN, NotifyWaker(w, b) PROVE Inv'
  <2>1. \A v \in Wakers : Claimants(v)' = Claimants(v)
    BY <1>5 DEF NotifyWaker, Goto, Inv, TypeOK, InvFlow,
          InvPublished, Claimants
  <2> QED
    BY <1>5, <2>1, EmptyBox = EmptyBox'
    DEF Inv, TypeOK, Labels, Ops, Bits, Cells, Deadlines, Results, InvFlow,
        InvRegistry, InvPublished, InvMarked, InvThreads, InvDirect, InvOwners,
        InvStale, OwnersExact, Registry, WakerEntries,
        NotifyWaker, Goto
<1> QED
  BY <1>1, <1>2, <1>3, <1>4, <1>5

\* The steps of wait and wait_timeout outside the mutex.
LEMMA WaitInv ==
    ASSUME Inv,
           NEW t \in Threads,
           \/ CheckWait(t) \/ Mark(t) \/ Read(t) \/ ParkUntil(t) \/ Unparked(t)
           \/ ParkElapsed(t) \/ SpuriousWake(t) \/ Expire(t)
           \/ \E how \in WaitOps : CallWait(t, how)
    PROVE  Inv'
<1>1. CASE CheckWait(t)
  <2>1. \A v \in Wakers : Claimants(v)' = Claimants(v)
    BY <1>1 DEF CheckWait, Goto, Inv, TypeOK, InvFlow,
          InvPublished, Claimants
  <2> QED
    BY <1>1, <2>1, EmptyBox = EmptyBox'
    DEF Inv, TypeOK, Labels, Ops, Bits, Cells, Deadlines, Results, InvFlow,
        InvRegistry, InvPublished, InvMarked, InvThreads, InvDirect, InvOwners,
        InvStale, OwnersExact, Registry, WakerEntries,
        CheckWait, Goto
<1>2. CASE Mark(t)
  <2>1. \A v \in Wakers : Claimants(v)' = Claimants(v)
    BY <1>2 DEF Mark, Goto, Inv, TypeOK, InvFlow,
          InvPublished, Claimants
  <2> QED
    BY <1>2, <2>1, EmptyBox = EmptyBox'
    DEF Inv, TypeOK, Labels, Ops, Bits, Cells, Deadlines, Results, InvFlow,
        InvRegistry, InvPublished, InvMarked, InvThreads, InvDirect, InvOwners,
        InvStale, OwnersExact, Registry, WakerEntries,
        Mark, Goto
<1>3. CASE Read(t)
  <2>1. \A v \in Wakers : Claimants(v)' = Claimants(v)
    BY <1>3 DEF Read, Goto, Return, Inv, TypeOK, InvFlow,
          InvPublished, Claimants
  <2> QED
    BY <1>3, <2>1, EmptyBox = EmptyBox'
    DEF Inv, TypeOK, Labels, Ops, Bits, Cells, Deadlines, Results, InvFlow,
        InvRegistry, InvPublished, InvMarked, InvThreads, InvDirect, InvOwners,
        InvStale, OwnersExact, Registry, WakerEntries,
        Read, Goto, Return
<1>4. CASE ParkUntil(t)
  <2>1. \A v \in Wakers : Claimants(v)' = Claimants(v)
    BY <1>4 DEF ParkUntil, Goto, Inv, TypeOK, InvFlow,
          InvPublished, Claimants
  <2> USE <1>4 DEF ParkUntil, Goto
  <2>2. TypeOK'
    BY DEF Inv, TypeOK, Labels, Ops, InvFlow
  <2>3. InvFlow'
    BY DEF Inv, TypeOK, InvFlow
  <2>4. InvRegistry'
    BY EmptyBox = EmptyBox' DEF Inv, TypeOK, InvRegistry, Registry
  <2>5. InvPublished'
    BY DEF Inv, TypeOK, InvPublished
  <2>6. InvMarked'
    BY DEF Inv, TypeOK, InvMarked
  <2>7. InvThreads'
    BY DEF Inv, TypeOK, InvThreads, Registry
  <2>8. InvDirect'
    BY DEF Inv, TypeOK, InvDirect, Registry
  <2>9. InvOwners'
    BY <2>1 DEF Inv, TypeOK, InvOwners, OwnersExact, Registry
  <2>10. InvStale'
    BY DEF Inv, TypeOK, InvStale, Registry, WakerEntries
  <2> QED
    BY <2>2, <2>3, <2>4, <2>5, <2>6, <2>7, <2>8, <2>9, <2>10 DEF Inv
<1>5. CASE Unparked(t)
  <2>1. \A v \in Wakers : Claimants(v)' = Claimants(v)
    BY <1>5 DEF Unparked, Goto, Inv, TypeOK, InvFlow,
          InvPublished, Claimants
  <2> QED
    BY <1>5, <2>1, EmptyBox = EmptyBox'
    DEF Inv, TypeOK, Labels, Ops, Bits, Cells, Deadlines, Results, InvFlow,
        InvRegistry, InvPublished, InvMarked, InvThreads, InvDirect, InvOwners,
        InvStale, OwnersExact, Registry, WakerEntries,
        Unparked, Goto
<1>6. CASE ParkElapsed(t)
  <2>1. \A v \in Wakers : Claimants(v)' = Claimants(v)
    BY <1>6 DEF ParkElapsed, Goto, Inv, TypeOK, InvFlow,
          InvPublished, Claimants
  <2> QED
    BY <1>6, <2>1, EmptyBox = EmptyBox'
    DEF Inv, TypeOK, Labels, Ops, Bits, Cells, Deadlines, Results, InvFlow,
        InvRegistry, InvPublished, InvMarked, InvThreads, InvDirect, InvOwners,
        InvStale, OwnersExact, Registry, WakerEntries,
        ParkElapsed, Goto
<1>7. CASE SpuriousWake(t)
  <2>1. \A v \in Wakers : Claimants(v)' = Claimants(v)
    BY <1>7 DEF SpuriousWake, Goto, Inv, TypeOK, InvFlow,
          InvPublished, Claimants
  <2> QED
    BY <1>7, <2>1, EmptyBox = EmptyBox'
    DEF Inv, TypeOK, Labels, Ops, Bits, Cells, Deadlines, Results, InvFlow,
        InvRegistry, InvPublished, InvMarked, InvThreads, InvDirect, InvOwners,
        InvStale, OwnersExact, Registry, WakerEntries,
        SpuriousWake, Goto
<1>8. CASE Expire(t)
  <2>1. \A v \in Wakers : Claimants(v)' = Claimants(v)
    BY <1>8 DEF Expire, Goto, Inv, TypeOK, InvFlow,
          InvPublished, Claimants
  <2> QED
    BY <1>8, <2>1, EmptyBox = EmptyBox'
    DEF Inv, TypeOK, Labels, Ops, Bits, Cells, Deadlines, Results, InvFlow,
        InvRegistry, InvPublished, InvMarked, InvThreads, InvDirect, InvOwners,
        InvStale, OwnersExact, Registry, WakerEntries,
        Expire, Goto
<1>9. ASSUME NEW how \in WaitOps, CallWait(t, how) PROVE Inv'
  <2>1. \A v \in Wakers : Claimants(v)' = Claimants(v)
    BY <1>9 DEF CallWait, Goto, Inv, TypeOK, InvFlow,
          InvPublished, Claimants
  <2> QED
    BY <1>9, <2>1, EmptyBox = EmptyBox'
    DEF Inv, TypeOK, Labels, Ops, Bits, Cells, Deadlines, Results, InvFlow,
        InvRegistry, InvPublished, InvMarked, InvThreads, InvDirect, InvOwners,
        InvStale, OwnersExact, Registry, WakerEntries,
        CallWait, Goto
<1> QED
  BY <1>1, <1>2, <1>3, <1>4, <1>5, <1>6, <1>7, <1>8, <1>9

\* The steps of register_waker, poll and drop outside the mutex.
LEMMA AsyncInv ==
    ASSUME Inv,
           NEW p \in Callers \cup Futures,
           \/ RegisterCheck(p) \/ Mark(p)
           \/ p \in Callers /\ \E w \in Wakers : CallRegister(p, w)
           \/ p \in Futures /\ (TryGet(p) \/ Read(p) \/ CallDrop(p))
           \/ p \in Futures /\ \E w \in Wakers : CallPoll(p, w)
    PROVE  Inv'
<1>1. CASE RegisterCheck(p)
  <2>1. \A v \in Wakers : Claimants(v)' = Claimants(v)
    BY <1>1 DEF RegisterCheck, Goto, Return, Inv, TypeOK, InvFlow,
          InvPublished, Claimants
  <2> QED
    BY <1>1, <2>1, EmptyBox = EmptyBox'
    DEF Inv, TypeOK, Labels, Ops, Bits, Cells, Deadlines, Results, InvFlow,
        InvRegistry, InvPublished, InvMarked, InvThreads, InvDirect, InvOwners,
        InvStale, OwnersExact, Registry, WakerEntries,
        RegisterCheck, Goto, Return
<1>2. CASE Mark(p)
  <2>1. \A v \in Wakers : Claimants(v)' = Claimants(v)
    BY <1>2 DEF Mark, Goto, Inv, TypeOK, InvFlow,
          InvPublished, Claimants
  <2> QED
    BY <1>2, <2>1, EmptyBox = EmptyBox'
    DEF Inv, TypeOK, Labels, Ops, Bits, Cells, Deadlines, Results, InvFlow,
        InvRegistry, InvPublished, InvMarked, InvThreads, InvDirect, InvOwners,
        InvStale, OwnersExact, Registry, WakerEntries,
        Mark, Goto
<1>3. ASSUME p \in Callers, NEW w \in Wakers, CallRegister(p, w) PROVE Inv'
  <2>1. \A v \in Wakers : Claimants(v)' = Claimants(v)
    BY <1>3 DEF CallRegister, Goto, Inv, TypeOK, InvFlow,
          InvPublished, Claimants
  <2> QED
    BY <1>3, <2>1, EmptyBox = EmptyBox'
    DEF Inv, TypeOK, Labels, Ops, Bits, Cells, Deadlines, Results, InvFlow,
        InvRegistry, InvPublished, InvMarked, InvThreads, InvDirect, InvOwners,
        InvStale, OwnersExact, Registry, WakerEntries,
        CallRegister, Goto
<1>4. ASSUME p \in Futures, TryGet(p) PROVE Inv'
  <2>1. \A v \in Wakers : Claimants(v)' = Claimants(v)
    BY <1>4 DEF TryGet, Goto, Inv, TypeOK, InvFlow,
          InvPublished, Claimants
  <2> QED
    BY <1>4, <2>1, EmptyBox = EmptyBox'
    DEF Inv, TypeOK, Labels, Ops, Bits, Cells, Deadlines, Results, InvFlow,
        InvRegistry, InvPublished, InvMarked, InvThreads, InvDirect, InvOwners,
        InvStale, OwnersExact, Registry, WakerEntries,
        TryGet, Goto
<1>5. ASSUME p \in Futures, Read(p) PROVE Inv'
  <2>1. \A v \in Wakers : Claimants(v)' = Claimants(v)
    BY <1>5 DEF Read, Goto, Return, Inv, TypeOK, InvFlow,
          InvPublished, Claimants
  <2> QED
    BY <1>5, <2>1, EmptyBox = EmptyBox'
    DEF Inv, TypeOK, Labels, Ops, Bits, Cells, Deadlines, Results, InvFlow,
        InvRegistry, InvPublished, InvMarked, InvThreads, InvDirect, InvOwners,
        InvStale, OwnersExact, Registry, WakerEntries,
        Read, Goto, Return
<1>6. ASSUME p \in Futures, CallDrop(p) PROVE Inv'
  <2>1. \A v \in Wakers : Claimants(v)' = Claimants(v)
    BY <1>6 DEF CallDrop, Goto, Inv, TypeOK, InvFlow,
          InvPublished, Claimants
  <2> QED
    BY <1>6, <2>1, EmptyBox = EmptyBox'
    DEF Inv, TypeOK, Labels, Ops, Bits, Cells, Deadlines, Results, InvFlow,
        InvRegistry, InvPublished, InvMarked, InvThreads, InvDirect, InvOwners,
        InvStale, OwnersExact, Registry, WakerEntries,
        CallDrop, Goto
<1>7. ASSUME p \in Futures, NEW w \in Wakers, CallPoll(p, w) PROVE Inv'
  <2>1. \A v \in Wakers : Claimants(v)' = Claimants(v)
    BY <1>7 DEF CallPoll, Goto, Inv, TypeOK, InvFlow,
          InvPublished, Claimants
  <2> QED
    BY <1>7, <2>1, EmptyBox = EmptyBox'
    DEF Inv, TypeOK, Labels, Ops, Bits, Cells, Deadlines, Results, InvFlow,
        InvRegistry, InvPublished, InvMarked, InvThreads, InvDirect, InvOwners,
        InvStale, OwnersExact, Registry, WakerEntries,
        CallPoll, Goto
<1> QED
  BY <1>1, <1>2, <1>3, <1>4, <1>5, <1>6, <1>7

-------------------------------------------------------------------------------
(***************************************************************************)
(* Creating the registry and acquiring its mutex.                          *)
(***************************************************************************)

\* waiters(), the load: a box allocated on null is empty and nobody else's.
LEMMA LoadWaitersInv ==
    ASSUME Inv, NEW p \in Procs, LoadWaiters(p)
    PROVE  Inv'
<1> USE DEF LoadWaiters, Goto
<1>1. \A w \in Wakers : Claimants(w)' = Claimants(w)
  BY DEF Inv, TypeOK, Claimants
<1>2. waiters # Null => Registry' = Registry
  BY DEF Registry
<1>3. WakerEntries(Registry)' = WakerEntries(Registry')
  BY DEF WakerEntries
<1>4. InvRegistry'
  BY <1>2, EmptyBox = EmptyBox' DEF Inv, TypeOK, InvRegistry
<1>5. TypeOK'
  BY DEF Inv, TypeOK, Labels
<1>6. InvFlow' /\ InvPublished' /\ InvMarked'
  BY DEF Inv, TypeOK, InvFlow, InvPublished, InvMarked
<1>7. InvThreads' /\ InvDirect'
  BY <1>2 DEF Inv, TypeOK, InvRegistry, InvThreads, InvDirect
<1>8. InvOwners'
  BY <1>1, <1>2 DEF Inv, TypeOK, InvOwners, OwnersExact
<1>9. InvStale'
  BY <1>2, <1>3 DEF Inv, TypeOK, InvStale
<1> QED
  BY <1>4, <1>5, <1>6, <1>7, <1>8, <1>9 DEF Inv

\* waiters(), the CAS: the winner's box becomes the empty registry, a loser's goes.
LEMMA CasWaitersInv ==
    ASSUME Inv, NEW p \in Procs, CasWaiters(p)
    PROVE  Inv'
<1> USE DEF CasWaiters, Goto
<1>1. \A w \in Wakers : Claimants(w)' = Claimants(w)
  BY DEF Inv, TypeOK, Claimants
<1>2. IF waiters = Null THEN waiters' = p /\ Registry' = EmptyBox
                        ELSE waiters' = waiters /\ Registry' = Registry
  BY DEF Inv, TypeOK, InvRegistry, Registry
<1>3. WakerEntries(Registry)' = WakerEntries(Registry')
  BY DEF WakerEntries
<1>4. InvRegistry'
  <2>1. boxes' = (({waiters} \ {Null}) \cup {q \in Procs : pc[q] = "cas"})'
    BY DEF Inv, TypeOK, InvRegistry
  <2> QED
    BY <1>2, <2>1, EmptyBox = EmptyBox' DEF Inv, TypeOK, InvRegistry
<1>5. InvOwners'
  <2>1. CASE waiters = Null
    <3>1. \A w \in Wakers : Registry'.owners[w] = 0 /\ Cardinality(Claimants(w)') = 0
      BY <1>1, <1>2, <2>1, FS_EmptySet DEF Inv, InvOwners
    <3> QED
      BY <1>1, <1>2, <2>1, <3>1 DEF Inv, TypeOK, InvOwners, OwnersExact
  <2>2. CASE waiters # Null
    BY <1>1, <1>2, <2>2 DEF Inv, TypeOK, InvOwners, OwnersExact
  <2> QED
    BY <2>1, <2>2
<1> QED
  BY <1>1, <1>2, <1>3, <1>4, <1>5
  DEF Inv, TypeOK, Labels, Ops, Bits, Cells, Deadlines, Results, InvFlow,
      InvRegistry, InvPublished, InvMarked, InvThreads, InvDirect, InvOwners,
      InvStale, OwnersExact

\* lock(): the holder changes and no entry does.
LEMMA LockInv ==
    ASSUME Inv, NEW p \in Procs, Lock(p)
    PROVE  Inv'
<1> USE DEF Lock, Goto
<1>1. \A w \in Wakers : Claimants(w)' = Claimants(w)
  BY DEF Inv, TypeOK, Claimants
<1>2. /\ reg[p] = waiters /\ waiters \in Procs /\ Registry \in Boxes
      /\ Registry.holder = Null
      /\ Registry' = [Registry EXCEPT !.holder = p]
  BY DEF Inv, TypeOK, InvRegistry, Registry
<1>3. /\ Registry' \in Boxes /\ Registry'.holder = p
      /\ Registry'.threads = Registry.threads
      /\ Registry'.persistent = Registry.persistent
      /\ Registry'.owners = Registry.owners
      /\ WakerEntries(Registry)' = WakerEntries(Registry)
  BY <1>2 DEF Boxes, WakerEntries
<1>4. TypeOK'
  BY <1>2, <1>3 DEF Inv, TypeOK, Labels, Registry
<1>5. InvRegistry'
  BY <1>2, <1>3, EmptyBox = EmptyBox' DEF Inv, TypeOK, InvRegistry
<1> QED
  BY <1>1, <1>2, <1>3, <1>4, <1>5
  DEF Inv, TypeOK, Labels, Ops, Bits, Cells, Deadlines, Results, InvFlow,
      InvRegistry, InvPublished, InvMarked, InvThreads, InvDirect, InvOwners,
      InvStale, OwnersExact

-------------------------------------------------------------------------------
(***************************************************************************)
(* Publication and the critical sections.                                  *)
(***************************************************************************)

\* complete takes the Vec: every entry moves to the drain, none is lost.
LEMMA TakeWaitersInv ==
    ASSUME Inv, TakeWaiters
    PROVE  Inv'
<1> USE DEF TakeWaiters, Goto
<1> DEFINE p == Completer
<1>1. \A w \in Wakers : Claimants(w)' = Claimants(w)
  BY DEF Inv, TypeOK, Claimants
<1>2. Registry' = EmptyBox /\ box[reg[p]] = Registry
  BY CriticalSection DEF Registry, Inv, TypeOK
<1>3. WakerEntries(Registry)' = WakerEntries(Registry')
  BY DEF WakerEntries
<1>4. TypeOK'
  BY <1>2, CriticalSection, BoxFacts DEF Inv, TypeOK, Labels, Entries
<1>5. InvRegistry'
  BY <1>2, CriticalSection, EmptyBox = EmptyBox' DEF Inv, TypeOK, InvRegistry, Registry
<1>6. InvOwners'
  <2>1. ASSUME NEW f \in Futures, NEW w \in wakers[f]
        PROVE  w \in drain'
    <3>1. f \in Claimants(w) /\ w \in Wakers
      BY DEF Claimants, Inv, TypeOK
    <3>2. Cardinality(Claimants(w)) >= 1
      BY <3>1, ClaimantsFacts
    <3>3. Registry.owners[w] # 0
      BY <3>1, <3>2, ClaimantsFacts, CriticalSection, BoxFacts DEF Inv, InvOwners
    <3> QED
      BY <1>2, <3>1, <3>3, CriticalSection DEF Entries, WakerEntries
  <2> QED
    BY <2>1, <1>1 DEF InvOwners, OwnersExact, Inv, TypeOK, InvRegistry, InvPublished
<1> QED
  BY <1>1, <1>2, <1>3, <1>4, <1>5, <1>6, CriticalSection
  DEF Inv, TypeOK, Labels, Ops, Bits, Cells, Deadlines, Results, InvFlow,
      InvRegistry, InvPublished, InvMarked, InvThreads, InvDirect, InvOwners,
      InvStale, OwnersExact, Entries, WakerEntries

\* wait pushes its thread: a thread about to recheck is registered.
LEMMA PushThreadInv ==
    ASSUME Inv, NEW t \in Threads, PushThread(t)
    PROVE  Inv'
<1> USE DEF PushThread, Goto
<1>1. \A w \in Wakers : Claimants(w)' = Claimants(w)
  BY DEF Inv, TypeOK, Claimants
<1>2. /\ Registry \in Boxes /\ waiters \in Procs /\ reg[t] = waiters
      /\ Registry.holder = t
      /\ \A q \in Procs : pc[q] \in HeldLabels => q = t
      /\ box[reg[t]] = Registry
  BY CriticalSection
<1>3. Registry' = PushWaiter(Registry, t)
  BY <1>2 DEF Registry, Inv, TypeOK
<1>4. /\ Registry' \in Boxes /\ Registry'.holder = Registry.holder
      /\ Registry'.threads = Registry.threads \cup {t}
      /\ Registry'.persistent = Registry.persistent
      /\ Registry'.owners = Registry.owners
      /\ WakerEntries(Registry)' = WakerEntries(Registry)
  BY <1>2, <1>3 DEF Boxes, WakerEntries, PushWaiter
<1>5. TypeOK'
  BY <1>2, <1>3, <1>4 DEF Inv, TypeOK, Labels, Registry
<1>6. InvRegistry'
  BY <1>2, <1>4, EmptyBox = EmptyBox' DEF Inv, TypeOK, InvRegistry
<1> QED
  BY <1>1, <1>2, <1>4, <1>5, <1>6
  DEF Inv, TypeOK, Labels, Ops, Bits, Cells, Deadlines, Results, InvFlow,
      InvRegistry, InvPublished, InvMarked, InvThreads, InvDirect, InvOwners,
      InvStale, OwnersExact

\* wait returns out of the critical section with a published outcome.
LEMMA CloneLockedInv ==
    ASSUME Inv, NEW t \in Threads, CloneLocked(t)
    PROVE  Inv'
<1> USE DEF CloneLocked, Goto, Return
<1>1. \A w \in Wakers : Claimants(w)' = Claimants(w)
  BY DEF Inv, TypeOK, InvFlow, InvPublished, Claimants
<1> DEFINE b == Registry
<1>2. /\ Registry \in Boxes /\ waiters \in Procs /\ reg[t] = waiters
      /\ Registry.holder = t
      /\ \A q \in Procs : pc[q] \in HeldLabels => q = t
      /\ box[reg[t]] = Registry
  BY CriticalSection
<1>3. /\ b \in Boxes /\ Unlock(t, b)
      /\ b = Registry
  BY <1>2 DEF Inv, InvFlow, Boxes, AddPersistent, RetainOthers
<1> HIDE DEF b
<1>4. /\ box' \in [Procs -> Boxes]
      /\ Registry' \in Boxes /\ Registry'.holder = Null
      /\ Registry'.threads = b.threads
      /\ Registry'.persistent = b.persistent
      /\ Registry'.owners = b.owners
      /\ WakerEntries(Registry)' = WakerEntries(b)
      /\ \A q \in Procs : q # waiters => box'[q] = box[q]
  BY <1>3, UnlockFacts
<1>5. TypeOK'
  BY <1>4 DEF Inv, TypeOK, Labels, Results, Cells, InvPublished
<1>6. InvRegistry'
  BY <1>2, <1>4, EmptyBox = EmptyBox' DEF Inv, TypeOK, InvRegistry
<1> QED
  BY <1>1, <1>2, <1>3, <1>4, <1>5, <1>6
  DEF Inv, TypeOK, Labels, Ops, Bits, Cells, Deadlines, Results, InvFlow,
      InvRegistry, InvPublished, InvMarked, InvThreads, InvDirect, InvOwners,
      InvStale, OwnersExact, WakerEntries

\* A timed-out wait_timeout leaves no registration behind.
LEMMA DeregisterThreadInv ==
    ASSUME Inv, NEW t \in Threads, DeregisterThread(t)
    PROVE  Inv'
<1> USE DEF DeregisterThread, Goto, Return
<1>1. \A w \in Wakers : Claimants(w)' = Claimants(w)
  BY DEF Inv, TypeOK, InvFlow, InvPublished, Claimants
<1> DEFINE b == RetainOthers(Registry, t)
<1>2. /\ Registry \in Boxes /\ waiters \in Procs /\ reg[t] = waiters
      /\ Registry.holder = t
      /\ \A q \in Procs : pc[q] \in HeldLabels => q = t
      /\ box[reg[t]] = Registry
  BY CriticalSection
<1>3. /\ b \in Boxes /\ Unlock(t, b)
      /\ b.threads = Registry.threads \ {t}
      /\ b.owners = Registry.owners /\ b.persistent = Registry.persistent
  BY <1>2 DEF Inv, InvFlow, Boxes, AddPersistent, RetainOthers
<1> HIDE DEF b
<1>4. /\ box' \in [Procs -> Boxes]
      /\ Registry' \in Boxes /\ Registry'.holder = Null
      /\ Registry'.threads = b.threads
      /\ Registry'.persistent = b.persistent
      /\ Registry'.owners = b.owners
      /\ WakerEntries(Registry)' = WakerEntries(b)
      /\ \A q \in Procs : q # waiters => box'[q] = box[q]
  BY <1>3, UnlockFacts
<1>5. TypeOK'
  BY <1>4 DEF Inv, TypeOK, Labels, Results, Cells, InvPublished
<1>6. InvRegistry'
  BY <1>2, <1>4, EmptyBox = EmptyBox' DEF Inv, TypeOK, InvRegistry
<1> QED
  BY <1>1, <1>2, <1>3, <1>4, <1>5, <1>6
  DEF Inv, TypeOK, Labels, Ops, Bits, Cells, Deadlines, Results, InvFlow,
      InvRegistry, InvPublished, InvMarked, InvThreads, InvDirect, InvOwners,
      InvStale, OwnersExact, WakerEntries

\* register_waker returns false only with a persistent entry for the drain to take.
LEMMA RegisterWakerInv ==
    ASSUME Inv, NEW c \in Callers, RegisterWaker(c)
    PROVE  Inv'
<1> USE DEF RegisterWaker, Goto, Return
<1>1. \A w \in Wakers : Claimants(w)' = Claimants(w)
  BY DEF Inv, TypeOK, InvFlow, InvPublished, Claimants
<1> DEFINE b == IF IsCompleted THEN Registry ELSE AddPersistent(Registry, waker[c])
<1>2. /\ Registry \in Boxes /\ waiters \in Procs /\ reg[c] = waiters
      /\ Registry.holder = c
      /\ \A q \in Procs : pc[q] \in HeldLabels => q = c
      /\ box[reg[c]] = Registry
  BY CriticalSection
<1>3. /\ b \in Boxes /\ Unlock(c, b)
      /\ b.threads = Registry.threads /\ b.owners = Registry.owners
      /\ b.persistent = IF IsCompleted THEN Registry.persistent
                        ELSE Registry.persistent \cup {waker[c]}
  BY <1>2 DEF Inv, InvFlow, Boxes, AddPersistent, RetainOthers
<1> HIDE DEF b
<1>4. /\ box' \in [Procs -> Boxes]
      /\ Registry' \in Boxes /\ Registry'.holder = Null
      /\ Registry'.threads = b.threads
      /\ Registry'.persistent = b.persistent
      /\ Registry'.owners = b.owners
      /\ WakerEntries(Registry)' = WakerEntries(b)
      /\ \A q \in Procs : q # waiters => box'[q] = box[q]
  BY <1>3, UnlockFacts
<1>5. TypeOK'
  BY <1>4 DEF Inv, TypeOK, Labels, Results, Cells, InvPublished
<1>6. InvRegistry'
  BY <1>2, <1>4, EmptyBox = EmptyBox' DEF Inv, TypeOK, InvRegistry
<1>7. InvFlow' /\ InvPublished' /\ InvMarked'
  BY DEF Inv, TypeOK, InvFlow, InvPublished, InvMarked
<1>8. InvThreads'
  BY <1>2, <1>3, <1>4 DEF Inv, TypeOK, InvThreads
<1>9. InvDirect'
  BY <1>2, <1>3, <1>4 DEF Inv, TypeOK, InvPublished, InvDirect
<1>10. InvOwners'
  BY <1>1, <1>2, <1>3, <1>4 DEF Inv, TypeOK, InvOwners, OwnersExact
<1>11. InvStale'
  BY <1>2, <1>3, <1>4 DEF Inv, TypeOK, InvPublished, InvStale, WakerEntries
<1> QED
  BY <1>5, <1>6, <1>7, <1>8, <1>9, <1>10, <1>11 DEF Inv

\* The recheck: parking is reached only with an entry the drain will still take.
LEMMA RecheckInv ==
    ASSUME Inv, NEW t \in Threads, Recheck(t)
    PROVE  Inv'
<1> USE DEF Recheck, Goto
<1>1. \A w \in Wakers : Claimants(w)' = Claimants(w)
  BY DEF Inv, TypeOK, Claimants
<1>2. /\ Registry \in Boxes /\ waiters \in Procs /\ reg[t] = waiters
      /\ Registry.holder = t
      /\ \A q \in Procs : pc[q] \in HeldLabels => q = t
      /\ box[reg[t]] = Registry
  BY CriticalSection
<1>3. CASE IsCompleted
  <2>1. Registry' = RetainOthers(Registry, t)
    BY <1>2, <1>3 DEF Registry, Inv, TypeOK
  <2>2. /\ Registry' \in Boxes /\ Registry'.holder = Registry.holder
        /\ Registry'.threads = Registry.threads \ {t}
        /\ Registry'.persistent = Registry.persistent
        /\ Registry'.owners = Registry.owners
        /\ WakerEntries(Registry)' = WakerEntries(Registry)
    BY <1>2, <2>1 DEF Boxes, WakerEntries, RetainOthers
  <2>3. TypeOK'
    BY <1>2, <1>3, <2>1, <2>2 DEF Inv, TypeOK, Labels, Registry
  <2>4. InvRegistry'
    BY <1>2, <1>3, <2>2, EmptyBox = EmptyBox' DEF Inv, TypeOK, InvRegistry
  <2> QED
    BY <1>1, <1>2, <1>3, <2>2, <2>3, <2>4
  DEF Inv, TypeOK, Labels, Ops, Bits, Cells, Deadlines, Results, InvFlow,
      InvRegistry, InvPublished, InvMarked, InvThreads, InvDirect, InvOwners,
      InvStale, OwnersExact
<1>4. CASE ~IsCompleted
  <2>1. Unlock(t, Registry) /\ waiters' = waiters
    BY <1>2, <1>4
  <2>2. /\ box' \in [Procs -> Boxes]
        /\ Registry' \in Boxes /\ Registry'.holder = Null
        /\ Registry'.threads = Registry.threads
        /\ Registry'.persistent = Registry.persistent
        /\ Registry'.owners = Registry.owners
        /\ WakerEntries(Registry)' = WakerEntries(Registry)
        /\ \A q \in Procs : q # waiters => box'[q] = box[q]
    BY <1>2, <2>1, UnlockFacts
  <2>3. TypeOK'
    BY <1>4, <2>2 DEF Inv, TypeOK, Labels
  <2>4. InvRegistry'
    BY <1>2, <1>4, <2>2, EmptyBox = EmptyBox' DEF Inv, TypeOK, InvRegistry
  <2> QED
    BY <1>1, <1>2, <1>4, <2>2, <2>3, <2>4
  DEF Inv, TypeOK, Labels, Ops, Bits, Cells, Deadlines, Results, InvFlow,
      InvRegistry, InvPublished, InvMarked, InvThreads, InvDirect, InvOwners,
      InvStale, OwnersExact
<1> QED
  BY <1>3, <1>4

\* Publication: the futures that had not yet tracked their waker drop their
\* claim, so counts can only be too high; without HAS_WAITER there are none.
LEMMA PublishInv ==
    ASSUME Inv, Publish
    PROVE  Inv'
<1> USE DEF Publish, Goto
<1>1. \A w \in Wakers : Claimants(w)' \subseteq Claimants(w)
  BY DEF Inv, TypeOK, Claimants
<1>2. \A w \in Wakers : Cardinality(Claimants(w)') <= Cardinality(Claimants(w))
  BY <1>1, ClaimantsFacts, FS_Subset
<1>3. \A w \in Wakers : Cardinality(Claimants(w)') \in Nat
  BY <1>1, ClaimantsFacts, FS_Subset, FS_CardinalityType
<1>4. ~IsCompleted /\ IsCompleted' /\ Registry' = Registry
  BY DEF Inv, InvPublished, Registry
<1>5. InvOwners'
  <2>1. ASSUME NEW w \in Wakers, waiters' # Null, pc'[Completer] \notin TakenLabels
        PROVE  Registry'.owners[w] >= Cardinality(Claimants(w)')
    <3>1. Registry \in Boxes /\ pc[Completer] \notin TakenLabels
      BY <2>1 DEF Inv, TypeOK, Registry
    <3>2. Registry.owners[w] \in Nat
      BY <3>1, BoxFacts
    <3>3. Registry.owners[w] >= Cardinality(Claimants(w))
      BY <2>1, <3>1 DEF Inv, InvOwners
    <3> QED
      BY <1>2, <1>3, <1>4, <3>2, <3>3, ClaimantsFacts
  <2> QED
    BY <2>1, <1>1, <1>4 DEF Inv, TypeOK, InvOwners, OwnersExact, InvMarked
<1>6. InvStale'
  BY <1>4 DEF Inv, TypeOK, InvStale, InvMarked, InvPublished
<1> QED
  BY <1>4, <1>5, <1>6, EmptyBox = EmptyBox'
  DEF Inv, TypeOK, Labels, Bits, InvFlow, InvRegistry, InvPublished, InvMarked,
      InvThreads, InvDirect

\* One more owner, and one more claim: the caller had none on this waker.
LEMMA RegisterFutureWakerInv ==
    ASSUME Inv, NEW f \in Futures, RegisterFutureWaker(f)
    PROVE  Inv'
<1> USE DEF RegisterFutureWaker, Goto
<1> DEFINE b == IF IsCompleted THEN Registry ELSE AddOwner(Registry, waker[f])
<1>1. /\ Registry \in Boxes /\ waiters \in Procs /\ reg[f] = waiters
      /\ Registry.holder = f
      /\ \A q \in Procs : pc[q] \in HeldLabels => q = f
      /\ box[reg[f]] = Registry
      /\ HAS_WAITER \in state
  BY CriticalSection DEF Inv, InvMarked
<1>2. waker[f] \in Wakers /\ waker[f] \notin wakers[f]
  BY DEF Inv, InvFlow
<1>3. /\ b \in Boxes /\ Unlock(f, b)
      /\ b.threads = Registry.threads /\ b.persistent = Registry.persistent
      /\ IsCompleted => b = Registry
      /\ ~IsCompleted =>
            b.owners = [Registry.owners EXCEPT ![waker[f]] = @ + 1]
  BY <1>1, <1>2 DEF Boxes, AddOwner
<1> HIDE DEF b
<1>4. /\ box' \in [Procs -> Boxes]
      /\ Registry' \in Boxes /\ Registry'.holder = Null
      /\ Registry'.threads = b.threads
      /\ Registry'.persistent = b.persistent
      /\ Registry'.owners = b.owners
      /\ WakerEntries(Registry)' = WakerEntries(b)
      /\ \A q \in Procs : q # waiters => box'[q] = box[q]
  BY <1>3, UnlockFacts
<1>5. TypeOK'
  BY <1>4 DEF Inv, TypeOK, Labels
<1>6. InvRegistry'
  BY <1>1, <1>4, EmptyBox = EmptyBox' DEF Inv, TypeOK, InvRegistry
<1>7. InvOwners'
  <2>1. CASE IsCompleted
    <3>1. \A w \in Wakers : Claimants(w)' = Claimants(w)
      BY <2>1 DEF Inv, TypeOK, Claimants
    <3> QED
      BY <1>1, <1>3, <1>4, <2>1, <3>1 DEF Inv, TypeOK, InvOwners, OwnersExact
  <2>2. CASE ~IsCompleted
    <3>1. f \notin Claimants(waker[f]) /\ Claimants(waker[f])' = Claimants(waker[f]) \cup {f}
      <4>1. f \notin Claimants(waker[f])
        BY <1>2, <2>2 DEF Inv, TypeOK, Claimants
      <4>2. f \in Claimants(waker[f])'
        BY <1>2, <2>2 DEF Inv, TypeOK, Claimants
      <4>3. \A g \in Futures : g # f =>
               (g \in Claimants(waker[f])' <=> g \in Claimants(waker[f]))
        BY <1>2, <2>2 DEF Inv, TypeOK, Claimants
      <4>4. /\ \A g \in Claimants(waker[f]) : g \in Futures
            /\ \A g \in Claimants(waker[f])' : g \in Futures
        BY DEF Claimants
      <4> QED BY <4>1, <4>2, <4>3, <4>4
    <3>2. \A w \in Wakers \ {waker[f]} : Claimants(w)' = Claimants(w)
      BY <2>2 DEF Inv, TypeOK, Claimants
    <3>3. Cardinality(Claimants(waker[f])') = Cardinality(Claimants(waker[f])) + 1
      <4> DEFINE S == Claimants(waker[f])
      <4>1. IsFiniteSet(S)
        BY ClaimantsFacts
      <4>2. f \notin S /\ Claimants(waker[f])' = S \cup {f}
        BY <3>1
      <4> HIDE DEF S
      <4>3. Cardinality(S \cup {f}) = Cardinality(S) + 1
        BY <4>1, <4>2, FS_AddElement
      <4> QED BY <4>2, <4>3 DEF S
    <3>4. Registry.owners \in [Wakers -> Nat]
      BY <1>1, BoxFacts
    <3>5. \A w \in Wakers : Registry.owners[w] = Cardinality(Claimants(w))
      BY <1>1, <2>2 DEF Inv, OwnersExact, InvOwners
    <3>6. \A w \in Wakers : Registry'.owners[w] = Cardinality(Claimants(w)')
      BY <1>2, <1>3, <1>4, <2>2, <3>2, <3>3, <3>4, <3>5
    <3>7. \A w \in Wakers : Cardinality(Claimants(w)') \in Nat
      BY <3>2, <3>3, <3>6, ClaimantsFacts
    <3> QED
      BY <1>1, <2>2, <3>6, <3>7 DEF Inv, TypeOK, InvOwners, OwnersExact, InvPublished
  <2> QED
    BY <2>1, <2>2
<1>8. InvStale'
  BY <1>1, <1>3, <1>4 DEF Inv, TypeOK, InvStale, InvPublished
<1> QED
  BY <1>1, <1>3, <1>4, <1>5, <1>6, <1>7, <1>8
  DEF Inv, TypeOK, InvFlow, InvPublished, InvMarked, InvThreads, InvDirect

\* The waker is tracked from here on: the claim stays, its reason changes.
LEMMA TryGetAgainInv ==
    ASSUME Inv, NEW f \in Futures, TryGetAgain(f)
    PROVE  Inv'
<1> USE DEF TryGetAgain, Goto
<1>1. \A w \in Wakers : Claimants(w)' = Claimants(w)
  BY DEF Inv, TypeOK, Claimants
<1>2. TypeOK'
  BY DEF Inv, TypeOK, InvFlow, Labels
<1>3. InvFlow'
  BY DEF Inv, TypeOK, InvFlow
<1>4. InvRegistry'
  BY EmptyBox = EmptyBox' DEF Inv, TypeOK, InvRegistry, Registry
<1>5. InvPublished'
  BY DEF Inv, TypeOK, InvPublished
<1>6. InvMarked'
  BY DEF Inv, TypeOK, InvMarked
<1>7. InvThreads'
  BY DEF Inv, TypeOK, InvThreads, Registry
<1>8. InvDirect'
  BY DEF Inv, TypeOK, InvDirect, Registry
<1>9. InvOwners'
  BY <1>1 DEF Inv, TypeOK, InvFlow, InvPublished, InvOwners, OwnersExact, Registry
<1>10. InvStale'
  BY DEF Inv, TypeOK, InvStale, Registry, WakerEntries
<1> QED
  BY <1>2, <1>3, <1>4, <1>5, <1>6, <1>7, <1>8, <1>9, <1>10 DEF Inv

\* The dropped future releases exactly its own claims.
LEMMA ReleaseWakersInv ==
    ASSUME Inv, NEW f \in Futures, ReleaseWakers(f)
    PROVE  Inv'
<1> USE DEF ReleaseWakers, Goto
<1> DEFINE b == ReleaseOwners(Registry, wakers[f])
<1>1. /\ Registry \in Boxes /\ waiters \in Procs /\ reg[f] = waiters
      /\ Registry.holder = f
      /\ \A q \in Procs : pc[q] \in HeldLabels => q = f
      /\ box[reg[f]] = Registry
      /\ HAS_WAITER \in state
      /\ wakers[f] \subseteq Wakers
  BY CriticalSection DEF Inv, TypeOK, InvMarked
<1>2. Registry.owners \in [Wakers -> Nat] /\ WakerEntries(Registry) \subseteq Wakers
  BY <1>1, BoxFacts
<1>3. ASSUME NEW w \in wakers[f]
      PROVE  /\ f \in Claimants(w)
             /\ pc[Completer] \notin TakenLabels =>
                   Registry.owners[w] >= 1 /\ w \in WakerEntries(Registry)
             /\ w \in WakerEntries(Registry) => Registry.owners[w] >= 1
  <2>1. f \in Claimants(w) /\ w \in Wakers
    BY <1>1 DEF Claimants
  <2>2. Cardinality(Claimants(w)) \in Nat /\ Cardinality(Claimants(w)) >= 1
    BY <2>1, ClaimantsFacts
  <2>3. pc[Completer] \notin TakenLabels => Registry.owners[w] >= 1
    BY <1>1, <1>2, <2>1, <2>2 DEF Inv, InvOwners
  <2>4. pc[Completer] \notin TakenLabels => w \in WakerEntries(Registry)
    BY <1>2, <2>1, <2>3 DEF WakerEntries
  <2>5. pc[Completer] \in TakenLabels => WakerEntries(Registry) = {}
    BY <1>1 DEF Inv, InvStale
  <2> QED
    BY <2>1, <2>3, <2>4, <2>5
<1>4. /\ Unlock(f, b)
      /\ b.threads = Registry.threads /\ b.persistent = Registry.persistent
      /\ b.owners = [w \in Wakers |-> IF w \in wakers[f] \cap WakerEntries(Registry)
                                      THEN Registry.owners[w] - 1
                                      ELSE Registry.owners[w]]
  BY <1>1 DEF Boxes, ReleaseOwners
<1>5. b.owners \in [Wakers -> Nat]
  BY <1>2, <1>3, <1>4
<1>6. b \in Boxes
  BY <1>1, <1>2, <1>3 DEF Boxes, ReleaseOwners
<1>7. /\ pc[Completer] \in TakenLabels => WakerEntries(b) = {}
  BY <1>1, <1>4 DEF Inv, InvStale, WakerEntries
<1> HIDE DEF b
<1>8. /\ box' \in [Procs -> Boxes]
      /\ Registry' \in Boxes /\ Registry'.holder = Null
      /\ Registry'.threads = b.threads
      /\ Registry'.persistent = b.persistent
      /\ Registry'.owners = b.owners
      /\ WakerEntries(Registry)' = WakerEntries(b)
      /\ \A q \in Procs : q # waiters => box'[q] = box[q]
  BY <1>4, <1>6, UnlockFacts
<1>9. TypeOK'
  BY <1>8 DEF Inv, TypeOK, Labels
<1>10. InvRegistry'
  BY <1>1, <1>8, EmptyBox = EmptyBox' DEF Inv, TypeOK, InvRegistry
<1>11. InvOwners'
  <2>1. \A w \in Wakers : Claimants(w)' =
            IF w \in wakers[f] THEN Claimants(w) \ {f} ELSE Claimants(w)
    BY DEF Inv, TypeOK, Claimants
  <2>2. \A w \in Wakers : Cardinality(Claimants(w)') =
            IF w \in wakers[f] THEN Cardinality(Claimants(w)) - 1
                               ELSE Cardinality(Claimants(w))
    BY <1>3, <2>1, ClaimantsFacts, FS_RemoveElement
  <2>3. ASSUME NEW w \in Wakers, pc[Completer] \notin TakenLabels
        PROVE  /\ Registry'.owners[w] >= Cardinality(Claimants(w)')
               /\ ~IsCompleted => Registry'.owners[w] = Cardinality(Claimants(w)')
    <3>1. /\ Registry.owners[w] >= Cardinality(Claimants(w))
          /\ ~IsCompleted => Registry.owners[w] = Cardinality(Claimants(w))
      BY <1>1, <2>3 DEF Inv, InvOwners, OwnersExact
    <3>2. Registry'.owners[w] = IF w \in wakers[f] THEN Registry.owners[w] - 1
                                                   ELSE Registry.owners[w]
      BY <1>3, <1>4, <1>8, <2>3
    <3> QED
      BY <1>2, <2>2, <3>1, <3>2, ClaimantsFacts
  <2> QED
    BY <1>1, <2>3 DEF Inv, TypeOK, InvOwners, OwnersExact, InvPublished
<1>12. InvStale'
  BY <1>1, <1>4, <1>7, <1>8 DEF Inv, TypeOK, InvStale
<1> QED
  BY <1>1, <1>4, <1>8, <1>9, <1>10, <1>11, <1>12
  DEF Inv, TypeOK, InvFlow, InvPublished, InvMarked, InvThreads, InvDirect

-------------------------------------------------------------------------------
\* Every step, and stuttering, preserves Inv.
LEMMA NextInv == Inv /\ [Next]_vars => Inv'
<1> SUFFICES ASSUME Inv, [Next]_vars PROVE Inv'
  OBVIOUS
<1>1. ASSUME NEW p \in Procs, Access(p) PROVE Inv'
  BY <1>1, LoadWaitersInv, CasWaitersInv, LockInv DEF Access
<1>2. CASE BeginWrite \/ CompleterStep
  BY <1>1, <1>2, CompleteInv, PublishInv, TakeWaitersInv DEF CompleterStep
<1>3. ASSUME NEW t \in Threads,
             \/ \E how \in WaitOps : CallWait(t, how)
             \/ ThreadStep(t) \/ SpuriousWake(t) \/ Expire(t)
      PROVE  Inv'
  BY <1>1, <1>3, WaitInv, PushThreadInv, RecheckInv, CloneLockedInv,
     DeregisterThreadInv DEF ThreadStep
<1>4. ASSUME NEW c \in Callers,
             (\E w \in Wakers : CallRegister(c, w)) \/ CallerStep(c)
      PROVE  Inv'
  BY <1>1, <1>4, AsyncInv, RegisterWakerInv DEF CallerStep
<1>5. ASSUME NEW f \in Futures,
             (\E w \in Wakers : CallPoll(f, w)) \/ CallDrop(f) \/ FutureStep(f)
      PROVE  Inv'
  BY <1>1, <1>5, AsyncInv, RegisterFutureWakerInv, TryGetAgainInv,
     ReleaseWakersInv DEF FutureStep
<1>6. CASE UNCHANGED vars
  <2>1. \A w : Claimants(w)' = Claimants(w)
    BY <1>6 DEF vars, Claimants
  <2> QED
    BY <1>6, <2>1, EmptyBox = EmptyBox'
    DEF vars, Inv, TypeOK, InvFlow, InvRegistry, InvPublished, InvMarked,
        InvThreads, InvDirect, InvOwners, InvStale, OwnersExact, Registry,
        WakerEntries
<1> QED
  BY <1>2, <1>3, <1>4, <1>5, <1>6 DEF Next

\* Inv holds in every reachable state of the slot.
THEOREM Invariance == Spec => []Inv
BY InitInv, NextInv, PTL DEF Spec

\* Type correctness of the slot; the owner counts stay natural numbers.
THEOREM TypeCorrect == Spec => []TypeOK
<1>1. Inv => TypeOK
  BY DEF Inv
<1> QED
  BY <1>1, Invariance, PTL

\* Readers of the outcome cell find it fully written: the gate on COMPLETED
\* before outcome_ref suffices for any number of readers.
THEOREM ReadsArePublished == Spec => []ReadsPublished
<1>1. Inv => ReadsPublished
  BY DEF Inv, InvPublished, ReadsPublished
<1> QED
  BY <1>1, Invariance, PTL

\* No wakeup of wait or wait_timeout is lost, for any number of threads, and
\* whichever wakers panic in the drain.
THEOREM WakeupNotLost == Spec => []NoLostWakeup
<1>1. Inv => NoLostWakeup
  BY DEF Inv, TypeOK, InvThreads, InvPublished, NoLostWakeup, Finished
<1> QED
  BY <1>1, Invariance, PTL

\* Every waker of a pending future is woken by complete, however many futures
\* share it and whichever of them are dropped.
THEOREM FutureWakersAreWoken == Spec => []FutureWakersWoken
<1>1. Inv => FutureWakersWoken
  BY DEF Inv, TypeOK, InvOwners, InvPublished, FutureWakersWoken, Finished
<1> QED
  BY <1>1, Invariance, PTL

\* Every direct registration is honoured, whatever futures share its waker.
THEOREM DirectWakersAreWoken == Spec => []DirectWakersWoken
<1>1. Inv => DirectWakersWoken
  BY DEF Inv, TypeOK, InvDirect, InvPublished, DirectWakersWoken, Finished
<1> QED
  BY <1>1, Invariance, PTL

\* future_owners counts exactly the futures that hold the waker.
THEOREM OwnersAreExact == Spec => []OwnersExact
<1>1. Inv => OwnersExact
  BY DEF Inv, InvOwners
<1> QED
  BY <1>1, Invariance, PTL

\* The debug_assert in the future's drop never fires.
THEOREM DropsFindTheirOwner == Spec => []DropFindsOwner
<1>1. ASSUME Inv, NEW f \in Futures, pc[f] = "locked",
             NEW w \in wakers[f] \cap WakerEntries(Registry)
      PROVE  Registry.owners[w] > 0
  <2>1. Registry \in Boxes /\ waiters # Null
    BY <1>1, CriticalSection
  <2>2. w \in Wakers /\ f \in Claimants(w) /\ Registry.owners[w] \in Nat
    BY <1>1, <2>1, BoxFacts DEF Claimants, Inv, TypeOK
  <2>3. Cardinality(Claimants(w)) \in Nat /\ Cardinality(Claimants(w)) >= 1
    BY <2>2, ClaimantsFacts
  <2>4. pc[Completer] \notin TakenLabels
    BY <1>1, <2>1 DEF Inv, InvStale
  <2>5. Registry.owners[w] >= Cardinality(Claimants(w))
    BY <1>1, <2>1, <2>2, <2>4 DEF Inv, InvOwners
  <2> QED
    BY <2>2, <2>3, <2>5
<1>2. Inv => DropFindsOwner
  BY <1>1 DEF DropFindsOwner
<1> QED
  BY <1>2, Invariance, PTL

\* The registry is unique and nothing that loses the init race leaks.
THEOREM RegistryIsUnique == Spec => []RegistryUnique
<1>1. Inv => RegistryUnique
  BY DEF Inv, InvRegistry, RegistryUnique, Holders
<1> QED
  BY <1>1, Invariance, PTL

\* Nothing stale is left in the registry: neither a waiter that timed out
\* before the publication, nor anything after the drain but a thread that is
\* about to deregister itself.
THEOREM NoRegistrationIsStale == Spec => []NoStaleRegistration
<1>1. ASSUME Inv, waiters # Null PROVE Registry \in Boxes
  BY <1>1 DEF Inv, TypeOK, Registry
<1>2. Inv => NoStaleRegistration
  BY <1>1, BoxFacts DEF Inv, InvStale, NoStaleRegistration, Entries
<1> QED
  BY <1>2, Invariance, PTL

-------------------------------------------------------------------------------
(***************************************************************************)
(* The slot implements Completion.                                         *)
(***************************************************************************)

\* The cell is visible from the publication on, and never changes after it.
LEMMA VisibleValue ==
    ASSUME Inv, Inv', [Next]_vars, IsCompleted
    PROVE  IsCompleted' /\ outcome' = outcome /\ outcome \in Outcomes
<1>1. outcome \in Outcomes /\ pc[Completer] \in AccessLabels \cup TakenLabels
  BY DEF Inv, InvPublished
<1>2. ASSUME NEW p \in Procs, Access(p) \/ Mark(p)
      PROVE  IsCompleted' /\ outcome' = outcome
  BY <1>2 DEF Access, LoadWaiters, CasWaiters, Lock, Mark, IsCompleted
<1>3. CASE BeginWrite
  BY <1>1, <1>3 DEF BeginWrite, AccessLabels, TakenLabels
<1>4. CASE CompleterStep
  <2>1. ~(\E o \in Outcomes : FinishWrite(o))
    BY <1>1 DEF FinishWrite, AccessLabels, TakenLabels
  <2>2. ~Publish
    BY <1>1 DEF Publish, AccessLabels, TakenLabels
  <2>3. CASE TakeWaiters \/ FinishDrain
    BY <1>1, <2>3 DEF TakeWaiters, FinishDrain, IsCompleted
  <2>4. CASE \E t \in Threads : NotifyThread(t)
    BY <1>1, <2>4 DEF NotifyThread, IsCompleted
  <2>5. CASE \E w \in Wakers, wakePanics \in BOOLEAN : NotifyWaker(w, wakePanics)
    BY <1>1, <2>5 DEF NotifyWaker, IsCompleted
  <2> QED BY <1>1, <1>2, <1>4, <2>1, <2>2, <2>3, <2>4, <2>5 DEF CompleterStep, Procs
<1>5. ASSUME NEW t \in Threads, ThreadStep(t) \/ SpuriousWake(t) \/ Expire(t)
                               \/ \E how \in WaitOps : CallWait(t, how)
      PROVE  IsCompleted' /\ outcome' = outcome
  <2>1. CASE SpuriousWake(t) \/ Expire(t) \/ \E how \in WaitOps : CallWait(t, how)
    BY <2>1 DEF SpuriousWake, Expire, CallWait, IsCompleted
  <2>2. CASE CheckWait(t) \/ PushThread(t) \/ Recheck(t) \/ ParkUntil(t)
    BY <2>2 DEF CheckWait, PushThread, Recheck, ParkUntil, IsCompleted
  <2>3. CASE Unparked(t) \/ ParkElapsed(t) \/ DeregisterThread(t)
    BY <2>3 DEF Unparked, ParkElapsed, DeregisterThread, IsCompleted
  <2>4. CASE CloneLocked(t) \/ Read(t)
    BY <2>4 DEF CloneLocked, Read, IsCompleted
  <2> QED BY <1>2, <1>5, <2>1, <2>2, <2>3, <2>4 DEF ThreadStep, Procs
<1>6. ASSUME NEW c \in Callers, CallerStep(c) \/ \E w \in Wakers : CallRegister(c, w)
      PROVE  IsCompleted' /\ outcome' = outcome
  <2>1. CASE RegisterCheck(c) \/ RegisterWaker(c) \/ \E w \in Wakers : CallRegister(c, w)
    BY <2>1 DEF RegisterCheck, RegisterWaker, CallRegister, IsCompleted
  <2> QED BY <1>2, <1>6, <2>1 DEF CallerStep, Procs
<1>7. ASSUME NEW f \in Futures,
             FutureStep(f) \/ CallDrop(f) \/ \E w \in Wakers : CallPoll(f, w)
      PROVE  IsCompleted' /\ outcome' = outcome
  <2>1. CASE CallDrop(f) \/ \E w \in Wakers : CallPoll(f, w)
    BY <2>1 DEF CallDrop, CallPoll, IsCompleted
  <2>2. CASE TryGet(f) \/ TryGetAgain(f) \/ Read(f)
    BY <2>2 DEF TryGet, TryGetAgain, Read, IsCompleted
  <2>3. CASE RegisterCheck(f) \/ RegisterFutureWaker(f) \/ ReleaseWakers(f)
    BY <2>3 DEF RegisterCheck, RegisterFutureWaker, ReleaseWakers, IsCompleted
  <2> QED BY <1>2, <1>7, <2>1, <2>2, <2>3 DEF FutureStep, Procs
<1>8. CASE UNCHANGED vars
  BY <1>1, <1>8 DEF vars, IsCompleted
<1> QED BY <1>1, <1>3, <1>4, <1>5, <1>6, <1>7, <1>8 DEF Next

\* Before the publication nobody gets a token and no waker is woken.
LEMMA QuietBefore ==
    ASSUME Inv, [Next]_vars, ~IsCompleted
    PROVE  woken' = woken /\ \A t \in Threads : token'[t] => token[t]
<1>1. pc[Completer] # "drain" /\ token \in [Threads -> BOOLEAN]
  BY DEF Inv, InvPublished, TypeOK, TakenLabels
<1>2. ASSUME NEW p \in Procs, Access(p) \/ Mark(p)
      PROVE  UNCHANGED <<woken, token>>
  BY <1>2 DEF Access, LoadWaiters, CasWaiters, Lock, Mark
<1>3. CASE BeginWrite
  BY <1>3 DEF BeginWrite
<1>4. CASE CompleterStep
  <2>1. CASE (\E o \in Outcomes : FinishWrite(o)) \/ Publish
    BY <2>1 DEF FinishWrite, Publish
  <2>2. CASE TakeWaiters \/ FinishDrain
    BY <2>2 DEF TakeWaiters, FinishDrain
  <2>3. ~\E t \in Threads : NotifyThread(t)
    BY <1>1 DEF NotifyThread
  <2>4. ~\E w \in Wakers, wakePanics \in BOOLEAN : NotifyWaker(w, wakePanics)
    BY <1>1 DEF NotifyWaker
  <2> QED BY <1>2, <1>4, <2>1, <2>2, <2>3, <2>4 DEF CompleterStep, Procs
<1>5. ASSUME NEW t \in Threads, ThreadStep(t) \/ SpuriousWake(t) \/ Expire(t)
                               \/ \E how \in WaitOps : CallWait(t, how)
      PROVE  woken' = woken /\ \A u \in Threads : token'[u] => token[u]
  <2>1. CASE SpuriousWake(t) \/ Expire(t) \/ \E how \in WaitOps : CallWait(t, how)
    BY <2>1 DEF SpuriousWake, Expire, CallWait
  <2>2. CASE CheckWait(t) \/ PushThread(t) \/ Recheck(t) \/ ParkUntil(t)
    BY <2>2 DEF CheckWait, PushThread, Recheck, ParkUntil
  <2>3. CASE Unparked(t)
    BY <1>1, <2>3 DEF Unparked
  <2>4. CASE ParkElapsed(t) \/ DeregisterThread(t) \/ CloneLocked(t) \/ Read(t)
    BY <2>4 DEF ParkElapsed, DeregisterThread, CloneLocked, Read
  <2> QED BY <1>2, <1>5, <2>1, <2>2, <2>3, <2>4 DEF ThreadStep, Procs
<1>6. ASSUME NEW c \in Callers, CallerStep(c) \/ \E w \in Wakers : CallRegister(c, w)
      PROVE  UNCHANGED <<woken, token>>
  <2>1. CASE RegisterCheck(c) \/ RegisterWaker(c) \/ \E w \in Wakers : CallRegister(c, w)
    BY <2>1 DEF RegisterCheck, RegisterWaker, CallRegister
  <2> QED BY <1>2, <1>6, <2>1 DEF CallerStep, Procs
<1>7. ASSUME NEW f \in Futures,
             FutureStep(f) \/ CallDrop(f) \/ \E w \in Wakers : CallPoll(f, w)
      PROVE  UNCHANGED <<woken, token>>
  <2>1. CASE CallDrop(f) \/ \E w \in Wakers : CallPoll(f, w)
    BY <2>1 DEF CallDrop, CallPoll
  <2>2. CASE TryGet(f) \/ TryGetAgain(f) \/ Read(f)
    BY <2>2 DEF TryGet, TryGetAgain, Read
  <2>3. CASE RegisterCheck(f) \/ RegisterFutureWaker(f) \/ ReleaseWakers(f)
    BY <2>3 DEF RegisterCheck, RegisterFutureWaker, ReleaseWakers
  <2> QED BY <1>2, <1>7, <2>1, <2>2, <2>3 DEF FutureStep, Procs
<1>8. CASE UNCHANGED vars
  BY <1>8 DEF vars
<1> QED BY <1>3, <1>4, <1>5, <1>6, <1>7, <1>8 DEF Next

\* A thread that was unparked or a waker that was woken by complete finds the
\* outcome published, for good: the drain follows the publication, and nothing
\* takes the publication back.
THEOREM NotifiedFindTheOutcome == Spec => []NotifiedFindOutcome
<1>1. Init => NotifiedFindOutcome
  BY DEF Init, NotifiedFindOutcome
<1>2. Inv /\ Inv' /\ [Next]_vars /\ NotifiedFindOutcome => NotifiedFindOutcome'
  <2> SUFFICES ASSUME Inv, Inv', [Next]_vars, NotifiedFindOutcome
               PROVE  NotifiedFindOutcome'
    OBVIOUS
  <2>1. CASE IsCompleted
    <3>1. IsCompleted' /\ outcome' \in Outcomes
      BY <2>1, VisibleValue
    <3> QED BY <3>1 DEF NotifiedFindOutcome
  <2>2. CASE ~IsCompleted
    <3>1. woken = {} /\ \A t \in Threads : ~token[t]
      BY <2>2 DEF NotifiedFindOutcome
    <3>2. woken' = {} /\ \A t \in Threads : ~token'[t]
      BY <2>2, <3>1, QuietBefore
    <3> QED BY <3>2 DEF NotifiedFindOutcome
  <2> QED BY <2>1, <2>2
<1> QED
  BY <1>1, <1>2, Invariance, PTL DEF Spec

\* Every step of the slot is a step of Completion or changes nothing it shows.
LEMMA StepRefines ==
    ASSUME Inv, Inv', [Next]_vars
    PROVE  [Promise!Next]_(Promise!vars)
<1> USE DEF Goto
<1>1. IsCompleted => IsCompleted' /\ outcome' = outcome /\ outcome # Null
  BY VisibleValue
<1>2. ASSUME IsCompleted' = IsCompleted, UNCHANGED <<result, woken>>
      PROVE  UNCHANGED (Promise!vars)
  BY <1>1, <1>2 DEF Promise!vars
<1>3. ASSUME NEW p \in Procs, Access(p) PROVE UNCHANGED (Promise!vars)
  BY <1>2, <1>3 DEF Access, LoadWaiters, CasWaiters, Lock
<1>4. CASE Publish
  <2>1. ~IsCompleted /\ IsCompleted' /\ outcome \in Outcomes /\ outcome' = outcome
    BY <1>4 DEF Publish, Inv, InvPublished
  <2>2. Promise!Publish(outcome)
    BY <1>4, <2>1 DEF Publish, Promise!Publish
  <2> QED
    BY <2>1, <2>2 DEF Promise!Next
<1>5. ASSUME NEW w \in Wakers, NEW b \in BOOLEAN, NotifyWaker(w, b)
      PROVE  Promise!Wake(w)
  <2>1. IsCompleted
    BY <1>5 DEF NotifyWaker, Inv, InvPublished
  <2> QED
    BY <1>1, <1>5, <2>1 DEF NotifyWaker, Promise!Wake
<1>6. CASE BeginWrite \/ CompleterStep
  <2>1. CASE BeginWrite \/ TakeWaiters \/ FinishDrain
    BY <1>2, <2>1 DEF BeginWrite, TakeWaiters, FinishDrain
  <2>2. ASSUME NEW o \in Outcomes, FinishWrite(o) PROVE UNCHANGED (Promise!vars)
    BY <1>2, <2>2 DEF FinishWrite
  <2>3. ASSUME NEW t \in Threads, NotifyThread(t) PROVE UNCHANGED (Promise!vars)
    BY <1>2, <2>3 DEF NotifyThread
  <2> QED
    BY <1>3, <1>4, <1>5, <1>6, <2>1, <2>2, <2>3 DEF CompleterStep, Promise!Next
<1>7. ASSUME NEW p \in Procs, pc[p] \in {"read", "clone"}, Return(p, outcome),
             UNCHANGED <<state, outcome, woken>>
      PROVE  Promise!Tell(p)
  BY <1>1, <1>7 DEF Return, Promise!Tell, Inv, InvPublished
<1>8. ASSUME NEW t \in Threads,
             \/ \E how \in WaitOps : CallWait(t, how)
             \/ ThreadStep(t) \/ SpuriousWake(t) \/ Expire(t)
      PROVE  [Promise!Next]_(Promise!vars)
  <2>1. CASE \E how \in WaitOps : CallWait(t, how)
    <3>1. Promise!Ask(t)
      BY <1>1, <2>1 DEF CallWait, Promise!Ask
    <3> QED
      BY <3>1 DEF Promise!Next
  <2>2. CASE Read(t) \/ CloneLocked(t)
    <3>1. Promise!Tell(t)
      BY <1>7, <2>2 DEF Read, CloneLocked
    <3> QED
      BY <3>1 DEF Promise!Next
  <2>3. CASE DeregisterThread(t)
    <3>1. Promise!GiveUp(t)
      BY <1>1, <2>3 DEF DeregisterThread, Return, Promise!GiveUp
    <3> QED
      BY <3>1 DEF Promise!Next
  <2>4. CASE \/ CheckWait(t) \/ Mark(t) \/ PushThread(t) \/ Recheck(t) \/ ParkUntil(t)
             \/ Unparked(t) \/ ParkElapsed(t) \/ SpuriousWake(t) \/ Expire(t)
    BY <1>2, <2>4 DEF CheckWait, Mark, PushThread, Recheck, ParkUntil, Unparked,
                      ParkElapsed, SpuriousWake, Expire
  <2> QED
    BY <1>3, <1>8, <2>1, <2>2, <2>3, <2>4 DEF ThreadStep
<1>9. ASSUME NEW p \in Callers \cup Futures, RegisterCheck(p)
      PROVE  [Promise!Next]_(Promise!vars)
  <2>1. CASE IsCompleted /\ Return(p, Ready)
    <3>1. Promise!Tell(p)
      BY <1>1, <1>9, <2>1 DEF RegisterCheck, Return, Promise!Tell
    <3> QED
      BY <3>1 DEF Promise!Next
  <2>2. CASE UNCHANGED result
    BY <1>2, <1>9, <2>2 DEF RegisterCheck
  <2> QED
    BY <1>9, <2>1, <2>2 DEF RegisterCheck
<1>10. ASSUME NEW c \in Callers,
              (\E w \in Wakers : CallRegister(c, w)) \/ CallerStep(c)
       PROVE  [Promise!Next]_(Promise!vars)
  <2>1. CASE \E w \in Wakers : CallRegister(c, w)
    <3>1. Promise!Ask(c)
      BY <1>1, <2>1 DEF CallRegister, Promise!Ask
    <3> QED
      BY <3>1 DEF Promise!Next
  <2>2. CASE RegisterWaker(c)
    <3>1. Promise!Tell(c) \/ Promise!Register(c)
      BY <1>1, <2>2 DEF RegisterWaker, Return, Promise!Tell, Promise!Register
    <3> QED
      BY <3>1 DEF Promise!Next
  <2>3. CASE Mark(c)
    BY <1>2, <2>3 DEF Mark
  <2> QED
    BY <1>3, <1>9, <1>10, <2>1, <2>2, <2>3 DEF CallerStep
<1>11. ASSUME NEW f \in Futures,
              (\E w \in Wakers : CallPoll(f, w)) \/ CallDrop(f) \/ FutureStep(f)
       PROVE  [Promise!Next]_(Promise!vars)
  <2>1. CASE Read(f)
    <3>1. Promise!Tell(f)
      BY <1>7, <2>1 DEF Read
    <3> QED
      BY <3>1 DEF Promise!Next
  <2>2. CASE \/ \E w \in Wakers : CallPoll(f, w)
             \/ CallDrop(f) \/ TryGet(f) \/ Mark(f) \/ RegisterFutureWaker(f)
             \/ TryGetAgain(f) \/ ReleaseWakers(f)
    BY <1>2, <2>2 DEF CallPoll, CallDrop, TryGet, Mark, RegisterFutureWaker,
                      TryGetAgain, ReleaseWakers
  <2> QED
    BY <1>3, <1>9, <1>11, <2>1, <2>2 DEF FutureStep
<1>12. CASE UNCHANGED vars
  BY <1>2, <1>12 DEF vars
<1> QED
  BY <1>6, <1>8, <1>10, <1>11, <1>12 DEF Next

\* The slot implements Completion, for any number of observers of any kind.
THEOREM Refinement == Spec => ImplementsCompletion
<1>1. Init => Promise!Init
  BY DEF Init, Promise!Init
<1>2. Inv /\ Inv' /\ [Next]_vars => [Promise!Next]_(Promise!vars)
  BY StepRefines
<1> QED
  BY <1>1, <1>2, Invariance, PTL DEF Spec, ImplementsCompletion, Promise!Spec

===============================================================================
