--------------------------------- MODULE Slot ---------------------------------
(***************************************************************************)
(* One completion slot of bombay-observe (crates/observe/src/lib.rs, type  *)
(* Slot) during one generation, with everything that touches it:           *)
(*                                                                         *)
(*   - the Completer, the only holder of the publication authority, runs   *)
(*     Slot::complete once;                                                *)
(*   - Threads call Observation::wait and Observation::wait_timeout;       *)
(*   - Callers call Observation::register_waker;                           *)
(*   - Futures are polled and dropped (ObservationFuture).                 *)
(*                                                                         *)
(* A step is one atomic access to shared memory: a load or RMW of the      *)
(* state word, of the registry pointer, the acquisition of the registry    *)
(* mutex, or a critical section's one access to the state word together    *)
(* with the registry updates that the mutex protects.  Memory is           *)
(* sequentially consistent here: COMPLETED and HAS_WAITER share one word,  *)
(* so their RMWs are totally ordered whatever their orderings.             *)
(*                                                                         *)
(* Data is abstracted to what the properties tell apart.  The registry's   *)
(* Vec<Waiter> is a box of module WaiterBox, and the order of the drain is *)
(* left open; module Registry has the vector itself.                       *)
(***************************************************************************)
EXTENDS Naturals, FiniteSets, WaiterBox

\* WaiterBox declares Threads, those that block on this slot, and Wakers.
CONSTANTS
    Callers,    \* users of register_waker
    Futures,    \* ObservationFutures of this slot
    Outcomes,   \* values that may be published
    Completer,  \* the owner of the publication authority
    Null        \* the null registry pointer, and the owner of a free mutex

Procs == Threads \cup Callers \cup Futures \cup {Completer}

Uninit == "uninit"      \* MaybeUninit::uninit()
Torn   == "torn"        \* the outcome cell while the write is under way
Cells  == Outcomes \cup {Uninit, Torn}

\* What an operation last returned to its caller.
Pending    == "pending"       \* has not returned yet, or Poll::Pending
TimedOut   == "timed_out"     \* wait_timeout's None
Ready      == "ready"         \* register_waker's true
Registered == "registered"    \* register_waker's false
Results    == Outcomes \cup {Pending, TimedOut, Ready, Registered}

ASSUME ProcsAssumption ==
    /\ Threads \cap Callers = {}
    /\ Threads \cap Futures = {}
    /\ Callers \cap Futures = {}
    /\ Completer \notin Threads \cup Callers \cup Futures
    /\ Null \notin Procs \cup Wakers

ASSUME ValuesAssumption ==
    /\ Threads \cap Wakers = {}
    /\ Outcomes \cap {Uninit, Torn, Pending, TimedOut, Ready, Registered} = {}
    /\ Null \notin Outcomes

ASSUME FuturesAssumption == IsFiniteSet(Futures)

COMPLETED     == "COMPLETED"
HAS_WAITER    == "HAS_WAITER"
OUTCOME_VALID == "OUTCOME_VALID"
Bits          == {COMPLETED, HAS_WAITER, OUTCOME_VALID}

VARIABLES
    state,     \* the state word, as the set of bits that are set
    outcome,   \* the outcome cell
    waiters,   \* the registry pointer: Null, or the process whose box was published
    box,       \* box[p]: the Mutex<Vec<Waiter>> that p allocated
    boxes,     \* the processes whose box is allocated
    pc,        \* the next step of every process
    op,        \* the operation every process is in
    reg,       \* reg[p]: the registry that waiters() returned to p
    waker,     \* the waker passed to the current register_waker or poll
    wakers,    \* wakers[f]: ObservationFuture::wakers
    deadline,  \* deadline[t]: where t's wait_timeout stands against the clock
    token,     \* token[t]: t's park token
    woken,     \* wakers that have been woken
    drain,     \* the waiters the completer has taken and not yet notified
    panics,    \* has a wake() panicked during the drain?
    result     \* what every process's last operation returned

vars == <<state, outcome, waiters, box, boxes, pc, op, reg, waker, wakers,
          deadline, token, woken, drain, panics, result>>

EmptyBox == [holder |-> Null, threads |-> {}, persistent |-> {},
             owners |-> [w \in Wakers |-> 0]]

Boxes == [holder : Procs \cup {Null}, threads : SUBSET Threads,
          persistent : SUBSET Wakers, owners : [Wakers -> Nat]]

IsCompleted == COMPLETED \in state

Labels == {"idle", "check", "regcheck", "mark", "load", "cas", "lock", "locked",
           "recheck", "clone", "deadline", "parked", "check2", "read",
           "dropped", "write", "publish", "drain", "returned", "unwound"}

Ops == {"none", "complete", "wait", "wait_timeout", "cancel", "register",
        "poll", "drop"}

\* ahead: not yet reached.  missed, in_time: passed, and the outcome was
\* published only after (missed) or already before (in_time) it passed.
Deadlines == {"ahead", "missed", "in_time"}

Goto(p, label) == pc' = [pc EXCEPT ![p] = label]

\* Leave the critical section with the registry as b.
Unlock(p, b) == box' = [box EXCEPT ![reg[p]] = [b EXCEPT !.holder = Null]]

Return(p, r) ==
    /\ result' = [result EXCEPT ![p] = r]
    /\ Goto(p, "idle")

-------------------------------------------------------------------------------
(***************************************************************************)
(* Slot::waiters() and lock(): the lazily created registry.                *)
(***************************************************************************)

\* The Acquire load; on null, a box is allocated for the CAS to publish.
LoadWaiters(p) ==
    /\ pc[p] = "load"
    /\ \/ /\ waiters # Null
          /\ reg' = [reg EXCEPT ![p] = waiters]
          /\ Goto(p, "lock")
          /\ UNCHANGED <<box, boxes>>
       \/ /\ waiters = Null
          /\ box' = [box EXCEPT ![p] = EmptyBox]
          /\ boxes' = boxes \cup {p}
          /\ Goto(p, "cas")
          /\ UNCHANGED reg
    /\ UNCHANGED <<state, outcome, waiters, op, waker, wakers, deadline,
                   token, woken, drain, panics, result>>

\* Faulty variant: the loser of the race leaks its box.
CasLeaks(p) ==
    /\ pc[p] = "cas"
    /\ waiters' = IF waiters = Null THEN p ELSE waiters
    /\ reg' = [reg EXCEPT ![p] = waiters']
    /\ Goto(p, "lock")
    /\ UNCHANGED <<state, outcome, box, boxes, op, waker, wakers, deadline,
                   token, woken, drain, panics, result>>

\* compare_exchange from null; the loser reclaims its box.
CasWaiters(p) ==
    /\ pc[p] = "cas"
    /\ \/ /\ waiters = Null
          /\ waiters' = p
          /\ reg' = [reg EXCEPT ![p] = p]
          /\ UNCHANGED boxes
       \/ /\ waiters # Null
          /\ reg' = [reg EXCEPT ![p] = waiters]
          /\ boxes' = boxes \ {p}
          /\ UNCHANGED waiters
    /\ Goto(p, "lock")
    /\ UNCHANGED <<state, outcome, box, op, waker, wakers, deadline,
                   token, woken, drain, panics, result>>

Lock(p) ==
    /\ pc[p] = "lock"
    /\ box[reg[p]].holder = Null
    /\ box' = [box EXCEPT ![reg[p]].holder = p]
    /\ Goto(p, "locked")
    /\ UNCHANGED <<state, outcome, waiters, boxes, op, reg, waker, wakers,
                   deadline, token, woken, drain, panics, result>>

-------------------------------------------------------------------------------
(***************************************************************************)
(* Slot::complete.  The outcome write is two steps, so that a reader that  *)
(* is not ordered after it would see a torn value.                         *)
(***************************************************************************)

\* Faulty variant: COMPLETED is set before the outcome is written.
PublishThenWrite ==
    /\ pc[Completer] = "idle"
    /\ outcome' = Torn
    /\ state' = state \cup {COMPLETED}
    /\ op' = [op EXCEPT ![Completer] = "complete"]
    /\ Goto(Completer, "write")
    /\ UNCHANGED <<waiters, box, boxes, reg, waker, wakers, deadline,
                   token, woken, drain, panics, result>>

BeginWrite ==
    /\ pc[Completer] = "idle"
    /\ outcome' = Torn
    /\ op' = [op EXCEPT ![Completer] = "complete"]
    /\ Goto(Completer, "write")
    /\ UNCHANGED <<state, waiters, box, boxes, reg, waker, wakers, deadline,
                   token, woken, drain, panics, result>>

\* Faulty variant: the waiters are notified before the publication.
NotifyUnpublished(o) ==
    /\ pc[Completer] = "write"
    /\ outcome' = o
    /\ Goto(Completer, "load")
    /\ UNCHANGED <<state, waiters, box, boxes, op, reg, waker, wakers,
                   deadline, token, woken, drain, panics, result>>

FinishWrite(o) ==
    /\ pc[Completer] = "write"
    /\ outcome' = o
    /\ Goto(Completer, "publish")
    /\ UNCHANGED <<state, waiters, box, boxes, op, reg, waker, wakers,
                   deadline, token, woken, drain, panics, result>>

\* fetch_or(COMPLETED | OUTCOME_VALID), and the branch on its old value.
Publish ==
    /\ pc[Completer] = "publish"
    /\ state' = state \cup {COMPLETED, OUTCOME_VALID}
    /\ Goto(Completer, IF HAS_WAITER \in state THEN "load" ELSE "returned")
    /\ UNCHANGED <<outcome, waiters, box, boxes, op, reg, waker, wakers,
                   deadline, token, woken, drain, panics, result>>

\* mem::take under the mutex.
TakeWaiters ==
    /\ pc[Completer] = "locked"
    /\ drain' = Entries(box[reg[Completer]])
    /\ box' = [box EXCEPT ![reg[Completer]] = EmptyBox]
    /\ Goto(Completer, "drain")
    /\ UNCHANGED <<state, outcome, waiters, boxes, op, reg, waker, wakers,
                   deadline, token, woken, panics, result>>

NotifyThread(t) ==
    /\ pc[Completer] = "drain"
    /\ t \in drain
    /\ token' = [token EXCEPT ![t] = TRUE]
    /\ drain' = drain \ {t}
    /\ UNCHANGED <<state, outcome, waiters, box, boxes, pc, op, reg, waker,
                   wakers, deadline, woken, panics, result>>

\* Faulty variant: without catch_unwind a panic ends the drain.
NotifyUncaught(w, wakePanics) ==
    /\ pc[Completer] = "drain"
    /\ w \in drain
    /\ woken' = woken \cup {w}
    /\ panics' = (panics \/ wakePanics)
    /\ drain' = IF wakePanics THEN {} ELSE drain \ {w}
    /\ UNCHANGED <<state, outcome, waiters, box, boxes, pc, op, reg, waker,
                   wakers, deadline, token, result>>

\* waker.wake() inside catch_unwind: the drain goes on after a panic.
NotifyWaker(w, wakePanics) ==
    /\ pc[Completer] = "drain"
    /\ w \in drain
    /\ woken' = woken \cup {w}
    /\ panics' = (panics \/ wakePanics)
    /\ drain' = drain \ {w}
    /\ UNCHANGED <<state, outcome, waiters, box, boxes, pc, op, reg, waker,
                   wakers, deadline, token, result>>

\* Return, or resume_unwind with the first panic.
FinishDrain ==
    /\ pc[Completer] = "drain"
    /\ drain = {}
    /\ Goto(Completer, IF panics THEN "unwound" ELSE "returned")
    /\ UNCHANGED <<state, outcome, waiters, box, boxes, op, reg, waker, wakers,
                   deadline, token, woken, drain, panics, result>>

-------------------------------------------------------------------------------
(***************************************************************************)
(* The steps that wait, wait_timeout, register_waker and poll share.       *)
(***************************************************************************)

\* fetch_or(HAS_WAITER).
Mark(p) ==
    /\ pc[p] = "mark"
    /\ state' = state \cup {HAS_WAITER}
    /\ Goto(p, "load")
    /\ UNCHANGED <<outcome, waiters, box, boxes, op, reg, waker, wakers,
                   deadline, token, woken, drain, panics, result>>

\* outcome_ref().clone(), after COMPLETED has been seen.
Read(p) ==
    /\ pc[p] = "read"
    /\ Return(p, outcome)
    /\ UNCHANGED <<state, outcome, waiters, box, boxes, op, reg, waker, wakers,
                   deadline, token, woken, drain, panics>>

-------------------------------------------------------------------------------
(***************************************************************************)
(* Observation::wait and Observation::wait_timeout.                        *)
(***************************************************************************)

WaitOps == {"wait", "wait_timeout"}

CallWait(t, how) ==
    /\ pc[t] = "idle"
    /\ op' = [op EXCEPT ![t] = how]
    /\ deadline' = [deadline EXCEPT ![t] = "ahead"]
    /\ result' = [result EXCEPT ![t] = Pending]
    /\ Goto(t, "check")
    /\ UNCHANGED <<state, outcome, waiters, box, boxes, reg, waker, wakers,
                   token, woken, drain, panics>>

\* The check at the head of the loop.
CheckWait(t) ==
    /\ pc[t] = "check"
    /\ Goto(t, IF IsCompleted THEN "read" ELSE "mark")
    /\ UNCHANGED <<state, outcome, waiters, box, boxes, op, reg, waker, wakers,
                   deadline, token, woken, drain, panics, result>>

\* Push the thread; a second entry for it adds nothing but a second unpark.
PushThread(t) ==
    /\ pc[t] = "locked"
    /\ op[t] \in WaitOps
    /\ box' = [box EXCEPT ![reg[t]] = PushWaiter(@, t)]
    /\ Goto(t, "recheck")
    /\ UNCHANGED <<state, outcome, waiters, boxes, op, reg, waker, wakers,
                   deadline, token, woken, drain, panics, result>>

\* Faulty variants: no recheck, the guard kept while parked, and no
\* deregistration when the recheck sees COMPLETED.
RecheckSkipped(t) ==
    /\ pc[t] = "recheck"
    /\ Unlock(t, box[reg[t]])
    /\ Goto(t, IF op[t] = "wait" THEN "parked" ELSE "deadline")
    /\ UNCHANGED <<state, outcome, waiters, boxes, op, reg, waker, wakers,
                   deadline, token, woken, drain, panics, result>>
RecheckKeepsGuard(t) ==
    /\ pc[t] = "recheck"
    /\ Goto(t, IF IsCompleted THEN "clone"
               ELSE IF op[t] = "wait" THEN "parked" ELSE "deadline")
    /\ UNCHANGED <<state, outcome, waiters, box, boxes, op, reg, waker, wakers,
                   deadline, token, woken, drain, panics, result>>
RecheckStaysRegistered(t) ==
    /\ pc[t] = "recheck"
    /\ Unlock(t, box[reg[t]])
    /\ Goto(t, IF IsCompleted THEN "read"
               ELSE IF op[t] = "wait" THEN "parked" ELSE "deadline")
    /\ UNCHANGED <<state, outcome, waiters, boxes, op, reg, waker, wakers,
                   deadline, token, woken, drain, panics, result>>

\* The recheck under the mutex: deregister, or unlock and go on to park.
Recheck(t) ==
    /\ pc[t] = "recheck"
    /\ \/ /\ IsCompleted
          /\ box' = [box EXCEPT ![reg[t]] = RetainOthers(@, t)]
          /\ Goto(t, "clone")
       \/ /\ ~IsCompleted
          /\ Unlock(t, box[reg[t]])
          /\ Goto(t, IF op[t] = "wait" THEN "parked" ELSE "deadline")
    /\ UNCHANGED <<state, outcome, waiters, boxes, op, reg, waker, wakers,
                   deadline, token, woken, drain, panics, result>>

\* The return out of the critical section: the guard outlives the clone.
CloneLocked(t) ==
    /\ pc[t] = "clone"
    /\ Unlock(t, box[reg[t]])
    /\ Return(t, outcome)
    /\ UNCHANGED <<state, outcome, waiters, boxes, op, reg, waker, wakers,
                   deadline, token, woken, drain, panics>>

\* Faulty variant: the deadline is never tested, only slept on.
ParkUntested(t) ==
    /\ pc[t] = "deadline"
    /\ Goto(t, "parked")
    /\ UNCHANGED <<state, outcome, waiters, box, boxes, op, reg, waker, wakers,
                   deadline, token, woken, drain, panics, result>>

\* The deadline test of park_until; on failure wait_timeout deregisters.
ParkUntil(t) ==
    /\ pc[t] = "deadline"
    /\ \/ /\ deadline[t] = "ahead"
          /\ Goto(t, "parked")
          /\ UNCHANGED op
       \/ /\ deadline[t] # "ahead"
          /\ op' = [op EXCEPT ![t] = "cancel"]
          /\ Goto(t, "load")
    /\ UNCHANGED <<state, outcome, waiters, box, boxes, reg, waker, wakers,
                   deadline, token, woken, drain, panics, result>>

\* park() returns because it holds a token ...
Unparked(t) ==
    /\ pc[t] = "parked"
    /\ token[t]
    /\ token' = [token EXCEPT ![t] = FALSE]
    /\ Goto(t, "check")
    /\ UNCHANGED <<state, outcome, waiters, box, boxes, op, reg, waker, wakers,
                   deadline, woken, drain, panics, result>>

\* ... or because park_timeout ran out ...
ParkElapsed(t) ==
    /\ pc[t] = "parked"
    /\ op[t] = "wait_timeout"
    /\ deadline[t] # "ahead"
    /\ Goto(t, "check")
    /\ UNCHANGED <<state, outcome, waiters, box, boxes, op, reg, waker, wakers,
                   deadline, token, woken, drain, panics, result>>

\* ... or spuriously (also: a token left over from another slot).
SpuriousWake(t) ==
    /\ pc[t] = "parked"
    /\ Goto(t, "check")
    /\ UNCHANGED <<state, outcome, waiters, box, boxes, op, reg, waker, wakers,
                   deadline, token, woken, drain, panics, result>>

\* The timed-out waiter's retain, and its return of None.
DeregisterThread(t) ==
    /\ pc[t] = "locked"
    /\ op[t] = "cancel"
    /\ Unlock(t, RetainOthers(box[reg[t]], t))
    /\ Return(t, TimedOut)
    /\ UNCHANGED <<state, outcome, waiters, boxes, op, reg, waker, wakers,
                   deadline, token, woken, drain, panics>>

\* The clock passes t's deadline.
Expire(t) ==
    /\ op[t] = "wait_timeout"
    /\ pc[t] # "idle"
    /\ deadline[t] = "ahead"
    /\ deadline' = [deadline EXCEPT ![t] =
                       IF IsCompleted THEN "in_time" ELSE "missed"]
    /\ UNCHANGED <<state, outcome, waiters, box, boxes, pc, op, reg, waker,
                   wakers, token, woken, drain, panics, result>>

-------------------------------------------------------------------------------
(***************************************************************************)
(* Observation::register_waker and the registration half of poll           *)
(* (register_future_waker).                                                *)
(***************************************************************************)

CallRegister(c, w) ==
    /\ pc[c] = "idle"
    /\ op' = [op EXCEPT ![c] = "register"]
    /\ waker' = [waker EXCEPT ![c] = w]
    /\ result' = [result EXCEPT ![c] = Pending]
    /\ Goto(c, "regcheck")
    /\ UNCHANGED <<state, outcome, waiters, box, boxes, reg, wakers, deadline,
                   token, woken, drain, panics>>

\* Faulty variant: HAS_WAITER is not set before the registration.
RegisterUnmarked(p) ==
    /\ pc[p] = "regcheck"
    /\ \/ /\ IsCompleted
          /\ \/ op[p] = "register" /\ Return(p, Ready)
             \/ op[p] = "poll" /\ Goto(p, "check2") /\ UNCHANGED result
       \/ /\ ~IsCompleted
          /\ Goto(p, "load")
          /\ UNCHANGED result
    /\ UNCHANGED <<state, outcome, waiters, box, boxes, op, reg, waker, wakers,
                   deadline, token, woken, drain, panics>>

\* The fast check of both registration functions.
RegisterCheck(p) ==
    /\ pc[p] = "regcheck"
    /\ \/ /\ IsCompleted
          /\ \/ op[p] = "register" /\ Return(p, Ready)
             \/ op[p] = "poll" /\ Goto(p, "check2") /\ UNCHANGED result
       \/ /\ ~IsCompleted
          /\ Goto(p, "mark")
          /\ UNCHANGED result
    /\ UNCHANGED <<state, outcome, waiters, box, boxes, op, reg, waker, wakers,
                   deadline, token, woken, drain, panics>>

\* register_waker's critical section.
RegisterWaker(c) ==
    /\ pc[c] = "locked"
    /\ op[c] = "register"
    /\ \/ /\ IsCompleted
          /\ Unlock(c, box[reg[c]])
          /\ Return(c, Ready)
       \/ /\ ~IsCompleted
          /\ Unlock(c, AddPersistent(box[reg[c]], waker[c]))
          /\ Return(c, Registered)
    /\ UNCHANGED <<state, outcome, waiters, boxes, op, reg, waker, wakers,
                   deadline, token, woken, drain, panics>>

\* register_future_waker's critical section: one more logical owner.
RegisterFutureWaker(f) ==
    /\ pc[f] = "locked"
    /\ op[f] = "poll"
    /\ Unlock(f, IF IsCompleted THEN box[reg[f]]
                                ELSE AddOwner(box[reg[f]], waker[f]))
    /\ Goto(f, "check2")
    /\ UNCHANGED <<state, outcome, waiters, boxes, op, reg, waker, wakers,
                   deadline, token, woken, drain, panics, result>>

-------------------------------------------------------------------------------
(***************************************************************************)
(* ObservationFuture: poll and drop.  A future that returned Ready is not  *)
(* polled again (the contract of Future).                                  *)
(***************************************************************************)

CallPoll(f, w) ==
    /\ pc[f] = "idle"
    /\ result[f] = Pending
    /\ op' = [op EXCEPT ![f] = "poll"]
    /\ waker' = [waker EXCEPT ![f] = w]
    /\ Goto(f, "check")
    /\ UNCHANGED <<state, outcome, waiters, box, boxes, reg, wakers, deadline,
                   token, woken, drain, panics, result>>

\* Faulty variant: every poll registers, known waker or not.
TryGetAlwaysRegisters(f) ==
    /\ pc[f] = "check"
    /\ Goto(f, IF IsCompleted THEN "read" ELSE "regcheck")
    /\ UNCHANGED <<state, outcome, waiters, box, boxes, op, reg, waker, wakers,
                   deadline, token, woken, drain, panics, result>>

\* The first try_get, and known_waker.
TryGet(f) ==
    /\ pc[f] = "check"
    /\ Goto(f, IF IsCompleted THEN "read"
               ELSE IF waker[f] \in wakers[f] THEN "check2" ELSE "regcheck")
    /\ UNCHANGED <<state, outcome, waiters, box, boxes, op, reg, waker, wakers,
                   deadline, token, woken, drain, panics, result>>

\* The second try_get; if still pending, the waker is tracked.
TryGetAgain(f) ==
    /\ pc[f] = "check2"
    /\ \/ /\ IsCompleted
          /\ Goto(f, "read")
          /\ UNCHANGED wakers
       \/ /\ ~IsCompleted
          /\ wakers' = [wakers EXCEPT ![f] = @ \cup {waker[f]}]
          /\ Goto(f, "idle")
    /\ UNCHANGED <<state, outcome, waiters, box, boxes, op, reg, waker,
                   deadline, token, woken, drain, panics, result>>

\* Drop: nothing to do for a future without wakers, else take the mutex.
CallDrop(f) ==
    /\ pc[f] = "idle"
    /\ op' = [op EXCEPT ![f] = "drop"]
    /\ Goto(f, IF wakers[f] = {} THEN "dropped" ELSE "load")
    /\ UNCHANGED <<state, outcome, waiters, box, boxes, reg, waker, wakers,
                   deadline, token, woken, drain, panics, result>>

\* retain_mut: one owner fewer for each entry the future tracks.
ReleaseWakers(f) ==
    /\ pc[f] = "locked"
    /\ op[f] = "drop"
    /\ Unlock(f, ReleaseOwners(box[reg[f]], wakers[f]))
    /\ wakers' = [wakers EXCEPT ![f] = {}]
    /\ Goto(f, "dropped")
    /\ UNCHANGED <<state, outcome, waiters, boxes, op, reg, waker,
                   deadline, token, woken, drain, panics, result>>

-------------------------------------------------------------------------------
Init ==
    /\ state = {}
    /\ outcome = Uninit
    /\ waiters = Null
    /\ box = [p \in Procs |-> EmptyBox]
    /\ boxes = {}
    /\ pc = [p \in Procs |-> "idle"]
    /\ op = [p \in Procs |-> "none"]
    /\ reg = [p \in Procs |-> Null]
    /\ waker = [p \in Callers \cup Futures |-> Null]
    /\ wakers = [f \in Futures |-> {}]
    /\ deadline = [t \in Threads |-> "ahead"]
    /\ token = [t \in Threads |-> FALSE]
    /\ woken = {}
    /\ drain = {}
    /\ panics = FALSE
    /\ result = [p \in Procs |-> Pending]

\* The steps of an operation under way, by whoever runs it.
Access(p) == LoadWaiters(p) \/ CasWaiters(p) \/ Lock(p)

CompleterStep ==
    \/ Access(Completer)
    \/ \E o \in Outcomes : FinishWrite(o)
    \/ Publish
    \/ TakeWaiters
    \/ \E t \in Threads : NotifyThread(t)
    \/ \E w \in Wakers, wakePanics \in BOOLEAN : NotifyWaker(w, wakePanics)
    \/ FinishDrain

ThreadStep(t) ==
    \/ Access(t)
    \/ CheckWait(t) \/ Mark(t) \/ PushThread(t) \/ Recheck(t) \/ ParkUntil(t)
    \/ Unparked(t) \/ ParkElapsed(t) \/ DeregisterThread(t)
    \/ CloneLocked(t) \/ Read(t)

CallerStep(c) ==
    Access(c) \/ RegisterCheck(c) \/ Mark(c) \/ RegisterWaker(c)

FutureStep(f) ==
    \/ Access(f)
    \/ TryGet(f) \/ RegisterCheck(f) \/ Mark(f) \/ RegisterFutureWaker(f)
    \/ TryGetAgain(f) \/ Read(f) \/ ReleaseWakers(f)

Next ==
    \/ BeginWrite
    \/ CompleterStep
    \/ \E t \in Threads :
          \/ \E how \in WaitOps : CallWait(t, how)
          \/ ThreadStep(t) \/ SpuriousWake(t) \/ Expire(t)
    \/ \E c \in Callers :
          \/ \E w \in Wakers : CallRegister(c, w)
          \/ CallerStep(c)
    \/ \E f \in Futures :
          \/ \E w \in Wakers : CallPoll(f, w)
          \/ CallDrop(f)
          \/ FutureStep(f)

Spec == Init /\ [][Next]_vars

(***************************************************************************)
(* What the scheduling of the code guarantees.  A thread inside one of     *)
(* these functions keeps running; park returns once its token is set or    *)
(* its timeout is over; the clock advances; parking_lot's mutex is         *)
(* eventually fair, so a lock that is free again and again is acquired.    *)
(* Nobody has to call anything, the authority may never be used, and no    *)
(* spurious wake is owed.                                                  *)
(***************************************************************************)
Fairness ==
    /\ WF_vars(CompleterStep) /\ SF_vars(Lock(Completer))
    /\ \A t \in Threads : WF_vars(ThreadStep(t)) /\ SF_vars(Lock(t))
                                                /\ WF_vars(Expire(t))
    /\ \A c \in Callers : WF_vars(CallerStep(c)) /\ SF_vars(Lock(c))
    /\ \A f \in Futures : WF_vars(FutureStep(f)) /\ SF_vars(Lock(f))

FairSpec == Spec /\ Fairness

-------------------------------------------------------------------------------
(***************************************************************************)
(* Properties.                                                             *)
(***************************************************************************)

\* Every variable has its type; the owner counts never go below zero.
TypeOK ==
    /\ state \in SUBSET Bits
    /\ outcome \in Cells
    /\ waiters \in Procs \cup {Null}
    /\ box \in [Procs -> Boxes]
    /\ boxes \in SUBSET Procs
    /\ pc \in [Procs -> Labels]
    /\ op \in [Procs -> Ops]
    /\ reg \in [Procs -> Procs \cup {Null}]
    /\ waker \in [Callers \cup Futures -> Wakers \cup {Null}]
    /\ wakers \in [Futures -> SUBSET Wakers]
    /\ deadline \in [Threads -> Deadlines]
    /\ token \in [Threads -> BOOLEAN]
    /\ woken \in SUBSET Wakers
    /\ drain \in SUBSET (Threads \cup Wakers)
    /\ panics \in BOOLEAN
    /\ result \in [Procs -> Results]

\* complete has returned, or has resumed the first panic of the drain.
Finished == pc[Completer] \in {"returned", "unwound"}

Holders == {p \in Procs : pc[p] \in {"locked", "recheck", "clone"}}

Registry == box[waiters]

\* The futures that track w, or will when their second try_get finds nothing.
Claimants(w) ==
    {f \in Futures :
        \/ w \in wakers[f]
        \/ ~IsCompleted /\ pc[f] = "check2" /\ waker[f] = w}

\* Whoever is about to clone the outcome (try_get, wait, wait_timeout) finds
\* the cell fully written: the COMPLETED gate of outcome_ref is enough.
ReadsPublished ==
    \A p \in Procs : pc[p] \in {"read", "clone"} => outcome \in Outcomes

\* No lost wakeup: once complete is over, a thread that is parked in wait or
\* wait_timeout holds the unpark token of the drain, whatever the order of its
\* registration, its recheck, spurious wakes and the publication, and even if
\* another waiter's wake() panicked.
NoLostWakeup ==
    \A t \in Threads : Finished /\ pc[t] = "parked" => token[t]

\* Every waker a live future returned Pending with has been woken once complete
\* is over, also when a sibling future that shares the waker was dropped.
FutureWakersWoken ==
    Finished => \A f \in Futures : wakers[f] \subseteq woken

\* A waker for which register_waker returned false has been woken once
\* complete is over: dropping a future that uses the same waker does not
\* cancel the direct registration.
DirectWakersWoken ==
    Finished => \A c \in Callers : result[c] = Registered => waker[c] \in woken

\* Whoever was notified finds the outcome: from the moment complete unparks a
\* thread or wakes a waker, the cell is published and fully written, so a poll
\* or a recheck that the notification causes never goes back to waiting.
NotifiedFindOutcome ==
    woken # {} \/ (\E t \in Threads : token[t]) => IsCompleted /\ outcome \in Outcomes

\* Before completion future_owners is exact: it counts the futures that track
\* the waker, and those about to track it after register_future_waker.
OwnersExact ==
    waiters # Null /\ ~IsCompleted =>
        \A w \in Wakers : Registry.owners[w] = Cardinality(Claimants(w))

\* The debug_assert of the future's drop: an entry that matches one of its
\* wakers has an owner to release, although the drain may have taken the
\* future's own entry and others may have registered the waker since.
DropFindsOwner ==
    \A f \in Futures :
        pc[f] = "locked" /\ op[f] = "drop" =>
            \A w \in wakers[f] \cap WakerEntries(Registry) : Registry.owners[w] > 0

\* The registry's init race leaks and loses nothing: what is allocated is the
\* published box and the boxes of those still in the race, and everybody who
\* is past waiters() uses the published one.
RegistryUnique ==
    /\ boxes = ({waiters} \ {Null}) \cup {p \in Procs : pc[p] = "cas"}
    /\ \A p \in Procs : pc[p] = "lock" \/ p \in Holders => reg[p] = waiters

\* No stale registration: before completion only threads inside a wait are
\* registered (a timed-out waiter has left), and after the drain only a thread
\* that is about to deregister in its recheck; nothing is left for the pool.
NoStaleRegistration ==
    waiters # Null =>
        /\ ~IsCompleted => \A t \in Registry.threads : pc[t] # "idle"
        /\ pc[Completer] \in {"drain", "returned", "unwound"} =>
              Entries(Registry) \subseteq {t \in Threads : pc[t] = "recheck"}

\* wait and wait_timeout return after a publication.
WaitReturns ==
    \A t \in Threads : (IsCompleted /\ pc[t] # "idle") ~> (pc[t] = "idle")

\* wait_timeout returns, published or not, however often it is woken.
WaitTimeoutReturns ==
    \A t \in Threads : (op[t] = "wait_timeout" /\ pc[t] # "idle") ~> (pc[t] = "idle")

\* complete ends: the drain gets the mutex and notifies everybody.
CompleteReturns == IsCompleted ~> Finished

\* poll and the future's drop never block for good.  (register_waker takes the
\* path of poll; the run that checks this has no caller.)
AsyncReturns ==
    \A p \in Callers \cup Futures :
        (pc[p] \notin {"idle", "dropped"}) ~> (pc[p] \in {"idle", "dropped"})

\* wait_timeout's doc: None means that the timeout elapsed before the outcome
\* was published; a completion that races the deadline is still observed.
TimeoutBeforePublication ==
    \A t \in Threads : result[t] = TimedOut => deadline[t] # "in_time"

\* The tests' statement of cancellation: a cancelled future's waker never fires
\* after the drop.  A waker that only futures use is woken only if one of them
\* still exists or was resolved before it was dropped.
CancelledNeverFires ==
    [][woken' # woken =>
          \E f \in Futures : pc[f] # "dropped" \/ result[f] # Pending]_vars

-------------------------------------------------------------------------------
(***************************************************************************)
(* The inductive invariant behind the safety properties.                   *)
(***************************************************************************)

AccessLabels == {"load", "cas", "lock", "locked"}
HeldLabels   == {"locked", "recheck", "clone"}
TakenLabels  == {"drain", "returned", "unwound"}

\* Every process stays inside the functions it may call.
InvFlow ==
    /\ pc[Completer] \in AccessLabels \cup TakenLabels \cup {"idle", "write", "publish"}
    /\ \A t \in Threads :
          /\ pc[t] \in AccessLabels \cup {"idle", "check", "mark", "recheck",
                                         "clone", "deadline", "parked", "read"}
          /\ op[t] \in WaitOps \cup {"none", "cancel"}
          /\ pc[t] \in {"recheck", "deadline", "parked"} => op[t] \in WaitOps
    /\ \A c \in Callers :
          /\ pc[c] \in AccessLabels \cup {"idle", "regcheck", "mark"}
          /\ op[c] \in {"none", "register"}
    /\ \A f \in Futures :
          /\ pc[f] \in AccessLabels \cup {"idle", "check", "regcheck", "mark",
                                         "check2", "read", "dropped"}
          /\ op[f] \in {"none", "poll", "drop"}
          /\ pc[f] \in {"check", "regcheck", "mark", "check2"} => op[f] = "poll"
          /\ (op[f] = "poll" /\ pc[f] \in AccessLabels \cup {"regcheck", "mark"}) =>
                waker[f] \notin wakers[f]
    /\ \A p \in Callers \cup Futures :
          op[p] \in {"register", "poll"} => waker[p] \in Wakers

\* The registry is created once and its mutex excludes.
InvRegistry ==
    /\ boxes = ({waiters} \ {Null}) \cup {p \in Procs : pc[p] = "cas"}
    /\ \A p \in Procs :
          /\ pc[p] = "cas" => box[p] = EmptyBox /\ waiters # p
          /\ pc[p] \in HeldLabels \cup {"lock"} => waiters # Null /\ reg[p] = waiters
          /\ waiters # Null => (Registry.holder = p <=> pc[p] \in HeldLabels)

\* COMPLETED is set exactly from the publication on, with the cell written.
InvPublished ==
    /\ IsCompleted <=> pc[Completer] \in AccessLabels \cup TakenLabels
    /\ IsCompleted \/ pc[Completer] = "publish" => outcome \in Outcomes
    /\ \A p \in Procs : pc[p] \in {"read", "clone"} => IsCompleted
    /\ drain # {} => pc[Completer] = "drain"

\* HAS_WAITER is set before anybody is, or may get, registered.
InvMarked ==
    HAS_WAITER \notin state =>
        /\ \A p \in Procs \ {Completer} :
              pc[p] \notin AccessLabels \cup HeldLabels \cup {"deadline", "parked"}
        /\ \A f \in Futures : wakers[f] = {} /\ (pc[f] = "check2" => IsCompleted)
        /\ \A c \in Callers : result[c] # Registered
        /\ pc[Completer] \notin AccessLabels
        /\ waiters = Null

\* A thread that may park is registered, or being notified, or has its token.
InvThreads ==
    \A t \in Threads :
        /\ pc[t] = "recheck" => t \in Registry.threads
        /\ pc[t] \in {"deadline", "parked"} =>
              \/ token[t]
              \/ t \in drain
              \/ /\ pc[Completer] \notin TakenLabels
                 /\ waiters # Null
                 /\ t \in Registry.threads

\* The same for a direct registration.
InvDirect ==
    \A c \in Callers :
        result[c] = Registered =>
            \/ waker[c] \in woken
            \/ waker[c] \in drain
            \/ /\ pc[Completer] \notin TakenLabels
               /\ waiters # Null
               /\ waker[c] \in Registry.persistent

\* Every waker a future tracks has that future among its owners until the
\* drain takes the entry, and is then notified.
InvOwners ==
    /\ \A w \in Wakers :
          /\ waiters = Null => Claimants(w) = {}
          /\ (waiters # Null /\ pc[Completer] \notin TakenLabels) =>
                Registry.owners[w] >= Cardinality(Claimants(w))
    /\ OwnersExact
    /\ pc[Completer] \in TakenLabels =>
          \A f \in Futures : wakers[f] \subseteq woken \cup drain

\* NoStaleRegistration, stated of the two kinds of entry.
InvStale ==
    waiters # Null =>
        /\ \A t \in Threads : t \in Registry.threads =>
              /\ ~IsCompleted => pc[t] # "idle"
              /\ pc[Completer] \in TakenLabels => pc[t] = "recheck"
        /\ pc[Completer] \in TakenLabels => WakerEntries(Registry) = {}

\* The inductive invariant (see SlotProofs).
Inv ==
    /\ TypeOK
    /\ InvFlow
    /\ InvRegistry
    /\ InvPublished
    /\ InvMarked
    /\ InvThreads
    /\ InvDirect
    /\ InvOwners
    /\ InvStale

-------------------------------------------------------------------------------
\* What observers see of the slot: the cell counts only once COMPLETED is set.
Promise == INSTANCE Completion WITH
    Clients <- Procs,
    None    <- Null,
    value   <- (IF IsCompleted THEN outcome ELSE Null),
    answer  <- result

\* The slot implements Completion: one outcome becomes visible in one step,
\* fully written, and never changes; whoever is answered gets that one; a
\* waker is registered only while there is no outcome; wakes come after it.
ImplementsCompletion == Promise!Spec

===============================================================================
