------------------------------- MODULE UserCode -------------------------------
(***************************************************************************)
(* Which locks bombay-observe (crates/observe/src/lib.rs) holds when it    *)
(* runs code of its user, and what can deadlock when that code calls the   *)
(* library again.                                                          *)
(*                                                                         *)
(* User code is the key's Eq, Hash, Clone and Drop ("key"), the outcome's  *)
(* Clone and Drop, and the waker's clone, drop and wake.  An operation is  *)
(* a script: the locks it takes and releases and the user code it runs, in *)
(* order.  A call is user code that may run there: where the code drops    *)
(* nothing, no user code runs and the call returns at once.  So branches   *)
(* that take other locks have scripts of their own, and branches that only *)
(* leave calls out share one.                                              *)
(* Threads run scripts, and user code that runs inside one may start       *)
(* another on top of it.                                                   *)
(*                                                                         *)
(* The locks are the entries RwLock, the registry mutex of the one slot    *)
(* in use, and that of a slot in the pool.  Blocking in park is left out:  *)
(* it waits for a publication and not for a lock, and no lock is held.     *)
(***************************************************************************)
EXTENDS Naturals, SequencesExt

CONSTANTS
    Threads,
    MaxDepth     \* bound: scripts on top of each other in one thread

ASSUME DepthAssumption == MaxDepth \in Nat \ {0}

VARIABLES
    stack,       \* stack[t]: t's unfinished scripts, the running one last
    queued       \* the threads that wait as writers for the entries lock

vars == <<stack, queued>>

\* A frame: the steps still to do, and the locks its script holds.
Frame(script) == [todo |-> script, held |-> {}]

Lock(l)   == <<"lock", l>>
Unlock(l) == <<"unlock", l>>
Call(c)   == <<"call", c>>

-------------------------------------------------------------------------------
(***************************************************************************)
(* The operations.                                                         *)
(***************************************************************************)

\* Slot::drop, by whoever releases the last handle: an outcome, registrations.
FinalDrop == {<<Call("outcome_drop"), Call("waker_drop")>>}

\* Slot::reset of a pooled slot, without a registry and with one to drain.
Reset ==
    LET drain == <<Lock("pooled"), Call("waker_drop"), Unlock("pooled")>>
    IN  {<<Call("outcome_drop")>>, <<Call("outcome_drop")>> \o drain}

\* subject: the vacancy test, and for a vacant key reset, clone and insertion.
\* Refused, it ends with the test; unwinding, it drops the slot it popped first.
Subject ==
    {<<Lock("write"), Call("key")>> \o last \o <<Unlock("write")>> :
        last \in FinalDrop} \cup
    {<<Lock("write"), Call("key")>> \o reset \o <<Call("key"), Unlock("write")>> :
        reset \in Reset}

\* observe: the lookup, and for an unknown key its clone.
Observe == {<<Lock("read"), Call("key"), Unlock("read")>>}

\* Subject::drop: remove_if, which also drops the table's key; then the fields.
Retire ==
    {<<Lock("write"), Call("key"), Unlock("write"), Call("key")>> \o last :
        last \in FinalDrop}

\* Faulty variant: the drain runs inside the critical section.
CompleteUnderLock ==
    {<<>>, <<Lock("registry"), Call("wake"), Unlock("registry")>>}

\* complete: without waiters no lock; else take them, unlock, and wake.
Complete ==
    {<<>>, <<Lock("registry"), Unlock("registry"), Call("wake")>>}

\* wait and wait_timeout: completed at the check, at the recheck, or not yet
\* (then parked, and perhaps back to deregister); try_get is the first.
Wait ==
    {<<Call("outcome_clone")>>,
     <<Lock("registry"), Call("outcome_clone"), Unlock("registry")>>,
     <<Lock("registry"), Unlock("registry")>>}

\* register_waker, and register_future_waker: completed at the check, known
\* already or completed at the recheck, or new.
RegisterWaker ==
    {<<>>,
     <<Lock("registry"), Unlock("registry")>>,
     <<Lock("registry"), Call("waker_clone"), Unlock("registry")>>}

\* poll: Ready at either try_get, or Pending with the waker tracked.
Poll ==
    {<<Call("outcome_clone")>>} \cup
    {register \o <<Call(c)>> : register \in RegisterWaker,
                               c \in {"outcome_clone", "waker_clone"}}

\* The future's drop: retain_mut drops entries; then the fields.
DropFuture ==
    {<<Lock("registry"), Call("waker_drop"), Unlock("registry"), Call("waker_drop")>>
        \o last : last \in FinalDrop}

Scripts == Subject \cup Observe \cup Retire \cup Complete \cup Wait
             \cup RegisterWaker \cup Poll \cup DropFuture \cup FinalDrop

-------------------------------------------------------------------------------
(***************************************************************************)
(* The locks (external): parking_lot's Mutex and RwLock.  A reader waits   *)
(* for a queued writer too, also one that already reads.                   *)
(***************************************************************************)

Top(t) == Last(stack[t])
At(t, kind) == stack[t] # <<>> /\ Top(t).todo # <<>> /\ Head(Top(t).todo)[1] = kind
Arg(t) == Head(Top(t).todo)[2]

Conflicts(l) == CASE l = "write" -> {"write", "read"}
                  [] l = "read"  -> {"write"}
                  [] OTHER       -> {l}

Holders(l) == {t \in Threads : \E i \in DOMAIN stack[t] : l \in stack[t][i].held}

\* Whom t waits for at a lock step.
WaitsFor(t) ==
    (UNION {Holders(l) : l \in Conflicts(Arg(t))})
        \cup (IF Arg(t) = "read" THEN queued ELSE {})

SetTop(t, frame) == stack' = [stack EXCEPT ![t] = Append(Front(@), frame)]

Acquire(t) ==
    /\ At(t, "lock")
    /\ WaitsFor(t) = {}
    /\ SetTop(t, [todo |-> Tail(Top(t).todo), held |-> Top(t).held \cup {Arg(t)}])
    /\ queued' = queued \ {t}

Queue(t) ==
    /\ At(t, "lock") /\ Arg(t) = "write"
    /\ WaitsFor(t) # {}
    /\ t \notin queued
    /\ queued' = queued \cup {t}
    /\ UNCHANGED stack

Release(t) ==
    /\ At(t, "unlock")
    /\ SetTop(t, [todo |-> Tail(Top(t).todo), held |-> Top(t).held \ {Arg(t)}])
    /\ UNCHANGED queued

\* User code returns to the library ...
CallReturns(t) ==
    /\ At(t, "call")
    /\ SetTop(t, [Top(t) EXCEPT !.todo = Tail(@)])
    /\ UNCHANGED queued

\* ... or calls it, as a thread does that runs nothing of it.  Bound: MaxDepth.
Enter(t, script) ==
    /\ stack[t] = <<>> \/ At(t, "call")
    /\ Len(stack[t]) < MaxDepth
    /\ stack' = [stack EXCEPT ![t] = Append(@, Frame(script))]
    /\ UNCHANGED queued

Return(t) ==
    /\ stack[t] # <<>> /\ Top(t).todo = <<>>
    /\ stack' = [stack EXCEPT ![t] = Front(@)]
    /\ UNCHANGED queued

Init ==
    /\ stack = [t \in Threads |-> <<>>]
    /\ queued = {}

Next ==
    \E t \in Threads :
        \/ Acquire(t) \/ Queue(t) \/ Release(t) \/ CallReturns(t) \/ Return(t)
        \/ \E script \in Scripts : Enter(t, script)

Spec == Init /\ [][Next]_vars

-------------------------------------------------------------------------------
(***************************************************************************)
(* Properties.                                                             *)
(***************************************************************************)

\* The sets of threads that wait for one another at locks and so for ever.
Deadlocked ==
    {D \in (SUBSET Threads) \ {{}} :
        \A t \in D : At(t, "lock") /\ WaitsFor(t) \cap D # {}}

\* The user code that t has called the library from, with a lock held there.
EnteredFrom(t) ==
    UNION {{<<Head(stack[t][i].todo)[2], l>> : l \in stack[t][i].held} :
               i \in 1 .. Len(stack[t]) - 1}

\* The user code that runs under a lock: keys under the entries lock, reset's
\* drops under it and under the pooled registry's, and clones and drops of
\* wakers, and the clone of the outcome in a wait's recheck, under a registry's.
UnderLock ==
    ({"key"} \X {"read", "write"}) \cup
    ({"outcome_drop", "waker_drop"} \X {"write"}) \cup
    {<<"waker_drop", "pooled">>} \cup
    ({"outcome_clone", "waker_clone", "waker_drop"} \X {"registry"})

\* The library's locks deadlock only if user code calls the library from one of
\* those places.  A wake() may call anything (the stress tests do), and so may
\* the drops of a slot's last handle and the clones outside the recheck.
DeadlockOnlyUnderLock ==
    \A D \in Deadlocked : \E t \in D : EnteredFrom(t) \cap UnderLock # {}

-------------------------------------------------------------------------------
(***************************************************************************)
(* The inductive invariant.                                                *)
(***************************************************************************)

Locks == {"write", "read", "registry", "pooled"}
Codes == {"key", "outcome_clone", "outcome_drop", "waker_clone", "waker_drop", "wake"}
Steps == ({"lock", "unlock"} \X Locks) \cup ({"call"} \X Codes)
Frames == [todo : Seq(Steps), held : SUBSET Locks]

\* The locks held after x, and those a script may hold at x: nested are only
\* the pooled registry in the entries lock, and user code where UnderLock says.
After(x, held) == CASE x[1] = "lock"   -> held \cup {x[2]}
                    [] x[1] = "unlock" -> held \ {x[2]}
                    [] OTHER           -> held

Allowed(x, held) ==
    /\ x[1] = "lock" => held \subseteq (IF x[2] = "pooled" THEN {"write"} ELSE {})
    /\ x[1] = "call" => {x[2]} \X held \subseteq UnderLock

\* The locks held before step i of todo: held at first or taken since, and not
\* released after that.
HeldAt(todo, held, i) ==
    {l \in Locks : \E j \in 0 .. i - 1 :
        /\ IF j = 0 THEN l \in held ELSE todo[j] = Lock(l)
        /\ \A m \in j + 1 .. i - 1 : todo[m] # Unlock(l)}

Disciplined(frame) ==
    \A i \in 1 .. Len(frame.todo) :
        Allowed(frame.todo[i], HeldAt(frame.todo, frame.held, i))

\* A frame below another one is at the call that entered the library again.
Stacked(frames) ==
    \A i \in 1 .. Len(frames) :
        /\ Disciplined(frames[i])
        /\ i < Len(frames) => /\ frames[i].todo # <<>>
                              /\ Head(frames[i].todo)[1] = "call"

\* A queued writer is at its lock step.
InvQueued == \A t \in queued : t \in Threads /\ At(t, "lock") /\ Arg(t) = "write"

\* The inductive invariant: every frame takes locks in one order and calls user
\* code under the locks of UnderLock only, from here to its end.
Inv ==
    /\ stack \in [Threads -> Seq(Frames)]
    /\ \A t \in Threads : Stacked(stack[t])
    /\ InvQueued

===============================================================================
