----------------------------- MODULE Completion -----------------------------
(***************************************************************************)
(* What one completion slot promises to those who observe it, whatever     *)
(* happens inside: one outcome, published once and never changed; every    *)
(* answer that carries an outcome carries that one; a waker is either told *)
(* that the outcome is there, or is registered while it is not; and nobody *)
(* is woken before there is something to read.                             *)
(***************************************************************************)
CONSTANTS
    Clients,    \* those who ask: threads, callers of register_waker, futures
    Wakers,     \* task wakers
    Outcomes,   \* values that may be published
    None,       \* not published
    Pending, TimedOut, Ready, Registered    \* answers that carry no outcome

VARIABLES
    value,      \* the published outcome, or None
    answer,     \* answer[p]: what p was last told
    woken       \* the wakers that have been woken

vars == <<value, answer, woken>>

Init ==
    /\ value = None
    /\ answer = [p \in Clients |-> Pending]
    /\ woken = {}

Publish(o) ==
    /\ value = None
    /\ value' = o
    /\ UNCHANGED <<answer, woken>>

Ask(p) ==
    /\ answer' = [answer EXCEPT ![p] = Pending]
    /\ UNCHANGED <<value, woken>>

Tell(p) ==
    /\ value # None
    /\ \/ answer' = [answer EXCEPT ![p] = value]
       \/ answer' = [answer EXCEPT ![p] = Ready]
    /\ UNCHANGED <<value, woken>>

\* A deadline may win against a publication, so no condition on value.
GiveUp(p) ==
    /\ answer' = [answer EXCEPT ![p] = TimedOut]
    /\ UNCHANGED <<value, woken>>

Register(p) ==
    /\ value = None
    /\ answer' = [answer EXCEPT ![p] = Registered]
    /\ UNCHANGED <<value, woken>>

Wake(w) ==
    /\ value # None
    /\ woken' = woken \cup {w}
    /\ UNCHANGED <<value, answer>>

Next ==
    \/ \E o \in Outcomes : Publish(o)
    \/ \E p \in Clients : Ask(p) \/ Tell(p) \/ GiveUp(p) \/ Register(p)
    \/ \E w \in Wakers : Wake(w)

Spec == Init /\ [][Next]_vars

=============================================================================
