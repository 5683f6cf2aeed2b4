------------------------------ MODULE Namespace ------------------------------
(***************************************************************************)
(* What the observation space promises, without slots, pool or counters.   *)
(* Every subject is a generation of its own (a birth, numbered in order of *)
(* creation).  An observation captures one generation for good, and its    *)
(* answer is that generation's outcome as soon as it is published: neither *)
(* retirement nor a new generation at the same key changes it.             *)
(***************************************************************************)
EXTENDS Naturals

CONSTANTS Keys, Handles, MaxBirths, KeyPanics

VARIABLES
    births,     \* generations created so far
    current,    \* current[k]: the retained generation of k, or 0
    published,  \* the generations whose outcome is published
    captured,   \* captured[h]: the generation observed by h, or 0
    answer      \* answer[h]: the outcome h can read, or 0

vars == <<births, current, published, captured, answer>>

Known(b) == IF b \in published THEN b ELSE 0

Init ==
    /\ births = 0
    /\ current = [k \in Keys |-> 0]
    /\ published = {}
    /\ captured = [h \in Handles |-> 0]
    /\ answer = [h \in Handles |-> 0]

Create(k) ==
    /\ current[k] = 0
    /\ births' = births + 1
    /\ current' = [current EXCEPT ![k] = births + 1]
    /\ UNCHANGED <<published, captured, answer>>

Pair(h) ==
    /\ captured[h] = 0
    /\ births' = births + 1
    /\ captured' = [captured EXCEPT ![h] = births + 1]
    /\ UNCHANGED <<current, published, answer>>

Publish(b) ==
    /\ b <= births /\ b \notin published
    /\ published' = published \cup {b}
    /\ answer' = [h \in Handles |-> IF captured[h] = b THEN b ELSE answer[h]]
    /\ UNCHANGED <<births, current, captured>>

Retire(k) ==
    /\ current' = [current EXCEPT ![k] = 0]
    /\ UNCHANGED <<births, published, captured, answer>>

\* Where the user's key code panics, generations may be lost, and entries that
\* outlived their subject go with the space.
Lose(gone) ==
    /\ KeyPanics
    /\ current' = [k \in Keys |-> IF k \in gone THEN 0 ELSE current[k]]
    /\ UNCHANGED <<births, published, captured, answer>>

Capture(h, b) ==
    /\ captured[h] = 0 /\ b # 0
    /\ captured' = [captured EXCEPT ![h] = b]
    /\ answer' = [answer EXCEPT ![h] = Known(b)]
    /\ UNCHANGED <<births, current, published>>

Forget(h) ==
    /\ captured' = [captured EXCEPT ![h] = 0]
    /\ answer' = [answer EXCEPT ![h] = 0]
    /\ UNCHANGED <<births, current, published>>

Next ==
    \/ \E k \in Keys : Create(k) \/ Retire(k)
    \/ \E gone \in SUBSET Keys : Lose(gone)
    \/ \E b \in 1 .. MaxBirths : Publish(b)
    \/ \E h \in Handles :
          \/ Pair(h) \/ Forget(h)
          \/ \E k \in Keys : Capture(h, current[k])
          \/ \E g \in Handles : Capture(h, captured[g])

Spec == Init /\ [][Next]_vars

=============================================================================
