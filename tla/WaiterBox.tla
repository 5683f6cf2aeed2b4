------------------------------- MODULE WaiterBox -------------------------------
(***************************************************************************)
(* What a slot's registry of waiters means: the set of registered threads  *)
(* plus, for every waker, whether it is persistent and how many futures    *)
(* own it.  Two wakers are the same element of Wakers iff they will_wake   *)
(* each other.  Module Slot uses these boxes for the Vec<Waiter>, and      *)
(* module Registry shows that the vector behaves like one.                 *)
(***************************************************************************)
EXTENDS Naturals

CONSTANTS
    Threads,    \* threads that may block
    Wakers      \* task wakers, up to will_wake

\* The wakers with an entry: retain_mut keeps an entry iff this holds of it.
WakerEntries(b) ==
    b.persistent \cup {w \in Wakers : b.owners[w] # 0}

Entries(b) == b.threads \cup WakerEntries(b)

\* What the critical sections do to the Vec<Waiter>.
PushWaiter(b, t)    == [b EXCEPT !.threads = @ \cup {t}]
RetainOthers(b, t)  == [b EXCEPT !.threads = @ \ {t}]
AddPersistent(b, w) == [b EXCEPT !.persistent = @ \cup {w}]

\* Faulty variant: an entry that exists already is not counted again.
AddOwnerOnce(b, w) == IF w \in WakerEntries(b) THEN b ELSE [b EXCEPT !.owners[w] = 1]

AddOwner(b, w) == [b EXCEPT !.owners[w] = @ + 1]

\* Faulty variants of ReleaseOwners: persistence forgotten, and no test that
\* the entry is still there.
ReleasePersistent(b, ws) ==
    [b EXCEPT !.owners = [w \in Wakers |-> IF w \in ws \cap WakerEntries(b)
                                          THEN b.owners[w] - 1
                                          ELSE b.owners[w]],
              !.persistent = @ \ ws]
ReleaseUnchecked(b, ws) ==
    [b EXCEPT !.owners = [w \in Wakers |-> IF w \in ws THEN b.owners[w] - 1
                                                      ELSE b.owners[w]]]

\* retain_mut of a dropped future that tracks the wakers ws: one owner fewer
\* for each matching entry, which goes when nobody else needs it.
ReleaseOwners(b, ws) ==
    [b EXCEPT !.owners = [w \in Wakers |-> IF w \in ws \cap WakerEntries(b)
                                          THEN b.owners[w] - 1
                                          ELSE b.owners[w]]]

===============================================================================
