---------------------------- MODULE RegistryProofs ----------------------------
(***************************************************************************)
(* Proofs about Registry, for every set of threads, futures and wakers and *)
(* vectors of every length.                                                *)
(*                                                                         *)
(* Vec::retain is a recursive function: KeptFacts says what it computes,   *)
(* by induction on the length in the form of a least counterexample.  With *)
(* it each critical section is shown to do to the vector what WaiterBox    *)
(* says it does to the box (PushBox to RetainMutBox), and the invariant is *)
(* proved about boxes.                                                     *)
(***************************************************************************)
EXTENDS Registry, FiniteSetTheorems, SequenceTheorems, WellFoundedInduction, TLAPS

-------------------------------------------------------------------------------
(***************************************************************************)
(* What Vec::retain computes.                                              *)
(***************************************************************************)

\* A set of naturals that is not empty has a least element.
LEMMA LeastElement ==
    ASSUME NEW T, T \subseteq Nat, T # {}
    PROVE  \E n \in T : \A m \in T : n <= m
<1>1. IsWellFoundedOn(OpToRel(<, Nat), Nat)
  BY NatLessThanWellFounded
<1>2. PICK x \in T : \A y \in T : ~ (<<y, x>> \in OpToRel(<, Nat))
  BY <1>1, WFMin
<1>3. \A y \in T : ~ (y < x)
  BY <1>2 DEF OpToRel
<1> QED BY <1>3

\* Hence induction: a set with 0 and all successors up to n contains n.
LEMMA Induction ==
    ASSUME NEW n \in Nat, NEW T, 0 \in T, \A i \in 0 .. n - 1 : i \in T => i + 1 \in T
    PROVE  \A i \in 0 .. n : i \in T
<1> SUFFICES ASSUME NEW j \in 0 .. n, j \notin T PROVE FALSE
  OBVIOUS
<1> DEFINE C == {i \in 0 .. n : i \notin T}
<1>1. C \subseteq Nat /\ C # {}
  OBVIOUS
<1>2. PICK m \in C : \A i \in C : m <= i
  BY <1>1, LeastElement
<1>3. m \in 0 .. n /\ m # 0 /\ m - 1 \in 0 .. n - 1 /\ m - 1 \notin C
  BY <1>2
<1>4. m - 1 \in T /\ (m - 1) + 1 = m
  BY <1>3
<1> QED BY <1>2, <1>3, <1>4

\* One step of retain, as a condition on the function kept.
Step(v, I, kept, i) ==
    kept[i] = IF i = 0 THEN <<>>
              ELSE IF i \in I THEN Append(kept[i - 1], v[i])
              ELSE kept[i - 1]

\* The recursion of KeepAt has a solution ...
LEMMA KeptExists ==
    ASSUME NEW S, NEW v \in Seq(S), NEW I
    PROVE  \E kept \in [0 .. Len(v) -> Seq(S)] : \A i \in 0 .. Len(v) : Step(v, I, kept, i)
<1> DEFINE T == {n \in 0 .. Len(v) : \E kept \in [0 .. n -> Seq(S)] :
                                        \A i \in 0 .. n : Step(v, I, kept, i)}
<1>0. Len(v) \in Nat
  OBVIOUS
<1>1. 0 \in T
  <2>1. PICK k : k = [i \in 0 .. 0 |-> <<>>]
    OBVIOUS
  <2>2. k \in [0 .. 0 -> Seq(S)] /\ k[0] = <<>>
    BY <2>1
  <2>3. \A i \in 0 .. 0 : Step(v, I, k, i)
    BY <2>2 DEF Step
  <2> QED BY <1>0, <2>2, <2>3
<1>2. ASSUME NEW n \in 0 .. Len(v) - 1, n \in T PROVE n + 1 \in T
  <2>1. PICK k \in [0 .. n -> Seq(S)] : \A i \in 0 .. n : Step(v, I, k, i)
    BY <1>2
  <2>2. n + 1 \in 1 .. Len(v) /\ v[n + 1] \in S
    BY <1>0
  <2>3. PICK x \in Seq(S) : x = IF n + 1 \in I THEN Append(k[n], v[n + 1]) ELSE k[n]
    <3>1. n \in 0 .. n /\ k[n] \in Seq(S)
      BY <1>0, <2>1
    <3>2. Append(k[n], v[n + 1]) \in Seq(S)
      BY <2>2, <3>1
    <3> QED BY <3>1, <3>2
  <2>4. PICK m : m = [i \in 0 .. n + 1 |-> IF i = n + 1 THEN x ELSE k[i]]
    OBVIOUS
  <2>5. m \in [0 .. n + 1 -> Seq(S)]
    BY <2>1, <2>3, <2>4
  <2>6. m[n + 1] = x /\ \A i \in 0 .. n : m[i] = k[i]
    BY <2>4
  <2>7. Step(v, I, m, n + 1)
    BY <2>3, <2>6 DEF Step
  <2>8. ASSUME NEW i \in 0 .. n PROVE Step(v, I, m, i)
    <3>1. CASE i = 0
      BY <2>1, <2>6, <3>1 DEF Step
    <3>2. CASE i # 0
      <4>1. i - 1 \in 0 .. n
        BY <1>0, <3>2
      <4> QED BY <2>1, <2>6, <4>1 DEF Step
    <3> QED BY <3>1, <3>2
  <2>9. \A i \in 0 .. n + 1 : Step(v, I, m, i)
    BY <1>0, <2>7, <2>8
  <2>10. n + 1 \in 0 .. Len(v)
    BY <1>0
  <2> QED BY <2>5, <2>9, <2>10
<1> HIDE DEF T
<1>3. \A i \in 0 .. Len(v) : i \in T
  BY <1>0, <1>1, <1>2, Induction
<1>4. Len(v) \in T
  BY <1>0, <1>3
<1> QED BY <1>4 DEF T

\* ... and KeepAt is its last value.
LEMMA KeptUnfolds ==
    ASSUME NEW S, NEW v \in Seq(S), NEW I
    PROVE  \E kept \in [0 .. Len(v) -> Seq(S)] :
              (\A i \in 0 .. Len(v) : Step(v, I, kept, i)) /\ KeepAt(v, I) = kept[Len(v)]
<1> DEFINE Sol(k) == k = [i \in 0 .. Len(v) |->
                            IF i = 0 THEN <<>>
                            ELSE IF i \in I THEN Append(k[i - 1], v[i])
                            ELSE k[i - 1]]
           kept == CHOOSE k : Sol(k)
<1>1. PICK m \in [0 .. Len(v) -> Seq(S)] : \A i \in 0 .. Len(v) : Step(v, I, m, i)
  BY KeptExists
<1>2. Sol(m)
  BY <1>1 DEF Step
<1>3. Sol(kept)
  BY <1>2
<1>4. KeepAt(v, I) = kept[Len(v)]
  BY DEF KeepAt
<1> HIDE DEF kept
<1>5. \A i \in 0 .. Len(v) : Step(v, I, kept, i)
  BY <1>3 DEF Step
<1>6. DOMAIN kept = 0 .. Len(v)
  BY <1>3
<1>7. \A i \in 0 .. Len(v) : i \in {n \in 0 .. Len(v) : kept[n] \in Seq(S)}
  <2> DEFINE T == {n \in 0 .. Len(v) : kept[n] \in Seq(S)}
  <2>0. Len(v) \in Nat
    OBVIOUS
  <2>1. 0 \in T
    <3>1. 0 \in 0 .. Len(v)
      BY <2>0
    <3>2. kept[0] = <<>>
      BY <1>5, <3>1 DEF Step
    <3>3. <<>> \in Seq(S)
      OBVIOUS
    <3> QED BY <3>1, <3>2, <3>3
  <2>2. ASSUME NEW n \in 0 .. Len(v) - 1, n \in T PROVE n + 1 \in T
    <3>1. n + 1 \in 0 .. Len(v) /\ n + 1 # 0 /\ (n + 1) - 1 = n /\ v[n + 1] \in S
      BY <2>0
    <3>2. kept[n + 1] = IF n + 1 \in I THEN Append(kept[n], v[n + 1]) ELSE kept[n]
      BY <1>5, <3>1 DEF Step
    <3>3. kept[n] \in Seq(S)
      BY <2>2
    <3>4. Append(kept[n], v[n + 1]) \in Seq(S)
      BY <3>1, <3>3
    <3>5. kept[n + 1] \in Seq(S)
      BY <3>2, <3>3, <3>4
    <3> QED BY <3>1, <3>5
  <2> HIDE DEF T
  <2>3. \A i \in 0 .. Len(v) : i \in T
    BY <2>0, <2>1, <2>2, Induction
  <2> QED BY <2>3 DEF T
<1>8. kept \in [0 .. Len(v) -> Seq(S)]
  <2>1. kept = [i \in 0 .. Len(v) |-> kept[i]]
    BY <1>3
  <2> QED BY <1>7, <2>1
<1> QED BY <1>4, <1>5, <1>8

\* g says where the entries of r come from: position j of r is position g[j] of
\* v, and the positions are those of I, each once.
From(r, v, I, g) ==
    /\ g \in [1 .. Len(r) -> I]
    /\ \A j \in 1 .. Len(r) : r[j] = v[g[j]]
    /\ \A j, k \in 1 .. Len(r) : g[j] = g[k] => j = k
    /\ \A i \in I : \E j \in 1 .. Len(r) : g[j] = i

\* A kept entry is appended.
LEMMA FromAppend ==
    ASSUME NEW S, NEW v \in Seq(S), NEW r \in Seq(S), NEW J, NEW g, From(r, v, J, g),
           NEW i \in DOMAIN v, i \notin J
    PROVE  \E h : From(Append(r, v[i]), v, J \cup {i}, h)
<1> DEFINE l == Len(r)
<1>0. l \in Nat /\ v[i] \in S
  OBVIOUS
<1>1. PICK s : s = Append(r, v[i])
  OBVIOUS
<1>2. Len(s) = l + 1 /\ s[l + 1] = v[i] /\ \A j \in 1 .. l : s[j] = r[j]
  BY <1>0, <1>1
<1>3. PICK h : h = [j \in 1 .. l + 1 |-> IF j = l + 1 THEN i ELSE g[j]]
  OBVIOUS
<1>4. h[l + 1] = i /\ \A j \in 1 .. l : h[j] = g[j] /\ h[j] \in J
  <2>1. l + 1 \in 1 .. l + 1 /\ \A j \in 1 .. l : j \in 1 .. l + 1 /\ j # l + 1
    BY <1>0
  <2>2. \A j \in 1 .. l : g[j] \in J
    BY DEF From
  <2> HIDE DEF l
  <2> QED BY <1>3, <2>1, <2>2
<1> HIDE DEF l
<1>5. \A j \in 1 .. l + 1 : j = l + 1 \/ j \in 1 .. l
  BY <1>0
<1>6. l + 1 \in 1 .. l + 1 /\ \A j \in 1 .. l : j \in 1 .. l + 1
  BY <1>0
<1>7. h \in [1 .. l + 1 -> J \cup {i}]
  BY <1>3, <1>4, <1>5
<1>8. \A j \in 1 .. l + 1 : s[j] = v[h[j]]
  BY <1>2, <1>4, <1>5 DEF From, l
<1>9. \A j, k \in 1 .. l + 1 : h[j] = h[k] => j = k
  BY <1>4, <1>5 DEF From, l
<1>10. \A x \in J \cup {i} : \E j \in 1 .. l + 1 : h[j] = x
  <2>1. \A x \in J : \E j \in 1 .. l : h[j] = x
    BY <1>4 DEF From, l
  <2> QED BY <1>4, <1>6, <2>1
<1>11. From(s, v, J \cup {i}, h)
  BY <1>2, <1>7, <1>8, <1>9, <1>10 DEF From
<1> QED BY <1>1, <1>11

\* Vec::retain keeps the entries at I and no other.
LEMMA KeptFacts ==
    ASSUME NEW S, NEW v \in Seq(S), NEW I \in SUBSET (DOMAIN v)
    PROVE  KeepAt(v, I) \in Seq(S) /\ \E g : From(KeepAt(v, I), v, I, g)
<1>0. Len(v) \in Nat /\ DOMAIN v = 1 .. Len(v)
  OBVIOUS
<1>1. PICK kept \in [0 .. Len(v) -> Seq(S)] :
         (\A i \in 0 .. Len(v) : Step(v, I, kept, i)) /\ KeepAt(v, I) = kept[Len(v)]
  BY KeptUnfolds
<1> DEFINE T == {n \in 0 .. Len(v) : \E g : From(kept[n], v, I \cap 1 .. n, g)}
<1>2. 0 \in T
  <2>1. 0 \in 0 .. Len(v)
    BY <1>0
  <2>2. kept[0] = <<>>
    BY <1>1, <2>1 DEF Step
  <2>3. PICK g : g = [j \in {} |-> j]
    OBVIOUS
  <2>4. 1 .. 0 = {} /\ Len(<<>>) = 0 /\ I \cap 1 .. 0 = {}
    OBVIOUS
  <2>5. From(<<>>, v, {}, g)
    BY <2>3, <2>4 DEF From
  <2>6. From(kept[0], v, I \cap 1 .. 0, g)
    BY <2>2, <2>4, <2>5
  <2> QED BY <2>1, <2>6
<1>3. ASSUME NEW n \in 0 .. Len(v) - 1, n \in T PROVE n + 1 \in T
  <2>1. n + 1 \in 0 .. Len(v) /\ n + 1 # 0 /\ (n + 1) - 1 = n /\ n + 1 \in DOMAIN v
        /\ n \in 0 .. Len(v)
    BY <1>0
  <2>2. PICK g : From(kept[n], v, I \cap 1 .. n, g)
    BY <1>3
  <2>3. kept[n + 1] = IF n + 1 \in I THEN Append(kept[n], v[n + 1]) ELSE kept[n]
    BY <1>1, <2>1 DEF Step
  <2>4. 1 .. n + 1 = (1 .. n) \cup {n + 1} /\ n + 1 \notin 1 .. n
    BY <1>0
  <2>5. CASE n + 1 \in I
    <3>1. I \cap 1 .. n + 1 = (I \cap 1 .. n) \cup {n + 1} /\ n + 1 \notin I \cap 1 .. n
      BY <2>4, <2>5
    <3>2. kept[n] \in Seq(S)
      BY <1>1, <2>1
    <3>3. PICK h : From(Append(kept[n], v[n + 1]), v, (I \cap 1 .. n) \cup {n + 1}, h)
      BY <2>1, <2>2, <3>1, <3>2, FromAppend
    <3>4. From(kept[n + 1], v, I \cap 1 .. n + 1, h)
      BY <2>3, <2>5, <3>1, <3>3
    <3> QED BY <2>1, <3>4
  <2>6. CASE n + 1 \notin I
    <3>1. I \cap 1 .. n + 1 = I \cap 1 .. n
      BY <2>4, <2>6
    <3>2. From(kept[n + 1], v, I \cap 1 .. n + 1, g)
      BY <2>2, <2>3, <2>6, <3>1
    <3> QED BY <2>1, <3>2
  <2> QED BY <2>5, <2>6
<1> HIDE DEF T
<1>4. \A i \in 0 .. Len(v) : i \in T
  BY <1>0, <1>2, <1>3, Induction
<1>5. Len(v) \in 0 .. Len(v) /\ I \cap 1 .. Len(v) = I
  BY <1>0
<1>6. \E g : From(kept[Len(v)], v, I \cap 1 .. Len(v), g)
  BY <1>4, <1>5 DEF T
<1>7. kept[Len(v)] \in Seq(S)
  BY <1>1, <1>5
<1> QED BY <1>1, <1>5, <1>6, <1>7

-------------------------------------------------------------------------------
(***************************************************************************)
(* The box of a vector.                                                    *)
(***************************************************************************)

\* A waker has at most one entry.
Unique(v) == \A i, j \in DOMAIN v : v[i].who \in Wakers /\ v[j].who = v[i].who => i = j

\* The only entry of a waker is the one that Matching finds ...
LEMMA OwnersAt ==
    ASSUME NEW v \in Seq(Waiter), Unique(v), NEW i \in DOMAIN v, v[i].who \in Wakers
    PROVE  Matching(v, v[i].who) = i /\ Owners(v, v[i].who) = v[i].future_owners
<1>1. i # 0
  OBVIOUS
<1>2. \A j \in DOMAIN v : v[j].who = v[i].who <=> j = i
  BY DEF Unique
<1>3. Matching(v, v[i].who) = i
  <2>1. {j \in 1 .. Len(v) : v[j].who = v[i].who} = {i}
    BY <1>2
  <2>2. Min({j \in 1 .. Len(v) : v[j].who = v[i].who}) = i
    BY <2>1 DEF Min
  <2> QED BY <2>1, <2>2 DEF Matching, SelectInSeq
<1> QED BY <1>1, <1>3 DEF Owners

\* ... and without an entry there are no owners.
LEMMA OwnersNone ==
    ASSUME NEW v \in Seq(Waiter), NEW w, \A i \in DOMAIN v : v[i].who # w
    PROVE  Matching(v, w) = 0 /\ Owners(v, w) = 0
<1>1. Matching(v, w) = 0
  BY DEF Matching, SelectInSeq
<1> QED BY <1>1 DEF Owners

\* The parts of a box, and when two boxes are the same.
LEMMA BoxParts ==
    ASSUME NEW v \in Seq(Waiter), Unique(v)
    PROVE  /\ Box(v).threads \subseteq Threads /\ Box(v).persistent \subseteq Wakers
           /\ Box(v).owners \in [Wakers -> Nat]
           /\ \A t \in Threads : t \in Box(v).threads <=> \E i \in DOMAIN v : v[i].who = t
           /\ \A w \in Wakers : w \in Box(v).persistent <=>
                 \E i \in DOMAIN v : v[i].who = w /\ v[i].persistent
           /\ \A w \in Wakers : Box(v).owners[w] = Owners(v, w)
<1>1. \A w \in Wakers : Owners(v, w) \in Nat
  <2> TAKE w \in Wakers
  <2>1. CASE \E i \in DOMAIN v : v[i].who = w
    <3>1. PICK i \in DOMAIN v : v[i].who = w
      BY <2>1
    <3>2. v[i] \in Waiter
      OBVIOUS
    <3> QED BY <3>1, <3>2, OwnersAt DEF Waiter
  <2>2. CASE \A i \in DOMAIN v : v[i].who # w
    BY <2>2, OwnersNone
  <2> QED BY <2>1, <2>2
<1> QED BY <1>1 DEF Box

\* A box is the record of its fields.
LEMMA BoxIs ==
    ASSUME NEW v
    PROVE  Box(v) = [threads |-> Box(v).threads, persistent |-> Box(v).persistent,
                     owners |-> [w \in Wakers |-> Owners(v, w)]]
BY DEF Box

\* The operators of WaiterBox on a box, field by field.
LEMMA PushWaiterOf ==
    ASSUME NEW T, NEW P, NEW o, NEW x
    PROVE  PushWaiter([threads |-> T, persistent |-> P, owners |-> o], x) =
             [threads |-> T \cup {x}, persistent |-> P, owners |-> o]
BY DEF PushWaiter

\* RetainOthers.
LEMMA RetainOthersOf ==
    ASSUME NEW T, NEW P, NEW o, NEW x
    PROVE  RetainOthers([threads |-> T, persistent |-> P, owners |-> o], x) =
             [threads |-> T \ {x}, persistent |-> P, owners |-> o]
BY DEF RetainOthers

\* AddPersistent.
LEMMA AddPersistentOf ==
    ASSUME NEW T, NEW P, NEW o, NEW x
    PROVE  AddPersistent([threads |-> T, persistent |-> P, owners |-> o], x) =
             [threads |-> T, persistent |-> P \cup {x}, owners |-> o]
BY DEF AddPersistent

\* AddOwner.
LEMMA AddOwnerOf ==
    ASSUME NEW T, NEW P, NEW o, NEW x
    PROVE  AddOwner([threads |-> T, persistent |-> P, owners |-> o], x) =
             [threads |-> T, persistent |-> P, owners |-> [o EXCEPT ![x] = o[x] + 1]]
BY DEF AddOwner

\* ReleaseOwners, whose test looks at the whole box.
LEMMA ReleaseOwnersOf ==
    ASSUME NEW T, NEW P, NEW o, NEW ws,
           NEW b, b = [threads |-> T, persistent |-> P, owners |-> o]
    PROVE  ReleaseOwners(b, ws) =
             [threads |-> T, persistent |-> P,
              owners |-> [w \in Wakers |-> IF w \in ws \cap WakerEntries(b)
                                           THEN o[w] - 1 ELSE o[w]]]
<1>1. b.owners = o
  OBVIOUS
<1>2. PICK f : f = [w \in Wakers |-> IF w \in ws \cap WakerEntries(b)
                                     THEN o[w] - 1 ELSE o[w]]
  OBVIOUS
<1>3. ReleaseOwners(b, ws) = [b EXCEPT !.owners = f]
  BY <1>1, <1>2 DEF ReleaseOwners
<1> QED BY <1>2, <1>3

\* An entry with the flag set.
LEMMA WaiterPersistent ==
    ASSUME NEW e \in Waiter, NEW f, f = [e EXCEPT !.persistent = TRUE]
    PROVE  /\ f \in Waiter /\ f.who = e.who /\ f.future_owners = e.future_owners
           /\ f.persistent = TRUE
BY DEF Waiter

\* An entry with another count.
LEMMA WaiterOwners ==
    ASSUME NEW e \in Waiter, NEW n \in Nat, NEW f, f = [e EXCEPT !.future_owners = n]
    PROVE  /\ f \in Waiter /\ f.who = e.who /\ f.future_owners = n
           /\ f.persistent = e.persistent
BY DEF Waiter

\* Who is listed in a well-formed vector is who has an entry in its box.
LEMMA ListedIsEntries ==
    ASSUME NEW v \in Seq(Waiter), WellFormed(v)
    PROVE  Listed(v) = Entries(Box(v))
<1>0. Unique(v)
  BY DEF WellFormed, Unique
<1>1. ASSUME NEW i \in DOMAIN v PROVE v[i].who \in Entries(Box(v))
  <2>0. v[i] \in Waiter
    OBVIOUS
  <2>1. CASE v[i].who \in Threads
    BY <1>0, <2>1, BoxParts DEF Entries
  <2>2. CASE v[i].who \in Wakers
    <3>1. Owners(v, v[i].who) = v[i].future_owners
      BY <1>0, <2>2, OwnersAt
    <3>2. v[i].persistent \/ v[i].future_owners # 0
      BY <2>2 DEF WellFormed
    <3> QED BY <1>0, <2>2, <3>1, <3>2, BoxParts DEF Entries, WakerEntries
  <2> QED BY <2>0, <2>1, <2>2 DEF Waiter
<1>2. ASSUME NEW x \in Entries(Box(v)) PROVE x \in Listed(v)
  <2>1. CASE x \in Box(v).threads
    BY <1>0, <2>1, BoxParts DEF Listed
  <2>2. CASE x \in Box(v).persistent
    BY <1>0, <2>2, BoxParts DEF Listed
  <2>3. CASE x \in Wakers /\ Box(v).owners[x] # 0
    <3>1. Owners(v, x) # 0
      BY <1>0, <2>3, BoxParts
    <3> QED BY <3>1, OwnersNone DEF Listed
  <2> QED BY <1>2, <2>1, <2>2, <2>3 DEF Entries, WakerEntries
<1> QED BY <1>1, <1>2 DEF Listed

\* Matching finds an entry exactly if there is one.
LEMMA MatchingListed ==
    ASSUME NEW v \in Seq(Waiter), Unique(v), NEW w \in Wakers
    PROVE  Matching(v, w) # 0 <=> w \in Listed(v)
<1>1. CASE w \in Listed(v)
  <2>1. PICK i \in DOMAIN v : v[i].who = w
    BY <1>1 DEF Listed
  <2>2. Matching(v, w) = i /\ i # 0
    BY <2>1, OwnersAt
  <2> QED BY <1>1, <2>2
<1>2. CASE w \notin Listed(v)
  <2>1. \A i \in DOMAIN v : v[i].who # w
    BY <1>2 DEF Listed
  <2> QED BY <1>2, <2>1, OwnersNone
<1> QED BY <1>1, <1>2

\* The empty vector is well-formed and nobody's,
LEMMA EmptyVector ==
    /\ <<>> \in Seq(Waiter) /\ WellFormed(<<>>)
    /\ Box(<<>>) = [threads |-> {}, persistent |-> {}, owners |-> [w \in Wakers |-> 0]]
    /\ Listed(<<>>) = {}
<1>1. <<>> \in Seq(Waiter) /\ DOMAIN (<<>>) = {}
  OBVIOUS
<1>2. \A w \in Wakers : Owners(<<>>, w) = 0
  BY <1>1, OwnersNone
<1> QED BY <1>1, <1>2 DEF WellFormed, Box, Listed

\* and the only vector whose box is empty.
LEMMA EmptyBox ==
    ASSUME NEW v \in Seq(Waiter), WellFormed(v), Entries(Box(v)) = {}
    PROVE  v = <<>>
<1>1. \A i \in DOMAIN v : FALSE
  <2>1. Listed(v) = {}
    BY ListedIsEntries
  <2> QED BY <2>1 DEF Listed
<1>2. Len(v) \in Nat /\ DOMAIN v = 1 .. Len(v)
  OBVIOUS
<1>3. CASE Len(v) # 0
  <2>1. 1 \in 1 .. Len(v)
    BY <1>2, <1>3
  <2> QED BY <1>1, <1>2, <2>1
<1> QED BY <1>3, EmptySeq

-------------------------------------------------------------------------------
(***************************************************************************)
(* What the critical sections do to the box.                               *)
(***************************************************************************)

\* v with the entry e at its end.
Pushed(v, e) == Append(v, e)

\* The waker that entry e makes persistent.
PersistentOf(e) == {w \in Wakers : w = e.who /\ e.persistent}

\* A new entry, of a thread or of a waker that has none.
LEMMA AppendBox ==
    ASSUME NEW v \in Seq(Waiter), Unique(v), NEW e \in Waiter,
           e.who \in Threads \/ e.who \notin Listed(v),
           NEW u, u = Pushed(v, e)
    PROVE  /\ u \in Seq(Waiter) /\ Unique(u) /\ Listed(u) = Listed(v) \cup {e.who}
           /\ Box(u).threads = Box(v).threads \cup ({e.who} \cap Threads)
           /\ Box(u).persistent = Box(v).persistent \cup PersistentOf(e)
           /\ \A w \in Wakers :
                 Owners(u, w) = IF w = e.who THEN e.future_owners ELSE Owners(v, w)
<1>e. PICK x, n : x = e.who /\ n = e.future_owners
  OBVIOUS
<1>f. e.who = x /\ e.future_owners = n
  BY <1>e
<1> DEFINE m == Len(v)
<1>0. m \in Nat /\ DOMAIN v = 1 .. m
  OBVIOUS
<1>1. /\ u \in Seq(Waiter) /\ DOMAIN u = 1 .. m + 1 /\ u[m + 1] = e
      /\ \A i \in 1 .. m : u[i] = v[i]
  BY <1>0, <1>e DEF Pushed
<1> HIDE DEF m
<1>2. /\ \A i \in 1 .. m + 1 : i \in 1 .. m \/ i = m + 1
      /\ \A i \in 1 .. m : i \in 1 .. m + 1
      /\ m + 1 \in 1 .. m + 1
  BY <1>0
<1>3. x \in Threads => x \notin Wakers
  BY RegistryAssumption
<1>9. x \in Threads \/ \A i \in DOMAIN v : v[i].who # x
  BY <1>f DEF Listed
<1>4. Unique(u)
  BY <1>0, <1>1, <1>2, <1>f, <1>3, <1>9 DEF Unique
<1>5. Listed(u) = Listed(v) \cup {x}
  <2>1. \A i \in DOMAIN u : u[i].who \in Listed(v) \cup {x}
    BY <1>0, <1>1, <1>2, <1>f DEF Listed
  <2>2. \A i \in DOMAIN v : v[i].who \in Listed(u)
    BY <1>0, <1>1, <1>2, <1>f DEF Listed
  <2>3. x \in Listed(u)
    BY <1>0, <1>1, <1>2, <1>f DEF Listed
  <2> QED BY <2>1, <2>2, <2>3 DEF Listed
<1>6. Box(u).threads = Box(v).threads \cup ({x} \cap Threads)
  BY <1>0, <1>1, <1>2, <1>f DEF Box
<1>7. Box(u).persistent = Box(v).persistent \cup PersistentOf(e)
  BY <1>0, <1>1, <1>2 DEF Box, PersistentOf
<1>8. ASSUME NEW w \in Wakers
      PROVE  Owners(u, w) = IF w = x THEN n ELSE Owners(v, w)
  <2>1. CASE w = x
    <3>1. Owners(u, u[m + 1].who) = u[m + 1].future_owners
      BY <1>1, <1>2, <1>4, <1>f, <2>1, OwnersAt
    <3> QED BY <1>1, <1>f, <2>1, <3>1
  <2>2. CASE w # x /\ \E i \in DOMAIN v : v[i].who = w
    <3>1. PICK i \in DOMAIN v : v[i].who = w
      BY <2>2
    <3>2. i \in DOMAIN u /\ u[i] = v[i]
      BY <1>0, <1>1, <1>2, <1>f
    <3>3. Owners(v, w) = v[i].future_owners
      BY <3>1, OwnersAt
    <3>4. Owners(u, w) = u[i].future_owners
      BY <1>1, <1>4, <3>1, <3>2, OwnersAt
    <3> QED BY <2>2, <3>2, <3>3, <3>4
  <2>3. CASE w # x /\ \A i \in DOMAIN v : v[i].who # w
    <3>1. \A i \in DOMAIN u : u[i].who # w
      BY <1>0, <1>1, <1>2, <1>f, <2>3
    <3> QED BY <1>1, <2>3, <3>1, OwnersNone
  <2> QED BY <2>1, <2>2, <2>3
<1> QED BY <1>e, <1>1, <1>4, <1>5, <1>6, <1>7, <1>8

\* An entry that stays, with other flags or owners.
LEMMA UpdateBox ==
    ASSUME NEW v \in Seq(Waiter), Unique(v), NEW u \in Seq(Waiter),
           DOMAIN u = DOMAIN v, \A i \in DOMAIN v : u[i].who = v[i].who
    PROVE  /\ Unique(u) /\ Listed(u) = Listed(v)
           /\ Box(u).threads = Box(v).threads
           /\ \A w \in Wakers : \/ Owners(u, w) = 0 /\ Owners(v, w) = 0
                                   /\ \A i \in DOMAIN v : v[i].who # w
                                \/ \E i \in DOMAIN v :
                                      /\ v[i].who = w
                                      /\ Owners(u, w) = u[i].future_owners
                                      /\ Owners(v, w) = v[i].future_owners
<1>1. Unique(u)
  BY DEF Unique
<1>2. Listed(u) = Listed(v)
  BY DEF Listed
<1>3. Box(u).threads = Box(v).threads
  BY DEF Box
<1>4. ASSUME NEW w \in Wakers, \A i \in DOMAIN v : v[i].who # w
      PROVE  Owners(u, w) = 0 /\ Owners(v, w) = 0
  BY <1>4, OwnersNone
<1>5. ASSUME NEW w \in Wakers, NEW i \in DOMAIN v, v[i].who = w
      PROVE  Owners(u, w) = u[i].future_owners /\ Owners(v, w) = v[i].future_owners
  BY <1>1, <1>5, OwnersAt
<1> QED BY <1>1, <1>2, <1>3, <1>4, <1>5

\* The entries at the positions I are kept.
LEMMA KeepBox ==
    ASSUME NEW v \in Seq(Waiter), Unique(v), NEW I \in SUBSET (DOMAIN v),
           NEW u, u = KeepAt(v, I)
    PROVE  /\ u \in Seq(Waiter) /\ Unique(u)
           /\ \A j \in DOMAIN u : \E i \in I : u[j] = v[i]
           /\ \A i \in I : \E j \in DOMAIN u : u[j] = v[i]
           /\ \A i \in I : v[i].who \in Wakers => Owners(u, v[i].who) = v[i].future_owners
           /\ \A w \in Wakers : (\A i \in I : v[i].who # w) => Owners(u, w) = 0
<1>1. PICK g : u \in Seq(Waiter) /\ From(u, v, I, g)
  BY KeptFacts
<1>2. DOMAIN u = 1 .. Len(u)
  BY <1>1
<1>3. \A j \in DOMAIN u : \E i \in I : u[j] = v[i]
  BY <1>1, <1>2 DEF From
<1>4. \A i \in I : \E j \in DOMAIN u : u[j] = v[i]
  BY <1>1, <1>2 DEF From
<1>5. Unique(u)
  BY <1>1, <1>2 DEF Unique, From
<1>6. ASSUME NEW i \in I, v[i].who \in Wakers
      PROVE  Owners(u, v[i].who) = v[i].future_owners
  BY <1>1, <1>4, <1>5, <1>6, OwnersAt
<1>7. ASSUME NEW w \in Wakers, \A i \in I : v[i].who # w PROVE Owners(u, w) = 0
  BY <1>1, <1>3, <1>7, OwnersNone
<1> QED BY <1>1, <1>3, <1>4, <1>5, <1>6, <1>7

\* push of a thread that is not the last entry's.
LEMMA PushBox ==
    ASSUME NEW v \in Seq(Waiter), WellFormed(v), NEW t \in Threads, NEW u, u = Push(v, t)
    PROVE  u \in Seq(Waiter) /\ WellFormed(u) /\ Box(u) = PushWaiter(Box(v), t)
<1>0. Unique(v)
  BY DEF WellFormed, Unique
<1>1. CASE v # <<>> /\ Last(v).who = t
  <2>1. u = v
    BY <1>1 DEF Push
  <2>2. Len(v) \in DOMAIN v
    BY <1>1
  <2>3. t \in Box(v).threads
    BY <1>0, <1>1, <2>2, BoxParts DEF Last
  <2> QED BY <2>1, <2>3 DEF PushWaiter, Box
<1>2. CASE ~ (v # <<>> /\ Last(v).who = t)
  <2>1. PICK e : e = Entry(t, FALSE, 0)
    OBVIOUS
  <2>2. u = Append(v, e) /\ e.who = t /\ ~ e.persistent /\ e.future_owners = 0
    BY <1>2, <2>1 DEF Push, Entry
  <2>3. t \notin Wakers
    BY RegistryAssumption
  <2>4. /\ u \in Seq(Waiter) /\ Unique(u)
        /\ Box(u).threads = Box(v).threads \cup {t}
        /\ Box(u).persistent = Box(v).persistent
        /\ \A w \in Wakers : Owners(u, w) = Owners(v, w)
    <3>1. /\ u \in Seq(Waiter) /\ Unique(u)
          /\ Box(u).threads = Box(v).threads \cup ({t} \cap Threads)
          /\ Box(u).persistent = Box(v).persistent
          /\ \A y \in Wakers : Owners(u, y) = IF y = t THEN 0 ELSE Owners(v, y)
      <4>1. e \in Waiter
        BY <2>1 DEF Entry, Waiter
      <4>2. u = Pushed(v, e) /\ e.who = t /\ e.future_owners = 0
        BY <2>2 DEF Pushed
      <4>3. e.who \in Threads \/ e.who \notin Listed(v)
        BY <4>2 DEF Listed
      <4>4. /\ u \in Seq(Waiter) /\ Unique(u)
            /\ Box(u).threads = Box(v).threads \cup ({e.who} \cap Threads)
            /\ Box(u).persistent = Box(v).persistent \cup PersistentOf(e)
            /\ \A y \in Wakers :
                  Owners(u, y) = IF y = e.who THEN e.future_owners ELSE Owners(v, y)
        BY <1>0, <4>1, <4>2, <4>3, AppendBox
      <4>5. PersistentOf(e) = {}
        BY <2>2 DEF PersistentOf
      <4> QED BY <4>2, <4>4, <4>5
    <3> QED BY <2>3, <3>1
  <2>5. Box(u) = PushWaiter(Box(v), t)
    <3>1. [w \in Wakers |-> Owners(u, w)] = [w \in Wakers |-> Owners(v, w)]
      BY <2>4
    <3> QED BY <2>4, <3>1, BoxIs, PushWaiterOf
  <2>6. WellFormed(u)
    <3>1. \A i \in DOMAIN u : u[i] = e \/ (i \in DOMAIN v /\ u[i] = v[i])
      BY <2>2
    <3>2. \A i \in DOMAIN u : u[i].who \in Wakers => u[i].persistent \/ u[i].future_owners # 0
      BY <2>2, <2>3, <3>1 DEF WellFormed
    <3> QED BY <2>4, <3>2 DEF WellFormed, Unique
  <2> QED BY <2>4, <2>5, <2>6
<1> QED BY <1>1, <1>2

\* retain of the entries that are not the thread's.
LEMMA RetainBox ==
    ASSUME NEW v \in Seq(Waiter), WellFormed(v), NEW t \in Threads, NEW u, u = Retain(v, t)
    PROVE  u \in Seq(Waiter) /\ WellFormed(u) /\ Box(u) = RetainOthers(Box(v), t)
<1>0. Unique(v)
  BY DEF WellFormed, Unique
<1>1. PICK I \in SUBSET (DOMAIN v) : I = {i \in DOMAIN v : v[i].who # t}
  OBVIOUS
<1>2. u = KeepAt(v, I)
  BY <1>1 DEF Retain
<1>3. /\ u \in Seq(Waiter) /\ Unique(u)
      /\ \A j \in DOMAIN u : \E i \in I : u[j] = v[i]
      /\ \A i \in I : \E j \in DOMAIN u : u[j] = v[i]
      /\ \A i \in I : v[i].who \in Wakers => Owners(u, v[i].who) = v[i].future_owners
      /\ \A w \in Wakers : (\A i \in I : v[i].who # w) => Owners(u, w) = 0
  BY <1>0, <1>2, KeepBox
<1>4. t \notin Wakers
  BY RegistryAssumption
<1>5. Box(u).threads = Box(v).threads \ {t}
  BY <1>1, <1>3 DEF Box
<1>6. Box(u).persistent = Box(v).persistent
  BY <1>1, <1>3, <1>4 DEF Box
<1>7. ASSUME NEW w \in Wakers PROVE Owners(u, w) = Owners(v, w)
  <2>1. CASE \E i \in DOMAIN v : v[i].who = w
    BY <1>0, <1>1, <1>3, <1>4, <2>1, OwnersAt
  <2>2. CASE \A i \in DOMAIN v : v[i].who # w
    BY <1>1, <1>3, <2>2, OwnersNone
  <2> QED BY <2>1, <2>2
<1>8. WellFormed(u)
  <2>1. \A i \in DOMAIN u : u[i].who \in Wakers => u[i].persistent \/ u[i].future_owners # 0
    BY <1>3 DEF WellFormed
  <2> QED BY <1>3, <2>1 DEF WellFormed, Unique
<1>9. Box(u) = RetainOthers(Box(v), t)
  <2>1. [w \in Wakers |-> Owners(u, w)] = [w \in Wakers |-> Owners(v, w)]
    BY <1>7
  <2> QED BY <1>5, <1>6, <2>1, BoxIs, RetainOthersOf
<1> QED BY <1>3, <1>8, <1>9

\* register_waker's critical section.
LEMMA RegisterPersistentBox ==
    ASSUME NEW v \in Seq(Waiter), WellFormed(v), NEW w \in Wakers,
           NEW u, u = RegisterPersistent(v, w)
    PROVE  u \in Seq(Waiter) /\ WellFormed(u) /\ Box(u) = AddPersistent(Box(v), w)
<1>0. Unique(v)
  BY DEF WellFormed, Unique
<1>1. CASE \A i \in DOMAIN v : v[i].who # w
  <2>1. PICK e : e = Entry(w, TRUE, 0)
    OBVIOUS
  <2>2. u = Append(v, e) /\ e.who = w /\ e.persistent /\ e.future_owners = 0
    BY <1>1, <2>1, OwnersNone DEF RegisterPersistent, Entry
  <2>3. w \notin Threads
    BY RegistryAssumption
  <2>4. /\ u \in Seq(Waiter) /\ Unique(u)
        /\ Box(u).threads = Box(v).threads
        /\ Box(u).persistent = Box(v).persistent \cup {w}
        /\ \A x \in Wakers : Owners(u, x) = IF x = w THEN 0 ELSE Owners(v, x)
    <3>1. /\ u \in Seq(Waiter) /\ Unique(u)
          /\ Box(u).threads = Box(v).threads \cup ({w} \cap Threads)
          /\ Box(u).persistent = Box(v).persistent \cup ({w} \cap Wakers)
          /\ \A y \in Wakers : Owners(u, y) = IF y = w THEN 0 ELSE Owners(v, y)
      <4>1. e \in Waiter
        BY <2>1 DEF Entry, Waiter
      <4>2. u = Pushed(v, e) /\ e.who = w /\ e.future_owners = 0
        BY <2>2 DEF Pushed
      <4>3. e.who \in Threads \/ e.who \notin Listed(v)
        BY <1>1, <4>2 DEF Listed
      <4>4. /\ u \in Seq(Waiter) /\ Unique(u)
            /\ Box(u).threads = Box(v).threads \cup ({e.who} \cap Threads)
            /\ Box(u).persistent = Box(v).persistent \cup PersistentOf(e)
            /\ \A y \in Wakers :
                  Owners(u, y) = IF y = e.who THEN e.future_owners ELSE Owners(v, y)
        BY <1>0, <4>1, <4>2, <4>3, AppendBox
      <4>5. PersistentOf(e) = {w} \cap Wakers
        BY <2>2 DEF PersistentOf
      <4> QED BY <4>2, <4>4, <4>5
    <3> QED BY <2>3, <3>1
  <2>5. Owners(v, w) = 0
    BY <1>1, OwnersNone
  <2>6. Box(u) = AddPersistent(Box(v), w)
    <3>1. [x \in Wakers |-> Owners(u, x)] = [x \in Wakers |-> Owners(v, x)]
      BY <2>4, <2>5
    <3> QED BY <2>4, <3>1, BoxIs, AddPersistentOf
  <2>7. \A i \in DOMAIN u : u[i] = e \/ (i \in DOMAIN v /\ u[i] = v[i])
    BY <2>2
  <2>8. \A i \in DOMAIN u : u[i].who \in Wakers => u[i].persistent \/ u[i].future_owners # 0
    BY <2>2, <2>7 DEF WellFormed
  <2>9. WellFormed(u)
    BY <2>4, <2>8 DEF WellFormed, Unique
  <2> QED BY <2>4, <2>6, <2>9
<1>2. CASE \E i \in DOMAIN v : v[i].who = w
  <2>1. PICK i \in DOMAIN v : v[i].who = w
    BY <1>2
  <2>2. Matching(v, w) = i /\ i # 0
    BY <1>0, <2>1, OwnersAt
  <2>3. u = [v EXCEPT ![i].persistent = TRUE]
    BY <2>2 DEF RegisterPersistent
  <2>4. /\ u \in Seq(Waiter) /\ DOMAIN u = DOMAIN v
        /\ \A j \in DOMAIN v : /\ u[j].who = v[j].who
                               /\ u[j].future_owners = v[j].future_owners
                               /\ u[j].persistent = (v[j].persistent \/ j = i)
    <3>0. \A j \in DOMAIN v : v[j] \in Waiter
      OBVIOUS
    <3>1. v[i] \in Waiter /\ [v[i] EXCEPT !.persistent = TRUE] \in Waiter
      BY <3>0, WaiterPersistent
    <3>2. u = [v EXCEPT ![i] = [v[i] EXCEPT !.persistent = TRUE]]
      BY <2>3
    <3>3. u \in Seq(Waiter) /\ DOMAIN u = DOMAIN v
      BY <3>1, <3>2
    <3>4. /\ \A j \in DOMAIN v : j # i => u[j] = v[j]
          /\ u[i] = [v[i] EXCEPT !.persistent = TRUE]
      BY <3>2
    <3>5. u[i].who = v[i].who /\ u[i].future_owners = v[i].future_owners
          /\ u[i].persistent = TRUE
      BY <3>1, <3>4, WaiterPersistent
    <3>6. \A j \in DOMAIN v : v[j].persistent \in BOOLEAN
      BY <3>0 DEF Waiter
    <3> QED BY <3>3, <3>4, <3>5, <3>6
  <2>5. /\ Unique(u) /\ Box(u).threads = Box(v).threads
        /\ \A x \in Wakers : Owners(u, x) = Owners(v, x)
    BY <1>0, <2>4, UpdateBox
  <2>6. Box(u).persistent = Box(v).persistent \cup {w}
    <3>0. \A j \in DOMAIN v : v[j].who = w <=> j = i
      BY <1>0, <2>1 DEF Unique
    <3>1. ASSUME NEW x \in Wakers
          PROVE  x \in Box(u).persistent <=> x \in Box(v).persistent \/ x = w
      <4>1. x \in Box(u).persistent <=> \E j \in DOMAIN u : u[j].who = x /\ u[j].persistent
        BY <2>4, <2>5, BoxParts
      <4>2. x \in Box(v).persistent <=> \E j \in DOMAIN v : v[j].who = x /\ v[j].persistent
        BY <1>0, BoxParts
      <4>3. (\E j \in DOMAIN u : u[j].who = x /\ u[j].persistent) <=>
               \E j \in DOMAIN v : v[j].who = x /\ (v[j].persistent \/ j = i)
        BY <2>4
      <4> QED BY <2>1, <3>0, <4>1, <4>2, <4>3
    <3> QED BY <1>0, <2>4, <2>5, <3>1, BoxParts
  <2>7. Box(u) = AddPersistent(Box(v), w)
    <3>1. [x \in Wakers |-> Owners(u, x)] = [x \in Wakers |-> Owners(v, x)]
      BY <2>5
    <3> QED BY <2>5, <2>6, <3>1, BoxIs, AddPersistentOf
  <2>8. WellFormed(u)
    BY <2>4, <2>5 DEF WellFormed, Unique
  <2> QED BY <2>4, <2>7, <2>8
<1> QED BY <1>1, <1>2

\* register_future_waker's critical section.
LEMMA RegisterOwnerBox ==
    ASSUME NEW v \in Seq(Waiter), WellFormed(v), NEW w \in Wakers,
           NEW u, u = RegisterOwner(v, w)
    PROVE  u \in Seq(Waiter) /\ WellFormed(u) /\ Box(u) = AddOwner(Box(v), w)
<1>0. Unique(v)
  BY DEF WellFormed, Unique
<1>1. CASE \A i \in DOMAIN v : v[i].who # w
  <2>1. PICK e : e = Entry(w, FALSE, 1)
    OBVIOUS
  <2>2. u = Append(v, e) /\ e.who = w /\ ~ e.persistent /\ e.future_owners = 1
    BY <1>1, <2>1, OwnersNone DEF RegisterOwner, Entry
  <2>3. w \notin Threads
    BY RegistryAssumption
  <2>4. /\ u \in Seq(Waiter) /\ Unique(u)
        /\ Box(u).threads = Box(v).threads
        /\ Box(u).persistent = Box(v).persistent
        /\ \A x \in Wakers : Owners(u, x) = IF x = w THEN 1 ELSE Owners(v, x)
    <3>1. /\ u \in Seq(Waiter) /\ Unique(u)
          /\ Box(u).threads = Box(v).threads \cup ({w} \cap Threads)
          /\ Box(u).persistent = Box(v).persistent
          /\ \A y \in Wakers : Owners(u, y) = IF y = w THEN 1 ELSE Owners(v, y)
      <4>1. e \in Waiter
        BY <2>1 DEF Entry, Waiter
      <4>2. u = Pushed(v, e) /\ e.who = w /\ e.future_owners = 1
        BY <2>2 DEF Pushed
      <4>3. e.who \in Threads \/ e.who \notin Listed(v)
        BY <1>1, <4>2 DEF Listed
      <4>4. /\ u \in Seq(Waiter) /\ Unique(u)
            /\ Box(u).threads = Box(v).threads \cup ({e.who} \cap Threads)
            /\ Box(u).persistent = Box(v).persistent \cup PersistentOf(e)
            /\ \A y \in Wakers :
                  Owners(u, y) = IF y = e.who THEN e.future_owners ELSE Owners(v, y)
        BY <1>0, <4>1, <4>2, <4>3, AppendBox
      <4>5. PersistentOf(e) = {}
        BY <2>2 DEF PersistentOf
      <4> QED BY <4>2, <4>4, <4>5
    <3> QED BY <2>3, <3>1
  <2>5. Owners(v, w) = 0
    BY <1>1, OwnersNone
  <2>6. Box(u) = AddOwner(Box(v), w)
    <3>1. PICK o : o = [x \in Wakers |-> Owners(v, x)]
      OBVIOUS
    <3>2. [x \in Wakers |-> Owners(u, x)] = [o EXCEPT ![w] = o[w] + 1]
      BY <2>4, <2>5, <3>1
    <3> QED BY <2>4, <3>1, <3>2, BoxIs, AddOwnerOf
  <2>7. \A i \in DOMAIN u : u[i] = e \/ (i \in DOMAIN v /\ u[i] = v[i])
    BY <2>2
  <2>8. \A i \in DOMAIN u : u[i].who \in Wakers => u[i].persistent \/ u[i].future_owners # 0
    BY <2>2, <2>7 DEF WellFormed
  <2>9. WellFormed(u)
    BY <2>4, <2>8 DEF WellFormed, Unique
  <2> QED BY <2>4, <2>6, <2>9
<1>2. CASE \E i \in DOMAIN v : v[i].who = w
  <2>1. PICK i \in DOMAIN v : v[i].who = w
    BY <1>2
  <2>2. Matching(v, w) = i /\ i # 0
    BY <1>0, <2>1, OwnersAt
  <2>3. u = [v EXCEPT ![i].future_owners = @ + 1]
    BY <2>2 DEF RegisterOwner
  <2>4. /\ u \in Seq(Waiter) /\ DOMAIN u = DOMAIN v
        /\ \A j \in DOMAIN v : u[j].who = v[j].who /\ u[j].persistent = v[j].persistent
        /\ \A j \in DOMAIN v : j # i => u[j] = v[j]
        /\ u[i].future_owners = v[i].future_owners + 1 /\ v[i].future_owners \in Nat
    <3>1. /\ v[i] \in Waiter /\ v[i].future_owners \in Nat
          /\ [v[i] EXCEPT !.future_owners = v[i].future_owners + 1] \in Waiter
      <4>1. v[i] \in Waiter
        OBVIOUS
      <4>2. v[i].future_owners \in Nat
        BY <4>1 DEF Waiter
      <4>3. v[i].future_owners + 1 \in Nat
        BY <4>2
      <4> QED BY <4>1, <4>2, <4>3, WaiterOwners
    <3>2. u = [v EXCEPT ![i] = [v[i] EXCEPT !.future_owners = v[i].future_owners + 1]]
      BY <2>3
    <3>3. u \in Seq(Waiter) /\ DOMAIN u = DOMAIN v
      BY <3>1, <3>2
    <3>4. /\ \A j \in DOMAIN v : j # i => u[j] = v[j]
          /\ u[i] = [v[i] EXCEPT !.future_owners = v[i].future_owners + 1]
      BY <3>2
    <3>5. u[i].who = v[i].who /\ u[i].future_owners = v[i].future_owners + 1
          /\ u[i].persistent = v[i].persistent
      <4>1. v[i].future_owners + 1 \in Nat
        BY <3>1
      <4> QED BY <3>1, <3>4, <4>1, WaiterOwners
    <3> QED BY <3>1, <3>3, <3>4, <3>5
  <2>5. Unique(u) /\ Box(u).threads = Box(v).threads
    BY <1>0, <2>4, UpdateBox
  <2>6. Box(u).persistent = Box(v).persistent
    BY <2>4 DEF Box
  <2>7. ASSUME NEW x \in Wakers, x # w PROVE Owners(u, x) = Owners(v, x)
    BY <1>0, <2>1, <2>4, <2>7, UpdateBox
  <2>8. Owners(u, w) = Owners(v, w) + 1
    BY <1>0, <2>1, <2>4, <2>5, OwnersAt
  <2>9. Box(u) = AddOwner(Box(v), w)
    <3>1. PICK o : o = [x \in Wakers |-> Owners(v, x)]
      OBVIOUS
    <3>2. [x \in Wakers |-> Owners(u, x)] = [o EXCEPT ![w] = o[w] + 1]
      BY <2>7, <2>8, <3>1
    <3> QED BY <2>5, <2>6, <3>1, <3>2, BoxIs, AddOwnerOf
  <2>10. WellFormed(u)
    BY <2>4, <2>5 DEF WellFormed, Unique
  <2> QED BY <2>4, <2>9, <2>10
<1> QED BY <1>1, <1>2

\* retain_mut of a dropped future.  No count is 0 when it is decremented.
LEMMA RetainMutBox ==
    ASSUME NEW v \in Seq(Waiter), WellFormed(v), NEW ws \in SUBSET Wakers,
           \A w \in ws \cap Listed(v) : Owners(v, w) # 0,
           NEW u, u = RetainMut(v, ws)
    PROVE  u \in Seq(Waiter) /\ WellFormed(u) /\ Box(u) = ReleaseOwners(Box(v), ws)
<1>0. Unique(v)
  BY DEF WellFormed, Unique
<1>1. PICK r : r = OwnerLess(v, ws)
  OBVIOUS
<1>2. \A i \in DOMAIN v : v[i].who \in ws => v[i].future_owners # 0
  BY <1>0, OwnersAt DEF Listed
<1>3. \A i \in DOMAIN v :
         /\ v[i] \in Waiter
         /\ v[i].who \in ws => r[i] = [v[i] EXCEPT !.future_owners = v[i].future_owners - 1]
         /\ v[i].who \notin ws => r[i] = v[i]
  BY <1>1 DEF OwnerLess
<1>4. \A i \in DOMAIN v :
         /\ r[i] \in Waiter /\ r[i].who = v[i].who /\ r[i].persistent = v[i].persistent
         /\ v[i].who \in ws => r[i].future_owners = v[i].future_owners - 1
         /\ v[i].who \notin ws => r[i] = v[i]
  <2> TAKE i \in DOMAIN v
  <2>1. CASE v[i].who \in ws
    <3>1. v[i] \in Waiter /\ v[i].future_owners \in Nat
      BY <1>3 DEF Waiter
    <3>2. v[i].future_owners - 1 \in Nat
      BY <1>2, <2>1, <3>1
    <3>3. r[i] = [v[i] EXCEPT !.future_owners = v[i].future_owners - 1]
      BY <1>3, <2>1
    <3>4. PICK n \in Nat : n = v[i].future_owners - 1
      BY <3>2
    <3>5. r[i] = [v[i] EXCEPT !.future_owners = n]
      BY <3>3, <3>4
    <3>6. PICK e \in Waiter : e = v[i]
      BY <3>1
    <3>7. r[i] = [e EXCEPT !.future_owners = n]
      BY <3>5, <3>6
    <3>8. r[i] \in Waiter /\ r[i].who = e.who /\ r[i].persistent = e.persistent
      <4>1. r[i] \in Waiter
        BY <3>7, WaiterOwners
      <4>2. r[i].who = e.who
        BY <3>7, WaiterOwners
      <4>3. r[i].persistent = e.persistent
        BY <3>7, WaiterOwners
      <4> QED BY <4>1, <4>2, <4>3
    <3>9. r[i].future_owners = n
      BY <3>7, WaiterOwners
    <3> QED BY <2>1, <3>4, <3>6, <3>8, <3>9
  <2>2. CASE v[i].who \notin ws
    BY <1>3, <2>2
  <2> QED BY <2>1, <2>2
<1>5. r \in Seq(Waiter) /\ DOMAIN r = DOMAIN v
  <2>1. DOMAIN v = 1 .. Len(v) /\ Len(v) \in Nat
    OBVIOUS
  <2>2. r \in [1 .. Len(v) -> Waiter]
    BY <1>1, <1>4, <2>1 DEF OwnerLess
  <2> QED BY <2>1, <2>2, SeqDef
<1>6. PICK I \in SUBSET (DOMAIN r) :
         I = {i \in DOMAIN r : r[i].who \in ws => r[i].persistent \/ r[i].future_owners # 0}
  OBVIOUS
<1>7. u = KeepAt(r, I)
  BY <1>1, <1>6 DEF RetainMut
<1>8. Unique(r)
  BY <1>0, <1>4, <1>5 DEF Unique
<1>9. /\ u \in Seq(Waiter) /\ Unique(u)
      /\ \A j \in DOMAIN u : \E i \in I : u[j] = r[i]
      /\ \A i \in I : \E j \in DOMAIN u : u[j] = r[i]
      /\ \A i \in I : r[i].who \in Wakers => Owners(u, r[i].who) = r[i].future_owners
      /\ \A w \in Wakers : (\A i \in I : r[i].who # w) => Owners(u, w) = 0
  BY <1>5, <1>7, <1>8, KeepBox
<1>10. WellFormed(u)
  <2>1. \A i \in I : r[i].who \in Wakers => r[i].persistent \/ r[i].future_owners # 0
    BY <1>4, <1>5, <1>6 DEF WellFormed
  <2>2. \A i \in DOMAIN u : u[i].who \in Wakers => u[i].persistent \/ u[i].future_owners # 0
    BY <1>9, <2>1
  <2> QED BY <1>9, <2>2 DEF WellFormed, Unique
<1>11. \A t \in Threads : t \notin ws
  BY RegistryAssumption
<1>12. Box(u).threads = Box(v).threads
  <2>1. \A i \in DOMAIN v : v[i].who \in Threads => i \in I
    BY <1>4, <1>5, <1>6, <1>11
  <2>2. \A t \in Threads : t \in Box(u).threads <=> t \in Box(v).threads
    <3> TAKE t \in Threads
    <3>1. t \in Box(u).threads <=> \E j \in DOMAIN u : u[j].who = t
      BY <1>9, BoxParts
    <3>2. t \in Box(v).threads <=> \E i \in DOMAIN v : v[i].who = t
      BY <1>0, BoxParts
    <3>3. (\E j \in DOMAIN u : u[j].who = t) <=> \E i \in I : r[i].who = t
      BY <1>9
    <3>4. (\E i \in I : r[i].who = t) <=> \E i \in DOMAIN v : v[i].who = t
      BY <1>4, <1>5, <2>1
    <3> QED BY <3>1, <3>2, <3>3, <3>4
  <2> QED BY <1>0, <1>9, <2>2, BoxParts
<1>13. Box(u).persistent = Box(v).persistent
  <2>1. \A i \in DOMAIN v : v[i].persistent => i \in I
    BY <1>4, <1>5, <1>6
  <2>2. \A w \in Wakers : w \in Box(u).persistent <=> w \in Box(v).persistent
    <3> TAKE w \in Wakers
    <3>1. w \in Box(u).persistent <=> \E j \in DOMAIN u : u[j].who = w /\ u[j].persistent
      BY <1>9, BoxParts
    <3>2. w \in Box(v).persistent <=> \E i \in DOMAIN v : v[i].who = w /\ v[i].persistent
      BY <1>0, BoxParts
    <3>3. (\E j \in DOMAIN u : u[j].who = w /\ u[j].persistent)
             <=> \E i \in I : r[i].who = w /\ r[i].persistent
      BY <1>9
    <3>4. (\E i \in I : r[i].who = w /\ r[i].persistent)
             <=> \E i \in DOMAIN v : v[i].who = w /\ v[i].persistent
      BY <1>4, <1>5, <2>1
    <3> QED BY <3>1, <3>2, <3>3, <3>4
  <2> QED BY <1>0, <1>9, <2>2, BoxParts
<1>14. ASSUME NEW w \in Wakers
       PROVE  Owners(u, w) = IF w \in ws \cap WakerEntries(Box(v)) THEN Owners(v, w) - 1
                                                                   ELSE Owners(v, w)
  <2>1. CASE \A i \in DOMAIN v : v[i].who # w
    <3>1. Owners(u, w) = 0 /\ Owners(v, w) = 0
      <4>1. Owners(v, w) = 0
        BY <1>0, <2>1, OwnersNone
      <4>2. \A i \in I : r[i].who # w
        BY <1>4, <1>5, <2>1
      <4>3. \A j \in DOMAIN u : u[j].who # w
        BY <1>9, <4>2
      <4> QED BY <1>9, <4>1, <4>3, OwnersNone
    <3>2. w \notin WakerEntries(Box(v))
      BY <1>0, <2>1, <3>1, BoxParts DEF WakerEntries
    <3> QED BY <3>1, <3>2
  <2>2. CASE \E i \in DOMAIN v : v[i].who = w
    <3>1. PICK i \in DOMAIN v : v[i].who = w
      BY <2>2
    <3>2. Owners(v, w) = v[i].future_owners
      BY <1>0, <3>1, OwnersAt
    <3>3. CASE w \notin ws
      <4>1. i \in I /\ r[i] = v[i]
        BY <1>4, <1>5, <1>6, <3>1, <3>3
      <4> QED BY <1>9, <3>1, <3>2, <3>3, <4>1
    <3>4. CASE w \in ws
      <4>1. w \in WakerEntries(Box(v))
        <5>1. v[i].future_owners # 0
          BY <1>2, <3>1, <3>4
        <5> QED BY <1>0, <3>2, <5>1, BoxParts DEF WakerEntries
      <4>2. r[i].who = w /\ r[i].future_owners = v[i].future_owners - 1
        BY <1>4, <3>1, <3>4
      <4>3. CASE i \in I
        BY <1>9, <3>2, <3>4, <4>1, <4>2, <4>3
      <4>4. CASE i \notin I
        <5>1. v[i].future_owners - 1 = 0
          BY <1>5, <1>6, <3>4, <4>2, <4>4
        <5>2. \A j \in I : r[j].who # w
          BY <1>5, <1>8, <4>2, <4>4 DEF Unique
        <5> QED BY <1>9, <3>2, <3>4, <4>1, <5>1, <5>2
      <4> QED BY <4>3, <4>4
    <3> QED BY <3>3, <3>4
  <2> QED BY <2>1, <2>2
<1>15. Box(u) = ReleaseOwners(Box(v), ws)
  <2>1. PICK o : o = [w \in Wakers |-> Owners(v, w)]
    OBVIOUS
  <2>2. Box(v) = [threads |-> Box(v).threads, persistent |-> Box(v).persistent, owners |-> o]
    BY <2>1, BoxIs
  <2>3. [w \in Wakers |-> Owners(u, w)] =
           [w \in Wakers |-> IF w \in ws \cap WakerEntries(Box(v)) THEN o[w] - 1 ELSE o[w]]
    BY <1>14, <2>1
  <2>4. ReleaseOwners(Box(v), ws) =
          [threads |-> Box(v).threads, persistent |-> Box(v).persistent,
           owners |-> [w \in Wakers |-> IF w \in ws \cap WakerEntries(Box(v))
                                        THEN o[w] - 1 ELSE o[w]]]
    BY <2>2, ReleaseOwnersOf
  <2> QED BY <1>12, <1>13, <2>3, <2>4, BoxIs
<1> QED BY <1>9, <1>10, <1>15

\* The fields of the boxes that the operators make.
LEMMA PushWaiterFields ==
    ASSUME NEW v, NEW x, NEW b, b = PushWaiter(Box(v), x)
    PROVE  /\ b.threads = Box(v).threads \cup {x}
           /\ b.persistent = Box(v).persistent
           /\ b.owners = Box(v).owners
<1>1. PICK T, P, o : Box(v) = [threads |-> T, persistent |-> P, owners |-> o]
  BY BoxIs
<1>2. Box(v).threads = T /\ Box(v).persistent = P /\ Box(v).owners = o
  BY <1>1
<1>3. b = [threads |-> T \cup {x}, persistent |-> P, owners |-> o]
  BY <1>1, PushWaiterOf
<1> QED BY <1>2, <1>3

\* ... of retain, ...
LEMMA RetainOthersFields ==
    ASSUME NEW v, NEW x, NEW b, b = RetainOthers(Box(v), x)
    PROVE  /\ b.threads = Box(v).threads \ {x}
           /\ b.persistent = Box(v).persistent
           /\ b.owners = Box(v).owners
<1>1. PICK T, P, o : Box(v) = [threads |-> T, persistent |-> P, owners |-> o]
  BY BoxIs
<1>2. Box(v).threads = T /\ Box(v).persistent = P /\ Box(v).owners = o
  BY <1>1
<1>3. b = [threads |-> T \ {x}, persistent |-> P, owners |-> o]
  BY <1>1, RetainOthersOf
<1> QED BY <1>2, <1>3

\* ... of register_waker, ...
LEMMA AddPersistentFields ==
    ASSUME NEW v, NEW x, NEW b, b = AddPersistent(Box(v), x)
    PROVE  /\ b.threads = Box(v).threads
           /\ b.persistent = Box(v).persistent \cup {x}
           /\ b.owners = Box(v).owners
<1>1. PICK T, P, o : Box(v) = [threads |-> T, persistent |-> P, owners |-> o]
  BY BoxIs
<1>2. Box(v).threads = T /\ Box(v).persistent = P /\ Box(v).owners = o
  BY <1>1
<1>3. b = [threads |-> T, persistent |-> P \cup {x}, owners |-> o]
  BY <1>1, AddPersistentOf
<1> QED BY <1>2, <1>3

\* ... of register_future_waker, ...
LEMMA AddOwnerFields ==
    ASSUME NEW v, NEW x, NEW b, b = AddOwner(Box(v), x)
    PROVE  /\ b.threads = Box(v).threads
           /\ b.persistent = Box(v).persistent
           /\ \A w \in Wakers : b.owners[w] = IF w = x THEN Box(v).owners[w] + 1
                                                       ELSE Box(v).owners[w]
<1>1. PICK T, P, o : /\ Box(v) = [threads |-> T, persistent |-> P, owners |-> o]
                     /\ o = [w \in Wakers |-> Owners(v, w)]
  BY BoxIs
<1>2. Box(v).threads = T /\ Box(v).persistent = P /\ Box(v).owners = o
  BY <1>1
<1>3. b = [threads |-> T, persistent |-> P, owners |-> [o EXCEPT ![x] = o[x] + 1]]
  BY <1>1, AddOwnerOf
<1>4. b.owners = [o EXCEPT ![x] = o[x] + 1]
  BY <1>3
<1>5. \A w \in Wakers : b.owners[w] = IF w = x THEN o[w] + 1 ELSE o[w]
  BY <1>1, <1>4
<1> QED BY <1>2, <1>3, <1>5

\* ... and of a dropped future's retain_mut.
LEMMA ReleaseOwnersFields ==
    ASSUME NEW v, NEW ws
    PROVE  /\ ReleaseOwners(Box(v), ws).threads = Box(v).threads
           /\ ReleaseOwners(Box(v), ws).persistent = Box(v).persistent
           /\ \A w \in Wakers : ReleaseOwners(Box(v), ws).owners[w] =
                                  IF w \in ws \cap WakerEntries(Box(v))
                                  THEN Box(v).owners[w] - 1 ELSE Box(v).owners[w]
<1>1. PICK T, P, o : Box(v) = [threads |-> T, persistent |-> P, owners |-> o]
  BY BoxIs
<1>2. Box(v).threads = T /\ Box(v).persistent = P /\ Box(v).owners = o
  BY <1>1
<1>3. ReleaseOwners(Box(v), ws) =
        [threads |-> T, persistent |-> P,
         owners |-> [w \in Wakers |-> IF w \in ws \cap WakerEntries(Box(v))
                                      THEN o[w] - 1 ELSE o[w]]]
  BY <1>1, ReleaseOwnersOf
<1> QED BY <1>2, <1>3

-------------------------------------------------------------------------------
(***************************************************************************)
(* The futures that own a waker's entry.                                   *)
(***************************************************************************)

\* Finitely many futures claim a waker.
LEMMA ClaimantsFinite ==
    ASSUME NEW w
    PROVE  /\ IsFiniteSet(Claimants(w)) /\ Cardinality(Claimants(w)) \in Nat
           /\ Cardinality(Claimants(w)) = 0 <=> Claimants(w) = {}
<1>1. Claimants(w) \subseteq Futures
  BY DEF Claimants
<1>2. IsFiniteSet(Claimants(w))
  BY <1>1, RegistryAssumption, FS_Subset
<1> QED BY <1>2, FS_CardinalityType, FS_EmptySet

\* While the futures' wakers stay, so do the claims.
LEMMA ClaimantsStay ==
    ASSUME UNCHANGED <<wakers, polling>>
    PROVE  \A w : Claimants(w)' = Claimants(w)
BY DEF Claimants

\* A registration adds a claim.
LEMMA ClaimantsOfPollRegister ==
    ASSUME TypeOK, NEW f \in Futures, NEW w \in Wakers, PollRegister(f, w), NEW x \in Wakers
    PROVE  Cardinality(Claimants(x)') = IF x = w THEN Cardinality(Claimants(x)) + 1
                                                 ELSE Cardinality(Claimants(x))
<1>0. w # None /\ polling[f] = None /\ w \notin wakers[f]
      /\ wakers' = wakers /\ polling' = [polling EXCEPT ![f] = w]
  BY RegistryAssumption DEF PollRegister
<1>1. \A g \in Futures : polling'[g] = IF g = f THEN w ELSE polling[g]
  BY <1>0 DEF TypeOK
<1>2. CASE x = w
  <2>1. Claimants(x)' = Claimants(x) \cup {f} /\ f \notin Claimants(x)
    BY <1>0, <1>1, <1>2 DEF Claimants
  <2> QED BY <1>2, <2>1, ClaimantsFinite, FS_AddElement
<1>3. CASE x # w
  <2>1. x # None
    BY RegistryAssumption
  <2>2. Claimants(x)' = Claimants(x)
    BY <1>0, <1>1, <1>3, <2>1 DEF Claimants
  <2> QED BY <1>3, <2>2
<1> QED BY <1>2, <1>3

\* Tracking the waker keeps the claim; a poll that is Ready gives it up.
LEMMA ClaimantsOfPollTrack ==
    ASSUME TypeOK, NEW f \in Futures, PollTrack(f), NEW x \in Wakers
    PROVE  /\ ~completed => Claimants(x)' = Claimants(x)
           /\ Cardinality(Claimants(x)') <= Cardinality(Claimants(x))
<1>0. x # None
  BY RegistryAssumption
<1>1. \A g \in Futures : polling'[g] = IF g = f THEN None ELSE polling[g]
  BY DEF TypeOK, PollTrack
<1>2. CASE ~completed
  <2>1. \A g \in Futures : wakers'[g] = IF g = f THEN wakers[f] \cup {polling[f]} ELSE wakers[g]
    BY <1>2 DEF TypeOK, PollTrack
  <2>2. Claimants(x)' = Claimants(x)
    BY <1>0, <1>1, <2>1 DEF Claimants
  <2> QED BY <2>2, ClaimantsFinite
<1>3. CASE completed
  <2>1. wakers' = wakers
    BY <1>3 DEF PollTrack
  <2>2. Claimants(x)' \subseteq Claimants(x)
    BY <1>0, <1>1, <2>1 DEF Claimants
  <2> QED BY <1>3, <2>2, ClaimantsFinite, FS_Subset
<1> QED BY <1>2, <1>3

\* A dropped future gives up its claims.
LEMMA ClaimantsOfDropFuture ==
    ASSUME TypeOK, NEW f \in Futures, DropFuture(f), NEW x \in Wakers
    PROVE  /\ x \in wakers[f] => Cardinality(Claimants(x)) # 0
           /\ Cardinality(Claimants(x)') = IF x \in wakers[f] THEN Cardinality(Claimants(x)) - 1
                                           ELSE Cardinality(Claimants(x))
<1>0. x # None /\ polling[f] = None /\ polling' = polling
  BY RegistryAssumption DEF DropFuture
<1>1. \A g \in Futures : wakers'[g] = IF g = f THEN {} ELSE wakers[g]
  BY DEF TypeOK, DropFuture
<1>2. CASE x \in wakers[f]
  <2>1. Claimants(x)' = Claimants(x) \ {f} /\ f \in Claimants(x)
    BY <1>0, <1>1, <1>2 DEF Claimants
  <2>2. Cardinality(Claimants(x)') = Cardinality(Claimants(x)) - 1
    BY <2>1, ClaimantsFinite, FS_RemoveElement
  <2>3. Cardinality(Claimants(x)) # 0
    BY <2>1, ClaimantsFinite
  <2> QED BY <1>2, <2>2, <2>3
<1>3. CASE x \notin wakers[f]
  <2>1. Claimants(x)' = Claimants(x)
    BY <1>0, <1>1, <1>3 DEF Claimants
  <2> QED BY <1>3, <2>1
<1> QED BY <1>2, <1>3

-------------------------------------------------------------------------------
(***************************************************************************)
(* The critical sections on the vector of the slot.                        *)
(***************************************************************************)

\* A turn of wait or wait_timeout pushes the thread.
LEMMA WaitTurnBox ==
    ASSUME Inv, NEW t \in Threads, WaitTurn(t)
    PROVE  vec' \in Seq(Waiter) /\ WellFormed(vec') /\ Box(vec') = PushWaiter(Box(vec), t)
BY PushBox DEF Inv, TypeOK, InvVector, WaitTurn

\* A turn that finds COMPLETED, or the timeout, takes all its entries out.
LEMMA TimeOutBox ==
    ASSUME Inv, NEW t \in Threads, WaitTurnCompleted(t) \/ TimeOut(t)
    PROVE  vec' \in Seq(Waiter) /\ WellFormed(vec') /\ Box(vec') = RetainOthers(Box(vec), t)
<1>0. vec \in Seq(Waiter) /\ WellFormed(vec)
  BY DEF Inv, TypeOK, InvVector
<1>1. CASE TimeOut(t)
  BY <1>0, <1>1, RetainBox DEF TimeOut
<1>2. CASE WaitTurnCompleted(t)
  <2>1. PICK u : u = Push(vec, t)
    OBVIOUS
  <2>2. u \in Seq(Waiter) /\ WellFormed(u) /\ Box(u) = PushWaiter(Box(vec), t)
    BY <1>0, <2>1, PushBox
  <2>3. vec' = Retain(u, t)
    BY <1>2, <2>1 DEF WaitTurnCompleted
  <2>4. /\ vec' \in Seq(Waiter) /\ WellFormed(vec')
        /\ Box(vec') = RetainOthers(Box(u), t)
    BY <2>2, <2>3, RetainBox
  <2>5. RetainOthers(PushWaiter(Box(vec), t), t) = RetainOthers(Box(vec), t)
    <3>1. PICK T, P, o : Box(vec) = [threads |-> T, persistent |-> P, owners |-> o]
      BY BoxIs
    <3>2. (T \cup {t}) \ {t} = T \ {t}
      OBVIOUS
    <3>3. PushWaiter(Box(vec), t) = [threads |-> T \cup {t}, persistent |-> P, owners |-> o]
      BY <3>1, PushWaiterOf
    <3>4. RetainOthers(PushWaiter(Box(vec), t), t) =
             [threads |-> (T \cup {t}) \ {t}, persistent |-> P, owners |-> o]
      BY <3>3, RetainOthersOf
    <3>5. RetainOthers(Box(vec), t) = [threads |-> T \ {t}, persistent |-> P, owners |-> o]
      BY <3>1, RetainOthersOf
    <3> QED BY <3>2, <3>4, <3>5
  <2> QED BY <2>2, <2>4, <2>5
<1> QED BY <1>1, <1>2

\* register_waker makes the waker's entry persistent.
LEMMA RegisterWakerBox ==
    ASSUME Inv, NEW w \in Wakers, RegisterWaker(w)
    PROVE  vec' \in Seq(Waiter) /\ WellFormed(vec') /\ Box(vec') = AddPersistent(Box(vec), w)
BY RegisterPersistentBox DEF Inv, TypeOK, InvVector, RegisterWaker

\* poll adds an owner.
LEMMA PollRegisterBox ==
    ASSUME Inv, NEW f \in Futures, NEW w \in Wakers, PollRegister(f, w)
    PROVE  vec' \in Seq(Waiter) /\ WellFormed(vec') /\ Box(vec') = AddOwner(Box(vec), w)
BY RegisterOwnerBox DEF Inv, TypeOK, InvVector, PollRegister

\* A future that is dropped has a share in each entry of its wakers that is there.
LEMMA DropFutureBox ==
    ASSUME Inv, NEW f \in Futures, DropFuture(f)
    PROVE  /\ vec' \in Seq(Waiter) /\ WellFormed(vec')
           /\ Box(vec') = ReleaseOwners(Box(vec), wakers[f])
<1>0. vec \in Seq(Waiter) /\ WellFormed(vec) /\ wakers[f] \in SUBSET Wakers
  BY DEF Inv, TypeOK, InvVector
<1>1. ASSUME NEW w \in wakers[f] \cap Listed(vec) PROVE Owners(vec, w) # 0
  <2>1. vec # <<>>
    BY EmptyVector
  <2>2. ~taken
    BY <2>1 DEF Inv, InvVector, TypeOK
  <2>3. w \in Wakers /\ Cardinality(Claimants(w)) # 0
    BY <1>0, ClaimantsOfDropFuture DEF Inv
  <2>4. Box(vec).owners[w] >= Cardinality(Claimants(w))
    BY <2>2, <2>3 DEF Inv, InvVector
  <2>5. Unique(vec)
    BY <1>0 DEF WellFormed, Unique
  <2>6. Box(vec).owners[w] = Owners(vec, w) /\ Owners(vec, w) \in Nat
    BY <1>0, <2>3, <2>5, BoxParts
  <2> QED BY <2>3, <2>4, <2>6, ClaimantsFinite
<1>2. vec' = RetainMut(vec, wakers[f])
  BY DEF DropFuture
<1> QED BY <1>0, <1>1, <1>2, RetainMutBox

-------------------------------------------------------------------------------
(***************************************************************************)
(* Invariance.                                                             *)
(***************************************************************************)

\* The fresh slot satisfies the invariant.
LEMMA InitInv == Init => Inv
<1> SUFFICES ASSUME Init PROVE Inv
  OBVIOUS
<1>1. TypeOK
  BY RegistryAssumption, EmptyVector DEF Init, TypeOK
<1>2. vec = <<>> /\ drain = <<>>
  BY DEF Init
<1>3. \A w \in Wakers : Cardinality(Claimants(w)) = 0
  <2> TAKE w \in Wakers
  <2>1. w # None
    BY RegistryAssumption
  <2>2. Claimants(w) = {}
    BY <2>1 DEF Init, Claimants
  <2> QED BY <2>2, FS_EmptySet
<1>4. /\ Box(vec).threads = {} /\ Box(vec).persistent = {}
      /\ \A w \in Wakers : Box(vec).owners[w] = 0
  BY <1>2, EmptyVector
<1>5. InvVector
  BY <1>2, <1>3, <1>4, EmptyVector DEF Init, InvVector
<1>6. InvDrain
  BY <1>2, EmptyVector DEF Init, InvDrain
<1> QED BY <1>1, <1>5, <1>6 DEF Inv

\* A vector that is empty stays so: nobody waits in it.
LEMMA StaysEmpty ==
    ASSUME NEW v \in Seq(Waiter), WellFormed(v), Box(v).threads = {},
           Box(v).persistent = {}, \A w \in Wakers : Box(v).owners[w] = 0
    PROVE  v = <<>>
<1>1. Entries(Box(v)) = {}
  BY DEF Entries, WakerEntries
<1> QED BY <1>1, EmptyBox

\* A turn that parks: the thread waits and has an entry.
LEMMA WaitTurnInv ==
    ASSUME Inv, NEW t \in Threads, WaitTurn(t) PROVE Inv'
<1>1. /\ vec' \in Seq(Waiter) /\ WellFormed(vec')
      /\ Box(vec').threads = Box(vec).threads \cup {t}
      /\ Box(vec').persistent = Box(vec).persistent
      /\ Box(vec').owners = Box(vec).owners
  <2>1. vec' \in Seq(Waiter) /\ WellFormed(vec') /\ Box(vec') = PushWaiter(Box(vec), t)
    BY WaitTurnBox
  <2> QED BY <2>1, PushWaiterFields
<1>2. \A w \in Wakers : Claimants(w)' = Claimants(w)
  BY ClaimantsStay DEF WaitTurn
<1>3. TypeOK'
  BY <1>1 DEF Inv, TypeOK, WaitTurn
<1>4. ~completed /\ ~taken
  BY DEF Inv, InvVector, WaitTurn
<1>5. InvVector'
  <2>1. /\ waiting' = waiting \cup {t} /\ direct' = direct
        /\ completed' = completed /\ taken' = taken
    BY DEF WaitTurn
  <2> QED BY <1>1, <1>2, <1>4, <2>1 DEF Inv, InvVector
<1>6. InvDrain'
  BY <1>4 DEF Inv, InvDrain, WaitTurn
<1> QED BY <1>3, <1>5, <1>6 DEF Inv

\* A thread leaves with its entries; a vector that was taken stays empty.
LEMMA TimeOutInv ==
    ASSUME Inv, NEW t \in Threads, WaitTurnCompleted(t) \/ TimeOut(t) PROVE Inv'
<1>1. /\ vec' \in Seq(Waiter) /\ WellFormed(vec')
      /\ Box(vec').threads = Box(vec).threads \ {t}
      /\ Box(vec').persistent = Box(vec).persistent
      /\ Box(vec').owners = Box(vec).owners
  <2>1. vec' \in Seq(Waiter) /\ WellFormed(vec') /\ Box(vec') = RetainOthers(Box(vec), t)
    BY TimeOutBox
  <2> QED BY <2>1, RetainOthersFields
<1>2. /\ waiting' = waiting \ {t}
      /\ UNCHANGED <<completed, direct, wakers, polling, drain, taken, wakes>>
  BY DEF WaitTurnCompleted, TimeOut
<1>3. \A w \in Wakers : Claimants(w)' = Claimants(w)
  BY <1>2, ClaimantsStay
<1>4. TypeOK'
  BY <1>1, <1>2 DEF Inv, TypeOK
<1>5. ASSUME taken PROVE vec' = <<>>
  <2>1. vec = <<>>
    BY <1>5 DEF Inv, InvVector
  <2>2. /\ Box(vec).threads = {} /\ Box(vec).persistent = {}
        /\ \A w \in Wakers : Box(vec).owners[w] = 0
    BY <2>1, EmptyVector
  <2>3. /\ Box(vec').threads = {} /\ Box(vec').persistent = {}
        /\ \A w \in Wakers : Box(vec').owners[w] = 0
    BY <1>1, <2>2
  <2> QED BY <1>1, <2>3, StaysEmpty
<1>6. InvVector'
  BY <1>1, <1>2, <1>3, <1>5 DEF Inv, InvVector
<1>7. InvDrain'
  BY <1>2 DEF Inv, InvDrain
<1> QED BY <1>4, <1>6, <1>7 DEF Inv

\* A thread leaves without its entries.
LEMMA WaitReturnsInv ==
    ASSUME Inv, NEW t \in Threads, WaitReturns(t) PROVE Inv'
<1>1. /\ waiting' = waiting \ {t}
      /\ UNCHANGED <<vec, completed, direct, wakers, polling, drain, taken, wakes>>
  BY DEF WaitReturns
<1>2. \A w \in Wakers : Claimants(w)' = Claimants(w)
  BY <1>1, ClaimantsStay
<1>3. TypeOK'
  BY <1>1 DEF Inv, TypeOK
<1>4. InvVector'
  BY <1>1, <1>2 DEF Inv, InvVector
<1>5. InvDrain'
  BY <1>1 DEF Inv, InvDrain
<1> QED BY <1>3, <1>4, <1>5 DEF Inv

\* A direct registration, before the vector is taken.
LEMMA RegisterWakerInv ==
    ASSUME Inv, NEW w \in Wakers, RegisterWaker(w) PROVE Inv'
<1>1. /\ vec' \in Seq(Waiter) /\ WellFormed(vec')
      /\ Box(vec').threads = Box(vec).threads
      /\ Box(vec').persistent = Box(vec).persistent \cup {w}
      /\ Box(vec').owners = Box(vec).owners
  <2>1. vec' \in Seq(Waiter) /\ WellFormed(vec') /\ Box(vec') = AddPersistent(Box(vec), w)
    BY RegisterWakerBox
  <2> QED BY <2>1, AddPersistentFields
<1>2. /\ direct' = direct \cup {w} /\ ~completed
      /\ UNCHANGED <<completed, waiting, wakers, polling, drain, taken, wakes>>
  BY DEF RegisterWaker
<1>3. \A x \in Wakers : Claimants(x)' = Claimants(x)
  BY <1>2, ClaimantsStay
<1>4. TypeOK'
  BY <1>1, <1>2 DEF Inv, TypeOK
<1>5. ~taken
  BY <1>2 DEF Inv, InvVector
<1>6. InvVector'
  BY <1>1, <1>2, <1>3, <1>5 DEF Inv, InvVector
<1>7. InvDrain'
  BY <1>2, <1>5 DEF Inv, InvDrain
<1> QED BY <1>4, <1>6, <1>7 DEF Inv

\* A future's registration: one owner and one claimant more.
LEMMA PollRegisterInv ==
    ASSUME Inv, NEW f \in Futures, NEW w \in Wakers, PollRegister(f, w) PROVE Inv'
<1>0. vec \in Seq(Waiter) /\ Unique(vec) /\ TypeOK
  BY DEF Inv, TypeOK, InvVector, WellFormed, Unique
<1>1. /\ vec' \in Seq(Waiter) /\ WellFormed(vec')
      /\ Box(vec').threads = Box(vec).threads
      /\ Box(vec').persistent = Box(vec).persistent
      /\ \A x \in Wakers : Box(vec').owners[x] = IF x = w THEN Box(vec).owners[x] + 1
                                                          ELSE Box(vec).owners[x]
  <2>1. vec' \in Seq(Waiter) /\ WellFormed(vec') /\ Box(vec') = AddOwner(Box(vec), w)
    BY PollRegisterBox
  <2> QED BY <2>1, AddOwnerFields
<1>2. /\ polling' = [polling EXCEPT ![f] = w] /\ ~completed
      /\ UNCHANGED <<completed, waiting, direct, wakers, drain, taken, wakes>>
  BY DEF PollRegister
<1>3. \A x \in Wakers :
         Cardinality(Claimants(x)') = IF x = w THEN Cardinality(Claimants(x)) + 1
                                               ELSE Cardinality(Claimants(x))
  BY <1>0, ClaimantsOfPollRegister
<1>4. TypeOK'
  BY <1>1, <1>2 DEF Inv, TypeOK
<1>5. ~taken
  BY <1>2 DEF Inv, InvVector
<1>6. \A x \in Wakers : Box(vec').owners[x] = Cardinality(Claimants(x)')
                        /\ Cardinality(Claimants(x)') \in Nat
  <2>1. \A x \in Wakers : Box(vec).owners[x] = Cardinality(Claimants(x))
    BY <1>2 DEF Inv, InvVector
  <2>2. \A x \in Wakers : Cardinality(Claimants(x)) \in Nat
    BY ClaimantsFinite
  <2> QED BY <1>1, <1>3, <2>1, <2>2
<1>7. InvVector'
  BY <1>1, <1>2, <1>5, <1>6 DEF Inv, InvVector
<1>8. InvDrain'
  BY <1>2, <1>5 DEF Inv, InvDrain
<1> QED BY <1>4, <1>7, <1>8 DEF Inv

\* The future tracks its waker, or is Ready and its claim ends.
LEMMA PollTrackInv ==
    ASSUME Inv, NEW f \in Futures, PollTrack(f) PROVE Inv'
<1>1. /\ polling' = [polling EXCEPT ![f] = None]
      /\ wakers' = IF completed THEN wakers ELSE [wakers EXCEPT ![f] = @ \cup {polling[f]}]
      /\ polling[f] # None
      /\ UNCHANGED <<vec, completed, waiting, direct, drain, taken, wakes>>
  BY DEF PollTrack
<1>2. TypeOK'
  BY <1>1 DEF Inv, TypeOK
<1>3. \A w \in Wakers : /\ ~completed => Claimants(w)' = Claimants(w)
                        /\ Cardinality(Claimants(w)') <= Cardinality(Claimants(w))
  BY ClaimantsOfPollTrack DEF Inv
<1>4. /\ \A w \in Wakers : Cardinality(Claimants(w)) \in Nat
      /\ \A w \in Wakers : Cardinality(Claimants(w)') \in Nat
  <2>1. \A w : Cardinality(Claimants(w)) \in Nat
    BY ClaimantsFinite
  <2>2. \A w : Claimants(w)' \subseteq Futures
    BY DEF Claimants
  <2>3. \A w : Cardinality(Claimants(w)') \in Nat
    BY <2>2, RegistryAssumption, FS_Subset, FS_CardinalityType
  <2> QED BY <2>1, <2>3
<1>5. Box(vec).owners \in [Wakers -> Nat]
  <2>1. vec \in Seq(Waiter) /\ Unique(vec)
    BY DEF Inv, TypeOK, InvVector, WellFormed, Unique
  <2> QED BY <2>1, BoxParts
<1>6. Box(vec)' = Box(vec)
  BY <1>1
<1>7. InvVector'
  <2>1. WellFormed(vec)'
    BY <1>1 DEF Inv, InvVector
  <2>2. ASSUME ~taken'
        PROVE  /\ waiting' \subseteq Box(vec)'.threads /\ Box(vec)'.persistent = direct'
               /\ \A w \in Wakers : Box(vec)'.owners[w] >= Cardinality(Claimants(w)')
    <3>1. /\ waiting \subseteq Box(vec).threads /\ Box(vec).persistent = direct
          /\ \A w \in Wakers : Box(vec).owners[w] >= Cardinality(Claimants(w))
      BY <1>1, <2>2 DEF Inv, InvVector
    <3>2. ASSUME NEW w \in Wakers PROVE Box(vec)'.owners[w] >= Cardinality(Claimants(w)')
      <4>1. /\ Box(vec).owners[w] \in Nat
            /\ Cardinality(Claimants(w)) \in Nat /\ Cardinality(Claimants(w)') \in Nat
            /\ Box(vec).owners[w] >= Cardinality(Claimants(w))
            /\ Cardinality(Claimants(w)') <= Cardinality(Claimants(w))
        BY <1>3, <1>4, <1>5, <3>1
      <4> QED BY <1>6, <4>1
    <3> QED BY <1>1, <1>6, <3>1, <3>2
  <2>3. ASSUME ~completed'
        PROVE  \A w \in Wakers : Box(vec)'.owners[w] = Cardinality(Claimants(w)')
    BY <1>1, <1>3, <1>6, <2>3 DEF Inv, InvVector
  <2>4. taken' => completed' /\ vec' = <<>>
    BY <1>1 DEF Inv, InvVector
  <2> QED BY <2>1, <2>2, <2>3, <2>4 DEF InvVector
<1>8. InvDrain'
  <2>1. CASE completed
    BY <1>1, <2>1 DEF Inv, InvDrain
  <2>2. CASE ~completed
    <3>1. ~taken
      BY <2>2 DEF Inv, InvVector
    <3> QED BY <1>1, <3>1 DEF Inv, InvDrain
  <2> QED BY <2>1, <2>2
<1> QED BY <1>2, <1>7, <1>8 DEF Inv

\* A dropped future: one owner and one claimant less for each of its wakers.
LEMMA DropFutureInv ==
    ASSUME Inv, NEW f \in Futures, DropFuture(f) PROVE Inv'
<1>0. vec \in Seq(Waiter) /\ Unique(vec) /\ TypeOK
  BY DEF Inv, TypeOK, InvVector, WellFormed, Unique
<1>1. /\ vec' \in Seq(Waiter) /\ WellFormed(vec')
      /\ Box(vec').threads = Box(vec).threads
      /\ Box(vec').persistent = Box(vec).persistent
      /\ \A w \in Wakers : Box(vec').owners[w] =
                             IF w \in wakers[f] \cap WakerEntries(Box(vec))
                             THEN Box(vec).owners[w] - 1 ELSE Box(vec).owners[w]
  BY DropFutureBox, ReleaseOwnersFields
<1>2. /\ wakers' = [wakers EXCEPT ![f] = {}]
      /\ UNCHANGED <<completed, waiting, direct, polling, drain, taken, wakes>>
  BY DEF DropFuture
<1>3. TypeOK'
  BY <1>1, <1>2 DEF Inv, TypeOK
<1>4. \A w \in Wakers :
         /\ w \in wakers[f] => Cardinality(Claimants(w)) # 0
         /\ Cardinality(Claimants(w)') = IF w \in wakers[f] THEN Cardinality(Claimants(w)) - 1
                                         ELSE Cardinality(Claimants(w))
         /\ Cardinality(Claimants(w)) \in Nat
  BY <1>0, ClaimantsOfDropFuture, ClaimantsFinite
<1>5. \A w \in Wakers : Box(vec).owners[w] \in Nat
  BY <1>0, BoxParts
<1>6. ASSUME ~taken PROVE \A w \in wakers[f] : w \in WakerEntries(Box(vec))
  <2> TAKE w \in wakers[f]
  <2>1. w \in Wakers
    BY <1>0 DEF TypeOK
  <2>2. Box(vec).owners[w] >= Cardinality(Claimants(w))
    BY <1>6, <2>1 DEF Inv, InvVector
  <2>3. Box(vec).owners[w] # 0
    BY <1>4, <1>5, <2>1, <2>2
  <2> QED BY <2>1, <2>3 DEF WakerEntries
<1>7. ASSUME ~taken, NEW w \in Wakers
      PROVE  Box(vec').owners[w] - Cardinality(Claimants(w)') =
               Box(vec).owners[w] - Cardinality(Claimants(w))
             /\ Box(vec').owners[w] \in Int /\ Cardinality(Claimants(w)') \in Int
  <2>1. CASE w \in wakers[f]
    <3>1. Box(vec').owners[w] = Box(vec).owners[w] - 1
      BY <1>1, <1>6, <1>7, <2>1
    <3>2. Cardinality(Claimants(w)') = Cardinality(Claimants(w)) - 1
      BY <1>4, <2>1
    <3> QED BY <1>4, <1>5, <3>1, <3>2
  <2>2. CASE w \notin wakers[f]
    <3>1. Box(vec').owners[w] = Box(vec).owners[w]
      BY <1>1, <2>2
    <3>2. Cardinality(Claimants(w)') = Cardinality(Claimants(w))
      BY <1>4, <2>2
    <3> QED BY <1>4, <1>5, <3>1, <3>2
  <2> QED BY <2>1, <2>2
<1>8. InvVector'
  <2>1. ASSUME ~taken
        PROVE  /\ waiting' \subseteq Box(vec').threads /\ Box(vec').persistent = direct'
               /\ \A w \in Wakers : Box(vec').owners[w] >= Cardinality(Claimants(w)')
    <3>1. ASSUME NEW w \in Wakers PROVE Box(vec').owners[w] >= Cardinality(Claimants(w)')
      <4>1. Box(vec).owners[w] >= Cardinality(Claimants(w))
        BY <2>1 DEF Inv, InvVector
      <4> QED BY <1>4, <1>5, <1>7, <2>1, <4>1
    <3> QED BY <1>1, <1>2, <2>1, <3>1 DEF Inv, InvVector
  <2>2. ASSUME ~completed, NEW w \in Wakers
        PROVE  Box(vec').owners[w] = Cardinality(Claimants(w)')
    <3>1. Box(vec).owners[w] = Cardinality(Claimants(w)) /\ ~taken
      BY <2>2 DEF Inv, InvVector
    <3> QED BY <1>4, <1>5, <1>7, <3>1
  <2>3. ASSUME taken PROVE completed /\ vec' = <<>>
    <3>1. vec = <<>> /\ completed
      BY <2>3 DEF Inv, InvVector
    <3>2. /\ Box(vec).threads = {} /\ Box(vec).persistent = {}
          /\ \A w \in Wakers : Box(vec).owners[w] = 0
      BY <3>1, EmptyVector
    <3>3. WakerEntries(Box(vec)) = {}
      BY <3>2 DEF WakerEntries
    <3>4. /\ Box(vec').threads = {} /\ Box(vec').persistent = {}
          /\ \A w \in Wakers : Box(vec').owners[w] = 0
      BY <1>1, <3>2, <3>3
    <3> QED BY <1>1, <3>1, <3>4, StaysEmpty
  <2> QED BY <1>1, <1>2, <2>1, <2>2, <2>3 DEF InvVector
<1>9. InvDrain'
  <2>1. \A g \in Futures : wakers'[g] \subseteq wakers[g]
    BY <1>0, <1>2 DEF TypeOK
  <2>2. UNION {wakers'[g] : g \in Futures} \subseteq UNION {wakers[g] : g \in Futures}
    BY <2>1
  <2> QED BY <1>2, <2>2 DEF Inv, InvDrain
<1> QED BY <1>3, <1>8, <1>9 DEF Inv

\* From the publication on the counts are only bounds.
LEMMA PublishInv ==
    ASSUME Inv, Publish PROVE Inv'
<1>1. /\ ~completed /\ completed' = TRUE
      /\ UNCHANGED <<vec, waiting, direct, wakers, polling, drain, taken, wakes>>
  BY DEF Publish
<1>2. \A w \in Wakers : Claimants(w)' = Claimants(w)
  BY <1>1, ClaimantsStay
<1>3. TypeOK'
  BY <1>1 DEF Inv, TypeOK
<1>4. InvVector'
  BY <1>1, <1>2 DEF Inv, InvVector
<1>5. InvDrain'
  BY <1>1 DEF Inv, InvDrain
<1> QED BY <1>3, <1>4, <1>5 DEF Inv

\* The drain has everybody who waits.
LEMMA TakeInv ==
    ASSUME Inv, Take PROVE Inv'
<1>1. /\ completed /\ ~taken /\ taken' = TRUE /\ drain' = vec /\ vec' = <<>>
      /\ UNCHANGED <<completed, waiting, direct, wakers, polling, wakes>>
  BY DEF Take
<1>2. vec \in Seq(Waiter) /\ WellFormed(vec) /\ TypeOK
  BY DEF Inv, TypeOK, InvVector
<1>3. TypeOK'
  BY <1>1, <1>2, EmptyVector DEF TypeOK
<1>4. InvVector'
  BY <1>1, EmptyVector DEF InvVector
<1>5. Listed(vec) = Entries(Box(vec))
  BY <1>2, ListedIsEntries
<1>6. waiting \subseteq Listed(vec) /\ direct \subseteq Listed(vec)
  BY <1>1, <1>5 DEF Inv, InvVector, Entries, WakerEntries
<1>7. ASSUME NEW f \in Futures, NEW w \in wakers[f] PROVE w \in Listed(vec)
  <2>1. w \in Wakers
    BY <1>2 DEF TypeOK
  <2>2. Claimants(w) # {}
    BY <1>7 DEF Claimants
  <2>3. Cardinality(Claimants(w)) # 0 /\ Cardinality(Claimants(w)) \in Nat
    BY <2>2, ClaimantsFinite
  <2>4. Box(vec).owners[w] >= Cardinality(Claimants(w))
    BY <1>1, <2>1 DEF Inv, InvVector
  <2>5. Box(vec).owners[w] # 0
    BY <2>3, <2>4
  <2> QED BY <1>5, <2>1, <2>5 DEF Entries, WakerEntries
<1>8. InvDrain'
  <2>1. direct \cup (UNION {wakers[f] : f \in Futures}) \subseteq Listed(vec)
    BY <1>6, <1>7
  <2>2. \A w \in Wakers : wakes[w] = 0
    BY <1>1 DEF Inv, InvDrain
  <2> QED BY <1>1, <1>2, <1>6, <2>1, <2>2 DEF InvDrain
<1> QED BY <1>3, <1>4, <1>8 DEF Inv

\* The first entry of the drain, which is no other's if it is a waker's.
LEMMA HeadOfDrain ==
    ASSUME NEW v \in Seq(Waiter), WellFormed(v), v # <<>>
    PROVE  /\ Tail(v) \in Seq(Waiter) /\ WellFormed(Tail(v))
           /\ Head(v).who \in Threads \cup Wakers
           /\ Listed(v) = Listed(Tail(v)) \cup {Head(v).who}
           /\ Head(v).who \in Wakers => Head(v).who \notin Listed(Tail(v))
<1>1. PICK u : u = Tail(v)
  OBVIOUS
<1>2. /\ u \in Seq(Waiter) /\ Len(v) \in Nat \ {0} /\ Len(u) = Len(v) - 1
      /\ \A i \in 1 .. Len(u) : u[i] = v[i + 1]
      /\ Head(v) = v[1]
  BY <1>1
<1>3. DOMAIN v = 1 .. Len(v) /\ DOMAIN u = 1 .. Len(u)
  BY <1>2
<1>4. /\ \A i \in DOMAIN u : i + 1 \in DOMAIN v /\ i + 1 # 1 /\ u[i] = v[i + 1]
      /\ \A i, j \in DOMAIN u : i + 1 = j + 1 => i = j
      /\ 1 \in DOMAIN v
      /\ \A i \in DOMAIN v : i = 1 \/ (i - 1 \in DOMAIN u /\ u[i - 1] = v[i])
  BY <1>2, <1>3
<1>5. v[1].who \in Threads \cup Wakers
  <2>1. v[1] \in Waiter
    BY <1>4
  <2> QED BY <2>1 DEF Waiter
<1>6. WellFormed(u)
  BY <1>4 DEF WellFormed
<1>7. Listed(v) = Listed(u) \cup {v[1].who}
  BY <1>4 DEF Listed
<1>8. v[1].who \in Wakers => v[1].who \notin Listed(u)
  BY <1>4 DEF WellFormed, Listed
<1> QED BY <1>1, <1>2, <1>5, <1>6, <1>7, <1>8

\* The first entry of the drain is notified; no other is its waker's.
LEMMA NotifyInv ==
    ASSUME Inv, Notify PROVE Inv'
<1>1. PICK x : x = Head(drain).who
  OBVIOUS
<1>2. /\ drain # <<>> /\ wakes' = [wakes EXCEPT ![x] = @ + 1] /\ drain' = Tail(drain)
      /\ UNCHANGED <<vec, completed, waiting, direct, wakers, polling, taken>>
  BY <1>1 DEF Notify
<1>3. drain \in Seq(Waiter) /\ WellFormed(drain)
  BY DEF Inv, TypeOK, InvDrain
<1>4. /\ drain' \in Seq(Waiter) /\ WellFormed(drain') /\ x \in Threads \cup Wakers
      /\ Listed(drain) = Listed(drain') \cup {x}
      /\ x \in Wakers => x \notin Listed(drain')
  BY <1>1, <1>2, <1>3, HeadOfDrain
<1>5. wakes \in [Threads \cup Wakers -> Nat]
  BY DEF Inv, TypeOK
<1>6. \A y \in Threads \cup Wakers : wakes'[y] = IF y = x THEN wakes[y] + 1 ELSE wakes[y]
  BY <1>2, <1>5
<1>7. TypeOK'
  <2>1. wakes' \in [Threads \cup Wakers -> Nat]
    BY <1>2, <1>4, <1>5
  <2> QED BY <1>2, <1>4, <2>1 DEF Inv, TypeOK
<1>8. \A w \in Wakers : Claimants(w)' = Claimants(w)
  BY <1>2, ClaimantsStay
<1>9. InvVector'
  BY <1>2, <1>8 DEF Inv, InvVector
<1>10. taken
  BY <1>2 DEF Inv, InvDrain
<1>11. \A w \in Wakers : wakes'[w] = 0 \/ (wakes'[w] = 1 /\ w \notin Listed(drain'))
  <2> TAKE w \in Wakers
  <2>1. wakes[w] = 0 \/ (wakes[w] = 1 /\ w \notin Listed(drain))
    BY DEF Inv, InvDrain
  <2>2. CASE w = x
    BY <1>4, <1>6, <2>1, <2>2
  <2>3. CASE w # x
    BY <1>4, <1>6, <2>1, <2>3
  <2> QED BY <2>2, <2>3
<1>12. \A w \in direct \cup (UNION {wakers[f] : f \in Futures}) :
          wakes'[w] = 1 \/ w \in Listed(drain')
  <2> TAKE w \in direct \cup (UNION {wakers[f] : f \in Futures})
  <2>0. w \in Wakers
    BY DEF Inv, TypeOK
  <2>1. wakes[w] = 1 \/ w \in Listed(drain)
    BY <1>10 DEF Inv, InvDrain
  <2>2. wakes[w] = 0 \/ (wakes[w] = 1 /\ w \notin Listed(drain))
    BY <2>0 DEF Inv, InvDrain
  <2>3. CASE w = x
    BY <1>4, <1>6, <2>0, <2>2, <2>3
  <2>4. CASE w # x
    BY <1>4, <1>6, <2>0, <2>1, <2>4
  <2> QED BY <2>3, <2>4
<1>13. \A t \in waiting : wakes'[t] >= 1 \/ t \in Listed(drain')
  <2> TAKE t \in waiting
  <2>0. t \in Threads /\ wakes[t] \in Nat
    BY <1>5 DEF Inv, TypeOK
  <2>1. wakes[t] >= 1 \/ t \in Listed(drain)
    BY <1>10 DEF Inv, InvDrain
  <2>2. CASE t = x
    BY <1>6, <2>0, <2>2
  <2>3. CASE t # x
    BY <1>4, <1>6, <2>0, <2>1, <2>3
  <2> QED BY <2>2, <2>3
<1>14. InvDrain'
  BY <1>2, <1>4, <1>10, <1>11, <1>12, <1>13 DEF InvDrain
<1> QED BY <1>7, <1>9, <1>14 DEF Inv

\* Every step keeps the invariant.
LEMMA NextInv ==
    ASSUME Inv, [Next]_vars PROVE Inv'
<1>1. ASSUME NEW t \in Threads,
             WaitTurn(t) \/ WaitTurnCompleted(t) \/ WaitReturns(t) \/ TimeOut(t)
      PROVE  Inv'
  BY <1>1, WaitTurnInv, TimeOutInv, WaitReturnsInv
<1>2. ASSUME NEW w \in Wakers, RegisterWaker(w) \/ \E f \in Futures : PollRegister(f, w)
      PROVE  Inv'
  BY <1>2, RegisterWakerInv, PollRegisterInv
<1>3. ASSUME NEW f \in Futures, PollTrack(f) \/ DropFuture(f) PROVE Inv'
  BY <1>3, PollTrackInv, DropFutureInv
<1>4. ASSUME Publish \/ Take \/ Notify PROVE Inv'
  BY <1>4, PublishInv, TakeInv, NotifyInv
<1>5. ASSUME UNCHANGED vars PROVE Inv'
  <2>1. \A w \in Wakers : Claimants(w)' = Claimants(w)
    BY <1>5, ClaimantsStay DEF vars
  <2> QED BY <1>5, <2>1 DEF vars, Inv, TypeOK, InvVector, InvDrain
<1> QED BY <1>1, <1>2, <1>3, <1>4, <1>5 DEF Next

-------------------------------------------------------------------------------
(***************************************************************************)
(* The theorems.                                                           *)
(***************************************************************************)

\* Inv is an invariant: until the completion the vector has an entry of each
\* parked thread and of each waker, with the number of its claims, and the
\* drain notifies whoever it took.
THEOREM Invariance == Spec => []Inv
<1>1. Init => Inv
  BY InitInv
<1>2. Inv /\ [Next]_vars => Inv'
  BY NextInv
<1> QED BY <1>1, <1>2, PTL DEF Spec

\* A waker has an entry, and only one, exactly while a direct registration or
\* a live future wants it, with one owner for each of these futures.
THEOREM WakersHaveOneEntry == Spec => []OneEntryPerWaker
<1>1. Inv => OneEntryPerWaker
  <2> SUFFICES ASSUME Inv PROVE OneEntryPerWaker
    OBVIOUS
  <2>1. vec \in Seq(Waiter) /\ WellFormed(vec) /\ Unique(vec)
    BY DEF Inv, TypeOK, InvVector, WellFormed, Unique
  <2>2. ASSUME ~completed, NEW w \in Wakers
        PROVE  /\ Matching(vec, w) # 0 <=> w \in direct \/ Claimants(w) # {}
               /\ Owners(vec, w) = Cardinality(Claimants(w))
    <3>1. ~taken /\ Box(vec).persistent = direct
          /\ Box(vec).owners[w] = Cardinality(Claimants(w))
      BY <2>2 DEF Inv, InvVector
    <3>2. Box(vec).owners[w] = Owners(vec, w) /\ Box(vec).threads \subseteq Threads
      BY <2>1, BoxParts
    <3>3. w \notin Threads
      BY RegistryAssumption
    <3>4. w \in Entries(Box(vec)) <=> w \in direct \/ Cardinality(Claimants(w)) # 0
      BY <3>1, <3>2, <3>3 DEF Entries, WakerEntries
    <3>5. Matching(vec, w) # 0 <=> w \in Entries(Box(vec))
      BY <2>1, MatchingListed, ListedIsEntries
    <3>6. Cardinality(Claimants(w)) = 0 <=> Claimants(w) = {}
      BY ClaimantsFinite
    <3> QED BY <3>1, <3>2, <3>4, <3>5, <3>6
  <2>3. \A i, j \in DOMAIN vec : vec[i].who \in Wakers /\ vec[j].who = vec[i].who => i = j
    BY <2>1 DEF WellFormed
  <2> QED BY <2>2, <2>3 DEF OneEntryPerWaker
<1> QED BY <1>1, Invariance, PTL

\* No waker is notified twice, and after the drain every registered waker has
\* been notified once and every parked thread at least once.
THEOREM RegisteredFireOnce == Spec => []FiresExactlyOnce
<1>1. Inv => FiresExactlyOnce
  <2> SUFFICES ASSUME Inv PROVE FiresExactlyOnce
    OBVIOUS
  <2>1. \A w \in Wakers : wakes[w] <= 1
    BY DEF Inv, InvDrain
  <2>2. ASSUME taken, drain = <<>>
        PROVE  /\ \A w \in direct \cup (UNION {wakers[f] : f \in Futures}) : wakes[w] = 1
               /\ \A t \in waiting : wakes[t] >= 1
    <3>1. Listed(drain) = {}
      BY <2>2, EmptyVector
    <3> QED BY <2>2, <3>1 DEF Inv, InvDrain
  <2> QED BY <2>1, <2>2 DEF FiresExactlyOnce
<1> QED BY <1>1, Invariance, PTL

\* Every critical section does to the vector, of any length and in any order,
\* what the operators of Slot's boxes say.
THEOREM VectorActsAsBox == Spec => VectorIsBox
<1>1. Inv => BoxStep
  <2> SUFFICES ASSUME Inv PROVE BoxStep
    OBVIOUS
  <2>1. Take => Listed(drain') = Entries(Box(vec))
    BY ListedIsEntries DEF Inv, TypeOK, InvVector, Take
  <2> QED BY <2>1, WaitTurnBox, TimeOutBox, RegisterWakerBox, PollRegisterBox,
             DropFutureBox DEF BoxStep
<1>2. Inv /\ [Next]_vars => [BoxStep]_vars
  BY <1>1
<1> QED BY <1>2, Invariance, PTL DEF Spec, VectorIsBox

===============================================================================
