---------------------------- MODULE UserCodeProofs ----------------------------
(***************************************************************************)
(* Proofs about UserCode, for every number of threads and every depth of   *)
(* calls from user code back into the library.                             *)
(*                                                                         *)
(* A script is disciplined: it takes a second lock in one place only (the  *)
(* pooled registry under the entries lock) and runs user code only under   *)
(* the locks of UnderLock.  That is a property of what is left of a script *)
(* (Disciplined), so it is inductive.  A circle of waiting threads none of *)
(* which was entered from UnderLock has locks in top frames only, and      *)
(* there the one order of locks excludes it.                               *)
(***************************************************************************)
EXTENDS UserCode, Integers, SequenceTheorems, TLAPS

F(todo, held) == [todo |-> todo, held |-> held]

-------------------------------------------------------------------------------
(***************************************************************************)
(* Disciplined scripts, step by step.                                      *)
(***************************************************************************)

\* Which locks are held after a step.
LEMMA StepTypes ==
    ASSUME NEW x \in Steps, NEW held \in SUBSET Locks
    PROVE  /\ After(x, held) \in SUBSET Locks
           /\ \A l \in Locks : x = Lock(l)   <=> x[1] = "lock" /\ x[2] = l
           /\ \A l \in Locks : x = Unlock(l) <=> x[1] = "unlock" /\ x[2] = l
           /\ \A l \in Locks :
                 l \in After(x, held) <=> (x = Lock(l) \/ (l \in held /\ x # Unlock(l)))
<1>1. /\ \A l \in Locks : x = Lock(l)   <=> x[1] = "lock" /\ x[2] = l
      /\ \A l \in Locks : x = Unlock(l) <=> x[1] = "unlock" /\ x[2] = l
  BY DEF Steps, Lock, Unlock
<1>2. x[1] = "lock" \/ x[1] = "unlock" => x[2] \in Locks
  BY DEF Steps
<1>3. After(x, held) \in SUBSET Locks
  BY <1>2 DEF After
<1>4. \A l \in Locks :
         l \in After(x, held) <=> (x = Lock(l) \/ (l \in held /\ x # Unlock(l)))
  BY <1>1 DEF After
<1> QED BY <1>1, <1>3, <1>4

\* The locks held after the first step are those held before the second.
LEMMA HeldShift ==
    ASSUME NEW todo \in Seq(Steps), NEW held \in SUBSET Locks, todo # <<>>,
           NEW i \in 1 .. Len(todo) - 1
    PROVE  HeldAt(Tail(todo), After(Head(todo), held), i) = HeldAt(todo, held, i + 1)
<1> DEFINE x == Head(todo)
           rest == Tail(todo)
           g == After(x, held)
<1>1. x = todo[1] /\ x \in Steps /\ rest \in Seq(Steps) /\ Len(rest) = Len(todo) - 1
      /\ Len(todo) \in Nat /\ \A j \in 1 .. Len(todo) - 1 : rest[j] = todo[j + 1]
  OBVIOUS
<1>2. /\ g \in SUBSET Locks
      /\ \A l \in Locks : x = Lock(l)   <=> x[1] = "lock" /\ x[2] = l
      /\ \A l \in Locks : x = Unlock(l) <=> x[1] = "unlock" /\ x[2] = l
  BY <1>1, StepTypes
<1> SUFFICES ASSUME NEW l \in Locks
             PROVE  l \in HeldAt(rest, g, i) <=> l \in HeldAt(todo, held, i + 1)
  BY DEF HeldAt
<1>3. l \in g <=> (x = Lock(l) \/ (l \in held /\ x # Unlock(l)))
  BY <1>1, StepTypes
<1> HIDE DEF x, rest, g
<1>4. ASSUME l \in HeldAt(rest, g, i) PROVE l \in HeldAt(todo, held, i + 1)
  <2>1. PICK j \in 0 .. i - 1 :
              /\ IF j = 0 THEN l \in g ELSE rest[j] = Lock(l)
              /\ \A m \in j + 1 .. i - 1 : rest[m] # Unlock(l)
    BY <1>4 DEF HeldAt
  <2>2. \A m \in j + 2 .. i : todo[m] # Unlock(l)
    <3> SUFFICES ASSUME NEW m \in j + 2 .. i PROVE todo[m] # Unlock(l)
      OBVIOUS
    <3>1. m - 1 \in j + 1 .. i - 1 /\ m - 1 \in 1 .. Len(todo) - 1 /\ (m - 1) + 1 = m
      BY <1>1
    <3> QED BY <1>1, <2>1, <3>1
  <2>3. CASE j # 0
    <3>1. todo[j + 1] = Lock(l)
      BY <1>1, <2>1, <2>3
    <3>2. j + 1 \in 0 .. (i + 1) - 1
      BY <1>1
    <3> QED BY <2>2, <3>1, <3>2 DEF HeldAt
  <2>4. CASE j = 0 /\ x = Lock(l)
    <3>1. todo[1] = Lock(l) /\ 1 \in 0 .. (i + 1) - 1
      BY <1>1, <2>4
    <3>2. \A m \in 1 + 1 .. (i + 1) - 1 : todo[m] # Unlock(l)
      BY <2>2, <2>4
    <3> QED BY <3>1, <3>2 DEF HeldAt
  <2>5. CASE j = 0 /\ l \in held /\ x # Unlock(l)
    <3>1. \A m \in 0 + 1 .. (i + 1) - 1 : todo[m] # Unlock(l)
      BY <1>1, <2>2, <2>5
    <3>2. 0 \in 0 .. (i + 1) - 1
      BY <1>1
    <3> QED BY <2>5, <3>1, <3>2 DEF HeldAt
  <2> QED BY <1>3, <2>1, <2>3, <2>4, <2>5
<1>5. ASSUME l \in HeldAt(todo, held, i + 1) PROVE l \in HeldAt(rest, g, i)
  <2>1. PICK j \in 0 .. (i + 1) - 1 :
              /\ IF j = 0 THEN l \in held ELSE todo[j] = Lock(l)
              /\ \A m \in j + 1 .. (i + 1) - 1 : todo[m] # Unlock(l)
    BY <1>5 DEF HeldAt
  <2>2. \A m \in Nat : m >= j /\ m \in 1 .. i - 1 => rest[m] # Unlock(l)
    <3> SUFFICES ASSUME NEW m \in 1 .. i - 1, m >= j PROVE rest[m] # Unlock(l)
      OBVIOUS
    <3>1. m + 1 \in j + 1 .. (i + 1) - 1 /\ m \in 1 .. Len(todo) - 1
      BY <1>1
    <3> QED BY <1>1, <2>1, <3>1
  <2>3. CASE j >= 2
    <3>1. rest[j - 1] = Lock(l) /\ j - 1 \in 0 .. i - 1 /\ j - 1 # 0
      BY <1>1, <2>1, <2>3
    <3>2. \A m \in (j - 1) + 1 .. i - 1 : rest[m] # Unlock(l)
      BY <2>2, <2>3
    <3> QED BY <3>1, <3>2 DEF HeldAt
  <2>4. CASE j = 1 \/ j = 0
    <3>1. l \in g
      BY <1>1, <1>3, <2>1, <2>4, StepTypes
    <3>2. \A m \in 0 + 1 .. i - 1 : rest[m] # Unlock(l)
      BY <2>2, <2>4
    <3>3. 0 \in 0 .. i - 1
      OBVIOUS
    <3> QED BY <3>1, <3>2, <3>3 DEF HeldAt
  <2> QED BY <2>3, <2>4
<1> QED BY <1>4, <1>5

\* Before the first step a script holds what it starts with.
LEMMA HeldFirst ==
    ASSUME NEW todo, NEW held \in SUBSET Locks
    PROVE  HeldAt(todo, held, 1) = held
BY DEF HeldAt

\* A script is disciplined iff its first step is allowed and its rest is
\* disciplined.
LEMMA Uncons ==
    ASSUME NEW todo \in Seq(Steps), NEW held \in SUBSET Locks, todo # <<>>
    PROVE  Disciplined(F(todo, held)) <=>
             /\ Allowed(Head(todo), held)
             /\ Disciplined(F(Tail(todo), After(Head(todo), held)))
<1>1. /\ Head(todo) = todo[1] /\ Head(todo) \in Steps
      /\ Tail(todo) \in Seq(Steps) /\ Len(Tail(todo)) = Len(todo) - 1
      /\ Len(todo) \in Nat /\ Len(todo) >= 1
      /\ \A j \in 1 .. Len(todo) - 1 : Tail(todo)[j] = todo[j + 1]
  OBVIOUS
<1> DEFINE P(i) == Allowed(todo[i], HeldAt(todo, held, i))
<1>2. Disciplined(F(todo, held)) <=> \A i \in 1 .. Len(todo) : P(i)
  BY DEF Disciplined, F
<1>3. Disciplined(F(Tail(todo), After(Head(todo), held)))
        <=> \A i \in 1 .. Len(todo) - 1 : P(i + 1)
  <2>1. Disciplined(F(Tail(todo), After(Head(todo), held))) <=>
           \A i \in 1 .. Len(todo) - 1 :
               Allowed(Tail(todo)[i], HeldAt(Tail(todo), After(Head(todo), held), i))
    BY <1>1 DEF Disciplined, F
  <2> QED BY <1>1, <2>1, HeldShift
<1>4. P(1) <=> Allowed(Head(todo), held)
  BY <1>1, HeldFirst
<1> HIDE DEF P
<1>5. (\A i \in 1 .. Len(todo) : P(i)) <=> P(1) /\ \A i \in 1 .. Len(todo) - 1 : P(i + 1)
  <2>1. ASSUME P(1), \A i \in 1 .. Len(todo) - 1 : P(i + 1), NEW i \in 1 .. Len(todo)
        PROVE  P(i)
    <3>1. CASE i = 1
      BY <2>1, <3>1
    <3>2. CASE i # 1
      <4>1. i - 1 \in 1 .. Len(todo) - 1 /\ i = (i - 1) + 1
        BY <1>1, <3>2
      <4>2. P((i - 1) + 1)
        BY <2>1, <4>1
      <4> QED BY <4>1, <4>2
    <3> QED BY <3>1, <3>2
  <2>2. ASSUME \A i \in 1 .. Len(todo) : P(i)
        PROVE  P(1) /\ \A i \in 1 .. Len(todo) - 1 : P(i + 1)
    BY <1>1, <2>2
  <2> QED BY <2>1, <2>2
<1> QED BY <1>2, <1>3, <1>4, <1>5

-------------------------------------------------------------------------------
(***************************************************************************)
(* Pieces of scripts, put together.                                        *)
(***************************************************************************)

\* The piece s leads from the locks h to the locks g.
Runs(s, h, g) ==
    /\ s \in Seq(Steps) /\ h \in SUBSET Locks /\ g \in SUBSET Locks
    /\ \A rest \in Seq(Steps) : Disciplined(F(rest, g)) => Disciplined(F(s \o rest, h))

\* The empty script runs,
LEMMA RunsNil == \A h \in SUBSET Locks : Runs(<<>>, h, h)
BY ConcatEmptySeq DEF Runs

\* so do two in sequence,
LEMMA RunsConcat ==
    ASSUME NEW s, NEW r, NEW h, NEW k, NEW g, Runs(s, h, k), Runs(r, k, g)
    PROVE  Runs(s \o r, h, g)
<1>1. s \in Seq(Steps) /\ r \in Seq(Steps) /\ s \o r \in Seq(Steps)
      /\ h \in SUBSET Locks /\ g \in SUBSET Locks
  BY DEF Runs
<1>2. ASSUME NEW rest \in Seq(Steps), Disciplined(F(rest, g))
      PROVE  Disciplined(F((s \o r) \o rest, h))
  <2>1. r \o rest \in Seq(Steps) /\ (s \o r) \o rest = s \o (r \o rest)
    BY <1>1, ConcatAssociative
  <2> QED BY <1>2, <2>1 DEF Runs
<1> QED BY <1>1, <1>2 DEF Runs

\* and one step where it is allowed:
LEMMA RunsOne ==
    ASSUME NEW x \in Steps, NEW h \in SUBSET Locks, Allowed(x, h)
    PROVE  Runs(<<x>>, h, After(x, h))
<1>1. After(x, h) \in SUBSET Locks
  BY StepTypes
<1>2. ASSUME NEW rest \in Seq(Steps), Disciplined(F(rest, After(x, h)))
      PROVE  Disciplined(F(<<x>> \o rest, h))
  <2>1. PICK s : s = <<x>> \o rest
    OBVIOUS
  <2>2. s \in Seq(Steps) /\ s # <<>> /\ Head(s) = x
    BY <2>1
  <2>3. Tail(s) = rest
    BY <2>1
  <2> QED BY <1>2, <2>1, <2>2, <2>3, Uncons
<1>3. <<x>> \in Seq(Steps)
  OBVIOUS
<1> QED BY <1>1, <1>2, <1>3 DEF Runs

\* a lock that is not taken out of order,
LEMMA LockRuns ==
    ASSUME NEW l \in Locks, NEW h \in SUBSET Locks,
           h \subseteq (IF l = "pooled" THEN {"write"} ELSE {})
    PROVE  Runs(<<Lock(l)>>, h, h \cup {l})
<1>1. Lock(l) \in Steps /\ Lock(l)[1] = "lock" /\ Lock(l)[2] = l
  BY DEF Lock, Steps
<1>2. Allowed(Lock(l), h) /\ After(Lock(l), h) = h \cup {l}
  BY <1>1 DEF Allowed, After
<1> QED BY <1>1, <1>2, RunsOne

\* any unlock,
LEMMA UnlockRuns ==
    ASSUME NEW l \in Locks, NEW h \in SUBSET Locks
    PROVE  Runs(<<Unlock(l)>>, h, h \ {l})
<1>1. Unlock(l) \in Steps /\ Unlock(l)[1] = "unlock" /\ Unlock(l)[2] = l
  BY DEF Unlock, Steps
<1>2. Allowed(Unlock(l), h) /\ After(Unlock(l), h) = h \ {l}
  BY <1>1 DEF Allowed, After
<1> QED BY <1>1, <1>2, RunsOne

\* and user code where UnderLock has it.
LEMMA CallRuns ==
    ASSUME NEW c \in Codes, NEW h \in SUBSET Locks, {c} \X h \subseteq UnderLock
    PROVE  Runs(<<Call(c)>>, h, h)
<1>1. Call(c) \in Steps /\ Call(c)[1] = "call" /\ Call(c)[2] = c
  BY DEF Call, Steps
<1>2. Allowed(Call(c), h) /\ After(Call(c), h) = h
  BY <1>1 DEF Allowed, After
<1> QED BY <1>1, <1>2, RunsOne

\* A sequence is its first elements and its last one.
LEMMA LastApart ==
    ASSUME NEW S, NEW s \in Seq(S), NEW c \in S, NEW u \in Seq(S),
           Len(u) = Len(s) + 1, \A i \in 1 .. Len(s) : u[i] = s[i], u[Len(s) + 1] = c
    PROVE  s \o <<c>> = u
<1>1. Append(s, c) = s \o <<c>>
  BY AppendIsConcat
<1>2. Append(s, c) = u
  OBVIOUS
<1> QED BY <1>1, <1>2

\* The step of a script of one step.
LEMMA OneStep == ASSUME NEW x, <<x>> \in Seq(Steps) PROVE x \in Steps
<1>1. PICK s : s = <<x>>
  OBVIOUS
<1>2. s \in Seq(Steps) /\ Len(s) = 1 /\ s[1] = x
  BY <1>1
<1> QED BY <1>2

\* Pieces of two, three and four steps.
LEMMA RunsTwo ==
    ASSUME NEW a, NEW b, NEW h, NEW k, NEW g,
           Runs(<<a>>, h, k), Runs(<<b>>, k, g)
    PROVE  Runs(<<a, b>>, h, g)
<1>1. Runs(<<a>>, h, k)
  OBVIOUS
<1>2. a \in Steps /\ b \in Steps
  BY OneStep DEF Runs
<1>3. PICK s : s = <<a>>
  OBVIOUS
<1>4. PICK u : u = <<a, b>>
  OBVIOUS
<1>5. /\ s \in Seq(Steps) /\ u \in Seq(Steps) /\ Len(s) = 1 /\ Len(u) = 2
      /\ u[1] = s[1] /\ u[2] = b
  BY <1>2, <1>3, <1>4
<1>6. \A i \in 1 .. 1 : i = 1
  OBVIOUS
<1>7. \A i \in 1 .. Len(s) : u[i] = s[i]
  BY <1>5, <1>6
<1>8. Len(u) = Len(s) + 1 /\ u[Len(s) + 1] = b
  BY <1>5
<1>9. s \o <<b>> = u
  BY <1>2, <1>5, <1>7, <1>8, LastApart
<1> QED BY <1>1, <1>3, <1>4, <1>9, RunsConcat

\* Scripts of three steps.
LEMMA RunsThree ==
    ASSUME NEW a, NEW b, NEW c, NEW h, NEW k, NEW m, NEW g,
           Runs(<<a>>, h, k), Runs(<<b>>, k, m), Runs(<<c>>, m, g)
    PROVE  Runs(<<a, b, c>>, h, g)
<1>1. Runs(<<a, b>>, h, m)
  BY RunsTwo
<1>2. a \in Steps /\ b \in Steps /\ c \in Steps
  BY OneStep DEF Runs
<1>3. PICK s : s = <<a, b>>
  OBVIOUS
<1>4. PICK u : u = <<a, b, c>>
  OBVIOUS
<1>5. /\ s \in Seq(Steps) /\ u \in Seq(Steps) /\ Len(s) = 2 /\ Len(u) = 3
      /\ u[1] = s[1] /\ u[2] = s[2] /\ u[3] = c
  BY <1>2, <1>3, <1>4
<1>6. \A i \in 1 .. 2 : i = 1 \/ i = 2
  OBVIOUS
<1>7. \A i \in 1 .. Len(s) : u[i] = s[i]
  BY <1>5, <1>6
<1>8. Len(u) = Len(s) + 1 /\ u[Len(s) + 1] = c
  BY <1>5
<1>9. s \o <<c>> = u
  BY <1>2, <1>5, <1>7, <1>8, LastApart
<1> QED BY <1>1, <1>3, <1>4, <1>9, RunsConcat

\* Scripts of four steps.
LEMMA RunsFour ==
    ASSUME NEW a, NEW b, NEW c, NEW d, NEW h, NEW k, NEW m, NEW n, NEW g,
           Runs(<<a>>, h, k), Runs(<<b>>, k, m), Runs(<<c>>, m, n), Runs(<<d>>, n, g)
    PROVE  Runs(<<a, b, c, d>>, h, g)
<1>1. Runs(<<a, b, c>>, h, n)
  BY RunsThree
<1>2. a \in Steps /\ b \in Steps /\ c \in Steps /\ d \in Steps
  BY OneStep DEF Runs
<1>3. PICK s : s = <<a, b, c>>
  OBVIOUS
<1>4. PICK u : u = <<a, b, c, d>>
  OBVIOUS
<1>5. /\ s \in Seq(Steps) /\ u \in Seq(Steps) /\ Len(s) = 3 /\ Len(u) = 4
      /\ u[1] = s[1] /\ u[2] = s[2] /\ u[3] = s[3] /\ u[4] = d
  BY <1>2, <1>3, <1>4
<1>6. \A i \in 1 .. 3 : i = 1 \/ i = 2 \/ i = 3
  OBVIOUS
<1>7. \A i \in 1 .. Len(s) : u[i] = s[i]
  BY <1>5, <1>6
<1>8. Len(u) = Len(s) + 1 /\ u[Len(s) + 1] = d
  BY <1>5
<1>9. s \o <<d>> = u
  BY <1>2, <1>5, <1>7, <1>8, LastApart
<1> QED BY <1>1, <1>3, <1>4, <1>9, RunsConcat

-------------------------------------------------------------------------------
(***************************************************************************)
(* The scripts.                                                            *)
(***************************************************************************)

\* The single steps that the scripts are made of.
LEMMA KnownRuns ==
    /\ \A l \in {"write", "read", "registry"} :
          Runs(<<Lock(l)>>, {}, {l}) /\ Runs(<<Unlock(l)>>, {l}, {})
    /\ Runs(<<Lock("pooled")>>, {"write"}, {"write", "pooled"})
    /\ Runs(<<Unlock("pooled")>>, {"write", "pooled"}, {"write"})
    /\ \A c \in Codes : Runs(<<Call(c)>>, {}, {})
    /\ \A h \in {{"write"}, {"read"}} : Runs(<<Call("key")>>, h, h)
    /\ \A c \in {"outcome_drop", "waker_drop"} : Runs(<<Call(c)>>, {"write"}, {"write"})
    /\ Runs(<<Call("waker_drop")>>, {"write", "pooled"}, {"write", "pooled"})
    /\ \A c \in {"outcome_clone", "waker_clone", "waker_drop"} :
          Runs(<<Call(c)>>, {"registry"}, {"registry"})
<1>1. ASSUME NEW l \in {"write", "read", "registry"}
      PROVE  Runs(<<Lock(l)>>, {}, {l}) /\ Runs(<<Unlock(l)>>, {l}, {})
  <2>1. l \in Locks /\ {} \in SUBSET Locks /\ {l} \in SUBSET Locks
    BY DEF Locks
  <2>2. {} \cup {l} = {l} /\ {l} \ {l} = {}
    OBVIOUS
  <2>3. Runs(<<Lock(l)>>, {}, {} \cup {l})
    BY <2>1, LockRuns
  <2>4. Runs(<<Unlock(l)>>, {l}, {l} \ {l})
    BY <2>1, UnlockRuns
  <2> QED BY <2>2, <2>3, <2>4
<1>2. /\ Runs(<<Lock("pooled")>>, {"write"}, {"write", "pooled"})
      /\ Runs(<<Unlock("pooled")>>, {"write", "pooled"}, {"write"})
  <2>1. "pooled" \in Locks /\ {"write"} \in SUBSET Locks /\ {"write", "pooled"} \in SUBSET Locks
    BY DEF Locks
  <2>2. {"write"} \cup {"pooled"} = {"write", "pooled"}
        /\ {"write", "pooled"} \ {"pooled"} = {"write"}
    OBVIOUS
  <2>3. Runs(<<Lock("pooled")>>, {"write"}, {"write"} \cup {"pooled"})
    BY <2>1, LockRuns
  <2>4. Runs(<<Unlock("pooled")>>, {"write", "pooled"}, {"write", "pooled"} \ {"pooled"})
    BY <2>1, UnlockRuns
  <2> QED BY <2>2, <2>3, <2>4
<1>3. \A c \in Codes : Runs(<<Call(c)>>, {}, {})
  <2>1. \A c \in Codes : {c} \X {} \subseteq UnderLock
    OBVIOUS
  <2> QED BY <2>1, CallRuns
<1>4. ASSUME NEW c \in Codes, NEW h \in SUBSET Locks,
             \A l \in h : <<c, l>> \in UnderLock
      PROVE  Runs(<<Call(c)>>, h, h)
  <2>1. {c} \X h \subseteq UnderLock
    BY <1>4
  <2> QED BY <2>1, CallRuns
<1>5. \A h \in {{"write"}, {"read"}} : Runs(<<Call("key")>>, h, h)
  BY <1>4 DEF UnderLock, Codes, Locks
<1>6. \A c \in {"outcome_drop", "waker_drop"} : Runs(<<Call(c)>>, {"write"}, {"write"})
  BY <1>4 DEF UnderLock, Codes, Locks
<1>7. Runs(<<Call("waker_drop")>>, {"write", "pooled"}, {"write", "pooled"})
  BY <1>4 DEF UnderLock, Codes, Locks
<1>8. \A c \in {"outcome_clone", "waker_clone", "waker_drop"} :
          Runs(<<Call(c)>>, {"registry"}, {"registry"})
  BY <1>4 DEF UnderLock, Codes, Locks
<1> QED BY <1>1, <1>2, <1>3, <1>5, <1>6, <1>7, <1>8

\* The final drop of a slot holds no lock of its own; it may happen under the
\* entries lock.
LEMMA FinalDropRuns ==
    ASSUME NEW s \in FinalDrop, NEW h \in {{}, {"write"}}
    PROVE  Runs(s, h, h)
<1>1. Runs(<<Call("outcome_drop")>>, h, h) /\ Runs(<<Call("waker_drop")>>, h, h)
  BY KnownRuns DEF Codes
<1>2. Runs(<<Call("outcome_drop"), Call("waker_drop")>>, h, h)
  BY <1>1, RunsTwo
<1> QED BY <1>2 DEF FinalDrop

\* reset runs under the entries lock.
LEMMA ResetRuns ==
    ASSUME NEW s \in Reset
    PROVE  Runs(s, {"write"}, {"write"})
<1> DEFINE drain == <<Lock("pooled"), Call("waker_drop"), Unlock("pooled")>>
<1>1. Runs(<<Call("outcome_drop")>>, {"write"}, {"write"})
  BY KnownRuns
<1>2. Runs(drain, {"write"}, {"write"})
  BY KnownRuns, RunsThree
<1>3. s \in {<<Call("outcome_drop")>>, <<Call("outcome_drop")>> \o drain}
  BY DEF Reset
<1> HIDE DEF drain
<1>4. Runs(<<Call("outcome_drop")>> \o drain, {"write"}, {"write"})
  BY <1>1, <1>2, RunsConcat
<1> QED BY <1>1, <1>3, <1>4

\* ObservationSpace::subject takes and releases its locks in order.
LEMMA SubjectRuns ==
    ASSUME NEW s \in Subject
    PROVE  Runs(s, {}, {})
<1>1. Runs(<<Lock("write"), Call("key")>>, {}, {"write"})
  BY KnownRuns, RunsTwo
<1>2. Runs(<<Unlock("write")>>, {"write"}, {})
  BY KnownRuns
<1>3. Runs(<<Call("key"), Unlock("write")>>, {"write"}, {})
  BY KnownRuns, RunsTwo
<1>4. ASSUME NEW last \in FinalDrop
      PROVE  Runs(<<Lock("write"), Call("key")>> \o last \o <<Unlock("write")>>, {}, {})
  <2>1. Runs(last, {"write"}, {"write"})
    BY FinalDropRuns
  <2>2. Runs(<<Lock("write"), Call("key")>> \o last, {}, {"write"})
    BY <1>1, <2>1, RunsConcat
  <2> QED BY <1>2, <2>2, RunsConcat
<1>5. ASSUME NEW reset \in Reset
      PROVE  Runs(<<Lock("write"), Call("key")>> \o reset \o <<Call("key"), Unlock("write")>>,
                  {}, {})
  <2>1. Runs(reset, {"write"}, {"write"})
    BY ResetRuns
  <2>2. Runs(<<Lock("write"), Call("key")>> \o reset, {}, {"write"})
    BY <1>1, <2>1, RunsConcat
  <2> QED BY <1>3, <2>2, RunsConcat
<1> QED BY <1>4, <1>5 DEF Subject

\* So does Subject::drop,
LEMMA RetireRuns ==
    ASSUME NEW s \in Retire
    PROVE  Runs(s, {}, {})
<1>1. Runs(<<Lock("write"), Call("key"), Unlock("write"), Call("key")>>, {}, {})
  BY KnownRuns, RunsFour DEF Codes
<1>2. \A last \in FinalDrop : Runs(last, {}, {})
  BY FinalDropRuns
<1>3. \A last \in FinalDrop :
         Runs(<<Lock("write"), Call("key"), Unlock("write"), Call("key")>> \o last, {}, {})
  BY <1>1, <1>2, RunsConcat
<1> QED BY <1>3 DEF Retire

\* the drop of a future,
LEMMA DropFutureRuns ==
    ASSUME NEW s \in DropFuture
    PROVE  Runs(s, {}, {})
<1>1. Runs(<<Lock("registry"), Call("waker_drop"), Unlock("registry"), Call("waker_drop")>>,
           {}, {})
  BY KnownRuns, RunsFour DEF Codes
<1>2. \A last \in FinalDrop : Runs(last, {}, {})
  BY FinalDropRuns
<1>3. \A last \in FinalDrop :
         Runs(<<Lock("registry"), Call("waker_drop"), Unlock("registry"), Call("waker_drop")>>
                \o last, {}, {})
  BY <1>1, <1>2, RunsConcat
<1> QED BY <1>3 DEF DropFuture

\* register_waker,
LEMMA RegisterWakerRuns ==
    ASSUME NEW s \in RegisterWaker
    PROVE  Runs(s, {}, {})
<1>1. Runs(<<>>, {}, {})
  BY RunsNil
<1>2. Runs(<<Lock("registry"), Unlock("registry")>>, {}, {})
  BY KnownRuns, RunsTwo
<1>3. Runs(<<Lock("registry"), Call("waker_clone"), Unlock("registry")>>, {}, {})
  BY KnownRuns, RunsThree
<1> QED BY <1>1, <1>2, <1>3 DEF RegisterWaker

\* poll,
LEMMA PollRuns ==
    ASSUME NEW s \in Poll
    PROVE  Runs(s, {}, {})
<1>1. \A c \in {"outcome_clone", "waker_clone"} : Runs(<<Call(c)>>, {}, {})
  BY KnownRuns DEF Codes
<1>2. \A register \in RegisterWaker, c \in {"outcome_clone", "waker_clone"} :
         Runs(register \o <<Call(c)>>, {}, {})
  BY <1>1, RegisterWakerRuns, RunsConcat
<1>3. CASE s = <<Call("outcome_clone")>>
  BY <1>1, <1>3
<1>4. CASE s \in {register \o <<Call(c)>> : register \in RegisterWaker,
                                           c \in {"outcome_clone", "waker_clone"}}
  <2>1. PICK register \in RegisterWaker, c \in {"outcome_clone", "waker_clone"} :
            s = register \o <<Call(c)>>
    BY <1>4
  <2> QED BY <1>2, <2>1
<1> QED BY <1>3, <1>4 DEF Poll

\* complete wakes after it has unlocked.
LEMMA CompleteRuns ==
    ASSUME NEW s \in Complete
    PROVE  Runs(s, {}, {})
<1>1. Runs(<<>>, {}, {})
  BY RunsNil
<1>2. Runs(<<Lock("registry"), Unlock("registry"), Call("wake")>>, {}, {})
  BY KnownRuns, RunsThree DEF Codes
<1> QED BY <1>1, <1>2 DEF Complete

\* wait and wait_timeout,
LEMMA WaitRuns ==
    ASSUME NEW s \in Wait
    PROVE  Runs(s, {}, {})
<1>1. Runs(<<Call("outcome_clone")>>, {}, {})
  BY KnownRuns DEF Codes
<1>2. Runs(<<Lock("registry"), Call("outcome_clone"), Unlock("registry")>>, {}, {})
  BY KnownRuns, RunsThree
<1>3. Runs(<<Lock("registry"), Unlock("registry")>>, {}, {})
  BY KnownRuns, RunsTwo
<1> QED BY <1>1, <1>2, <1>3 DEF Wait

\* and observe.
LEMMA ObserveRuns ==
    ASSUME NEW s \in Observe
    PROVE  Runs(s, {}, {})
<1>1. Runs(<<Lock("read"), Call("key"), Unlock("read")>>, {}, {})
  BY KnownRuns, RunsThree
<1> QED BY <1>1 DEF Observe

\* Every operation of the library is disciplined from its beginning.
LEMMA ScriptsDisciplined ==
    ASSUME NEW s \in Scripts
    PROVE  Frame(s) \in Frames /\ Disciplined(Frame(s))
<1>1. Runs(s, {}, {})
  <2>1. s \in FinalDrop => Runs(s, {}, {})
    BY FinalDropRuns
  <2> QED BY <2>1, SubjectRuns, ObserveRuns, RetireRuns, CompleteRuns, WaitRuns,
             RegisterWakerRuns, PollRuns, DropFutureRuns DEF Scripts
<1>2. s \in Seq(Steps) /\ <<>> \in Seq(Steps) /\ s \o <<>> = s
  BY <1>1, ConcatEmptySeq DEF Runs
<1>3. Disciplined(F(<<>>, {}))
  BY DEF Disciplined, F
<1>4. Disciplined(F(s, {}))
  BY <1>1, <1>2, <1>3 DEF Runs
<1> QED BY <1>2, <1>4 DEF F, Frame, Frames

-------------------------------------------------------------------------------
(***************************************************************************)
(* The inductive invariant.                                                *)
(***************************************************************************)

\* A frame is its two fields; what it does next is allowed.
LEMMA FrameFacts ==
    ASSUME NEW f \in Frames, Disciplined(f)
    PROVE  /\ f = F(f.todo, f.held) /\ f.todo \in Seq(Steps) /\ f.held \in SUBSET Locks
           /\ f.todo # <<>> =>
                 /\ Head(f.todo) \in Steps /\ Tail(f.todo) \in Seq(Steps)
                 /\ Allowed(Head(f.todo), f.held)
                 /\ After(Head(f.todo), f.held) \in SUBSET Locks
                 /\ Disciplined(F(Tail(f.todo), After(Head(f.todo), f.held)))
                 /\ F(Tail(f.todo), After(Head(f.todo), f.held)) \in Frames
<1>1. f = F(f.todo, f.held) /\ f.todo \in Seq(Steps) /\ f.held \in SUBSET Locks
  BY DEF Frames, F
<1>2. ASSUME f.todo # <<>>
      PROVE  /\ Head(f.todo) \in Steps /\ Tail(f.todo) \in Seq(Steps)
             /\ Allowed(Head(f.todo), f.held)
             /\ After(Head(f.todo), f.held) \in SUBSET Locks
             /\ Disciplined(F(Tail(f.todo), After(Head(f.todo), f.held)))
  <2>1. Head(f.todo) \in Steps /\ Tail(f.todo) \in Seq(Steps)
    BY <1>1, <1>2
  <2>2. After(Head(f.todo), f.held) \in SUBSET Locks
    BY <1>1, <2>1, StepTypes
  <2>3. Disciplined(F(f.todo, f.held))
    BY <1>1
  <2> QED BY <1>1, <1>2, <2>1, <2>2, <2>3, Uncons
<1>3. f.todo # <<>> => F(Tail(f.todo), After(Head(f.todo), f.held)) \in Frames
  BY <1>2 DEF F, Frames
<1> QED BY <1>1, <1>2, <1>3

\* The running frame of a thread.
LEMMA TopFacts ==
    ASSUME Inv, NEW t \in Threads, stack[t] # <<>>
    PROVE  /\ stack[t] \in Seq(Frames) /\ Len(stack[t]) \in Nat /\ Len(stack[t]) >= 1
           /\ Top(t) = stack[t][Len(stack[t])] /\ Top(t) \in Frames
           /\ Disciplined(Top(t))
<1>1. stack[t] \in Seq(Frames) /\ Len(stack[t]) \in Nat /\ Len(stack[t]) >= 1
  BY DEF Inv
<1>2. Top(t) = stack[t][Len(stack[t])] /\ Top(t) \in Frames
  BY <1>1 DEF Top, Last
<1>3. Disciplined(Top(t))
  BY <1>1, <1>2 DEF Inv, Stacked
<1> QED BY <1>1, <1>2, <1>3

\* All frames but the last.
LEMMA FrontSeq ==
    ASSUME NEW S, NEW q \in Seq(S), q # <<>>
    PROVE  /\ Len(Front(q)) = Len(q) - 1
           /\ Front(q) \in Seq(S)
           /\ \A i \in 1 .. Len(q) - 1 : Front(q)[i] = q[i]
<1>1. PICK n \in Int : n = Len(q) - 1 /\ n >= 0
  OBVIOUS
<1>2. \A i \in 1 .. n : q[i] \in S
  BY <1>1
<1>3. SubSeq(q, 1, n) \in Seq(S)
  <2>1. 1 \in Int
    OBVIOUS
  <2> QED
    BY <1>2, <2>1, SubSeqProperties
<1>4. Len(SubSeq(q, 1, n)) = n
  BY <1>1
<1>5. \A i \in 1 .. n : SubSeq(q, 1, n)[i] = q[i]
  BY <1>1
<1> QED
  BY <1>1, <1>3, <1>4, <1>5 DEF Front

\* A stack with another top frame.
LEMMA ReplaceTop ==
    ASSUME NEW q \in Seq(Frames), q # <<>>, NEW f \in Frames
    PROVE  /\ Append(Front(q), f) \in Seq(Frames)
           /\ Len(Append(Front(q), f)) = Len(q)
           /\ \A i \in 1 .. Len(q) : i # Len(q) => Append(Front(q), f)[i] = q[i]
           /\ Append(Front(q), f)[Len(q)] = f
<1>1. Len(q) \in Nat /\ Len(q) >= 1
  OBVIOUS
<1>2. PICK r : r = Front(q)
  OBVIOUS
<1>3. r \in Seq(Frames) /\ Len(r) = Len(q) - 1 /\ \A i \in 1 .. Len(q) - 1 : r[i] = q[i]
  BY <1>1, <1>2, FrontSeq
<1>4. \A i \in 1 .. Len(q) : i # Len(q) => i \in 1 .. Len(q) - 1
  BY <1>1
<1>5. Append(r, f) \in Seq(Frames) /\ Len(Append(r, f)) = Len(q)
      /\ (\A i \in 1 .. Len(q) - 1 : Append(r, f)[i] = r[i])
      /\ Append(r, f)[Len(q)] = f
  BY <1>1, <1>3
<1> QED BY <1>2, <1>3, <1>4, <1>5

\* The running frame goes on; nothing below it moves.
LEMMA SetTopInv ==
    ASSUME Inv, NEW t \in Threads, stack[t] # <<>>, NEW f \in Frames, Disciplined(f),
           SetTop(t, f)
    PROVE  /\ stack' \in [Threads -> Seq(Frames)]
           /\ \A u \in Threads : Stacked(stack[u])'
           /\ \A u \in Threads : u # t => stack'[u] = stack[u]
<1> DEFINE q == stack[t]
           r == Append(Front(q), f)
<1>1. q \in Seq(Frames) /\ q # <<>> /\ Len(q) \in Nat /\ Stacked(q)
  BY DEF Inv
<1>2. r \in Seq(Frames) /\ Len(r) = Len(q) /\ r[Len(q)] = f
      /\ \A i \in 1 .. Len(q) : i # Len(q) => r[i] = q[i]
  BY <1>1, ReplaceTop
<1>3. stack' = [stack EXCEPT ![t] = r]
  BY DEF SetTop
<1> HIDE DEF q, r
<1>4. Stacked(r)
  BY <1>1, <1>2 DEF Stacked
<1>5. stack'[t] = r /\ \A u \in Threads : u # t => stack'[u] = stack[u]
  BY <1>3 DEF Inv
<1>6. stack' \in [Threads -> Seq(Frames)]
  BY <1>2, <1>3 DEF Inv
<1>7. \A u \in Threads : Stacked(stack'[u])
  BY <1>4, <1>5 DEF Inv
<1> QED BY <1>5, <1>6, <1>7

\* Who is queued stays where it is while others move.
LEMMA QueuedInv ==
    ASSUME Inv, NEW t \in Threads, \A u \in Threads : u # t => stack'[u] = stack[u],
           queued' \subseteq queued, t \notin queued'
    PROVE  InvQueued'
<1> SUFFICES ASSUME NEW u \in queued'
             PROVE  u \in Threads /\ At(u, "lock")' /\ Arg(u)' = "write"
  BY DEF InvQueued
<1>1. u \in queued /\ u \in Threads /\ At(u, "lock") /\ Arg(u) = "write" /\ u # t
  BY DEF Inv, InvQueued
<1>2. stack'[u] = stack[u]
  BY <1>1
<1> QED BY <1>1, <1>2 DEF At, Arg, Top

\* A frame with other steps to do.
LEMMA ExceptTodo ==
    ASSUME NEW f \in Frames, NEW todo
    PROVE  [f EXCEPT !.todo = todo] = [todo |-> todo, held |-> f.held]
BY DEF Frames

\* Acquire, Release and CallReturns do the next step of a frame.
LEMMA StepInv ==
    ASSUME Inv, NEW t \in Threads, Acquire(t) \/ Release(t) \/ CallReturns(t)
    PROVE  Inv'
<1> DEFINE f == Top(t)
<1>1. stack[t] # <<>> /\ f.todo # <<>>
  BY DEF Acquire, Release, CallReturns, At
<1>2. f \in Frames /\ Disciplined(f)
  BY <1>1, TopFacts
<1>3. PICK g : g = F(Tail(f.todo), After(Head(f.todo), f.held))
  OBVIOUS
<1>4. g \in Frames /\ Disciplined(g)
  BY <1>1, <1>2, <1>3, FrameFacts
<1>5. SetTop(t, g)
  <2>1. f = [todo |-> f.todo, held |-> f.held]
    BY <1>2, FrameFacts DEF F
  <2>2. CASE Acquire(t)
    BY <1>3, <2>2 DEF Acquire, At, Arg, After, F
  <2>3. CASE Release(t)
    BY <1>3, <2>3 DEF Release, At, Arg, After, F
  <2>4. CASE CallReturns(t)
    <3>1. After(Head(f.todo), f.held) = f.held
      BY <2>4 DEF CallReturns, At, After
    <3>2. g = [f EXCEPT !.todo = Tail(f.todo)]
      <4> HIDE DEF f
      <4>1. g = [todo |-> Tail(f.todo), held |-> f.held]
        BY <1>3, <3>1 DEF F
      <4> QED BY <1>2, <4>1, ExceptTodo
    <3> QED BY <2>4, <3>2 DEF CallReturns
  <2> QED BY <2>2, <2>3, <2>4
<1>6. /\ stack' \in [Threads -> Seq(Frames)]
      /\ \A u \in Threads : Stacked(stack[u])'
      /\ \A u \in Threads : u # t => stack'[u] = stack[u]
  BY <1>1, <1>4, <1>5, SetTopInv
<1>7. queued' \subseteq queued /\ t \notin queued'
  BY DEF Acquire, Release, CallReturns, Inv, InvQueued, At
<1>8. InvQueued'
  BY <1>6, <1>7, QueuedInv
<1> QED BY <1>6, <1>8 DEF Inv

\* A new script starts disciplined, on top of a frame that is at a call.
LEMMA EnterInv ==
    ASSUME Inv, NEW t \in Threads, NEW script \in Scripts, Enter(t, script)
    PROVE  Inv'
<1> DEFINE q == stack[t]
           f == Frame(script)
           r == Append(q, f)
<1>1. f \in Frames /\ Disciplined(f)
  BY ScriptsDisciplined
<1>2. q \in Seq(Frames) /\ Len(q) \in Nat /\ Stacked(q)
  BY DEF Inv
<1>3. q # <<>> => q[Len(q)].todo # <<>> /\ Head(q[Len(q)].todo)[1] = "call"
  BY TopFacts DEF Enter, At
<1>4. stack' = [stack EXCEPT ![t] = r] /\ queued' = queued
  BY DEF Enter
<1> HIDE DEF q, f
<1>5. /\ r \in Seq(Frames) /\ Len(r) = Len(q) + 1 /\ r[Len(q) + 1] = f
      /\ \A i \in 1 .. Len(q) : r[i] = q[i]
  BY <1>1, <1>2
<1> HIDE DEF r
<1>6. Stacked(r)
  <2> SUFFICES ASSUME NEW i \in 1 .. Len(r)
               PROVE  /\ Disciplined(r[i])
                      /\ i < Len(r) => r[i].todo # <<>> /\ Head(r[i].todo)[1] = "call"
    BY DEF Stacked
  <2>1. CASE i = Len(q) + 1
    BY <1>1, <1>2, <1>5, <2>1
  <2>2. CASE i # Len(q) + 1
    <3>1. i \in 1 .. Len(q) /\ r[i] = q[i]
      BY <1>2, <1>5, <2>2
    <3>2. Disciplined(q[i])
      BY <1>2, <3>1 DEF Stacked
    <3>3. CASE i = Len(q)
      <4>1. q # <<>>
        BY <1>2, <3>1
      <4> QED BY <1>3, <3>1, <3>2, <3>3, <4>1
    <3>4. CASE i # Len(q)
      <4>1. i < Len(q)
        BY <1>2, <3>1, <3>4
      <4> QED BY <1>2, <3>1, <3>2, <4>1 DEF Stacked
    <3> QED BY <3>3, <3>4
  <2> QED BY <2>1, <2>2
<1>7. stack'[t] = r /\ \A u \in Threads : u # t => stack'[u] = stack[u]
  BY <1>4 DEF Inv
<1>8. stack' \in [Threads -> Seq(Frames)]
  BY <1>4, <1>5 DEF Inv
<1>9. \A u \in Threads : Stacked(stack'[u])
  BY <1>6, <1>7 DEF Inv
<1>10. t \notin queued
  BY DEF Inv, InvQueued, Enter, At
<1>11. InvQueued'
  BY <1>4, <1>7, <1>10, QueuedInv
<1> QED BY <1>8, <1>9, <1>11 DEF Inv

\* A script that is done gives way to the frame that called it.
LEMMA ReturnInv ==
    ASSUME Inv, NEW t \in Threads, Return(t)
    PROVE  Inv'
<1> DEFINE q == stack[t]
           r == Front(q)
<1>1. q \in Seq(Frames) /\ q # <<>> /\ Len(q) \in Nat /\ Len(q) >= 1 /\ Stacked(q)
  BY DEF Inv, Return
<1>2. stack' = [stack EXCEPT ![t] = r] /\ queued' = queued
  BY DEF Return
<1> HIDE DEF q
<1>3. r \in Seq(Frames) /\ Len(r) = Len(q) - 1 /\ \A i \in 1 .. Len(q) - 1 : r[i] = q[i]
  BY <1>1, FrontSeq
<1> HIDE DEF r
<1>4. Stacked(r)
  BY <1>1, <1>3 DEF Stacked
<1>5. stack'[t] = r /\ \A u \in Threads : u # t => stack'[u] = stack[u]
  BY <1>2 DEF Inv
<1>6. stack' \in [Threads -> Seq(Frames)]
  BY <1>2, <1>3 DEF Inv
<1>7. \A u \in Threads : Stacked(stack'[u])
  BY <1>4, <1>5 DEF Inv
<1>8. t \notin queued
  BY DEF Inv, InvQueued, Return, At
<1>9. InvQueued'
  BY <1>2, <1>5, <1>8, QueuedInv
<1> QED BY <1>6, <1>7, <1>9 DEF Inv

\* A writer queues at its lock step.
LEMMA QueueInv ==
    ASSUME Inv, NEW t \in Threads, Queue(t)
    PROVE  Inv'
BY DEF Inv, InvQueued, Queue, At, Arg, Top

\* Threads without calls satisfy the invariant.
LEMMA InitInv == Init => Inv
<1> SUFFICES ASSUME Init PROVE Inv
  OBVIOUS
<1>1. \A t \in Threads : stack[t] = <<>>
  BY DEF Init
<1>2. stack \in [Threads -> Seq(Frames)]
  BY DEF Init
<1>3. \A t \in Threads : Stacked(stack[t])
  BY <1>1 DEF Stacked
<1> QED BY <1>2, <1>3 DEF Inv, InvQueued, Init

\* Every step keeps it.
LEMMA NextInv == Inv /\ [Next]_vars => Inv'
<1> SUFFICES ASSUME Inv, [Next]_vars PROVE Inv'
  OBVIOUS
<1>1. CASE UNCHANGED vars
  BY <1>1 DEF vars, Inv, InvQueued, At, Arg, Top
<1>2. CASE Next
  BY <1>2, StepInv, EnterInv, ReturnInv, QueueInv DEF Next
<1> QED BY <1>1, <1>2

-------------------------------------------------------------------------------
(***************************************************************************)
(* The theorems.                                                           *)
(***************************************************************************)

\* Whatever the threads run and however deep user code calls back, every frame
\* of the library keeps the discipline of locks and calls.
THEOREM Invariance == Spec => []Inv
<1>1. Init => Inv
  BY InitInv
<1>2. Inv /\ [Next]_vars => Inv'
  BY NextInv
<1> QED BY <1>1, <1>2, PTL DEF Spec

\* In a circle of waiting threads one was entered from user code under a lock.
LEMMA NoOtherDeadlock == Inv => DeadlockOnlyUnderLock
<1> SUFFICES ASSUME Inv, NEW D \in Deadlocked,
                    \A t \in D : EnteredFrom(t) \cap UnderLock = {}
             PROVE  FALSE
  BY DEF DeadlockOnlyUnderLock
<1>1. D \subseteq Threads /\ D # {}
      /\ \A t \in D : At(t, "lock") /\ WaitsFor(t) \cap D # {}
  BY DEF Deadlocked
<1>2. ASSUME NEW t \in D
      PROVE  /\ stack[t] \in Seq(Frames) /\ Len(stack[t]) \in Nat /\ Len(stack[t]) >= 1
             /\ Top(t) = stack[t][Len(stack[t])]
             /\ Top(t).held \subseteq (IF Arg(t) = "pooled" THEN {"write"} ELSE {})
  <2>1. t \in Threads /\ stack[t] # <<>> /\ Top(t).todo # <<>> /\ Head(Top(t).todo)[1] = "lock"
    BY <1>1 DEF At
  <2>2. /\ stack[t] \in Seq(Frames) /\ Len(stack[t]) \in Nat /\ Len(stack[t]) >= 1
        /\ Top(t) = stack[t][Len(stack[t])] /\ Top(t) \in Frames /\ Disciplined(Top(t))
    BY <2>1, TopFacts
  <2>3. Allowed(Head(Top(t).todo), Top(t).held)
    BY <2>1, <2>2, FrameFacts
  <2> QED BY <2>1, <2>2, <2>3 DEF Allowed, Arg
<1>3. ASSUME NEW t \in D, NEW i \in 1 .. Len(stack[t]), i # Len(stack[t])
      PROVE  stack[t][i].held = {}
  <2>1. t \in Threads /\ i \in 1 .. Len(stack[t]) - 1 /\ i < Len(stack[t])
    BY <1>1, <1>2, <1>3
  <2>2. PICK f : f = stack[t][i]
    OBVIOUS
  <2>3. f \in Frames /\ Disciplined(f) /\ f.todo # <<>> /\ Head(f.todo)[1] = "call"
    BY <1>2, <2>1, <2>2 DEF Inv, Stacked
  <2>4. {Head(f.todo)[2]} \X f.held \subseteq UnderLock
    BY <2>3, FrameFacts DEF Allowed
  <2>5. \A l \in f.held : <<Head(f.todo)[2], l>> \in EnteredFrom(t)
    BY <2>1, <2>2 DEF EnteredFrom
  <2> QED BY <2>2, <2>4, <2>5
<1>4. ASSUME NEW t \in D, NEW l, t \in Holders(l) PROVE l \in Top(t).held
  <2>1. PICK i \in DOMAIN stack[t] : l \in stack[t][i].held
    BY <1>4 DEF Holders
  <2>2. i \in 1 .. Len(stack[t])
    BY <1>2, <2>1
  <2> QED BY <1>2, <1>3, <2>1, <2>2
<1>5. ASSUME NEW t \in D, Arg(t) = "pooled" PROVE FALSE
  <2>1. WaitsFor(t) = Holders("pooled")
    BY <1>5 DEF WaitsFor, Conflicts
  <2>2. PICK u \in D : u \in Holders("pooled")
    BY <1>1, <2>1
  <2>3. "pooled" \in Top(u).held
    BY <1>4, <2>2
  <2> QED BY <1>2, <2>3
<1>6. \A t \in D : \A l : t \notin Holders(l)
  BY <1>2, <1>4, <1>5
<1>7. \A t \in D : Arg(t) = "read" /\ queued \cap D # {}
  <2> SUFFICES ASSUME NEW t \in D PROVE Arg(t) = "read" /\ queued \cap D # {}
    OBVIOUS
  <2>1. PICK u \in D : u \in WaitsFor(t)
    BY <1>1
  <2>2. u \notin UNION {Holders(l) : l \in Conflicts(Arg(t))}
    BY <1>6
  <2>3. u \in (IF Arg(t) = "read" THEN queued ELSE {})
    BY <2>1, <2>2 DEF WaitsFor
  <2>4. CASE Arg(t) = "read"
    BY <2>3, <2>4
  <2>5. CASE Arg(t) # "read"
    BY <2>3, <2>5
  <2> QED BY <2>4, <2>5
<1>8. PICK t \in D : t \in queued
  BY <1>1, <1>7
<1>9. Arg(t) = "write"
  BY <1>8 DEF Inv, InvQueued
<1> QED BY <1>7, <1>8, <1>9

\* The library's locks deadlock only if user code that runs under one of them
\* (UnderLock) calls the library, for any number of threads, any depth of such
\* calls, and whatever wake and the final drops do.
THEOREM DeadlocksAreOfUserCode == Spec => []DeadlockOnlyUnderLock
BY Invariance, NoOtherDeadlock, PTL

===============================================================================
