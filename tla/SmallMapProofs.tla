---------------------------- MODULE SmallMapProofs ----------------------------
(***************************************************************************)
(* Proofs about SmallMap, for every set of keys and every INLINE_CAP.      *)
(*                                                                         *)
(* The operations of the table are first characterised by what they do to  *)
(* the set of its entries (GetStored to PanicStored): from there on the    *)
(* two representations are out of sight, and that Inv is inductive and     *)
(* that the table implements KeyTable are arguments about sets.            *)
(***************************************************************************)
EXTENDS SmallMap, TLAPS

\* What an operation of the table may rely on and must restore.
Table(t) ==
    IF IsInline(t)
    THEN t \in [repr : {"Inline"}, entries : Seq(SlotEntry)]
    ELSE t \in [repr : {"Hash"}, entries : SUBSET SlotEntry]

Sound(t) ==
    /\ Table(t)
    /\ \A e, d \in Stored(t) : e.key = d.key => e = d
    /\ IsInline(t) => /\ Len(t.entries) <= INLINE_CAP
                      /\ IsInjective(t.entries)

-------------------------------------------------------------------------------
(***************************************************************************)
(* Vectors of entries: position and swap_remove.                           *)
(***************************************************************************)

\* The entry that position finds is the only one with the key.
LEMMA PositionOfOnly ==
    ASSUME NEW s \in Seq(SlotEntry), NEW i \in 1 .. Len(s),
           \A j \in 1 .. Len(s) : s[j].key = s[i].key => j = i
    PROVE  Position(s, s[i].key) = i
<1> DEFINE I == {j \in 1 .. Len(s) : s[j].key = s[i].key}
<1>1. I = {i}
  OBVIOUS
<1>2. Min(I) = i
  BY <1>1 DEF Min
<1> QED BY <1>1, <1>2 DEF Position, SelectInSeq

\* Without an entry of the key, position finds none.
LEMMA NoPosition ==
    ASSUME NEW s \in Seq(SlotEntry), NEW k,
           \A j \in 1 .. Len(s) : s[j].key # k
    PROVE  Position(s, k) = 0
BY DEF Position, SelectInSeq

\* An index that is not the last one is among the others.
LEMMA NotLast ==
    ASSUME NEW n \in Nat, NEW i \in 1 .. n, i # n
    PROVE  i \in 1 .. n - 1
OBVIOUS

\* swap_remove takes out one entry and keeps the others, in another order.
LEMMA SwapRemoveSet ==
    ASSUME NEW s \in Seq(SlotEntry), NEW i \in 1 .. Len(s), IsInjective(s)
    PROVE  /\ SwapRemove(s, i) \in Seq(SlotEntry)
           /\ Len(SwapRemove(s, i)) = Len(s) - 1
           /\ IsInjective(SwapRemove(s, i))
           /\ ToSet(SwapRemove(s, i)) = ToSet(s) \ {s[i]}
<1> DEFINE n == Len(s)
           w == [s EXCEPT ![i] = Last(s)]
           r == SwapRemove(s, i)
<1>1. n \in Nat /\ n >= 1 /\ DOMAIN s = 1 .. n /\ Last(s) = s[n] /\ s[n] \in SlotEntry
  BY DEF Last
<1>2. w \in Seq(SlotEntry) /\ Len(w) = n
  BY <1>1
<1>3. r \in Seq(SlotEntry) /\ Len(r) = n - 1
      /\ \A j \in 1 .. n - 1 : r[j] = w[j]
  BY <1>1, <1>2 DEF SwapRemove, Front
<1>4. \A j \in 1 .. n - 1 : r[j] = IF j = i THEN s[n] ELSE s[j]
  BY <1>1, <1>3
<1>5. \A a, b \in 1 .. n : s[a] = s[b] => a = b
  BY <1>1 DEF IsInjective
<1>6. IsInjective(r)
  BY <1>1, <1>3, <1>4, <1>5 DEF IsInjective
<1>7. ToSet(r) = ToSet(s) \ {s[i]}
  <2>1. \A j \in 1 .. n - 1 : r[j] \in ToSet(s) \ {s[i]}
    BY <1>1, <1>4, <1>5 DEF ToSet
  <2> HIDE DEF w, r
  <2>2. ASSUME NEW a \in 1 .. n, a # i PROVE \E j \in 1 .. n - 1 : r[j] = s[a]
    <3>1. CASE a = n
      <4>1. i \in 1 .. n - 1
        BY <1>1, <2>2, <3>1, NotLast
      <4>2. r[i] = s[a]
        BY <1>4, <3>1, <4>1
      <4> QED BY <4>1, <4>2, Zenon
    <3>2. CASE a # n
      <4>1. a \in 1 .. n - 1
        BY <1>1, <3>2, NotLast
      <4>2. r[a] = s[a]
        BY <1>4, <2>2, <4>1
      <4> QED BY <4>1, <4>2, Zenon
    <3> QED BY <3>1, <3>2
  <2>3. DOMAIN r = 1 .. n - 1
    BY <1>3
  <2>4. ToSet(r) = {r[j] : j \in 1 .. n - 1} /\ ToSet(s) = {s[j] : j \in 1 .. n}
    BY <1>1, <2>3 DEF ToSet
  <2>5. ASSUME NEW e \in ToSet(r) PROVE e \in ToSet(s) \ {s[i]}
    <3>1. PICK j \in 1 .. n - 1 : e = r[j]
      BY <2>4
    <3> QED BY <2>1, <3>1
  <2>6. ASSUME NEW e \in ToSet(s), e # s[i] PROVE e \in ToSet(r)
    <3>1. PICK a \in 1 .. n : e = s[a]
      BY <2>4
    <3>2. PICK j \in 1 .. n - 1 : r[j] = s[a]
      BY <2>2, <2>6, <3>1
    <3> QED BY <2>4, <3>1, <3>2
  <2> QED BY <2>5, <2>6
<1> QED BY <1>3, <1>6, <1>7

-------------------------------------------------------------------------------
(***************************************************************************)
(* The operations of the table, by the set of its entries.                 *)
(***************************************************************************)

\* The entries of a table, inline or in the hash map.
LEMMA StoredTypes ==
    ASSUME NEW t, Table(t)
    PROVE  /\ Stored(t) \subseteq SlotEntry
           /\ IsInline(t) => /\ t.entries \in Seq(SlotEntry)
                             /\ t = Inline(t.entries)
                             /\ Stored(t) = {t.entries[i] : i \in 1 .. Len(t.entries)}
           /\ ~IsInline(t) => t.entries \subseteq SlotEntry /\ Stored(t) = t.entries
<1>1. CASE IsInline(t)
  <2>1. t.entries \in Seq(SlotEntry) /\ t = Inline(t.entries)
    BY <1>1 DEF Table, Inline, IsInline
  <2>2. Stored(t) = {t.entries[i] : i \in 1 .. Len(t.entries)}
    BY <1>1, <2>1 DEF Stored, ToSet
  <2> QED BY <1>1, <2>1, <2>2
<1>2. CASE ~IsInline(t)
  BY <1>2 DEF Table, Stored
<1> QED BY <1>1, <1>2

\* NoEntry is nobody's entry.
LEMMA NoEntryIsNone == NoEntry \notin SlotEntry /\ NoEntry.generation = 0
BY DEF NoEntry, SlotEntry

\* A lookup finds the entry of its key, where there is one.
LEMMA GetStored ==
    ASSUME NEW t, Sound(t), NEW e \in Stored(t)
    PROVE  Get(t, e.key) = e
<1>0. Table(t) /\ \A c, d \in Stored(t) : c.key = d.key => c = d
  BY DEF Sound
<1>1. CASE IsInline(t)
  <2> DEFINE s == t.entries
  <2>1. s \in Seq(SlotEntry) /\ Stored(t) = {s[i] : i \in 1 .. Len(s)} /\ IsInjective(s)
    BY <1>0, <1>1, StoredTypes DEF Sound
  <2>2. PICK i \in 1 .. Len(s) : s[i] = e
    BY <2>1
  <2>3. \A j \in 1 .. Len(s) : s[j].key = s[i].key => j = i
    <3>1. \A j \in 1 .. Len(s) : s[j].key = s[i].key => s[j] = s[i]
      BY <1>0, <2>1
    <3> QED BY <2>1, <3>1 DEF IsInjective
  <2>4. Position(s, e.key) = i
    BY <2>1, <2>2, <2>3, PositionOfOnly
  <2> QED BY <1>1, <2>1, <2>2, <2>4 DEF Get
<1>2. CASE ~IsInline(t)
  <2>1. Stored(t) = t.entries
    BY <1>0, <1>2, StoredTypes
  <2>2. At(t.entries, e.key) = {e}
    BY <1>0, <2>1 DEF At
  <2> QED BY <1>2, <2>2 DEF Get
<1> QED BY <1>1, <1>2

\* A lookup finds nothing under a key that has no entry.
LEMMA GetNothing ==
    ASSUME NEW t, Table(t), NEW k, \A e \in Stored(t) : e.key # k
    PROVE  Get(t, k) = NoEntry
<1>1. CASE IsInline(t)
  <2>1. t.entries \in Seq(SlotEntry) /\ \A i \in 1 .. Len(t.entries) : t.entries[i].key # k
    BY <1>1, StoredTypes
  <2>2. Position(t.entries, k) = 0
    BY <2>1, NoPosition
  <2> QED BY <1>1, <2>2 DEF Get
<1>2. CASE ~IsInline(t)
  BY <1>2, StoredTypes DEF Get, At
<1> QED BY <1>1, <1>2

\* is_vacant tells whether an entry has the key.
LEMMA VacantStored ==
    ASSUME NEW t, Sound(t), NEW k
    PROVE  IsVacant(t, k) <=> \A e \in Stored(t) : e.key # k
<1>0. Table(t) /\ Stored(t) \subseteq SlotEntry
  BY StoredTypes DEF Sound
<1>1. ASSUME NEW e \in Stored(t), e.key = k PROVE ~IsVacant(t, k)
  BY <1>0, <1>1, GetStored, NoEntryIsNone DEF IsVacant
<1>2. ASSUME \A e \in Stored(t) : e.key # k PROVE IsVacant(t, k)
  BY <1>0, <1>2, GetNothing DEF IsVacant
<1> QED BY <1>1, <1>2

\* insert_vacant on a vacant key adds the entry, inline, by promotion or in the
\* hash map.
LEMMA InsertStored ==
    ASSUME NEW t, Sound(t), NEW e \in SlotEntry, IsVacant(t, e.key)
    PROVE  Sound(InsertVacant(t, e)) /\ Stored(InsertVacant(t, e)) = Stored(t) \cup {e}
<1>0. /\ Table(t) /\ Stored(t) \subseteq SlotEntry
      /\ \A d \in Stored(t) : d.key # e.key
      /\ \A c, d \in Stored(t) \cup {e} : c.key = d.key => c = d
  <2>1. Table(t) /\ Stored(t) \subseteq SlotEntry
        /\ \A c, d \in Stored(t) : c.key = d.key => c = d
    BY StoredTypes DEF Sound
  <2>2. \A d \in Stored(t) : d.key # e.key
    BY VacantStored
  <2> QED BY <2>1, <2>2
<1>1. ASSUME NEW m, m = Stored(t) PROVE
        Sound(Hash(MapInsert(m, e))) /\ Stored(Hash(MapInsert(m, e))) = Stored(t) \cup {e}
  <2>1. MapInsert(m, e) = Stored(t) \cup {e}
    BY <1>0, <1>1 DEF MapInsert, At
  <2>2. PICK u : u = Hash(MapInsert(m, e))
    OBVIOUS
  <2>3. u.repr = "Hash" /\ u.entries = Stored(t) \cup {e}
        /\ u \in [repr : {"Hash"}, entries : SUBSET SlotEntry]
    BY <1>0, <2>1, <2>2 DEF Hash
  <2>4. ~IsInline(u) /\ Stored(u) = Stored(t) \cup {e}
    BY <2>3 DEF IsInline, Stored
  <2>5. Sound(u)
    BY <1>0, <2>3, <2>4 DEF Sound, Table
  <2> QED BY <2>2, <2>4, <2>5
<1>2. CASE ~IsInline(t)
  BY <1>0, <1>1, <1>2, StoredTypes DEF InsertVacant
<1>3. CASE IsInline(t) /\ Len(t.entries) >= INLINE_CAP
  <2>1. Stored(t) = ToSet(t.entries)
    BY <1>3 DEF Stored
  <2> QED BY <1>1, <1>3, <2>1 DEF InsertVacant
<1>4. CASE IsInline(t) /\ ~(Len(t.entries) >= INLINE_CAP)
  <2>0. PICK s : s = t.entries
    OBVIOUS
  <2>1. /\ s \in Seq(SlotEntry) /\ Len(s) < INLINE_CAP /\ Len(s) \in Nat
        /\ IsInjective(s) /\ DOMAIN s = 1 .. Len(s)
        /\ Stored(t) = {s[i] : i \in 1 .. Len(s)}
    BY <1>0, <1>4, <2>0, StoredTypes, TableAssumption DEF Sound
  <2>2. PICK r : r = Append(s, e)
    OBVIOUS
  <2>3. /\ r \in Seq(SlotEntry) /\ Len(r) = Len(s) + 1 /\ DOMAIN r = 1 .. Len(s) + 1
        /\ \A i \in 1 .. Len(s) : r[i] = s[i]
        /\ r[Len(s) + 1] = e
    BY <2>1, <2>2
  <2>4. ToSet(r) = Stored(t) \cup {e}
    <3>1. ToSet(r) = {r[i] : i \in 1 .. Len(s) + 1}
      BY <2>3 DEF ToSet
    <3>2. \A i \in 1 .. Len(s) + 1 : i \in 1 .. Len(s) \/ i = Len(s) + 1
      BY <2>1
    <3>3. \A i \in 1 .. Len(s) : i \in 1 .. Len(s) + 1
      BY <2>1
    <3>4. Len(s) + 1 \in 1 .. Len(s) + 1
      BY <2>1
    <3> QED BY <2>1, <2>3, <3>1, <3>2, <3>3, <3>4
  <2>5. IsInjective(r)
    <3>1. \A i \in 1 .. Len(s) : s[i] # e
      BY <1>0, <2>1
    <3> QED BY <2>1, <2>3, <3>1 DEF IsInjective
  <2>6. PICK u : u = Inline(r)
    OBVIOUS
  <2>7. /\ IsInline(u) /\ u.entries = r /\ Stored(u) = ToSet(r)
        /\ u \in [repr : {"Inline"}, entries : Seq(SlotEntry)]
    BY <2>3, <2>6 DEF Inline, IsInline, Stored
  <2>8. Sound(u)
    BY <1>0, <2>1, <2>3, <2>4, <2>5, <2>7, TableAssumption DEF Sound, Table
  <2>9. InsertVacant(t, e) = u
    BY <1>4, <2>0, <2>2, <2>6 DEF InsertVacant
  <2> QED BY <2>4, <2>7, <2>8, <2>9
<1> QED BY <1>2, <1>3, <1>4

\* remove_if takes out the entry of that key and generation, if it is there,
\* and no other.
LEMMA RemoveStored ==
    ASSUME NEW t, Sound(t), NEW s \in SlotEntry
    PROVE  /\ Sound(RemoveIf(t, s.key, s.generation))
           /\ Stored(RemoveIf(t, s.key, s.generation)) = Stored(t) \ {s}
<1>0. /\ Table(t) /\ Stored(t) \subseteq SlotEntry
      /\ \A c, d \in Stored(t) : c.key = d.key => c = d
  BY StoredTypes DEF Sound
<1>1. CASE s \notin Stored(t)
  <2>1. Get(t, s.key).generation # s.generation
    <3>1. CASE \E e \in Stored(t) : e.key = s.key
      <4>1. PICK e \in Stored(t) : e.key = s.key
        BY <3>1
      <4>2. e.generation # s.generation
        BY <1>0, <1>1, <4>1 DEF SlotEntry
      <4> QED BY <4>1, <4>2, GetStored
    <3>2. CASE \A e \in Stored(t) : e.key # s.key
      <4>1. Get(t, s.key).generation = 0
        BY <1>0, <3>2, GetNothing, NoEntryIsNone
      <4>2. s.generation # 0
        BY DEF SlotEntry
      <4> QED BY <4>1, <4>2
    <3> QED BY <3>1, <3>2
  <2>2. RemoveIf(t, s.key, s.generation) = t
    BY <2>1 DEF RemoveIf
  <2> QED BY <1>1, <2>2
<1>2. CASE s \in Stored(t)
  <2>1. Get(t, s.key) = s
    BY <1>2, GetStored
  <2>2. CASE ~IsInline(t)
    <3>1. Stored(t) = t.entries
      BY <1>0, <2>2, StoredTypes
    <3>2. t.entries \ At(t.entries, s.key) = Stored(t) \ {s}
      BY <1>0, <1>2, <3>1 DEF At
    <3>3. PICK u : u = Hash(Stored(t) \ {s})
      OBVIOUS
    <3>4. RemoveIf(t, s.key, s.generation) = u
      BY <2>1, <2>2, <3>2, <3>3 DEF RemoveIf
    <3>5. /\ ~IsInline(u) /\ Stored(u) = Stored(t) \ {s}
          /\ u \in [repr : {"Hash"}, entries : SUBSET SlotEntry]
      BY <1>0, <3>3 DEF Hash, IsInline, Stored
    <3>6. Sound(u)
      BY <1>0, <3>5 DEF Sound, Table
    <3> QED BY <3>4, <3>5, <3>6
  <2>3. CASE IsInline(t)
    <3>0. PICK v : v = t.entries
      OBVIOUS
    <3>1. /\ v \in Seq(SlotEntry) /\ Len(v) <= INLINE_CAP /\ Len(v) \in Nat
          /\ IsInjective(v)
          /\ Stored(t) = ToSet(v) /\ Stored(t) = {v[i] : i \in 1 .. Len(v)}
      <4>1. v \in Seq(SlotEntry) /\ Stored(t) = {v[i] : i \in 1 .. Len(v)}
        BY <1>0, <2>3, <3>0, StoredTypes DEF Sound
      <4>2. Len(v) <= INLINE_CAP /\ IsInjective(v)
        BY <1>0, <2>3, <3>0 DEF Sound
      <4>3. Stored(t) = ToSet(v)
        BY <2>3, <3>0 DEF Stored
      <4>4. Len(v) \in Nat
        BY <4>1
      <4> QED BY <4>1, <4>2, <4>3, <4>4
    <3>2. PICK i \in 1 .. Len(v) : v[i] = s
      BY <1>2, <3>1
    <3>3. \A j \in 1 .. Len(v) : v[j].key = v[i].key => j = i
      <4>1. \A j \in 1 .. Len(v) : v[j].key = v[i].key => v[j] = v[i]
        BY <1>0, <3>1
      <4> QED BY <3>1, <4>1 DEF IsInjective
    <3>4. Position(v, s.key) = i
      BY <3>1, <3>2, <3>3, PositionOfOnly
    <3>5. PICK r : r = SwapRemove(v, i)
      OBVIOUS
    <3>6. /\ r \in Seq(SlotEntry) /\ Len(r) = Len(v) - 1 /\ IsInjective(r)
          /\ ToSet(r) = Stored(t) \ {s}
      BY <3>1, <3>2, <3>5, SwapRemoveSet
    <3>7. PICK u : u = Inline(r)
      OBVIOUS
    <3>8. /\ IsInline(u) /\ u.entries = r /\ Stored(u) = ToSet(r)
          /\ u \in [repr : {"Inline"}, entries : Seq(SlotEntry)]
      BY <3>6, <3>7 DEF Inline, IsInline, Stored
    <3>9. Len(r) <= INLINE_CAP
      BY <3>1, <3>6, TableAssumption
    <3>10. Sound(u)
      BY <1>0, <3>6, <3>8, <3>9 DEF Sound, Table
    <3>11. RemoveIf(t, s.key, s.generation) = u
      BY <2>1, <2>3, <3>0, <3>4, <3>5, <3>7 DEF RemoveIf
    <3> QED BY <3>6, <3>8, <3>10, <3>11
  <2> QED BY <2>2, <2>3
<1> QED BY <1>1, <1>2

\* Unwinding from insert_vacant leaves a table with some of the entries.
LEMMA PanicStored ==
    ASSUME NEW t, Sound(t), NEW u \in AfterInsertPanic(t)
    PROVE  Sound(u) /\ Stored(u) \subseteq Stored(t)
<1>0. /\ Table(t) /\ Stored(t) \subseteq SlotEntry
      /\ \A c, d \in Stored(t) : c.key = d.key => c = d
  BY StoredTypes DEF Sound
<1>1. CASE ~IsInline(t)
  <2>1. PICK m \in SUBSET t.entries : u = Hash(m)
    BY <1>1 DEF AfterInsertPanic
  <2>2. m \subseteq Stored(t)
    BY <1>0, <1>1, <2>1, StoredTypes
  <2>3. /\ ~IsInline(u) /\ Stored(u) = m
        /\ u \in [repr : {"Hash"}, entries : SUBSET SlotEntry]
    BY <1>0, <2>1, <2>2 DEF Hash, IsInline, Stored
  <2> QED BY <1>0, <2>2, <2>3 DEF Sound, Table
<1>2. CASE IsInline(t)
  <2>1. u = Inline(<<>>)
    BY <1>2 DEF AfterInsertPanic
  <2>2. PICK r : r = <<>>
    OBVIOUS
  <2>3. r \in Seq(SlotEntry) /\ Len(r) = 0 /\ ToSet(r) = {} /\ IsInjective(r)
    BY <2>2 DEF ToSet, IsInjective
  <2>4. /\ IsInline(u) /\ u.entries = r /\ Stored(u) = {}
        /\ u \in [repr : {"Inline"}, entries : Seq(SlotEntry)]
    BY <2>1, <2>2, <2>3 DEF Inline, IsInline, Stored
  <2> QED BY <2>3, <2>4, TableAssumption DEF Sound, Table
<1> QED BY <1>1, <1>2

-------------------------------------------------------------------------------
(***************************************************************************)
(* The inductive invariant.                                                *)
(***************************************************************************)

\* Inv in terms of the set of entries.
LEMMA InvStored ==
    Inv <=> /\ Sound(table)
            /\ subjects \subseteq SlotEntry
            /\ lost \subseteq SlotEntry
            /\ next_generation \in 1 .. MaxGen + 1
            /\ InvFresh
            /\ \A s \in subjects : s \notin lost => s \in Stored(table)
<1> DEFINE Rest == /\ Sound(table)
                   /\ subjects \subseteq SlotEntry
                   /\ lost \subseteq SlotEntry
                   /\ next_generation \in 1 .. MaxGen + 1
                   /\ InvFresh
<1>1. TypeOK /\ InvFresh /\ OneEntryPerKey <=> Rest
  BY DEF TypeOK, OneEntryPerKey, Sound, Table
<1>2. ASSUME Rest, NEW s \in subjects
      PROVE  Get(table, s.key) = s <=> s \in Stored(table)
  <2>1. ASSUME s \in Stored(table) PROVE Get(table, s.key) = s
    BY <1>2, <2>1, GetStored
  <2>2. ASSUME s \notin Stored(table) PROVE Get(table, s.key) # s
    <3>1. CASE \E e \in Stored(table) : e.key = s.key
      BY <1>2, <2>2, <3>1, GetStored
    <3>2. CASE \A e \in Stored(table) : e.key # s.key
      <4>1. Get(table, s.key) = NoEntry
        BY <1>2, <3>2, GetNothing DEF Sound
      <4> QED BY <1>2, <4>1, NoEntryIsNone
    <3> QED BY <3>1, <3>2
  <2> QED BY <2>1, <2>2
<1> HIDE DEF Rest
<1>3. Inv <=> Rest /\ \A s \in subjects : s \notin lost => s \in Stored(table)
  BY <1>1, <1>2 DEF Inv, LookupFindsSubject
<1> QED BY <1>3 DEF Rest

\* The same in the next state.
LEMMA InvStoredNext ==
    (Inv <=> /\ Sound(table)
             /\ subjects \subseteq SlotEntry
             /\ lost \subseteq SlotEntry
             /\ next_generation \in 1 .. MaxGen + 1
             /\ InvFresh
             /\ \A s \in subjects : s \notin lost => s \in Stored(table))'
BY InvStored, PTL

\* The empty table of SmallMap::default.
LEMMA InitInv == Init => Inv
<1> SUFFICES ASSUME Init PROVE Inv
  OBVIOUS
<1>1. PICK r : r = <<>>
  OBVIOUS
<1>2. r \in Seq(SlotEntry) /\ Len(r) = 0 /\ ToSet(r) = {} /\ IsInjective(r)
  BY <1>1 DEF ToSet, IsInjective
<1>3. /\ IsInline(table) /\ table.entries = r /\ Stored(table) = {}
      /\ table \in [repr : {"Inline"}, entries : Seq(SlotEntry)]
  BY <1>1, <1>2 DEF Init, Inline, IsInline, Stored
<1>4. Sound(table)
  BY <1>2, <1>3, TableAssumption DEF Sound, Table
<1>5. InvFresh
  BY <1>3 DEF Init, InvFresh, Known
<1> QED BY <1>3, <1>4, <1>5, InvStored, TableAssumption DEF Init

\* A subject is created under a vacant key, with a generation of its own.
LEMMA CreateInv ==
    ASSUME Inv, NEW k \in Keys, Create(k)
    PROVE  Inv'
<1>0. PICK e : e = NewEntry(k)
  OBVIOUS
<1>1. /\ Sound(table) /\ InvFresh
      /\ subjects \subseteq SlotEntry /\ lost \subseteq SlotEntry
      /\ next_generation \in 1 .. MaxGen + 1
      /\ \A s \in subjects : s \notin lost => s \in Stored(table)
  BY InvStored
<1>2. /\ IsVacant(table, k) /\ next_generation <= MaxGen
      /\ table' = InsertVacant(table, e)
      /\ subjects' = subjects \cup {e}
      /\ next_generation' = next_generation + 1 /\ lost' = lost
  BY <1>0 DEF Create, Vacant
<1>3. e \in SlotEntry /\ e.key = k /\ e.generation = next_generation
  BY <1>0, <1>1, <1>2, TableAssumption DEF NewEntry, SlotEntry
<1>4. Sound(table') /\ Stored(table') = Stored(table) \cup {e}
  BY <1>1, <1>2, <1>3, InsertStored
<1>5. Known' = Known \cup {e}
  BY <1>2, <1>4 DEF Known
<1>6. \A d \in Known : d \in SlotEntry /\ d.generation \in Nat
  BY <1>1, StoredTypes DEF Known, Sound, SlotEntry
<1>7. InvFresh'
  BY <1>1, <1>2, <1>3, <1>5, <1>6, TableAssumption DEF InvFresh
<1>8. next_generation' \in 1 .. MaxGen + 1
  BY <1>1, <1>2, TableAssumption
<1> QED BY <1>1, <1>2, <1>3, <1>4, <1>7, <1>8, InvStoredNext

\* A creation that unwinds loses entries and uses up a generation.
LEMMA CreatePanicsInv ==
    ASSUME Inv, NEW k \in Keys, CreatePanics(k)
    PROVE  Inv'
<1>1. /\ Sound(table) /\ InvFresh
      /\ subjects \subseteq SlotEntry /\ lost \subseteq SlotEntry
      /\ next_generation \in 1 .. MaxGen + 1
      /\ \A s \in subjects : s \notin lost => s \in Stored(table)
  BY InvStored
<1>2. /\ next_generation <= MaxGen
      /\ table' \in AfterInsertPanic(table) \cup {table}
      /\ subjects' = subjects
      /\ next_generation' = next_generation + 1
      /\ lost' = lost \cup (Stored(table) \ Stored(table'))
  BY DEF CreatePanics, Vacant
<1>3. Sound(table') /\ Stored(table') \subseteq Stored(table)
  BY <1>1, <1>2, PanicStored
<1>4. Known' = Known
  BY <1>2, <1>3 DEF Known
<1>5. Stored(table) \subseteq SlotEntry
  BY <1>1, StoredTypes DEF Sound
<1>6. \A d \in Known : d \in SlotEntry /\ d.generation \in Nat
  BY <1>1, <1>5 DEF Known, SlotEntry
<1>7. InvFresh'
  BY <1>1, <1>2, <1>4, <1>6, TableAssumption DEF InvFresh
<1>8. next_generation' \in 1 .. MaxGen + 1 /\ lost' \subseteq SlotEntry
  BY <1>1, <1>2, <1>5, TableAssumption
<1> QED BY <1>1, <1>2, <1>3, <1>7, <1>8, InvStoredNext

\* A subject that retires takes at most its own entry with it.
LEMMA RetireInv ==
    ASSUME Inv, NEW s \in subjects, Retire(s) \/ RetirePanics(s)
    PROVE  Inv'
<1>1. /\ Sound(table) /\ InvFresh
      /\ subjects \subseteq SlotEntry /\ lost \subseteq SlotEntry
      /\ next_generation \in 1 .. MaxGen + 1
      /\ \A c \in subjects : c \notin lost => c \in Stored(table)
  BY InvStored
<1>2. /\ table' = RemoveIf(table, s.key, s.generation) \/ table' = table
      /\ subjects' = subjects \ {s}
      /\ next_generation' = next_generation /\ lost' = lost
  BY DEF Retire, RetirePanics
<1>3. Sound(table') /\ (Stored(table') = Stored(table) \ {s} \/ Stored(table') = Stored(table))
  BY <1>1, <1>2, RemoveStored
<1>4. Known' \subseteq Known
  BY <1>2, <1>3 DEF Known
<1>5. InvFresh'
  BY <1>1, <1>2, <1>4 DEF InvFresh
<1> QED BY <1>1, <1>2, <1>3, <1>5, InvStoredNext

\* Every step preserves Inv.
LEMMA NextInv == Inv /\ [Next]_vars => Inv'
<1> SUFFICES ASSUME Inv, [Next]_vars PROVE Inv'
  OBVIOUS
<1>1. ASSUME NEW k \in Keys, Create(k) PROVE Inv'
  BY <1>1, CreateInv
<1>2. ASSUME NEW k \in Keys, CreatePanics(k) PROVE Inv'
  BY <1>2, CreatePanicsInv
<1>3. ASSUME NEW s \in subjects, Retire(s) \/ RetirePanics(s) PROVE Inv'
  BY <1>3, RetireInv
<1>4. CASE UNCHANGED vars
  BY <1>4 DEF vars, Inv, TypeOK, InvFresh, Known, OneEntryPerKey, LookupFindsSubject
<1> QED BY <1>1, <1>2, <1>3, <1>4 DEF Next

-------------------------------------------------------------------------------
(***************************************************************************)
(* The theorems.                                                           *)
(***************************************************************************)

\* In every reachable state of the table, whatever the number of keys and of
\* inline entries and wherever key code panics, the inductive invariant holds:
\* among the entries, the subjects and what was lost, no two share a generation.
THEOREM Invariance == Spec => []Inv
<1>1. Init => Inv
  BY InitInv
<1>2. Inv /\ [Next]_vars => Inv'
  BY NextInv
<1> QED BY <1>1, <1>2, PTL DEF Spec

\* insert_vacant never makes a second entry of a key, in the vector, in the
\* promotion or in the hash map, and the vector stays within INLINE_CAP.
THEOREM OneEntryOfAKey == Spec => []OneEntryPerKey
<1>1. Inv => OneEntryPerKey
  BY DEF Inv
<1> QED BY <1>1, Invariance, PTL

\* get finds every subject that exists, after any promotions, swap_removes and
\* retirements of others, but for an entry that unwinding dropped.
THEOREM SubjectsAreFound == Spec => []LookupFindsSubject
<1>1. Inv => LookupFindsSubject
  BY DEF Inv
<1> QED BY <1>1, Invariance, PTL

-------------------------------------------------------------------------------
(***************************************************************************)
(* The table implements KeyTable.                                          *)
(***************************************************************************)

\* A lookup depends on the entries of its key only.
LEMMA GetAgrees ==
    ASSUME NEW t, NEW u, Sound(t), Sound(u), NEW k,
           \A e \in Stored(t) : e.key = k => e \in Stored(u),
           \A e \in Stored(u) : e.key = k => e \in Stored(t)
    PROVE  Get(t, k) = Get(u, k)
<1>1. CASE \E e \in Stored(t) : e.key = k
  <2>1. PICK e \in Stored(t) : e.key = k
    BY <1>1
  <2>2. Get(t, e.key) = e
    BY GetStored
  <2>3. e \in Stored(u)
    BY <2>1
  <2>4. Get(u, e.key) = e
    BY <2>3, GetStored
  <2> QED BY <2>1, <2>2, <2>4
<1>2. CASE \A e \in Stored(t) : e.key # k
  <2>1. \A e \in Stored(u) : e.key # k
    BY <1>2
  <2>2. Table(t) /\ Table(u)
    BY DEF Sound
  <2> QED BY <1>2, <2>1, <2>2, GetNothing
<1> QED BY <1>1, <1>2

\* A lookup of an entry and generation finds that very entry.
LEMMA GetGeneration ==
    ASSUME NEW t, Sound(t), NEW s \in SlotEntry, Get(t, s.key).generation = s.generation
    PROVE  s \in Stored(t)
<1>1. Table(t) /\ Stored(t) \subseteq SlotEntry
  BY StoredTypes DEF Sound
<1>2. s.generation # 0
  BY DEF SlotEntry
<1>3. PICK e \in Stored(t) : e.key = s.key
  <2>1. ASSUME \A e \in Stored(t) : e.key # s.key PROVE FALSE
    <3>1. Get(t, s.key) = NoEntry
      BY <1>1, <2>1, GetNothing
    <3> QED BY <1>2, <3>1, NoEntryIsNone
  <2> QED BY <2>1
<1>4. Get(t, s.key) = e
  BY <1>3, GetStored
<1>5. e = s
  BY <1>1, <1>3, <1>4 DEF SlotEntry
<1> QED BY <1>5

\* The function from keys to generations that the table represents.
Generations == [k \in Keys |-> Get(table, k).generation]

\* A created subject takes its key.
LEMMA CreateRefines ==
    ASSUME Inv, Inv', NEW k \in Keys, Create(k)
    PROVE  Abstract!Create(k)
<1>0. PICK e : e = NewEntry(k)
  OBVIOUS
<1>1. Sound(table) /\ Sound(table') /\ next_generation \in 1 .. MaxGen + 1
  BY InvStored, InvStoredNext
<1>2. /\ IsVacant(table, k) /\ next_generation <= MaxGen
      /\ table' = InsertVacant(table, e)
  BY <1>0 DEF Create, Vacant
<1>3. e \in SlotEntry /\ e.key = k /\ e.generation = next_generation
  BY <1>0, <1>1, <1>2, TableAssumption DEF NewEntry, SlotEntry
<1>4. Stored(table') = Stored(table) \cup {e}
  BY <1>1, <1>2, <1>3, InsertStored
<1>5. Get(table, k).generation = 0
  BY <1>2, NoEntryIsNone DEF IsVacant
<1>6. Get(table', k).generation = next_generation
  <2>1. Get(table', e.key) = e
    BY <1>1, <1>4, GetStored
  <2> QED BY <1>3, <2>1
<1>7. ASSUME NEW j \in Keys, j # k PROVE Get(table', j) = Get(table, j)
  BY <1>1, <1>3, <1>4, <1>7, GetAgrees
<1>8. Generations' = [Generations EXCEPT ![k] = next_generation]
  BY <1>6, <1>7 DEF Generations
<1> QED BY <1>0, <1>5, <1>8 DEF Abstract!Create, Generations, Create, NewEntry

\* A creation that unwinds empties some keys.
LEMMA CreatePanicsRefines ==
    ASSUME Inv, Inv', NEW k \in Keys, CreatePanics(k)
    PROVE  Abstract!CreateFails
<1>1. Sound(table) /\ Sound(table')
  BY InvStored, InvStoredNext
<1>2. /\ table' \in AfterInsertPanic(table) \cup {table}
      /\ KeyPanics /\ subjects' = subjects /\ next_generation' = next_generation + 1
  BY DEF CreatePanics
<1>3. Stored(table') \subseteq Stored(table)
  BY <1>1, <1>2, PanicStored
<1>4. PICK gone : gone = {j \in Keys : \A e \in Stored(table') : e.key # j}
  OBVIOUS
<1>5. ASSUME NEW j \in Keys
      PROVE  Get(table', j).generation = IF j \in gone THEN 0 ELSE Get(table, j).generation
  <2>1. CASE j \in gone
    <3>1. Get(table', j) = NoEntry
      BY <1>1, <1>4, <2>1, GetNothing DEF Sound
    <3> QED BY <2>1, <3>1, NoEntryIsNone
  <2>2. CASE j \notin gone
    <3>1. PICK e \in Stored(table') : e.key = j
      BY <1>4, <2>2
    <3>2. Get(table', e.key) = e
      BY <1>1, GetStored
    <3>3. Get(table, e.key) = e
      BY <1>1, <1>3, GetStored
    <3> QED BY <2>2, <3>1, <3>2, <3>3
  <2> QED BY <2>1, <2>2
<1>6. gone \in SUBSET Keys
  BY <1>4
<1>7. Generations' = [j \in Keys |-> IF j \in gone THEN 0 ELSE Generations[j]]
  BY <1>5 DEF Generations
<1> QED BY <1>2, <1>6, <1>7 DEF Abstract!CreateFails, Abstract!Vacate, Generations

\* A retiring subject empties its key if the entry there is its own.
LEMMA RetireRefines ==
    ASSUME Inv, Inv', NEW s \in subjects, Retire(s)
    PROVE  Abstract!Retire(s)
<1>1. Sound(table) /\ Sound(table') /\ s \in SlotEntry
  BY InvStored, InvStoredNext
<1>2. table' = RemoveIf(table, s.key, s.generation)
  BY DEF Retire
<1>3. Stored(table') = Stored(table) \ {s} /\ Stored(table) \subseteq SlotEntry
  BY <1>1, <1>2, RemoveStored, StoredTypes DEF Sound
<1>4. s.key \in Keys
  BY <1>1 DEF SlotEntry
<1>5. PICK gone : gone = {j \in {s.key} : Generations[j] = s.generation}
  OBVIOUS
<1>6. ASSUME NEW j \in Keys
      PROVE  Get(table', j).generation = IF j \in gone THEN 0 ELSE Get(table, j).generation
  <2>1. CASE j \in gone
    <3>1. j = s.key /\ Get(table, s.key).generation = s.generation
      BY <1>5, <2>1 DEF Generations
    <3>2. s \in Stored(table)
      BY <1>1, <3>1, GetGeneration
    <3>3. \A e \in Stored(table') : e.key # j
      BY <1>1, <1>3, <3>1, <3>2 DEF Sound
    <3>4. Get(table', j) = NoEntry
      BY <1>1, <3>3, GetNothing DEF Sound
    <3> QED BY <2>1, <3>4, NoEntryIsNone
  <2>2. CASE j \notin gone
    <3>1. j # s.key \/ s \notin Stored(table)
      <4>1. ASSUME j = s.key, s \in Stored(table) PROVE FALSE
        <5>1. Get(table, s.key) = s
          BY <1>1, <4>1, GetStored
        <5> QED BY <1>4, <1>5, <2>2, <4>1, <5>1 DEF Generations
      <4> QED BY <4>1
    <3>2. Get(table', j) = Get(table, j)
      BY <1>1, <1>3, <3>1, GetAgrees
    <3> QED BY <2>2, <3>2
  <2> QED BY <2>1, <2>2
<1>7. Generations' = [j \in Keys |-> IF j \in gone THEN 0 ELSE Generations[j]]
  BY <1>6 DEF Generations
<1> QED BY <1>5, <1>7 DEF Retire, Abstract!Retire, Abstract!Vacate, Generations

\* Whatever the representation of the table, and through every promotion,
\* swap_remove and unwinding, ObservationSpace::subject and Subject::drop see a
\* function from keys to generations.
THEOREM Refinement == Spec => ImplementsKeyTable
<1>1. Init => Abstract!Init
  <2> SUFFICES ASSUME Init PROVE Abstract!Init
    OBVIOUS
  <2>1. Stored(table) = {}
    BY DEF Init, Stored, Inline, IsInline, ToSet
  <2>2. Sound(table)
    BY InitInv, InvStored
  <2>3. \A k \in Keys : Get(table, k).generation = 0
    BY <2>1, <2>2, GetNothing, NoEntryIsNone DEF Sound
  <2> QED BY <2>3 DEF Init, Abstract!Init
<1>2. Inv /\ Inv' /\ [Next]_vars => [Abstract!Next]_<<Generations, subjects, next_generation>>
  <2> SUFFICES ASSUME Inv, Inv', [Next]_vars
               PROVE  [Abstract!Next]_<<Generations, subjects, next_generation>>
    OBVIOUS
  <2>1. ASSUME NEW k \in Keys, Create(k) PROVE Abstract!Next
    BY <2>1, CreateRefines DEF Abstract!Next
  <2>2. ASSUME NEW k \in Keys, CreatePanics(k) PROVE Abstract!Next
    BY <2>2, CreatePanicsRefines DEF Abstract!Next
  <2>3. ASSUME NEW s \in subjects, Retire(s) PROVE Abstract!Next
    BY <2>3, RetireRefines DEF Abstract!Next
  <2>4. ASSUME NEW s \in subjects, RetirePanics(s) PROVE Abstract!Next
    <3>1. Abstract!Abandon(s)
      BY <2>4 DEF RetirePanics, Abstract!Abandon
    <3> QED BY <3>1 DEF Abstract!Next
  <2>5. CASE UNCHANGED vars
    BY <2>5 DEF vars, Generations
  <2> QED BY <2>1, <2>2, <2>3, <2>4, <2>5 DEF Next
<1> QED BY <1>1, <1>2, Invariance, PTL DEF Spec, ImplementsKeyTable, Abstract!Spec, Generations

===============================================================================
