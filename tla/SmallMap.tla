------------------------------- MODULE SmallMap -------------------------------
(***************************************************************************)
(* The key table of the space (crates/observe/src/lib.rs, enum SmallMap):  *)
(* an inline vector of entries, searched in order and emptied by           *)
(* swap_remove, that is promoted to a hash map by the insertion that finds *)
(* it full and is never demoted.  Its users are ObservationSpace::subject  *)
(* and Subject::drop, one critical section of the entries lock each.       *)
(*                                                                         *)
(* Keys are user code: with KeyPanics their Eq, Hash and Clone may panic   *)
(* at any call.  The lock does not poison, so the table is used on in the  *)
(* state the unwinding left it in.  The hash map is std's: external, a set *)
(* of entries.  An entry's slot is the subject of ObservationSpace.        *)
(***************************************************************************)
EXTENDS Naturals, SequencesExt

CONSTANTS
    Keys,
    INLINE_CAP,
    KeyPanics,   \* may Eq, Hash or Clone of a key panic?
    MaxGen       \* bound: generations handed out

ASSUME TableAssumption ==
    INLINE_CAP \in Nat /\ KeyPanics \in BOOLEAN /\ MaxGen \in Nat

VARIABLES
    table,      \* the SmallMap
    subjects,   \* the Subjects that exist
    next_generation,
    lost        \* the entries that unwinding dropped while their key was in use

vars == <<table, subjects, next_generation, lost>>

\* The key and generation of an entry, and of the Subject it belongs to.
SlotEntry == [key : Keys, generation : 1 .. MaxGen]
NoEntry   == [key |-> 0, generation |-> 0]

Inline(entries) == [repr |-> "Inline", entries |-> entries]
Hash(map)       == [repr |-> "Hash", entries |-> map]
IsInline(t)     == t.repr = "Inline"

Stored(t) == IF IsInline(t) THEN ToSet(t.entries) ELSE t.entries

-------------------------------------------------------------------------------
(***************************************************************************)
(* SmallMap::get, is_vacant, insert_vacant, remove_if.                     *)
(***************************************************************************)

\* iter().position: the first match, 0 if there is none.
Position(entries, k) == SelectInSeq(entries, LAMBDA e : e.key = k)

At(map, k) == {e \in map : e.key = k}

Get(t, k) ==
    IF IsInline(t)
    THEN LET i == Position(t.entries, k) IN IF i = 0 THEN NoEntry ELSE t.entries[i]
    ELSE IF At(t.entries, k) = {} THEN NoEntry ELSE CHOOSE e \in At(t.entries, k) : TRUE

IsVacant(t, k) == Get(t, k) = NoEntry

\* HashMap::insert replaces the value of a key that is there.
MapInsert(map, e) == (map \ At(map, e.key)) \cup {e}

\* Faulty variants of InsertVacant: one entry too many stays inline; the
\* promotion forgets the entry that caused it.
InsertPastCap(t, e) ==
    IF ~IsInline(t) THEN Hash(MapInsert(t.entries, e))
    ELSE IF Len(t.entries) > INLINE_CAP THEN Hash(MapInsert(ToSet(t.entries), e))
    ELSE Inline(Append(t.entries, e))
PromoteWithout(t, e) ==
    IF ~IsInline(t) THEN Hash(MapInsert(t.entries, e))
    ELSE IF Len(t.entries) >= INLINE_CAP THEN Hash(ToSet(t.entries))
    ELSE Inline(Append(t.entries, e))

InsertVacant(t, e) ==
    IF ~IsInline(t) THEN Hash(MapInsert(t.entries, e))
    ELSE IF Len(t.entries) >= INLINE_CAP THEN Hash(MapInsert(ToSet(t.entries), e))
    ELSE Inline(Append(t.entries, e))

\* The last entry takes the place of entry i.
SwapRemove(entries, i) == Front([entries EXCEPT ![i] = Last(entries)])

\* Faulty variant of RemoveIf: the generation is not compared.
RemoveAny(t, k, g) ==
    IF IsVacant(t, k) THEN t
    ELSE IF IsInline(t) THEN Inline(SwapRemove(t.entries, Position(t.entries, k)))
    ELSE Hash(t.entries \ At(t.entries, k))

RemoveIf(t, k, g) ==
    IF Get(t, k).generation # g THEN t
    ELSE IF IsInline(t) THEN Inline(SwapRemove(t.entries, Position(t.entries, k)))
    ELSE Hash(t.entries \ At(t.entries, k))

\* What may be left of t when key code panics inside insert_vacant.  A push
\* runs none.  A promotion has drained the vector, and the half-built map is
\* dropped.  The hash map may be rehashing in place (it then drops what it has
\* not placed yet) or not.
AfterInsertPanic(t) ==
    IF ~IsInline(t) THEN {Hash(map) : map \in SUBSET t.entries}
    ELSE IF Len(t.entries) >= INLINE_CAP THEN {Inline(<<>>)}
    ELSE {}

-------------------------------------------------------------------------------
(***************************************************************************)
(* ObservationSpace::subject and Subject::drop, as far as the table goes.  *)
(***************************************************************************)

\* subject; an occupied key is refused.  Bound: MaxGen, which stands in for the
\* counter's wrap and the assert_ne! after it; ObservationSpace has both.
Vacant(k) == IsVacant(table, k) /\ next_generation <= MaxGen

NewEntry(k) == [key |-> k, generation |-> next_generation]

Create(k) ==
    /\ Vacant(k)
    /\ table' = InsertVacant(table, NewEntry(k))
    /\ subjects' = subjects \cup {NewEntry(k)}
    /\ next_generation' = next_generation + 1
    /\ UNCHANGED lost

\* The clone of the key, or the insertion, panics: the generation is used up.
\* (A panic in is_vacant changes nothing here.)
CreatePanics(k) ==
    /\ KeyPanics
    /\ Vacant(k)
    /\ table' \in AfterInsertPanic(table) \cup {table}
    /\ next_generation' = next_generation + 1
    /\ lost' = lost \cup (Stored(table) \ Stored(table'))
    /\ UNCHANGED subjects

Retire(s) ==
    /\ table' = RemoveIf(table, s.key, s.generation)
    /\ subjects' = subjects \ {s}
    /\ UNCHANGED <<next_generation, lost>>

\* A key comparison panics in remove_if (there is none in an empty table): the
\* subject is gone, its entry stays.
RetirePanics(s) ==
    /\ KeyPanics
    /\ Stored(table) # {}
    /\ subjects' = subjects \ {s}
    /\ UNCHANGED <<table, next_generation, lost>>

Init ==
    /\ table = Inline(<<>>)
    /\ subjects = {}
    /\ next_generation = 1
    /\ lost = {}

Next ==
    \/ \E k \in Keys : Create(k) \/ CreatePanics(k)
    \/ \E s \in subjects : Retire(s) \/ RetirePanics(s)

Spec == Init /\ [][Next]_vars

-------------------------------------------------------------------------------
(***************************************************************************)
(* Properties.                                                             *)
(***************************************************************************)

\* One entry per key in either representation, although insert_vacant does not
\* look for one, and an inline vector that stays within INLINE_CAP.
OneEntryPerKey ==
    /\ \A e, d \in Stored(table) : e.key = d.key => e = d
    /\ IsInline(table) => /\ Len(table.entries) <= INLINE_CAP
                          /\ IsInjective(table.entries)

\* A lookup finds every subject that exists, through promotion, swap_remove and
\* the retirement of others, unless unwinding dropped that very entry; so a
\* subject whose entry was lost, when it is dropped, leaves alone the one that
\* has taken its key since (generations do not repeat up to MaxGen; for those
\* that do, see ObservationSpace's EntryOfSubject).
LookupFindsSubject ==
    \A s \in subjects : s \notin lost => Get(table, s.key) = s

\* The table implements KeyTable: its two representations and the moves
\* between them cannot be told from a function from keys to generations.
Abstract == INSTANCE KeyTable WITH
    entry <- [k \in Keys |-> Get(table, k).generation],
    owned <- subjects,
    next  <- next_generation

ImplementsKeyTable == Abstract!Spec

-------------------------------------------------------------------------------
(***************************************************************************)
(* The inductive invariant: types, OneEntryPerKey, LookupFindsSubject, and *)
(* the freshness of generations that makes the comparison in remove_if     *)
(* tell a subject's own entry from every other.                            *)
(***************************************************************************)

TypeOK ==
    /\ IF IsInline(table)
       THEN table \in [repr : {"Inline"}, entries : Seq(SlotEntry)]
       ELSE table \in [repr : {"Hash"}, entries : SUBSET SlotEntry]
    /\ subjects \subseteq SlotEntry
    /\ next_generation \in 1 .. MaxGen + 1
    /\ lost \subseteq SlotEntry

Known == Stored(table) \cup subjects \cup lost

InvFresh ==
    /\ \A e \in Known : e.generation < next_generation
    /\ \A e, d \in Known : e.generation = d.generation => e = d

\* The state of the table and of its users is typed, has one entry per key,
\* finds every subject that has not lost its entry, and no generation that
\* subject has handed out was handed out before.
Inv == TypeOK /\ InvFresh /\ OneEntryPerKey /\ LookupFindsSubject

===============================================================================
