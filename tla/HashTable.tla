----------------------------- MODULE HashTable -----------------------------
(***************************************************************************)
(* containers::HashTable, the swiss table under HashMap and HashSet: the   *)
(* entries lie packed in m_entries, and m_ctrl / m_index lead from a hash  *)
(* to a place in it, probing group by group.                               *)
(*                                                                         *)
(* The private helpers are operators on the table as one record; an action *)
(* is one call of a public operation.  GroupWidth is 16 and LoadDivisor 8  *)
(* in the code.  m_index keeps stale numbers under slots that are not full *)
(* in the code; here it holds NoEntry there, so that a probe that trusts   *)
(* one is noticed.  Definitions introduced by "Variant:" are faulty        *)
(* readings of the one below them; nothing else uses them.                 *)
(***************************************************************************)
EXTENDS Naturals, FiniteSets, Sequences, SequencesExt, FiniteSetsExt

CONSTANTS
    Keys,           \* an entry is its key: the rest of it moves along
    GroupWidth,     \* swiss::kGroupWidth
    LoadDivisor,    \* one slot in LoadDivisor is never filled
    Fingerprints,   \* the values of the lower hash bits, h2
    HashFunctions,  \* the functions from keys to [h1, h2] that seeds pick
    MaxCapacity,    \* bound: the slots of the largest table
    MaxEntries,     \* bound: the entries of the fullest table
    MaxReserve,     \* bound: the argument of reserve
    Empty, Deleted, \* the two markers of m_ctrl
    NoEntry         \* an entry index that no probe may rely on

ASSUME HashTableAssumption ==
    /\ GroupWidth \in Nat /\ LoadDivisor \in 3 .. GroupWidth
    /\ HashFunctions \subseteq [Keys -> [h1 : Nat, h2 : Fingerprints]]
    /\ Empty \notin Fingerprints /\ Deleted \notin Fingerprints /\ Empty # Deleted
    /\ NoEntry \notin Nat
    /\ {MaxCapacity, MaxEntries, MaxReserve} \subseteq Nat

VARIABLES
    table,      \* [entries, capacity, ctrl, index, tombstones]
    hash,       \* [Keys -> [h1, h2]], fixed by the table's seed
    panicked    \* find_or_emplace ran out of groups

vars == <<table, hash, panicked>>

-----------------------------------------------------------------------------
(* Shape of a table *)

GroupCount(t) == t.capacity \div GroupWidth
Size(t) == Len(t.entries)
Slots(n) == 0 .. n - 1

\* An entry by its index, counted from 0.
EntryAt(t, i) == t.entries[i + 1]

\* allocate_buffer: n empty slots.
Allocated(entries, n) ==
    [entries |-> entries, capacity |-> n, ctrl |-> [s \in Slots(n) |-> Empty],
     index |-> [s \in Slots(n) |-> NoEntry], tombstones |-> 0]

-----------------------------------------------------------------------------
(* Probing: ProbeSeq and the Group matches *)

\* The i-th group of the probe of k: next() adds 1, 2, 3, ...
Group(t, k, i) == (hash[k].h1 + (i * (i + 1)) \div 2) % GroupCount(t)

GroupSlots(t, k, i) == {Group(t, k, i) * GroupWidth + b : b \in 0 .. GroupWidth - 1}
Steps(t) == 0 .. GroupCount(t) - 1
HasEmpty(t, k, i) == \E s \in GroupSlots(t, k, i) : t.ctrl[s] = Empty

\* Variant: an erased slot ends the probe like an empty one.
ReachedStopAtDeleted(t, k) ==
    {i \in Steps(t) : \A j \in 0 .. i - 1 :
        \A s \in GroupSlots(t, k, j) : t.ctrl[s] \notin {Empty, Deleted}}
\* The groups a lookup gets to: none after the first that has an empty slot.
Reached(t, k) == {i \in Steps(t) : \A j \in 0 .. i - 1 : ~HasEmpty(t, k, j)}

\* The slots a lookup takes for k's, by fingerprint and then by key.
Hits(t, k) ==
    {s \in DOMAIN t.ctrl :
        /\ t.ctrl[s] = hash[k].h2
        /\ t.index[s] \in Slots(Size(t))
        /\ EntryAt(t, t.index[s]) = k
        /\ s \div GroupWidth \in {Group(t, k, i) : i \in Reached(t, k)}}
HasKey(t, k) == Hits(t, k) # {}

\* The markers of slots that are not full.
Free == {Empty, Deleted}

\* The first of the slots that the first matching group offers.
FirstSlot(t, k, wanted) ==
    LET offers(i) == {s \in GroupSlots(t, k, i) : t.ctrl[s] \in wanted}
        i == Min({j \in Steps(t) : offers(j) # {}})
    IN  Min(offers(i))

-----------------------------------------------------------------------------
(* Placing, growing *)

Occupied(t, s, k, i) ==
    [t EXCEPT !.ctrl[s] = hash[k].h2, !.index[s] = i]

\* place_unique: an erased slot that is used again stays counted in m_tombstones.
PlaceUnique(t, i) ==
    LET k == EntryAt(t, i)
    IN  Occupied(t, FirstSlot(t, k, Free), k, i)

\* Variant: the loop over the entries ends one short.
RehashToOneShort(t, n) ==
    LET placed[i \in 0 .. Size(t)] ==
            IF i = 0 THEN Allocated(t.entries, n)
            ELSE IF i = Size(t) THEN placed[i - 1] ELSE PlaceUnique(placed[i - 1], i - 1)
    IN  placed[Size(t)]
\* rehash_to and, for the same number of slots, drop_deleted_in_place: the
\* entries are placed one after the other in an empty table.
RehashTo(t, n) ==
    LET placed[i \in 0 .. Size(t)] ==
            IF i = 0 THEN Allocated(t.entries, n) ELSE PlaceUnique(placed[i - 1], i - 1)
    IN  placed[Size(t)]

MaxLoad(n) == n - (n \div LoadDivisor)

\* Variant: erased slots are not counted as load.
HasRoomForOneIgnoringTombstones(t) == t.capacity # 0 /\ Size(t) < MaxLoad(t.capacity)
HasRoomForOne(t) == t.capacity # 0 /\ Size(t) + t.tombstones < MaxLoad(t.capacity)

EnsureGrowthRoom(t) ==
    IF HasRoomForOne(t) THEN t
    ELSE IF t.capacity = 0 THEN RehashTo(t, GroupWidth)
    ELSE IF Size(t) * 2 =< t.capacity THEN RehashTo(t, t.capacity)
    ELSE RehashTo(t, t.capacity * 2)

\* The slots that reserve(n) wants, and those it takes: one group doubled until
\* it has as many.
NeededSlots(n) == (n * LoadDivisor + LoadDivisor - 2) \div (LoadDivisor - 1)
PowersOfTwo(n) == {g \in 1 .. n : \A d \in 1 .. g : g % d = 0 => d = 1 \/ d % 2 = 0}
SlotsFor(n) == Min({c \in {GroupWidth * g : g \in PowersOfTwo(2 * n)} : c >= NeededSlots(n)})

\* relocate_index: the slot of the moved entry's key that holds the old index.
Relocated(t, k, old_idx, new_idx) ==
    LET s == CHOOSE s \in DOMAIN t.ctrl : t.ctrl[s] = hash[k].h2 /\ t.index[s] = old_idx
    IN  [t EXCEPT !.index[s] = new_idx]

-----------------------------------------------------------------------------
(* The public operations, as functions of the table *)

\* try_insert of a key that is not contained.
InsertUnique(t, k) ==
    LET grown == EnsureGrowthRoom(t)
        pushed == [grown EXCEPT !.entries = Append(@, k)]
    IN  PlaceUnique(pushed, Size(grown))

\* The groups a lookup gets to whose first free slot is an erased one.
ReusableGroups(t, k) ==
    {i \in Reached(t, k) : \E s \in GroupSlots(t, k, i) :
        /\ t.ctrl[s] = Deleted
        /\ \A f \in GroupSlots(t, k, i) : t.ctrl[f] \in Free => s =< f}

\* find_or_emplace_locked of a key that is not contained: the first erased
\* slot on the way is used again, and taken off m_tombstones.
Emplace(t, k) ==
    LET reuse == ReusableGroups(t, k) # {}
        place == IF reuse THEN FirstSlot(t, k, Free) ELSE FirstSlot(t, k, {Empty})
        pushed == [t EXCEPT !.entries = Append(@, k)]
    IN  [Occupied(pushed, place, k, Size(t)) EXCEPT !.tombstones = IF reuse THEN @ - 1 ELSE @]

\* Variant: erase does not lead the moved entry's slot to its new place.
ErasedWithoutRelocation(t, k) ==
    LET s == Min(Hits(t, k))
        entry_idx == t.index[s]
    IN  [t EXCEPT !.ctrl[s] = Deleted, !.index[s] = NoEntry, !.tombstones = @ + 1,
                  !.entries = Front([t.entries EXCEPT ![entry_idx + 1] = Last(t.entries)])]
\* erase of a key that is contained: the last entry fills the gap.
Erased(t, k) ==
    LET s == Min(Hits(t, k))
        entry_idx == t.index[s]
        last_idx == Size(t) - 1
        marked == [t EXCEPT !.ctrl[s] = Deleted, !.index[s] = NoEntry, !.tombstones = @ + 1]
        moved == [marked EXCEPT !.entries[entry_idx + 1] = Last(t.entries)]
    IN  IF entry_idx = last_idx
        THEN [marked EXCEPT !.entries = Front(@)]
        ELSE [Relocated(moved, Last(t.entries), last_idx, entry_idx) EXCEPT !.entries = Front(@)]

-----------------------------------------------------------------------------
Init ==
    /\ table = Allocated(<<>>, 0)
    /\ hash \in HashFunctions
    /\ panicked = FALSE

\* insert(k): true and a new entry, or false and no change.
TryInsert(k) ==
    /\ ~HasKey(table, k)
    /\ Size(table) < MaxEntries
    /\ EnsureGrowthRoom(table).capacity =< MaxCapacity
    /\ table' = InsertUnique(table, k)
    /\ UNCHANGED <<hash, panicked>>

\* operator[](k): grows first, also when k is contained.
FindOrEmplace(k) ==
    LET t == EnsureGrowthRoom(table)
    IN  /\ ~panicked
        /\ Size(t) < MaxEntries
        /\ t.capacity =< MaxCapacity
        /\ IF HasKey(t, k) THEN table' = t /\ UNCHANGED panicked
           ELSE IF \E i \in Steps(t) : HasEmpty(t, k, i)
           THEN table' = Emplace(t, k) /\ UNCHANGED panicked
           ELSE table' = t /\ panicked' = TRUE
        /\ UNCHANGED hash

Erase(k) ==
    /\ HasKey(table, k)
    /\ table' = Erased(table, k)
    /\ UNCHANGED <<hash, panicked>>

Clear ==
    /\ table' = Allocated(<<>>, table.capacity)
    /\ UNCHANGED <<hash, panicked>>

Reserve(n) ==
    /\ SlotsFor(n) > table.capacity /\ SlotsFor(n) =< MaxCapacity
    /\ table' = RehashTo(table, SlotsFor(n))
    /\ UNCHANGED <<hash, panicked>>

\* A move leaves the table it came from without a buffer.
MoveFrom ==
    /\ table' = Allocated(<<>>, 0)
    /\ UNCHANGED <<hash, panicked>>

Next ==
    \/ \E k \in Keys : TryInsert(k) \/ FindOrEmplace(k) \/ Erase(k)
    \/ \E n \in 1 .. MaxReserve : Reserve(n)
    \/ Clear
    \/ MoveFrom

Spec == Init /\ [][Next]_vars

-----------------------------------------------------------------------------
(* Properties *)

Full(t) == {s \in DOMAIN t.ctrl : t.ctrl[s] \notin Free}

\* The table has its type, and its arrays have the length of its capacity.
TypeOK ==
    /\ table.entries \in Seq(Keys)
    /\ table.capacity \in {0} \cup {GroupWidth * g : g \in PowersOfTwo(MaxCapacity)}
    /\ table.capacity =< MaxCapacity
    /\ table.ctrl \in [Slots(table.capacity) -> Fingerprints \cup {Empty, Deleted}]
    /\ table.index \in [Slots(table.capacity) -> Nat \cup {NoEntry}]
    /\ table.tombstones \in 0 .. MaxCapacity
    /\ hash \in HashFunctions
    /\ panicked \in BOOLEAN

\* Full slots and entries correspond one to one, and each slot carries the
\* fingerprint of its entry's key: after swap-removes, reuse of erased slots
\* and rehashes no slot points at another key's entry or past the last one.
IndexExact ==
    /\ \A s \in Full(table) :
          /\ table.index[s] \in Slots(Size(table))
          /\ table.ctrl[s] = hash[EntryAt(table, table.index[s])].h2
    /\ \A i \in Slots(Size(table)) : Cardinality({s \in Full(table) : table.index[s] = i}) = 1

\* Every probe meets a group with an empty slot, for every key: place_unique
\* and relocate_index, which have no bound on their loop, end, lookups of
\* absent keys stop, and find_or_emplace never reaches its panic.
ProbesEnd ==
    /\ ~panicked
    /\ table.capacity # 0 => \A k \in Keys : \E i \in Steps(table) : HasEmpty(table, k, i)

\* m_tombstones counts at least the erased slots, so the decrement in
\* find_or_emplace never wraps below zero, and together with the entries it
\* stays within the load that leaves slots empty.
TombstonesCounted ==
    /\ table.tombstones >= Cardinality({s \in DOMAIN table.ctrl : table.ctrl[s] = Deleted})
    /\ Size(table) + table.tombstones =< MaxLoad(table.capacity)

\* What lookups see.
Seen == {k \in Keys : HasKey(table, k)}

\* Lookups see the keys of the entries, each of them and no other: whatever was
\* erased, moved, rehashed or put in an erased slot on the way of its probe.
LookupsExact == Seen = {EntryAt(table, i) : i \in Slots(Size(table))}

\* What lookups see changes as the operation of the step says, and by nothing
\* else: a key that appears was inserted, alone; one that disappears was erased,
\* alone, or went with all others in clear or a move; a step that changes nothing
\* adds and takes no entry.  So no growth, cleaning, swap-remove or reused slot
\* hides another key or brings one back, and no operation acts for another key.
OperationExact ==
    LET seen == Seen
        after == Seen'
    IN  /\ \A k \in after \ seen :
             after = seen \cup {k} /\ (TryInsert(k) \/ FindOrEmplace(k))
        /\ \A k \in seen \ after :
             \/ after = seen \ {k} /\ Erase(k)
             \/ after = {} /\ (Clear \/ MoveFrom)
        /\ after = seen => table'.entries = table.entries

\* Every call of a public operation changes what lookups see by its own key alone.
OperationsExact == [][OperationExact]_vars
=============================================================================
