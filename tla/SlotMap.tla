------------------------------ MODULE SlotMap ------------------------------
(***************************************************************************)
(* containers::SlotMap<T>: values packed in m_dense, reached through       *)
(* generational keys.  A slot is either in use (dense_idx is the place of  *)
(* its value) or on the free list (dense_idx is the next free slot).       *)
(* Definitions introduced by "Variant:" are faulty readings of the one     *)
(* below them; nothing else uses them.                                     *)
(***************************************************************************)
EXTENDS Integers, Sequences, FiniteSets

CONSTANTS
    Values,         \* what the client stores
    MaxSize,        \* bound: the values stored at one time
    GenModulus,     \* 2^32 in the code: generations are u32 and wrap
    KeysOutliveClear, \* whether the client still uses keys from before a clear
    FREE_SENTINEL,  \* the index that ends the free list
    OutOfRange      \* what an access past the end of m_dense yields

ASSUME SlotMapAssumption ==
    /\ MaxSize \in Nat
    /\ GenModulus \in Nat /\ GenModulus > 1
    /\ KeysOutliveClear \in BOOLEAN
    /\ FREE_SENTINEL \notin Int
    /\ OutOfRange \notin Values

VARIABLES
    m_slots,            \* sequence of [generation, dense_idx]
    m_dense,            \* sequence of values
    m_dense_to_slot,    \* sequence of slot indices
    m_free_head,
    live,               \* the client's keys that are neither erased nor cleared
    stale               \* for the client's keys that are, how often their slot
                        \* has been erased since, their own erase included

vars == <<m_slots, m_dense, m_dense_to_slot, m_free_head, live, stale>>

Key == [idx : 0 .. MaxSize - 1, gen : 0 .. GenModulus - 1]

\* Vectors are indexed from 0.
At(vec, i) == vec[i + 1]

-----------------------------------------------------------------------------
(* get *)

Matches(k) == k.idx < Len(m_slots) /\ At(m_slots, k.idx).generation = k.gen

\* What get(k) leads to, for a key that matches.
ValueOf(k) ==
    LET d == At(m_slots, k.idx).dense_idx
    IN  IF d \in 0 .. Len(m_dense) - 1 THEN At(m_dense, d) ELSE OutOfRange

-----------------------------------------------------------------------------
Init ==
    /\ m_slots = <<>> /\ m_dense = <<>> /\ m_dense_to_slot = <<>>
    /\ m_free_head = FREE_SENTINEL
    /\ live = {} /\ stale = [k \in {} |-> 0]

\* The slot that insert takes: the head of the free list, or a new one.
NewSlot == IF m_free_head # FREE_SENTINEL THEN m_free_head ELSE Len(m_slots)

\* Variant: insert leaves the slot it took on the free list.
InsertKeepsFreeHead(v) ==
    LET slot_idx == NewSlot
        gen == IF m_free_head # FREE_SENTINEL THEN At(m_slots, slot_idx).generation ELSE 0
        slot == [generation |-> gen, dense_idx |-> Len(m_dense)]
    IN  /\ Len(m_dense) < MaxSize
        /\ m_slots' = IF m_free_head # FREE_SENTINEL
                      THEN [m_slots EXCEPT ![slot_idx + 1] = slot]
                      ELSE Append(m_slots, slot)
        /\ m_dense' = Append(m_dense, v)
        /\ m_dense_to_slot' = Append(m_dense_to_slot, slot_idx)
        /\ live' = live \cup {[idx |-> slot_idx, gen |-> gen]}
        /\ UNCHANGED <<m_free_head, stale>>

Insert(v) ==
    LET slot_idx == NewSlot
        gen == IF m_free_head # FREE_SENTINEL THEN At(m_slots, slot_idx).generation ELSE 0
        slot == [generation |-> gen, dense_idx |-> Len(m_dense)]
    IN  /\ Len(m_dense) < MaxSize
        /\ IF m_free_head # FREE_SENTINEL
           THEN /\ m_free_head' = At(m_slots, slot_idx).dense_idx
                /\ m_slots' = [m_slots EXCEPT ![slot_idx + 1] = slot]
           ELSE /\ m_slots' = Append(m_slots, slot)
                /\ UNCHANGED m_free_head
        /\ m_dense' = Append(m_dense, v)
        /\ m_dense_to_slot' = Append(m_dense_to_slot, slot_idx)
        /\ live' = live \cup {[idx |-> slot_idx, gen |-> gen]}
        /\ UNCHANGED stale

\* The vector after its element at place d is overwritten with its last one
\* and the last one popped.
Front(vec) == SubSeq(vec, 1, Len(vec) - 1)
\* Variant: erase closes the gap instead of moving the last value into it.
RemovedShifting(vec, d) == SubSeq(vec, 1, d) \o SubSeq(vec, d + 2, Len(vec))
SwapRemoved(vec, d) ==
    IF d = Len(vec) - 1 THEN Front(vec)
    ELSE Front([vec EXCEPT ![d + 1] = At(vec, Len(vec) - 1)])

\* Variant: erase does not tell the moved value's slot where the value went.
FreedWithoutRedirect(slots, i, d, moved) ==
    [slots EXCEPT ![i + 1] = [generation |-> (At(slots, i).generation + 1) % GenModulus,
                              dense_idx |-> m_free_head]]
\* Variant: erase does not raise the generation of the slot.
FreedSameGeneration(slots, i, d, moved) ==
    [[slots EXCEPT ![moved + 1].dense_idx = d]
            EXCEPT ![i + 1].dense_idx = m_free_head]
\* The slots after the value at place d, of slot i, made way for the last
\* value, of slot moved, and slot i went to the free list.
Freed(slots, i, d, moved) ==
    [[slots EXCEPT ![moved + 1].dense_idx = d]
            EXCEPT ![i + 1] = [generation |-> (At(slots, i).generation + 1) % GenModulus,
                               dense_idx |-> m_free_head]]

\* The client's keys that lead to nothing and that it may still use.  A key is
\* used up when its slot has been erased GenModulus times: the generation of the
\* slot has then come round to that of the key.
Retired == {k \in DOMAIN stale : stale[k] < GenModulus}

\* What the client remembers after the erase of k: the erase counts for every key
\* of the slot, and a key that is used up is dropped by the next one.
Remembered(k) ==
    LET others == {j \in DOMAIN stale : j.idx = k.idx => stale[j] < GenModulus} \ {k}
    IN  [j \in others \cup {k} |->
            IF j = k THEN 1
            ELSE IF j.idx = k.idx THEN stale[j] + 1 ELSE stale[j]]

\* erase of a key that matches a slot in use.
Erase(k) ==
    LET d == At(m_slots, k.idx).dense_idx
        moved == At(m_dense_to_slot, Len(m_dense) - 1)
    IN  /\ Matches(k)
        /\ d \in 0 .. Len(m_dense) - 1
        /\ m_slots' = Freed(m_slots, k.idx, d, moved)
        /\ m_dense' = SwapRemoved(m_dense, d)
        /\ m_dense_to_slot' = SwapRemoved(m_dense_to_slot, d)
        /\ m_free_head' = k.idx
        /\ live' = live \ {k}
        /\ stale' = Remembered(k)

Clear ==
    /\ m_slots' = <<>> /\ m_dense' = <<>> /\ m_dense_to_slot' = <<>>
    /\ m_free_head' = FREE_SENTINEL
    /\ live' = {}
    /\ stale' = [k \in IF KeysOutliveClear THEN DOMAIN stale \cup live ELSE {} |->
                    IF k \in live THEN 1 ELSE stale[k]]

Next ==
    \/ \E v \in Values : Insert(v)
    \/ \E k \in live \cup Retired : Erase(k)
    \/ Clear

Spec == Init /\ [][Next]_vars

-----------------------------------------------------------------------------
(* Properties *)

SlotIndex == 0 .. Len(m_slots) - 1
DenseIndex == 0 .. Len(m_dense) - 1
InUse == {At(m_dense_to_slot, d) : d \in DenseIndex}
FreeSlots == SlotIndex \ InUse

\* Every variable has its type.
TypeOK ==
    /\ m_slots \in Seq([generation : 0 .. GenModulus - 1,
                        dense_idx : 0 .. MaxSize - 1 \cup {FREE_SENTINEL}])
    /\ Len(m_slots) =< MaxSize
    /\ m_dense \in Seq(Values)
    /\ m_dense_to_slot \in Seq(0 .. MaxSize - 1)
    /\ m_free_head \in 0 .. MaxSize - 1 \cup {FREE_SENTINEL}
    /\ live \subseteq Key
    /\ DOMAIN stale \subseteq Key /\ stale \in [DOMAIN stale -> 1 .. GenModulus]

\* m_dense_to_slot and the slots in use point at each other: after any number
\* of swap-removes every value knows the slot that leads to it.
DenseAndSlotsAgree ==
    /\ Len(m_dense_to_slot) = Len(m_dense)
    /\ \A d \in DenseIndex :
          /\ At(m_dense_to_slot, d) \in SlotIndex
          /\ At(m_slots, At(m_dense_to_slot, d)).dense_idx = d

\* The free slots in the order the free list links them.
Links(free) ==
    /\ \A i, j \in 1 .. Len(free) : free[i] = free[j] => i = j
    /\ {free[i] : i \in 1 .. Len(free)} = FreeSlots
    /\ m_free_head = IF free = <<>> THEN FREE_SENTINEL ELSE free[1]
    /\ \A i \in 1 .. Len(free) :
          At(m_slots, free[i]).dense_idx =
              IF i = Len(free) THEN FREE_SENTINEL ELSE free[i + 1]

\* The free list runs from m_free_head through every slot that is not in use,
\* once each, and ends: insert never takes a slot that holds a value, never
\* runs into a cycle, and no slot is lost.
FreeListComplete == \E free \in [1 .. Cardinality(FreeSlots) -> FreeSlots] : Links(free)

\* A key that was erased leads to nothing until its slot has been erased GenModulus
\* times, its own erase included: that long the generations that the slot goes
\* through, the wrap of the u32 included, are not the key's.  (At the GenModulus-th
\* erase the key matches again.)  Across a clear this needs the client to forget
\* its keys: clear drops the generations too.
StaleKeysMiss == \A k \in Retired : ~Matches(k)

LiveKeys == {[idx |-> i, gen |-> At(m_slots, i).generation] : i \in InUse}

Store == INSTANCE KeyedStore WITH
    Keys <- Key,
    content <- [k \in LiveKeys |-> ValueOf(k)],
    retired <- Retired

\* The slot map implements the keyed store: each insert returns a key that is
\* neither live nor retired, every live key keeps leading to its own value through
\* the swap-removes of other keys, and an erased key leads nowhere for as long as
\* it is retired, that is until its slot's generation has come round.
ImplementsKeyedStore == Store!Spec
=============================================================================
