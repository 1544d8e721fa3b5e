-------------------------- MODULE SlotMap_proofs --------------------------
(***************************************************************************)
(* The slot map keeps its four structures in agreement and implements the  *)
(* keyed store, for every set of values, number of objects and width of    *)
(* the generations, which wrap, as long as the client drops its keys when  *)
(* it clears the map and an erased key when its slot has been erased       *)
(* GenModulus times.                                                       *)
(***************************************************************************)
EXTENDS SlotMap, FiniteSetTheorems, SequenceTheorems, TLAPS

\* The generation that follows g, and the one n erases after g.
NextGen(g) == (g + 1) % GenModulus
After(g, n) == IF g + n < GenModulus THEN g + n ELSE g + n - GenModulus

\* The client's live keys are those of the slots in use; the slot of a stale
\* key has gone on by as many generations as it was erased since.
KeyInv ==
    /\ live = LiveKeys
    /\ \A k \in DOMAIN stale :
          /\ k.idx \in SlotIndex
          /\ At(m_slots, k.idx).generation = After(k.gen, stale[k])

\* The free list, of whatever length.
FreeList == \E n \in Nat : \E free \in [1 .. n -> FreeSlots] : Links(free)

IInv == TypeOK /\ DenseAndSlotsAgree /\ KeyInv /\ FreeList

Heads == 0 .. MaxSize - 1 \cup {FREE_SENTINEL}
SlotType == [generation : 0 .. GenModulus - 1, dense_idx : Heads]

---------------------------------------------------------------------------
(* Vectors *)

\* What SwapRemoved leaves: the last element in the place of the removed one.
LEMMA SwapRemovedShape ==
  ASSUME NEW S, NEW vec \in Seq(S), NEW d \in 0 .. Len(vec) - 1
  PROVE  /\ SwapRemoved(vec, d) \in Seq(S)
         /\ Len(SwapRemoved(vec, d)) = Len(vec) - 1
         /\ \A e \in 0 .. Len(vec) - 2 :
               At(SwapRemoved(vec, d), e) =
                   IF e = d THEN At(vec, Len(vec) - 1) ELSE At(vec, e)
<1> DEFINE n == Len(vec)
<1>1. n \in Nat /\ n >= 1
  BY LenProperties
<1>2. ASSUME NEW w \in Seq(S), Len(w) = n
      PROVE  /\ Front(w) \in Seq(S)
             /\ Len(Front(w)) = n - 1
             /\ \A e \in 0 .. n - 2 : At(Front(w), e) = At(w, e)
  BY <1>1, <1>2 DEF Front, At
<1>3. CASE d = n - 1
  BY <1>1, <1>2, <1>3 DEF SwapRemoved
<1>4. CASE d # n - 1
  <2> DEFINE w == [vec EXCEPT ![d + 1] = At(vec, n - 1)]
  <2>1. At(vec, n - 1) \in S
    BY <1>1, ElementOfSeq DEF At
  <2>2. w \in Seq(S) /\ Len(w) = n
    BY <2>1, <1>1
  <2>3. \A e \in 0 .. n - 2 : At(w, e) = IF e = d THEN At(vec, n - 1) ELSE At(vec, e)
    BY <1>1 DEF At
  <2>4. SwapRemoved(vec, d) = Front(w)
    BY <1>4 DEF SwapRemoved
  <2> HIDE DEF w
  <2> QED  BY <2>2, <2>3, <2>4, <1>2, <1>1
<1> QED  BY <1>3, <1>4

LEMMA NextGenIs ==
  ASSUME NEW g \in 0 .. GenModulus - 1
  PROVE  /\ NextGen(g) = After(g, 1)
         /\ NextGen(g) \in 0 .. GenModulus - 1
<1>1. GenModulus \in Nat /\ GenModulus > 1
  BY SlotMapAssumption
<1>2. CASE g + 1 < GenModulus
  <2>1. (g + 1) % GenModulus = g + 1
    BY <1>1, <1>2
  <2> QED  BY <1>1, <1>2, <2>1 DEF NextGen, After
<1>3. CASE g + 1 = GenModulus
  <2>1. GenModulus % GenModulus = 0
    BY <1>1
  <2> QED  BY <1>1, <1>3, <2>1 DEF NextGen, After
<1> QED  BY <1>1, <1>2, <1>3

\* A generation comes round after GenModulus erases and not before.
LEMMA AfterErases ==
  ASSUME NEW g \in 0 .. GenModulus - 1, NEW n \in 1 .. GenModulus
  PROVE  /\ After(g, n) = g <=> n = GenModulus
         /\ n < GenModulus => After(g, n + 1) = NextGen(After(g, n))
<1>1. GenModulus \in Nat /\ GenModulus > 1
  BY SlotMapAssumption
<1>2. After(g, n) = g <=> n = GenModulus
  BY <1>1 DEF After
<1>3. ASSUME n < GenModulus PROVE After(g, n + 1) = NextGen(After(g, n))
  <2>1. After(g, n) \in 0 .. GenModulus - 1
    BY <1>1, <1>3 DEF After
  <2>2. NextGen(After(g, n)) = After(After(g, n), 1)
    BY <2>1, NextGenIs
  <2> QED  BY <1>1, <1>3, <2>2 DEF After
<1> QED  BY <1>2, <1>3

LEMMA ListIsSeq ==
  ASSUME NEW S, NEW n \in Nat, NEW f \in [1 .. n -> S]
  PROVE  f \in Seq(S) /\ Len(f) = n
  BY SeqDef, LenProperties

\* The members of the types that the steps read.
LEMMA Members ==
  ASSUME IInv
  PROVE  /\ Len(m_slots) \in Nat /\ Len(m_dense) \in Nat
         /\ Len(m_dense_to_slot) = Len(m_dense)
         /\ MaxSize \in Nat /\ GenModulus \in Nat /\ GenModulus > 1
         /\ \A i \in SlotIndex : At(m_slots, i) \in SlotType
         /\ \A i \in SlotIndex : At(m_slots, i).generation \in 0 .. GenModulus - 1
         /\ \A i \in SlotIndex : At(m_slots, i).dense_idx \in Heads
         /\ \A d \in DenseIndex : At(m_dense, d) \in Values
         /\ \A d \in DenseIndex : At(m_dense_to_slot, d) \in SlotIndex
         /\ InUse \subseteq SlotIndex /\ FreeSlots \subseteq SlotIndex
         /\ SlotIndex \subseteq 0 .. MaxSize - 1
<1> USE SlotMapAssumption DEF IInv, TypeOK
<1>1. Len(m_slots) \in Nat /\ Len(m_dense) \in Nat /\ Len(m_dense_to_slot) = Len(m_dense)
  BY LenProperties DEF DenseAndSlotsAgree
<1>2. \A i \in SlotIndex : At(m_slots, i) \in SlotType
  <2> SUFFICES ASSUME NEW i \in SlotIndex PROVE m_slots[i + 1] \in SlotType
    BY DEF At
  <2>1. m_slots \in Seq(SlotType)
    BY DEF SlotType, Heads
  <2>2. i + 1 \in 1 .. Len(m_slots)
    BY <1>1 DEF SlotIndex
  <2> QED  BY <2>1, <2>2, ElementOfSeq
<1>3. \A i \in SlotIndex : /\ At(m_slots, i).generation \in 0 .. GenModulus - 1
                           /\ At(m_slots, i).dense_idx \in Heads
  BY <1>2 DEF SlotType
<1>4. \A d \in DenseIndex : At(m_dense, d) \in Values
  <2> SUFFICES ASSUME NEW d \in DenseIndex PROVE m_dense[d + 1] \in Values
    BY DEF At
  <2>1. d + 1 \in 1 .. Len(m_dense)
    BY <1>1 DEF DenseIndex
  <2> QED  BY <2>1, ElementOfSeq
<1>5. \A d \in DenseIndex : At(m_dense_to_slot, d) \in SlotIndex
  BY DEF DenseAndSlotsAgree
<1>6. InUse \subseteq SlotIndex /\ FreeSlots \subseteq SlotIndex
  BY <1>5 DEF InUse, FreeSlots
<1>7. SlotIndex \subseteq 0 .. MaxSize - 1
  BY <1>1 DEF SlotIndex
<1> QED  BY <1>1, <1>2, <1>3, <1>4, <1>5, <1>6, <1>7

\* A slot in use and the value it leads to.
LEMMA InUseSlot ==
  ASSUME IInv, NEW i \in InUse
  PROVE  /\ At(m_slots, i).dense_idx \in DenseIndex
         /\ At(m_dense_to_slot, At(m_slots, i).dense_idx) = i
  BY DEF IInv, DenseAndSlotsAgree, InUse

LEMMA IndexCount ==
  ASSUME NEW n \in Nat
  PROVE  IsFiniteSet(0 .. n - 1) /\ Cardinality(0 .. n - 1) = n
<1>1. 0 \in Int /\ n - 1 \in Int
  OBVIOUS
<1>2. /\ IsFiniteSet(0 .. n - 1)
      /\ Cardinality(0 .. n - 1) = IF 0 > n - 1 THEN 0 ELSE (n - 1) - 0 + 1
  BY <1>1, FS_Interval, Zenon
<1> QED  BY <1>2

\* A table without free slots is no longer than the values.
LEMMA FullTable ==
  ASSUME IInv, FreeSlots = {}
  PROVE  Len(m_slots) =< Len(m_dense)
<1> DEFINE f == [d \in DenseIndex |-> At(m_dense_to_slot, d)]
<1>1. f \in Surjection(DenseIndex, SlotIndex)
  <2>1. f \in [DenseIndex -> SlotIndex]
    BY Members
  <2>2. \A i \in SlotIndex : \E d \in DenseIndex : f[d] = i
    BY DEF FreeSlots, InUse
  <2> QED  BY <2>1, <2>2 DEF Surjection
<1>2. Len(m_slots) \in Nat /\ Len(m_dense) \in Nat
  BY Members
<1>3. IsFiniteSet(DenseIndex) /\ Cardinality(DenseIndex) = Len(m_dense)
  BY <1>2, IndexCount DEF DenseIndex
<1>4. Cardinality(SlotIndex) = Len(m_slots)
  BY <1>2, IndexCount DEF SlotIndex
<1> HIDE DEF f
<1>5. Cardinality(SlotIndex) =< Cardinality(DenseIndex)
  BY <1>1, <1>3, FS_Surjection
<1> QED  BY <1>3, <1>4, <1>5

---------------------------------------------------------------------------
(* The steps *)

Taken == [idx |-> NewSlot,
          gen |-> IF m_free_head # FREE_SENTINEL THEN At(m_slots, NewSlot).generation ELSE 0]

\* With no free slot the list has no head, and with a head the head is free and
\* its place leads on to the rest.
LEMMA HeadOfList ==
  ASSUME IInv
  PROVE  /\ m_free_head = FREE_SENTINEL => FreeSlots = {}
         /\ m_free_head # FREE_SENTINEL => m_free_head \in FreeSlots
<1>1. PICK n \in Nat : \E free \in [1 .. n -> FreeSlots] : Links(free)
  BY DEF IInv, FreeList
<1>2. PICK free \in [1 .. n -> FreeSlots] : Links(free)
  BY <1>1
<1>3. free \in Seq(FreeSlots) /\ Len(free) = n
  BY SeqDef, LenProperties
<1>4. FreeSlots = {free[i] : i \in 1 .. n}
  BY <1>2, <1>3 DEF Links
<1>5. free = <<>> <=> n = 0
  BY <1>3, EmptySeq
<1>6. CASE n = 0
  BY <1>2, <1>4, <1>5, <1>6 DEF Links
<1>7. CASE n # 0
  <2>1. m_free_head = free[1] /\ 1 \in 1 .. n
    BY <1>2, <1>5, <1>7 DEF Links
  <2>2. free[1] \in FreeSlots
    BY <2>1
  <2>3. m_free_head \in Int
    BY <2>1, <2>2, Members DEF SlotIndex
  <2> QED  BY <2>1, <2>2, <2>3, SlotMapAssumption
<1> QED  BY <1>6, <1>7

\* What insert leaves, place by place.
LEMMA InsertShape ==
  ASSUME IInv, NEW v \in Values, Insert(v)
  PROVE  /\ NewSlot \in 0 .. MaxSize - 1 /\ NewSlot \notin InUse
         /\ Taken \in Key
         /\ m_slots' \in Seq(SlotType) /\ m_dense' \in Seq(Values)
         /\ m_dense_to_slot' \in Seq(0 .. MaxSize - 1)
         /\ Len(m_dense') = Len(m_dense) + 1 /\ Len(m_dense_to_slot') = Len(m_dense) + 1
         /\ Len(m_slots') =< MaxSize
         /\ SlotIndex' = SlotIndex \cup {NewSlot}
         /\ \A d \in DenseIndex : /\ At(m_dense', d) = At(m_dense, d)
                                 /\ At(m_dense_to_slot', d) = At(m_dense_to_slot, d)
         /\ At(m_dense', Len(m_dense)) = v
         /\ At(m_dense_to_slot', Len(m_dense)) = NewSlot
         /\ \A i \in SlotIndex \ {NewSlot} : At(m_slots', i) = At(m_slots, i)
         /\ At(m_slots', NewSlot) = [generation |-> Taken.gen, dense_idx |-> Len(m_dense)]
         /\ live' = live \cup {Taken} /\ stale' = stale
<1> USE Members
<1> DEFINE slot == [generation |-> Taken.gen, dense_idx |-> Len(m_dense)]
<1>1. /\ m_slots \in Seq(SlotType) /\ m_dense \in Seq(Values)
      /\ m_dense_to_slot \in Seq(0 .. MaxSize - 1)
  BY DEF IInv, TypeOK, SlotType, Heads
<1>2. Len(m_dense) < MaxSize
  BY DEF Insert
<1>3. /\ m_dense' = Append(m_dense, v)
      /\ m_dense_to_slot' = Append(m_dense_to_slot, NewSlot)
      /\ live' = live \cup {Taken} /\ stale' = stale
  BY DEF Insert, Taken
<1>4. NewSlot \in 0 .. MaxSize - 1 /\ NewSlot \notin InUse
  <2>1. CASE m_free_head # FREE_SENTINEL
    BY <2>1, HeadOfList DEF NewSlot, FreeSlots
  <2>2. CASE m_free_head = FREE_SENTINEL
    <3>1. NewSlot = Len(m_slots) /\ Len(m_slots) =< Len(m_dense)
      BY <2>2, HeadOfList, FullTable DEF NewSlot
    <3>2. NewSlot \notin SlotIndex
      BY <3>1 DEF SlotIndex
    <3> QED  BY <3>1, <3>2, <1>2
  <2> QED  BY <2>1, <2>2
<1>5. Taken.gen \in 0 .. GenModulus - 1
  <2>1. CASE m_free_head # FREE_SENTINEL
    <3>1. NewSlot \in SlotIndex
      BY <2>1, HeadOfList DEF NewSlot
    <3>2. At(m_slots, NewSlot).generation \in 0 .. GenModulus - 1
      BY <3>1
    <3> QED  BY <2>1, <3>2 DEF Taken
  <2>2. CASE m_free_head = FREE_SENTINEL
    BY <2>2 DEF Taken
  <2> QED  BY <2>1, <2>2
<1>6. Taken \in Key /\ slot \in SlotType
  <2>1. Taken.gen \in 0 .. GenModulus - 1 /\ Taken.idx = NewSlot
    BY <1>5 DEF Taken
  <2>2. Len(m_dense) \in Heads
    BY <1>2 DEF Heads
  <2> QED  BY <2>1, <2>2, <1>4 DEF Key, Taken, SlotType
<1>7. /\ m_dense' \in Seq(Values) /\ m_dense_to_slot' \in Seq(0 .. MaxSize - 1)
      /\ Len(m_dense') = Len(m_dense) + 1 /\ Len(m_dense_to_slot') = Len(m_dense) + 1
      /\ \A d \in DenseIndex : /\ At(m_dense', d) = At(m_dense, d)
                               /\ At(m_dense_to_slot', d) = At(m_dense_to_slot, d)
      /\ At(m_dense', Len(m_dense)) = v
      /\ At(m_dense_to_slot', Len(m_dense)) = NewSlot
  BY <1>1, <1>3, <1>4, AppendProperties DEF At, DenseIndex
<1>8. /\ m_slots' \in Seq(SlotType)
      /\ SlotIndex' = SlotIndex \cup {NewSlot}
      /\ Len(m_slots') =< MaxSize
      /\ \A i \in SlotIndex \ {NewSlot} : At(m_slots', i) = At(m_slots, i)
      /\ At(m_slots', NewSlot) = slot
  <2>1. CASE m_free_head # FREE_SENTINEL
    <3>1. m_slots' = [m_slots EXCEPT ![NewSlot + 1] = slot]
      BY <2>1 DEF Insert, Taken
    <3>2. NewSlot \in SlotIndex
      BY <2>1, HeadOfList DEF NewSlot
    <3>3. m_slots' \in Seq(SlotType) /\ Len(m_slots') = Len(m_slots)
      BY <3>1, <3>2, <1>1, <1>6 DEF SlotIndex
    <3>4. /\ \A i \in SlotIndex \ {NewSlot} : At(m_slots', i) = At(m_slots, i)
          /\ At(m_slots', NewSlot) = slot
      BY <3>1, <3>2, <1>1 DEF SlotIndex, At
    <3>5. Len(m_slots) =< MaxSize
      BY DEF IInv, TypeOK
    <3> QED  BY <3>2, <3>3, <3>4, <3>5 DEF SlotIndex
  <2>2. CASE m_free_head = FREE_SENTINEL
    <3>1. m_slots' = Append(m_slots, slot) /\ NewSlot = Len(m_slots)
      BY <2>2 DEF Insert, Taken, NewSlot
    <3>2. m_slots' \in Seq(SlotType) /\ Len(m_slots') = Len(m_slots) + 1
      BY <3>1, <1>1, <1>6, AppendProperties
    <3>3. /\ \A i \in SlotIndex \ {NewSlot} : At(m_slots', i) = At(m_slots, i)
          /\ At(m_slots', NewSlot) = slot
      BY <3>1, <1>1, <1>6, AppendProperties DEF SlotIndex, At
    <3> QED  BY <3>1, <3>2, <3>3, <1>4 DEF SlotIndex
  <2> QED  BY <2>1, <2>2
<1> QED  BY <1>3, <1>4, <1>6, <1>7, <1>8

\* A stale key's slot has another generation until that has come round.
LEMMA StaleKey ==
  ASSUME IInv, NEW k \in DOMAIN stale
  PROVE  /\ k \in Key /\ stale[k] \in 1 .. GenModulus
         /\ Matches(k) <=> stale[k] = GenModulus
<1>1. k \in Key /\ stale[k] \in 1 .. GenModulus
  BY DEF IInv, TypeOK
<1>2. k.gen \in 0 .. GenModulus - 1
  BY <1>1 DEF Key
<1>3. /\ k.idx \in SlotIndex
      /\ At(m_slots, k.idx).generation = After(k.gen, stale[k])
  BY DEF IInv, KeyInv
<1>4. k.idx < Len(m_slots)
  BY <1>3, Members DEF SlotIndex
<1>5. Matches(k) <=> After(k.gen, stale[k]) = k.gen
  BY <1>3, <1>4 DEF Matches
<1> QED  BY <1>1, <1>2, <1>5, AfterErases

\* What the client remembers after an erase.
LEMMA RememberedKeys ==
  ASSUME IInv, NEW k \in Key
  PROVE  /\ DOMAIN Remembered(k) \subseteq Key
         /\ Remembered(k) \in [DOMAIN Remembered(k) -> 1 .. GenModulus]
         /\ k \in DOMAIN Remembered(k) /\ Remembered(k)[k] = 1
         /\ \A j \in DOMAIN Remembered(k) \ {k} :
               /\ j \in DOMAIN stale /\ j \in Key /\ stale[j] \in 1 .. GenModulus
               /\ j.idx = k.idx => stale[j] < GenModulus /\ Remembered(k)[j] = stale[j] + 1
               /\ j.idx # k.idx => Remembered(k)[j] = stale[j]
<1> DEFINE others == {j \in DOMAIN stale : j.idx = k.idx => stale[j] < GenModulus} \ {k}
<1>1. /\ DOMAIN stale \subseteq Key /\ \A j \in DOMAIN stale : stale[j] \in 1 .. GenModulus
      /\ GenModulus \in Nat /\ GenModulus > 1
  BY SlotMapAssumption DEF IInv, TypeOK
<1>2. Remembered(k) = [j \in others \cup {k} |->
                          IF j = k THEN 1
                          ELSE IF j.idx = k.idx THEN stale[j] + 1 ELSE stale[j]]
  BY DEF Remembered
<1>3. DOMAIN Remembered(k) = others \cup {k}
  BY <1>2
<1>4. Remembered(k)[k] = 1
  BY <1>2
<1>5. ASSUME NEW j \in others
      PROVE  /\ j \in DOMAIN stale /\ j \in Key /\ stale[j] \in 1 .. GenModulus
             /\ j.idx = k.idx => stale[j] < GenModulus /\ Remembered(k)[j] = stale[j] + 1
             /\ j.idx # k.idx => Remembered(k)[j] = stale[j]
  BY <1>1, <1>2
<1> HIDE DEF others
<1>6. \A j \in others \cup {k} : Remembered(k)[j] \in 1 .. GenModulus
  BY <1>1, <1>4, <1>5
<1>7. Remembered(k) \in [others \cup {k} -> 1 .. GenModulus]
  BY <1>2, <1>6
<1>8. others \cup {k} \subseteq Key
  BY <1>5
<1> QED  BY <1>3, <1>4, <1>5, <1>7, <1>8

\* A retired key misses, so the client erases a live one, whose slot is in use.
LEMMA ErasedKey ==
  ASSUME IInv, NEW k \in live \cup Retired, Matches(k)
  PROVE  /\ k \in live /\ k \in Key
         /\ k.idx \in InUse /\ k.gen = At(m_slots, k.idx).generation
<1> USE Members
<1>1. k \notin Retired
  BY StaleKey DEF Retired
<1>2. k \in Key
  BY <1>1 DEF IInv, TypeOK
<1>3. k \in LiveKeys
  BY <1>1 DEF IInv, KeyInv
<1> QED  BY <1>1, <1>2, <1>3 DEF LiveKeys, IInv, KeyInv

\* What erase leaves, place by place: i is the slot, d its place, moved the
\* slot of the last value.
LEMMA EraseShape ==
  ASSUME IInv, NEW k \in live \cup Retired, Erase(k)
  PROVE  LET i == k.idx
             d == At(m_slots, i).dense_idx
             moved == At(m_dense_to_slot, Len(m_dense) - 1)
         IN
         /\ i \in InUse /\ d \in DenseIndex /\ At(m_dense_to_slot, d) = i
         /\ moved \in InUse /\ (moved = i <=> d = Len(m_dense) - 1)
         /\ k \in live /\ k \in Key /\ k.gen = At(m_slots, i).generation
         /\ k.gen \in 0 .. GenModulus - 1 /\ NextGen(k.gen) \in 0 .. GenModulus - 1
         /\ m_slots' \in Seq(SlotType) /\ m_dense' \in Seq(Values)
         /\ m_dense_to_slot' \in Seq(0 .. MaxSize - 1)
         /\ Len(m_dense') = Len(m_dense) - 1 /\ Len(m_dense_to_slot') = Len(m_dense) - 1
         /\ Len(m_slots') = Len(m_slots) /\ m_free_head' = i
         /\ \A e \in 0 .. Len(m_dense) - 2 :
              /\ At(m_dense', e) = IF e = d THEN At(m_dense, Len(m_dense) - 1) ELSE At(m_dense, e)
              /\ At(m_dense_to_slot', e) = IF e = d THEN moved ELSE At(m_dense_to_slot, e)
         /\ At(m_slots', i) = [generation |-> NextGen(k.gen), dense_idx |-> m_free_head]
         /\ \A j \in SlotIndex \ {i} :
              At(m_slots', j) = IF j = moved
                                THEN [generation |-> At(m_slots, j).generation, dense_idx |-> d]
                                ELSE At(m_slots, j)
         /\ live' = live \ {k} /\ stale' = Remembered(k)
<1> DEFINE i == k.idx
           d == At(m_slots, i).dense_idx
           last == Len(m_dense) - 1
           moved == At(m_dense_to_slot, last)
<1> USE Members
<1>1. /\ m_slots \in Seq(SlotType) /\ m_dense \in Seq(Values)
      /\ m_dense_to_slot \in Seq(0 .. MaxSize - 1) /\ m_free_head \in Heads
  BY DEF IInv, TypeOK, SlotType, Heads
<1>2. /\ k \in live /\ k \in Key
      /\ i \in InUse /\ k.gen = At(m_slots, i).generation
  BY ErasedKey DEF Erase
<1>3. d \in DenseIndex /\ At(m_dense_to_slot, d) = i
  BY <1>2, InUseSlot
<1>4. last \in DenseIndex /\ moved \in InUse /\ moved \in SlotIndex
  <2>1. last \in DenseIndex
    BY <1>3 DEF DenseIndex
  <2> QED  BY <2>1 DEF InUse
<1>5. moved = i <=> d = last
  <2>1. At(m_slots, moved).dense_idx = last
    BY <1>4 DEF IInv, DenseAndSlotsAgree
  <2> QED  BY <2>1, <1>3
<1>6. k.gen \in 0 .. GenModulus - 1 /\ NextGen(k.gen) \in 0 .. GenModulus - 1
  BY <1>2, NextGenIs DEF Key
<1>7. (At(m_slots, i).generation + 1) % GenModulus = NextGen(k.gen)
  BY <1>2 DEF NextGen
<1>8. /\ m_slots' = Freed(m_slots, i, d, moved)
      /\ m_dense' = SwapRemoved(m_dense, d)
      /\ m_dense_to_slot' = SwapRemoved(m_dense_to_slot, d)
      /\ m_free_head' = i /\ live' = live \ {k} /\ stale' = Remembered(k)
  BY DEF Erase
<1>9. /\ m_dense' \in Seq(Values) /\ Len(m_dense') = Len(m_dense) - 1
      /\ \A e \in 0 .. Len(m_dense) - 2 :
            At(m_dense', e) = IF e = d THEN At(m_dense, last) ELSE At(m_dense, e)
  BY <1>1, <1>3, <1>8, SwapRemovedShape DEF DenseIndex
<1>10. /\ m_dense_to_slot' \in Seq(0 .. MaxSize - 1)
       /\ Len(m_dense_to_slot') = Len(m_dense) - 1
       /\ \A e \in 0 .. Len(m_dense) - 2 :
             At(m_dense_to_slot', e) = IF e = d THEN moved ELSE At(m_dense_to_slot, e)
  <2> DEFINE S == 0 .. MaxSize - 1
  <2>1. m_dense_to_slot \in Seq(S) /\ d \in 0 .. Len(m_dense_to_slot) - 1
    BY <1>1, <1>3 DEF DenseIndex
  <2> HIDE DEF S
  <2>2. /\ SwapRemoved(m_dense_to_slot, d) \in Seq(S)
        /\ Len(SwapRemoved(m_dense_to_slot, d)) = Len(m_dense_to_slot) - 1
        /\ \A e \in 0 .. Len(m_dense_to_slot) - 2 :
              At(SwapRemoved(m_dense_to_slot, d), e) =
                  IF e = d THEN At(m_dense_to_slot, Len(m_dense_to_slot) - 1)
                  ELSE At(m_dense_to_slot, e)
    BY <2>1, SwapRemovedShape
  <2> QED  BY <2>2, <1>8 DEF S
<1>11. /\ m_slots' \in Seq(SlotType) /\ Len(m_slots') = Len(m_slots)
       /\ At(m_slots', i) = [generation |-> NextGen(k.gen), dense_idx |-> m_free_head]
       /\ \A j \in SlotIndex \ {i} :
             At(m_slots', j) = IF j = moved
                               THEN [generation |-> At(m_slots, j).generation, dense_idx |-> d]
                               ELSE At(m_slots, j)
  <2> DEFINE redirected == [generation |-> At(m_slots, moved).generation, dense_idx |-> d]
             freed == [generation |-> NextGen(k.gen), dense_idx |-> m_free_head]
             table == [m_slots EXCEPT ![moved + 1] = redirected]
  <2>1. d \in Heads
    BY <1>3 DEF SlotType
  <2>2. redirected \in SlotType /\ freed \in SlotType
    BY <2>1, <1>1, <1>4, <1>6 DEF SlotType
  <2>3. [m_slots EXCEPT ![moved + 1].dense_idx = d] = table
    <3>1. [m_slots[moved + 1] EXCEPT !.dense_idx = d] = redirected
      <4>1. m_slots[moved + 1] \in SlotType
        BY <1>4 DEF At
      <4> QED  BY <4>1 DEF SlotType, At
    <3> QED  BY <3>1
  <2>4. m_slots' = [table EXCEPT ![i + 1] = freed]
    BY <1>2, <1>7, <1>8, <2>3 DEF Freed
  <2>5. table \in Seq(SlotType) /\ Len(table) = Len(m_slots)
    BY <1>1, <1>4, <2>2 DEF SlotIndex
  <2>6. \A j \in SlotIndex : At(table, j) = IF j = moved THEN redirected ELSE At(m_slots, j)
    <3> HIDE DEF redirected
    <3> SUFFICES ASSUME NEW j \in SlotIndex
                 PROVE  At(table, j) = IF j = moved THEN redirected ELSE At(m_slots, j)
      OBVIOUS
    <3>1. j \in Int /\ moved \in Int /\ j + 1 \in DOMAIN m_slots
      BY <1>1, <1>4 DEF SlotIndex
    <3>2. j + 1 = moved + 1 <=> j = moved
      BY <3>1
    <3>3. At(table, j) = IF j + 1 = moved + 1 THEN redirected ELSE m_slots[j + 1]
      BY <3>1 DEF At
    <3> QED  BY <3>2, <3>3 DEF At
  <2> HIDE DEF table, redirected, freed
  <2>7. i \in SlotIndex
    BY <1>2
  <2>8. m_slots' \in Seq(SlotType) /\ Len(m_slots') = Len(m_slots)
    BY <2>2, <2>4, <2>5, <2>7 DEF SlotIndex
  <2>9. \A j \in SlotIndex : At(m_slots', j) = IF j = i THEN freed ELSE At(table, j)
    BY <2>4, <2>5, <2>7 DEF SlotIndex, At
  <2> QED  BY <2>6, <2>7, <2>8, <2>9 DEF redirected, freed
<1> QED  BY <1>2, <1>3, <1>4, <1>5, <1>6, <1>8, <1>9, <1>10, <1>11

\* The slots in use and the free ones after each of the two.
LEMMA InsertUses ==
  ASSUME IInv, NEW v \in Values, Insert(v)
  PROVE  /\ DenseIndex' = DenseIndex \cup {Len(m_dense)} /\ Len(m_dense) \notin DenseIndex
         /\ InUse' = InUse \cup {NewSlot}
         /\ FreeSlots' = FreeSlots \ {NewSlot}
<1> USE Members, InsertShape
<1>1. DenseIndex' = DenseIndex \cup {Len(m_dense)} /\ Len(m_dense) \notin DenseIndex
  BY DEF DenseIndex
<1>2. InUse' = InUse \cup {NewSlot}
  <2>1. \A e \in DenseIndex' : At(m_dense_to_slot', e) =
            IF e = Len(m_dense) THEN NewSlot ELSE At(m_dense_to_slot, e)
    BY <1>1
  <2> QED  BY <1>1, <2>1 DEF InUse
<1> QED  BY <1>1, <1>2 DEF FreeSlots

LEMMA EraseUses ==
  ASSUME IInv, NEW k \in live \cup Retired, Erase(k)
  PROVE  /\ DenseIndex' = 0 .. Len(m_dense) - 2
         /\ DenseIndex' \subseteq DenseIndex
         /\ SlotIndex' = SlotIndex
         /\ InUse' = InUse \ {k.idx}
         /\ FreeSlots' = FreeSlots \cup {k.idx} /\ k.idx \notin FreeSlots
<1> DEFINE i == k.idx
           d == At(m_slots, i).dense_idx
           last == Len(m_dense) - 1
           moved == At(m_dense_to_slot, last)
<1>1. /\ i \in InUse /\ i \in SlotIndex /\ d \in DenseIndex /\ At(m_dense_to_slot, d) = i
      /\ Len(m_dense) \in Nat /\ Len(m_dense') = Len(m_dense) - 1
      /\ Len(m_slots') = Len(m_slots)
      /\ moved = i <=> d = last
      /\ \A e \in 0 .. last - 1 :
            At(m_dense_to_slot', e) = IF e = d THEN moved ELSE At(m_dense_to_slot, e)
  <2>1. Len(m_dense) \in Nat /\ InUse \subseteq SlotIndex
    BY Members
  <2>2. 0 .. last - 1 = 0 .. Len(m_dense) - 2
    BY <2>1
  <2>3. /\ i \in InUse /\ d \in DenseIndex /\ At(m_dense_to_slot, d) = i
        /\ Len(m_dense') = Len(m_dense) - 1
        /\ Len(m_slots') = Len(m_slots)
        /\ moved = i <=> d = last
        /\ \A e \in 0 .. Len(m_dense) - 2 :
              At(m_dense_to_slot', e) = IF e = d THEN moved ELSE At(m_dense_to_slot, e)
    BY EraseShape, Zenon
  <2> QED  BY <2>1, <2>2, <2>3
<1>2. /\ DenseIndex' = 0 .. last - 1 /\ DenseIndex' \subseteq DenseIndex
      /\ last \in DenseIndex /\ DenseIndex = 0 .. last
      /\ SlotIndex' = SlotIndex
  BY <1>1 DEF DenseIndex, SlotIndex
<1>3. ASSUME NEW e \in DenseIndex
      PROVE  At(m_dense_to_slot, e) = i => e = d
  BY <1>3, <1>1 DEF IInv, DenseAndSlotsAgree
<1> HIDE DEF i, d, moved
<1>4. InUse' \subseteq InUse \ {i}
  <2> SUFFICES ASSUME NEW e \in DenseIndex'
               PROVE  At(m_dense_to_slot', e) \in InUse \ {i}
    BY DEF InUse
  <2>1. e \in DenseIndex /\ e # last
    BY <1>2
  <2>2. CASE e = d
    <3>1. At(m_dense_to_slot', e) = moved
      BY <1>1, <1>2, <2>2
    <3>2. moved # i
      BY <1>1, <2>1, <2>2
    <3>3. moved \in InUse
      BY <1>2 DEF InUse, moved
    <3> QED  BY <3>1, <3>2, <3>3
  <2>3. CASE e # d
    <3>1. At(m_dense_to_slot', e) = At(m_dense_to_slot, e)
      BY <1>1, <1>2, <2>3
    <3>2. At(m_dense_to_slot, e) # i
      BY <1>3, <2>1, <2>3
    <3> QED  BY <3>1, <3>2, <2>1 DEF InUse
  <2> QED  BY <2>2, <2>3
<1>5. InUse \ {i} \subseteq InUse'
  <2> SUFFICES ASSUME NEW e \in DenseIndex, At(m_dense_to_slot, e) # i
               PROVE  \E f \in DenseIndex' : At(m_dense_to_slot', f) = At(m_dense_to_slot, e)
    BY DEF InUse
  <2>1. e # d
    BY <1>1
  <2>2. CASE e = last
    <3>1. d # last /\ d \in DenseIndex'
      BY <1>1, <1>2, <2>1, <2>2
    <3>2. At(m_dense_to_slot', d) = moved
      BY <1>1, <1>2, <3>1
    <3> QED  BY <2>2, <3>1, <3>2 DEF moved
  <2>3. CASE e # last
    <3>1. e \in DenseIndex'
      BY <1>2, <2>3
    <3>2. At(m_dense_to_slot', e) = At(m_dense_to_slot, e)
      BY <1>1, <1>2, <2>1, <3>1
    <3> QED  BY <3>1, <3>2
  <2> QED  BY <2>2, <2>3
<1>6. InUse' = InUse \ {i}
  BY <1>4, <1>5
<1> QED  BY <1>1, <1>2, <1>6 DEF FreeSlots, i

---------------------------------------------------------------------------
(* The invariant *)

LEMMA InitKeeps == Init => IInv
<1> SUFFICES ASSUME Init PROVE IInv
  OBVIOUS
<1> USE SlotMapAssumption DEF Init
<1>1. SlotIndex = {} /\ DenseIndex = {} /\ InUse = {} /\ FreeSlots = {}
  BY DEF SlotIndex, DenseIndex, InUse, FreeSlots
<1>2. TypeOK
  BY DEF TypeOK
<1>3. DenseAndSlotsAgree
  BY <1>1 DEF DenseAndSlotsAgree
<1>4. KeyInv
  BY <1>1 DEF KeyInv, LiveKeys
<1>5. FreeList
  <2>1. <<>> \in [1 .. 0 -> FreeSlots]
    OBVIOUS
  <2>2. Links(<<>>)
    BY <1>1 DEF Links
  <2> QED  BY <2>1, <2>2 DEF FreeList
<1> QED  BY <1>2, <1>3, <1>4, <1>5 DEF IInv

LEMMA InsertKeeps ==
  ASSUME IInv, NEW v \in Values, Insert(v)
  PROVE  IInv'
<1> USE Members, InsertShape, InsertUses
<1>1. TypeOK'
  <2>1. m_free_head' \in Heads
    <3>1. CASE m_free_head # FREE_SENTINEL
      <4>1. m_free_head' = At(m_slots, m_free_head).dense_idx
        BY <3>1 DEF Insert, NewSlot
      <4>2. m_free_head \in SlotIndex
        BY <3>1, HeadOfList
      <4> QED  BY <4>1, <4>2
    <3>2. CASE m_free_head = FREE_SENTINEL
      BY <3>2 DEF Insert, Heads
    <3> QED  BY <3>1, <3>2
  <2>2. /\ live' \subseteq Key /\ DOMAIN stale' \subseteq Key
        /\ stale' \in [DOMAIN stale' -> 1 .. GenModulus]
    BY DEF IInv, TypeOK
  <2> QED  BY <2>1, <2>2 DEF TypeOK, SlotType, Heads
<1>2. DenseAndSlotsAgree'
  <2>1. ASSUME NEW d \in DenseIndex'
        PROVE  /\ At(m_dense_to_slot', d) \in SlotIndex'
               /\ At(m_slots', At(m_dense_to_slot', d)).dense_idx = d
    <3>1. CASE d = Len(m_dense)
      BY <3>1
    <3>2. CASE d # Len(m_dense)
      <4>1. d \in DenseIndex
        BY <2>1, <3>2
      <4>2. At(m_dense_to_slot', d) = At(m_dense_to_slot, d)
        BY <4>1
      <4>3. At(m_dense_to_slot, d) \in SlotIndex \ {NewSlot}
        BY <4>1 DEF InUse
      <4>4. At(m_slots, At(m_dense_to_slot, d)).dense_idx = d
        BY <4>1 DEF IInv, DenseAndSlotsAgree
      <4> QED  BY <4>2, <4>3, <4>4
    <3> QED  BY <3>1, <3>2
  <2> QED  BY <2>1 DEF DenseAndSlotsAgree
<1>3. NewSlot \in SlotIndex => Taken.gen = At(m_slots, NewSlot).generation
  <2>1. CASE m_free_head # FREE_SENTINEL
    BY <2>1 DEF Taken
  <2>2. CASE m_free_head = FREE_SENTINEL
    BY <2>2 DEF NewSlot, SlotIndex
  <2> QED  BY <2>1, <2>2
<1>4. ASSUME NEW i \in SlotIndex
      PROVE  At(m_slots', i).generation = At(m_slots, i).generation
  <2>1. CASE i = NewSlot
    BY <2>1, <1>3
  <2>2. CASE i # NewSlot
    <3>1. At(m_slots', i) = At(m_slots, i)
      BY <2>2
    <3> QED  BY <3>1
  <2> QED  BY <2>1, <2>2
<1>5. At(m_slots', NewSlot).generation = Taken.gen
  <2>1. CASE NewSlot \in SlotIndex
    BY <2>1, <1>3
  <2>2. CASE NewSlot \notin SlotIndex
    <3>1. m_free_head = FREE_SENTINEL
      BY <2>2, HeadOfList DEF NewSlot
    <3> QED  BY <3>1 DEF Taken
  <2> QED  BY <2>1, <2>2
<1>6. KeyInv'
  <2>1. LiveKeys' = LiveKeys \cup {Taken}
    <3>1. \A i \in InUse' : At(m_slots', i).generation =
              IF i = NewSlot THEN Taken.gen ELSE At(m_slots, i).generation
      BY <1>4, <1>5
    <3>2. Taken = [idx |-> NewSlot, gen |-> Taken.gen]
      BY DEF Taken
    <3> QED  BY <3>1, <3>2 DEF LiveKeys
  <2>2. \A k \in DOMAIN stale' :
           /\ k.idx \in SlotIndex'
           /\ At(m_slots', k.idx).generation = After(k.gen, stale'[k])
    BY <1>4 DEF IInv, KeyInv
  <2> QED  BY <2>1, <2>2 DEF KeyInv, IInv
<1>7. FreeList'
  <2>1. CASE m_free_head = FREE_SENTINEL
    <3>1. FreeSlots' = {} /\ m_free_head' = FREE_SENTINEL
      BY <2>1, HeadOfList DEF Insert
    <3>2. <<>> \in [1 .. 0 -> FreeSlots']
      OBVIOUS
    <3>3. Links(<<>>)'
      BY <3>1 DEF Links
    <3> QED  BY <3>2, <3>3 DEF FreeList
  <2>2. CASE m_free_head # FREE_SENTINEL
    <3>1. PICK n \in Nat : \E free \in [1 .. n -> FreeSlots] : Links(free)
      BY DEF IInv, FreeList
    <3>2. PICK free \in [1 .. n -> FreeSlots] : Links(free)
      BY <3>1
    <3>3. free \in Seq(FreeSlots) /\ Len(free) = n
      BY SeqDef, LenProperties
    <3>4. n >= 1 /\ free[1] = NewSlot
      BY <2>2, <3>2, <3>3 DEF Links, NewSlot
    <3>5. /\ \A i, j \in 1 .. n : free[i] = free[j] => i = j
          /\ {free[i] : i \in 1 .. n} = FreeSlots
          /\ \A i \in 1 .. n : At(m_slots, free[i]).dense_idx =
                                IF i = n THEN FREE_SENTINEL ELSE free[i + 1]
      BY <3>2, <3>3 DEF Links
    <3> DEFINE rest == [i \in 1 .. n - 1 |-> free[i + 1]]
    <3>6. ASSUME NEW i \in 1 .. n - 1
          PROVE  rest[i] = free[i + 1] /\ i + 1 \in 1 .. n /\ rest[i] \in FreeSlots'
      <4>1. 1 \in 1 .. n /\ i + 1 \in 1 .. n /\ i + 1 # 1
        BY <3>4
      <4>2. free[i + 1] # free[1] /\ free[i + 1] \in FreeSlots
        BY <4>1, <3>5
      <4> QED  BY <4>1, <4>2, <3>4
    <3>7. rest \in [1 .. n - 1 -> FreeSlots'] /\ n - 1 \in Nat
      BY <3>4, <3>6
    <3>8. rest \in Seq(FreeSlots') /\ Len(rest) = n - 1
      <4> HIDE DEF rest
      <4> DEFINE m == n - 1
                 S == FreeSlots'
      <4>1. m \in Nat /\ rest \in [1 .. m -> S]
        BY <3>7
      <4> HIDE DEF m, S
      <4>2. rest \in Seq(S) /\ Len(rest) = m
        BY <4>1, ListIsSeq
      <4> QED  BY <4>2 DEF m, S
    <3> HIDE DEF rest
    <3>9. Links(rest)'
      <4>1. ASSUME NEW i \in 1 .. n - 1, NEW j \in 1 .. n - 1, rest[i] = rest[j]
            PROVE  i = j
        <5>1. i + 1 = j + 1
          BY <4>1, <3>5, <3>6
        <5> QED  BY <5>1, <3>4
      <4>2. {rest[i] : i \in 1 .. n - 1} = FreeSlots'
        <5>1. ASSUME NEW s \in FreeSlots' PROVE \E i \in 1 .. n - 1 : rest[i] = s
          <6>1. PICK j \in 1 .. n : free[j] = s
            BY <3>5
          <6>2. j # 1 /\ j - 1 \in 1 .. n - 1
            BY <6>1, <3>4
          <6>3. rest[j - 1] = free[(j - 1) + 1]
            BY <6>2, <3>6
          <6>4. (j - 1) + 1 = j
            OBVIOUS
          <6>5. rest[j - 1] = s
            BY <6>1, <6>3, <6>4, Zenon
          <6> QED  BY <6>2, <6>5, Zenon
        <5>2. \A i \in 1 .. n - 1 : rest[i] \in FreeSlots'
          BY <3>6
        <5>3. {rest[i] : i \in 1 .. n - 1} \subseteq FreeSlots'
          BY <5>2, Zenon
        <5>4. FreeSlots' \subseteq {rest[i] : i \in 1 .. n - 1}
          BY <5>1, Zenon
        <5> QED  BY <5>3, <5>4, Zenon
      <4>3. m_free_head' = IF rest = <<>> THEN FREE_SENTINEL ELSE rest[1]
        <5>1. m_free_head' = At(m_slots, free[1]).dense_idx
          BY <2>2, <3>4 DEF Insert
        <5>2. m_free_head' = IF n = 1 THEN FREE_SENTINEL ELSE free[2]
          <6>1. 1 \in 1 .. n /\ (1 = n <=> n = 1)
            BY <3>4
          <6>2. At(m_slots, free[1]).dense_idx = IF 1 = n THEN FREE_SENTINEL ELSE free[1 + 1]
            BY <6>1, <3>5
          <6> QED  BY <5>1, <6>1, <6>2
        <5>3. rest = <<>> <=> n = 1
          BY <3>8, EmptySeq
        <5> QED  BY <5>2, <5>3, <3>4, <3>6
      <4>4. \A i \in 1 .. n - 1 : At(m_slots', rest[i]).dense_idx =
                                    IF i = n - 1 THEN FREE_SENTINEL ELSE rest[i + 1]
        <5> SUFFICES ASSUME NEW i \in 1 .. n - 1
                     PROVE  At(m_slots', rest[i]).dense_idx =
                                IF i = n - 1 THEN FREE_SENTINEL ELSE rest[i + 1]
          OBVIOUS
        <5>1. rest[i] = free[i + 1] /\ i + 1 \in 1 .. n
          BY <3>6, <3>4
        <5>2. rest[i] \in SlotIndex \ {NewSlot}
          BY <3>6
        <5>3. At(m_slots', rest[i]).dense_idx = At(m_slots, free[i + 1]).dense_idx
          BY <5>1, <5>2
        <5>4. At(m_slots, free[i + 1]).dense_idx =
                 IF i + 1 = n THEN FREE_SENTINEL ELSE free[i + 1 + 1]
          BY <5>1, <3>5
        <5>5. ASSUME i # n - 1 PROVE rest[i + 1] = free[i + 1 + 1]
          <6>1. i + 1 \in 1 .. n - 1
            BY <5>5, <3>4
          <6> QED  BY <6>1, <3>6
        <5> QED  BY <5>3, <5>4, <5>5, <3>4
      <4> QED  BY <4>1, <4>2, <4>3, <4>4, <3>8 DEF Links
    <3> QED  BY <3>7, <3>9 DEF FreeList
  <2> QED  BY <2>1, <2>2
<1> QED  BY <1>1, <1>2, <1>6, <1>7 DEF IInv

LEMMA EraseKeeps ==
  ASSUME IInv, NEW k \in live \cup Retired, Erase(k)
  PROVE  IInv'
<1> DEFINE i == k.idx
           d == At(m_slots, i).dense_idx
           last == Len(m_dense) - 1
           moved == At(m_dense_to_slot, last)
<1>1. /\ i \in InUse /\ d \in DenseIndex /\ At(m_dense_to_slot, d) = i
      /\ moved \in InUse /\ (moved = i <=> d = last)
      /\ k \in live /\ k \in Key /\ k.gen = At(m_slots, i).generation
      /\ k.gen \in 0 .. GenModulus - 1 /\ NextGen(k.gen) \in 0 .. GenModulus - 1
      /\ m_slots' \in Seq(SlotType) /\ m_dense' \in Seq(Values)
      /\ m_dense_to_slot' \in Seq(0 .. MaxSize - 1)
      /\ Len(m_dense') = Len(m_dense) - 1 /\ Len(m_dense_to_slot') = Len(m_dense) - 1
      /\ Len(m_slots') = Len(m_slots) /\ m_free_head' = i
      /\ At(m_slots', i) = [generation |-> NextGen(k.gen), dense_idx |-> m_free_head]
      /\ live' = live \ {k} /\ stale' = Remembered(k)
  BY EraseShape, Zenon
<1>2. \A e \in 0 .. Len(m_dense) - 2 :
         At(m_dense_to_slot', e) = IF e = d THEN moved ELSE At(m_dense_to_slot, e)
  BY EraseShape, Zenon
<1>3. \A j \in SlotIndex \ {i} :
         At(m_slots', j) = IF j = moved
                           THEN [generation |-> At(m_slots, j).generation, dense_idx |-> d]
                           ELSE At(m_slots, j)
  BY EraseShape, Zenon
<1>4. /\ DenseIndex' = 0 .. Len(m_dense) - 2 /\ DenseIndex' \subseteq DenseIndex
      /\ SlotIndex' = SlotIndex /\ InUse' = InUse \ {i}
      /\ FreeSlots' = FreeSlots \cup {i} /\ i \notin FreeSlots
  BY EraseUses
<1> USE Members
<1> HIDE DEF i, d, moved
<1>5. TypeOK'
  <2>1. i \in Heads
    BY <1>1 DEF Heads
  <2>2. /\ live' \subseteq Key /\ DOMAIN stale' \subseteq Key
        /\ stale' \in [DOMAIN stale' -> 1 .. GenModulus]
    BY <1>1, RememberedKeys DEF IInv, TypeOK
  <2>3. Len(m_slots') =< MaxSize
    BY <1>1 DEF IInv, TypeOK
  <2> QED  BY <1>1, <2>1, <2>2, <2>3 DEF TypeOK, SlotType, Heads
<1>6. DenseAndSlotsAgree'
  <2> SUFFICES ASSUME NEW e \in DenseIndex'
               PROVE  /\ At(m_dense_to_slot', e) \in SlotIndex'
                      /\ At(m_slots', At(m_dense_to_slot', e)).dense_idx = e
    BY <1>1 DEF DenseAndSlotsAgree
  <2>1. At(m_dense_to_slot', e) \in InUse'
    BY DEF InUse
  <2>2. At(m_dense_to_slot', e) \in SlotIndex \ {i}
    BY <1>4, <2>1
  <2>3. CASE e = d
    <3>1. At(m_dense_to_slot', e) = moved
      BY <1>2, <1>4, <2>3
    <3> QED  BY <2>2, <3>1, <1>3, <1>4, <2>3
  <2>4. CASE e # d
    <3>1. At(m_dense_to_slot', e) = At(m_dense_to_slot, e)
      BY <1>2, <1>4, <2>4
    <3>2. At(m_slots, At(m_dense_to_slot, e)).dense_idx = e
      BY <1>4 DEF IInv, DenseAndSlotsAgree
    <3>3. At(m_dense_to_slot, e) # moved
      <4>1. At(m_slots, moved).dense_idx = last /\ last \in DenseIndex
        <5>1. last \in DenseIndex
          BY <1>1 DEF DenseIndex
        <5> QED  BY <5>1 DEF IInv, DenseAndSlotsAgree, moved
      <4>2. e # last
        BY <1>4
      <4> QED  BY <3>2, <4>1, <4>2
    <3> QED  BY <2>2, <3>1, <3>2, <3>3, <1>3, <1>4
  <2> QED  BY <2>3, <2>4
<1>7. ASSUME NEW j \in SlotIndex \ {i}
      PROVE  At(m_slots', j).generation = At(m_slots, j).generation
  BY <1>3
<1>8. KeyInv'
  <2>1. LiveKeys' = LiveKeys \ {k}
    <3>1. k = [idx |-> i, gen |-> At(m_slots, i).generation]
      BY <1>1 DEF Key, i
    <3>2. \A j \in InUse' : At(m_slots', j).generation = At(m_slots, j).generation
      BY <1>4, <1>7
    <3>3. LiveKeys' = {[idx |-> j, gen |-> At(m_slots, j).generation] : j \in InUse \ {i}}
      BY <1>4, <3>2 DEF LiveKeys
    <3> QED  BY <3>1, <3>3 DEF LiveKeys
  <2>2. ASSUME NEW q \in DOMAIN stale'
        PROVE  /\ q.idx \in SlotIndex'
               /\ At(m_slots', q.idx).generation = After(q.gen, stale'[q])
    <3>1. CASE q = k
      <4>1. stale'[q] = 1
        BY <3>1, <1>1, RememberedKeys
      <4>2. At(m_slots', i).generation = After(k.gen, 1)
        BY <1>1, NextGenIs
      <4> QED  BY <3>1, <4>1, <4>2, <1>1, <1>4 DEF i
    <3>2. CASE q # k
      <4>1. /\ q \in DOMAIN stale /\ q \in Key /\ stale[q] \in 1 .. GenModulus
            /\ q.idx = i => stale[q] < GenModulus /\ stale'[q] = stale[q] + 1
            /\ q.idx # i => stale'[q] = stale[q]
        BY <2>2, <3>2, <1>1, RememberedKeys DEF i
      <4>2. q.idx \in SlotIndex /\ At(m_slots, q.idx).generation = After(q.gen, stale[q])
        BY <4>1 DEF IInv, KeyInv
      <4>3. CASE q.idx = i
        <5>1. q.gen \in 0 .. GenModulus - 1
          BY <4>1 DEF Key
        <5>2. After(q.gen, stale[q] + 1) = NextGen(After(q.gen, stale[q]))
          BY <4>1, <4>3, <5>1, AfterErases
        <5>3. After(q.gen, stale[q]) = k.gen
          BY <4>2, <4>3, <1>1 DEF i
        <5>4. At(m_slots', i).generation = NextGen(k.gen)
          BY <1>1
        <5> QED  BY <4>1, <4>2, <4>3, <5>2, <5>3, <5>4, <1>4
      <4>4. CASE q.idx # i
        BY <4>1, <4>2, <4>4, <1>4, <1>7
      <4> QED  BY <4>3, <4>4
    <3> QED  BY <3>1, <3>2
  <2> QED  BY <2>1, <2>2, <1>1 DEF KeyInv, IInv
<1>9. FreeList'
  <2>1. PICK n \in Nat : \E free \in [1 .. n -> FreeSlots] : Links(free)
    BY DEF IInv, FreeList
  <2>2. PICK free \in [1 .. n -> FreeSlots] : Links(free)
    BY <2>1
  <2>3. free \in Seq(FreeSlots) /\ Len(free) = n
    BY ListIsSeq
  <2>4. /\ \A a, b \in 1 .. n : free[a] = free[b] => a = b
        /\ {free[a] : a \in 1 .. n} = FreeSlots
        /\ m_free_head = IF n = 0 THEN FREE_SENTINEL ELSE free[1]
        /\ \A a \in 1 .. n : At(m_slots, free[a]).dense_idx =
                              IF a = n THEN FREE_SENTINEL ELSE free[a + 1]
    <3>1. free = <<>> <=> n = 0
      BY <2>3, EmptySeq
    <3> QED  BY <2>2, <2>3, <3>1 DEF Links
  <2> DEFINE m == n + 1
             list == [a \in 1 .. m |-> IF a = 1 THEN i ELSE free[a - 1]]
             S == FreeSlots'
  <2>5. list[1] = i /\ 1 \in 1 .. m /\ m \in Nat
    OBVIOUS
  <2>6. ASSUME NEW a \in 1 .. m, a # 1
        PROVE  a - 1 \in 1 .. n /\ list[a] = free[a - 1] /\ free[a - 1] \in FreeSlots
    BY <2>6
  <2>7. list \in [1 .. m -> S]
    BY <2>5, <2>6, <1>4
  <2> HIDE DEF list
  <2>8. list \in Seq(S) /\ Len(list) = m /\ list # <<>>
    <3>1. m \in Nat
      OBVIOUS
    <3> HIDE DEF m, S
    <3>2. list \in Seq(S) /\ Len(list) = m
      BY <2>7, <3>1, ListIsSeq
    <3>3. m # 0
      BY DEF m
    <3> QED  BY <3>2, <3>3, EmptySeq
  <2>9. ASSUME NEW a \in 1 .. m, NEW b \in 1 .. m, list[a] = list[b]
        PROVE  a = b
    <3>1. CASE a = 1 /\ b = 1
      BY <3>1
    <3>2. CASE a # 1 /\ b # 1
      <4>1. a - 1 = b - 1
        BY <2>4, <2>6, <2>9, <3>2
      <4> QED  BY <4>1
    <3>3. CASE a = 1 /\ b # 1
      BY <2>5, <2>6, <2>9, <3>3, <1>4
    <3>4. CASE a # 1 /\ b = 1
      BY <2>5, <2>6, <2>9, <3>4, <1>4
    <3> QED  BY <3>1, <3>2, <3>3, <3>4
  <2>10. {list[a] : a \in 1 .. m} = S
    <3>1. \A a \in 1 .. m : list[a] \in S
      BY <2>7
    <3>2. ASSUME NEW s \in S PROVE \E a \in 1 .. m : list[a] = s
      <4>1. CASE s = i
        BY <4>1, <2>5
      <4>2. CASE s # i
        <5>1. s \in FreeSlots
          BY <4>2, <1>4
        <5>2. PICK b \in 1 .. n : free[b] = s
          BY <5>1, <2>4
        <5>3. b + 1 \in 1 .. m /\ b + 1 # 1 /\ (b + 1) - 1 = b
          OBVIOUS
        <5>4. list[b + 1] = free[(b + 1) - 1]
          BY <5>3, <2>6
        <5>5. list[b + 1] = s
          BY <5>2, <5>3, <5>4, Zenon
        <5> QED  BY <5>3, <5>5, Zenon
      <4> QED  BY <4>1, <4>2
    <3> QED  BY <3>1, <3>2, Zenon
  <2>11. m_free_head' = list[1]
    BY <1>1, <2>5
  <2>12. ASSUME NEW a \in 1 .. m
         PROVE  At(m_slots', list[a]).dense_idx = IF a = m THEN FREE_SENTINEL ELSE list[a + 1]
    <3>1. CASE a = 1
      <4>1. At(m_slots', list[a]).dense_idx = m_free_head
        BY <3>1, <2>5, <1>1
      <4>2. CASE n = 0
        BY <4>1, <4>2, <3>1, <2>4
      <4>3. CASE n # 0
        <5>1. 2 \in 1 .. m /\ 2 # 1 /\ 2 - 1 = 1 /\ a # m /\ a + 1 = 2
          BY <3>1, <4>3
        <5>2. list[2] = free[2 - 1]
          BY <5>1, <2>6
        <5>3. list[a + 1] = free[1]
          BY <5>1, <5>2
        <5> QED  BY <4>1, <4>3, <5>1, <5>3, <2>4
      <4> QED  BY <4>2, <4>3
    <3>2. CASE a # 1
      <4>1. list[a] = free[a - 1] /\ a - 1 \in 1 .. n /\ free[a - 1] \in FreeSlots
        BY <3>2, <2>6
      <4>2. free[a - 1] \in SlotIndex /\ free[a - 1] # i /\ free[a - 1] # moved
        BY <4>1, <1>1, <1>4 DEF FreeSlots
      <4>3. At(m_slots', list[a]).dense_idx = At(m_slots, free[a - 1]).dense_idx
        BY <4>1, <4>2, <1>3
      <4>4. At(m_slots, free[a - 1]).dense_idx =
               IF a - 1 = n THEN FREE_SENTINEL ELSE free[(a - 1) + 1]
        BY <4>1, <2>4
      <4>5. CASE a = m
        BY <4>3, <4>4, <4>5
      <4>6. CASE a # m
        <5>1. a + 1 \in 1 .. m /\ a + 1 # 1 /\ (a + 1) - 1 = (a - 1) + 1 /\ a - 1 # n
          BY <4>6
        <5>2. list[a + 1] = free[(a + 1) - 1]
          BY <5>1, <2>6
        <5> QED  BY <4>3, <4>4, <4>6, <5>1, <5>2
      <4> QED  BY <4>5, <4>6
    <3> QED  BY <3>1, <3>2
  <2>13. Links(list)'
    BY <2>8, <2>9, <2>10, <2>11, <2>12 DEF Links
  <2> QED  BY <2>7, <2>13, <2>5 DEF FreeList
<1> QED  BY <1>5, <1>6, <1>8, <1>9 DEF IInv

LEMMA ClearKeeps ==
  ASSUME ~KeysOutliveClear, Clear
  PROVE  IInv'
<1> USE SlotMapAssumption DEF Clear
<1>1. SlotIndex' = {} /\ DenseIndex' = {} /\ InUse' = {} /\ FreeSlots' = {}
  BY DEF SlotIndex, DenseIndex, InUse, FreeSlots
<1>2. TypeOK'
  BY DEF TypeOK
<1>3. DenseAndSlotsAgree'
  BY <1>1 DEF DenseAndSlotsAgree
<1>4. KeyInv'
  BY <1>1 DEF KeyInv, LiveKeys
<1>5. FreeList'
  <2>1. <<>> \in [1 .. 0 -> FreeSlots']
    OBVIOUS
  <2>2. Links(<<>>)'
    BY <1>1 DEF Links
  <2> QED  BY <2>1, <2>2 DEF FreeList
<1> QED  BY <1>2, <1>3, <1>4, <1>5 DEF IInv

LEMMA NextKeeps ==
  ASSUME ~KeysOutliveClear, IInv, [Next]_vars
  PROVE  IInv'
<1>1. CASE UNCHANGED vars
  <2> USE <1>1 DEF vars
  <2>1. /\ SlotIndex' = SlotIndex /\ DenseIndex' = DenseIndex /\ InUse' = InUse
        /\ FreeSlots' = FreeSlots /\ LiveKeys' = LiveKeys
    BY DEF SlotIndex, DenseIndex, InUse, FreeSlots, LiveKeys
  <2>2. TypeOK' /\ DenseAndSlotsAgree' /\ KeyInv'
    BY <2>1 DEF IInv, TypeOK, DenseAndSlotsAgree, KeyInv
  <2>3. FreeList'
    BY <2>1 DEF IInv, FreeList, Links
  <2> QED  BY <2>2, <2>3 DEF IInv
<1>2. CASE \E v \in Values : Insert(v)
  BY <1>2, InsertKeeps
<1>3. CASE \E k \in live \cup Retired : Erase(k)
  BY <1>3, EraseKeeps
<1>4. CASE Clear
  BY <1>4, ClearKeeps
<1> QED  BY <1>1, <1>2, <1>3, <1>4 DEF Next

LEMMA Inductive ==
  ASSUME ~KeysOutliveClear
  PROVE  Spec => []IInv
<1>1. Init => IInv
  BY InitKeeps
<1>2. IInv /\ [Next]_vars => IInv'
  BY NextKeeps
<1> QED  BY <1>1, <1>2, PTL DEF Spec

\* The list of the invariant is as long as there are free slots.
LEMMA ListLength ==
  ASSUME IInv
  PROVE  FreeListComplete
<1>1. PICK n \in Nat : \E free \in [1 .. n -> FreeSlots] : Links(free)
  BY DEF IInv, FreeList
<1>2. PICK free \in [1 .. n -> FreeSlots] : Links(free)
  BY <1>1
<1>3. free \in Seq(FreeSlots) /\ Len(free) = n
  BY ListIsSeq
<1>4. /\ \A a, b \in 1 .. n : free[a] = free[b] => a = b
      /\ {free[a] : a \in 1 .. n} = FreeSlots
  BY <1>2, <1>3 DEF Links
<1>5. free \in Bijection(1 .. n, FreeSlots)
  <2>1. free \in Injection(1 .. n, FreeSlots)
    BY <1>4 DEF Injection, IsInjective
  <2>2. \A t \in FreeSlots : \E a \in 1 .. n : free[a] = t
    BY <1>4
  <2>3. free \in Surjection(1 .. n, FreeSlots)
    BY <2>2 DEF Surjection
  <2> QED  BY <2>1, <2>3 DEF Bijection
<1>6. Cardinality(FreeSlots) = n
  <2>1. ExistsBijection(1 .. n, FreeSlots)
    BY <1>5 DEF ExistsBijection
  <2>2. 1 \in Int /\ n \in Int
    OBVIOUS
  <2>3. /\ IsFiniteSet(1 .. n)
        /\ Cardinality(1 .. n) = IF 1 > n THEN 0 ELSE n - 1 + 1
    BY <2>2, FS_Interval, Zenon
  <2>4. Cardinality(FreeSlots) = Cardinality(1 .. n)
    BY <2>1, <2>3, FS_Bijection
  <2> QED  BY <2>3, <2>4
<1> QED  BY <1>2, <1>6 DEF FreeListComplete

\* Every variable has its type, whatever the client does, as long as it drops
\* its keys when it clears the map and uses no key that is used up: such a key may
\* match a free slot, and erase would then follow a link of the free list into
\* m_dense.
THEOREM TypeCorrect ==
  ASSUME ~KeysOutliveClear
  PROVE  Spec => []TypeOK
<1>1. IInv => TypeOK
  BY DEF IInv
<1> QED  BY <1>1, Inductive, PTL

\* m_dense_to_slot and the slots in use point at each other after any number of
\* insertions and swap-removes (containers, insert and erase).
THEOREM DenseAndSlotsAgreeHolds ==
  ASSUME ~KeysOutliveClear
  PROVE  Spec => []DenseAndSlotsAgree
<1>1. IInv => DenseAndSlotsAgree
  BY DEF IInv
<1> QED  BY <1>1, Inductive, PTL

\* The free list holds every free slot once and ends: insert takes no slot that
\* is in use and erase loses none.
THEOREM FreeListCompleteHolds ==
  ASSUME ~KeysOutliveClear
  PROVE  Spec => []FreeListComplete
<1>1. IInv => FreeListComplete
  BY ListLength
<1> QED  BY <1>1, Inductive, PTL

\* A key that was erased matches no slot until its slot has been erased GenModulus
\* times, its own erase included: get, contains and erase miss, whether the
\* generation of the slot has wrapped in between or not.
THEOREM StaleKeysMissHolds ==
  ASSUME ~KeysOutliveClear
  PROVE  Spec => []StaleKeysMiss
<1>1. IInv => StaleKeysMiss
  BY StaleKey DEF StaleKeysMiss, Retired
<1> QED  BY <1>1, Inductive, PTL

\* The limit is sharp: a key whose slot has been erased GenModulus times matches
\* again, be the slot free or taken by another value.
UsedUpKeysMatch == \A k \in DOMAIN stale \ Retired : Matches(k)

\* erase raises the generation by one each time (containers:3469), so the u32 comes
\* round to the key's after GenModulus erases of its slot.
THEOREM UsedUpKeysMatchHolds ==
  ASSUME ~KeysOutliveClear
  PROVE  Spec => []UsedUpKeysMatch
<1>1. ASSUME IInv PROVE UsedUpKeysMatch
  <2> SUFFICES ASSUME NEW k \in DOMAIN stale, k \notin Retired PROVE Matches(k)
    BY DEF UsedUpKeysMatch
  <2>1. stale[k] \in 1 .. GenModulus /\ (Matches(k) <=> stale[k] = GenModulus)
    BY <1>1, StaleKey
  <2>2. ~(stale[k] < GenModulus)
    BY DEF Retired
  <2> QED  BY <2>1, <2>2, SlotMapAssumption
<1> QED  BY <1>1, Inductive, PTL

---------------------------------------------------------------------------
(* The slot map implements the keyed store. *)

Content == [k \in LiveKeys |-> ValueOf(k)]

\* What a key of a slot in use leads to.
LEMMA LiveValue ==
  ASSUME IInv, NEW k \in LiveKeys
  PROVE  /\ k.idx \in InUse /\ k = [idx |-> k.idx, gen |-> At(m_slots, k.idx).generation]
         /\ At(m_slots, k.idx).dense_idx \in DenseIndex
         /\ ValueOf(k) = At(m_dense, At(m_slots, k.idx).dense_idx)
<1>1. PICK i \in InUse : k = [idx |-> i, gen |-> At(m_slots, i).generation]
  BY DEF LiveKeys
<1>2. k.idx = i
  BY <1>1
<1>3. At(m_slots, i).dense_idx \in DenseIndex
  BY InUseSlot
<1> QED  BY <1>1, <1>2, <1>3 DEF ValueOf, DenseIndex

LEMMA InsertImplements ==
  ASSUME IInv, NEW v \in Values, Insert(v)
  PROVE  \E t \in Key : Store!Insert(t, v)
<1> USE Members
<1>1. PICK t \in Key : t = Taken
  BY InsertShape
<1>2. t.idx = NewSlot /\ t.gen = Taken.gen /\ t.gen \in Nat
  BY <1>1 DEF Taken, Key
<1>3. IInv'
  BY InsertKeeps
<1>4. LiveKeys' = LiveKeys \cup {t} /\ stale' = stale /\ Retired' = Retired
  BY <1>1, <1>3, InsertShape DEF IInv, KeyInv, Retired
<1>5. t \notin LiveKeys
  <2>1. \A k \in LiveKeys : k.idx \in InUse
    BY LiveValue
  <2> QED  BY <1>2, <2>1, InsertShape
<1>6. t \notin Retired
  <2> SUFFICES ASSUME t \in DOMAIN stale PROVE stale[t] = GenModulus
    BY DEF Retired
  <2>1. t \in Key /\ stale[t] \in 1 .. GenModulus
    BY StaleKey
  <2>2. At(m_slots', t.idx).generation = After(t.gen, stale[t])
    BY <1>3, <1>4 DEF IInv, KeyInv
  <2>3. At(m_slots', t.idx).generation = t.gen
    BY <1>2, InsertShape
  <2>4. t.gen \in 0 .. GenModulus - 1
    BY <2>1 DEF Key
  <2> QED  BY <2>1, <2>2, <2>3, <2>4, AfterErases
<1>7. DenseIndex' = 0 .. Len(m_dense') - 1 /\ DenseIndex' = DenseIndex \cup {Len(m_dense)}
  BY InsertUses DEF DenseIndex
<1>8. ValueOf(t)' = v
  <2>1. At(m_slots', t.idx).dense_idx = Len(m_dense)
    BY <1>2, InsertShape
  <2>2. At(m_dense', Len(m_dense)) = v
    BY InsertShape
  <2> QED  BY <1>7, <2>1, <2>2 DEF ValueOf
<1>9. ASSUME NEW k \in LiveKeys PROVE ValueOf(k)' = ValueOf(k)
  <2> DEFINE d == At(m_slots, k.idx).dense_idx
  <2>1. k.idx \in InUse /\ d \in DenseIndex /\ ValueOf(k) = At(m_dense, d)
    BY LiveValue
  <2>2. k.idx \in SlotIndex \ {NewSlot}
    BY <2>1, InsertShape
  <2>3. At(m_slots', k.idx) = At(m_slots, k.idx)
    BY <2>2, InsertShape
  <2>4. At(m_dense', d) = At(m_dense, d)
    BY <2>1, InsertShape
  <2> QED  BY <1>7, <2>1, <2>3, <2>4 DEF ValueOf
<1>10. Content' = [j \in LiveKeys \cup {t} |-> IF j = t THEN v ELSE Content[j]]
  <2>1. \A j \in LiveKeys \cup {t} : ValueOf(j)' = IF j = t THEN v ELSE Content[j]
    BY <1>5, <1>8, <1>9 DEF Content
  <2> QED  BY <1>4, <2>1 DEF Content
<1>11. DOMAIN Content = LiveKeys
  BY DEF Content
<1> QED  BY <1>4, <1>5, <1>6, <1>10, <1>11 DEF Store!Insert, Content

LEMMA EraseImplements ==
  ASSUME IInv, NEW k \in live \cup Retired, Erase(k)
  PROVE  k \in Key /\ Store!Erase(k)
<1> DEFINE i == k.idx
           d == At(m_slots, i).dense_idx
           last == Len(m_dense) - 1
           moved == At(m_dense_to_slot, last)
<1> USE Members
<1>1. /\ i \in InUse /\ d \in DenseIndex /\ At(m_dense_to_slot, d) = i
      /\ moved \in InUse /\ (moved = i <=> d = last)
      /\ k \in live /\ k \in Key /\ k.gen = At(m_slots, i).generation
      /\ Len(m_dense') = Len(m_dense) - 1
      /\ live' = live \ {k} /\ stale' = Remembered(k)
  BY EraseShape, Zenon
<1>2. \A e \in 0 .. Len(m_dense) - 2 :
         At(m_dense', e) = IF e = d THEN At(m_dense, last) ELSE At(m_dense, e)
  BY EraseShape, Zenon
<1>3. \A j \in SlotIndex \ {i} :
         At(m_slots', j) = IF j = moved
                           THEN [generation |-> At(m_slots, j).generation, dense_idx |-> d]
                           ELSE At(m_slots, j)
  BY EraseShape, Zenon
<1>4. IInv'
  BY EraseKeeps
<1>5. live = LiveKeys /\ LiveKeys' = LiveKeys \ {k} /\ k \in LiveKeys
  BY <1>1, <1>4 DEF IInv, KeyInv
<1> HIDE DEF i, d, moved
<1>6. ASSUME NEW q \in LiveKeys \ {k} PROVE ValueOf(q)' = ValueOf(q)
  <2> DEFINE e == At(m_slots, q.idx).dense_idx
  <2>1. /\ q.idx \in InUse /\ q = [idx |-> q.idx, gen |-> At(m_slots, q.idx).generation]
        /\ e \in DenseIndex /\ ValueOf(q) = At(m_dense, e)
        /\ At(m_dense_to_slot, e) = q.idx
    BY LiveValue, InUseSlot
  <2>2. q.idx # i
    <3>1. k = [idx |-> i, gen |-> At(m_slots, i).generation]
      BY <1>1 DEF Key, i
    <3> QED  BY <2>1, <3>1
  <2>3. e # d
    BY <1>1, <2>1, <2>2
  <2>4. d \in 0 .. last /\ e \in 0 .. last /\ last \in Nat /\ last = Len(m_dense) - 1
    BY <1>1, <2>1 DEF DenseIndex
  <2>5. CASE q.idx = moved
    <3>1. d # last
      BY <1>1, <2>2, <2>5
    <3>2. d \in 0 .. Len(m_dense) - 2 /\ d \in 0 .. Len(m_dense') - 1
      BY <1>1, <2>4, <3>1
    <3>3. At(m_slots', q.idx).dense_idx = d
      BY <1>3, <2>1, <2>2, <2>5
    <3>4. ValueOf(q)' = At(m_dense, last)
      BY <1>2, <3>2, <3>3 DEF ValueOf
    <3>5. e = last
      <4>1. last \in DenseIndex
        BY <2>4 DEF DenseIndex
      <4> QED  BY <4>1, <2>5 DEF IInv, DenseAndSlotsAgree, moved
    <3> QED  BY <2>1, <3>4, <3>5
  <2>6. CASE q.idx # moved
    <3>1. e # last
      BY <2>1, <2>6 DEF moved
    <3>2. e \in 0 .. Len(m_dense) - 2 /\ e \in 0 .. Len(m_dense') - 1
      BY <1>1, <2>4, <3>1
    <3>3. At(m_slots', q.idx) = At(m_slots, q.idx)
      BY <1>3, <2>1, <2>2, <2>6
    <3>4. ValueOf(q)' = At(m_dense, e)
      BY <1>2, <2>3, <3>2, <3>3 DEF ValueOf
    <3> QED  BY <2>1, <3>4
  <2> QED  BY <2>5, <2>6
<1>7. Content' = [j \in LiveKeys \ {k} |-> Content[j]]
  <2>1. \A j \in LiveKeys \ {k} : ValueOf(j)' = Content[j]
    BY <1>6 DEF Content
  <2> QED  BY <1>5, <2>1 DEF Content
<1>8. DOMAIN Content = LiveKeys
  BY DEF Content
<1>9. k \in Retired' /\ Retired' \subseteq Retired \cup {k}
  <2>1. k \in DOMAIN stale' /\ stale'[k] = 1
    BY <1>1, RememberedKeys
  <2>2. ASSUME NEW q \in Retired', q # k PROVE q \in Retired
    <3>1. q \in DOMAIN stale' /\ stale'[q] < GenModulus
      BY <2>2 DEF Retired
    <3>2. /\ q \in DOMAIN stale /\ stale[q] \in 1 .. GenModulus
          /\ q.idx = k.idx => stale[q] < GenModulus
          /\ q.idx # k.idx => stale'[q] = stale[q]
      BY <2>2, <3>1, <1>1, RememberedKeys
    <3> QED  BY <3>1, <3>2 DEF Retired
  <2> QED  BY <2>1, <2>2 DEF Retired
<1> QED  BY <1>1, <1>5, <1>7, <1>8, <1>9 DEF Store!Erase, Content

LEMMA StepImplements ==
  ASSUME ~KeysOutliveClear, IInv, [Next]_vars
  PROVE  [Store!Next]_(Store!vars)
<1>1. CASE UNCHANGED vars
  <2>1. LiveKeys' = LiveKeys
    BY <1>1 DEF vars, LiveKeys, InUse, DenseIndex
  <2>2. \A k \in LiveKeys : ValueOf(k)' = ValueOf(k)
    BY <1>1 DEF vars, ValueOf
  <2>3. Retired' = Retired
    BY <1>1 DEF vars, Retired
  <2> QED  BY <2>1, <2>2, <2>3 DEF Store!vars
<1>2. CASE \E v \in Values : Insert(v)
  BY <1>2, InsertImplements DEF Store!Next
<1>3. CASE \E k \in live \cup Retired : Erase(k)
  BY <1>3, EraseImplements DEF Store!Next
<1>4. CASE Clear
  <2>1. LiveKeys' = {} /\ Retired' = {}
    BY <1>4 DEF Clear, LiveKeys, InUse, DenseIndex, Retired
  <2> QED  BY <2>1 DEF Store!Next, Store!Clear
<1> QED  BY <1>1, <1>2, <1>3, <1>4 DEF Next

\* The slot map implements the keyed store: insert returns a key that is neither
\* live nor retired, a key leads to its own value through the swap-removes of other
\* keys, and an erased key leads nowhere until its generation has come round.
THEOREM StoreImplemented ==
  ASSUME ~KeysOutliveClear
  PROVE  Spec => ImplementsKeyedStore
<1>1. Init => Store!Init
  BY DEF Init, Store!Init, LiveKeys, InUse, DenseIndex, Retired
<1>2. IInv /\ [Next]_vars => [Store!Next]_(Store!vars)
  BY StepImplements
<1> QED  BY <1>1, <1>2, Inductive, PTL DEF Spec, ImplementsKeyedStore, Store!Spec
=============================================================================
