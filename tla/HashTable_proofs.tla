-------------------------- MODULE HashTable_proofs --------------------------
(***************************************************************************)
(* The swiss table is exact for any hash function, any group width and     *)
(* load, any keys and any size: its slots and entries correspond one to    *)
(* one, every probe ends, lookups see the keys of the entries, and every   *)
(* operation does to them what it promises.                                *)
(*                                                                         *)
(* A probe adds 1, 2, 3, ... to the number of its first group, and a table *)
(* has a power of two of groups: so a probe visits every group exactly     *)
(* once (ProbeCovers), and a free slot, which the load limit always        *)
(* leaves, is found.  The invariant is Sound: Indexed (slots and entries   *)
(* correspond), Probed (no empty slot on the way to an entry's slot), and  *)
(* the two bounds on m_tombstones.  Each operation on the table has a      *)
(* lemma that it keeps Sound.                                              *)
(***************************************************************************)
EXTENDS HashTable, TLAPS, FiniteSetTheorems

-----------------------------------------------------------------------------
(* Natural numbers: least elements, divisors, powers of two *)

\* Every nonempty set of naturals has a least element.
LEMMA LeastNatural ==
  ASSUME NEW S \in SUBSET Nat, S # {}
  PROVE  \E m \in S : \A n \in S : m =< n
<1> DEFINE R == OpToRel(<, Nat)
<1>1. IsWellFoundedOn(R, Nat)
  BY NatLessThanWellFounded, Zenon
<1> HIDE DEF R
<1>2. PICK m \in S : \A n \in S : <<n, m>> \notin R
  BY <1>1, WFMin
<1>3. \A n \in S : n < m => <<n, m>> \in R
  BY DEF R, OpToRel
<1>4. \A n \in S : ~(n < m)
  BY <1>2, <1>3
<1> QED  BY <1>4

LEMMA MinIsLeast ==
  ASSUME NEW S \in SUBSET Nat, S # {}
  PROVE  Min(S) \in S /\ \A n \in S : Min(S) =< n
  BY LeastNatural DEF Min

\* Induction on the naturals, with the set of numbers that have the property.
LEMMA NatSetInduction ==
  ASSUME NEW S, 0 \in S, \A n \in Nat : n \in S => n + 1 \in S
  PROVE  Nat \subseteq S
<1> DEFINE T == Nat \ S
<1> SUFFICES ASSUME T # {} PROVE FALSE
  OBVIOUS
<1>1. PICK m \in T : \A n \in T : m =< n
  BY LeastNatural
<1>2. m # 0 /\ m - 1 \in Nat /\ m - 1 \notin T
  BY <1>1
<1>3. m - 1 \in S
  BY <1>2
<1> QED  BY <1>2, <1>3

Power(n) == n \in Nat \ {0} /\ n \in PowersOfTwo(n)

LEMMA DivMod ==
  ASSUME NEW a \in Nat, NEW b \in Nat \ {0}
  PROVE  /\ a \div b \in Nat /\ a % b \in 0 .. b - 1
         /\ a = b * (a \div b) + (a % b)
  OBVIOUS

LEMMA Division ==
  ASSUME NEW a \in Nat, NEW b \in Nat \ {0}
  PROVE  \E q \in Nat : \E r \in 0 .. b - 1 : a = b * q + r /\ a \div b = q /\ a % b = r
  BY DivMod

LEMMA TimesMonotone ==
  ASSUME NEW a \in Nat, NEW b \in Nat, NEW c \in Nat, a =< b
  PROVE  c * a =< c * b
<1>1. b - a \in Nat /\ c * (b - a) \in Nat
  OBVIOUS
<1>2. c * b = c * a + c * (b - a)
  OBVIOUS
<1> QED  BY <1>1, <1>2

\* A quotient and a remainder are unique.
LEMMA QuotientUnique ==
  ASSUME NEW b \in Nat \ {0}, NEW q \in Nat, NEW r \in 0 .. b - 1
  PROVE  (b * q + r) \div b = q /\ (b * q + r) % b = r
<1> DEFINE a == b * q + r
           d == a \div b
           m == a % b
<1>0. a \in Nat
  OBVIOUS
<1>1. d \in Nat /\ m \in 0 .. b - 1 /\ a = b * d + m
  BY <1>0, DivMod
<1>2. CASE d > q
  <2>1. b * (q + 1) =< b * d
    BY <1>1, <1>2, TimesMonotone
  <2>2. b * (q + 1) = b * q + b
    OBVIOUS
  <2> QED  BY <1>1, <2>1, <2>2
<1>3. CASE d < q
  <2>1. b * (d + 1) =< b * q
    BY <1>1, <1>3, TimesMonotone
  <2>2. b * (d + 1) = b * d + b
    BY <1>1
  <2> QED  BY <1>1, <2>1, <2>2
<1>4. CASE d = q
  BY <1>1, <1>4
<1> QED  BY <1>1, <1>2, <1>3, <1>4

LEMMA Divides ==
  ASSUME NEW n \in Nat, NEW d \in Nat \ {0}
  PROVE  n % d = 0 <=> \E q \in Nat : n = d * q
<1>1. ASSUME n % d = 0 PROVE n = d * (n \div d) /\ n \div d \in Nat
  BY <1>1, DivMod
<1>2. ASSUME NEW q \in Nat, n = d * q PROVE n % d = 0
  <2>1. (d * q + 0) % d = 0
    BY QuotientUnique
  <2> QED  BY <2>1, <1>2
<1> QED  BY <1>1, <1>2

\* A power of two has no odd divisor but one.
LEMMA PowerDef ==
  ASSUME NEW n \in Nat \ {0}
  PROVE  Power(n) <=> \A d, q \in Nat : n = d * q => d = 1 \/ d % 2 = 0
<1>1. ASSUME NEW d \in Nat, NEW q \in Nat, n = d * q PROVE d \in 1 .. n /\ n % d = 0
  <2>1. d # 0 /\ q # 0
    BY <1>1
  <2>2. d * 1 =< d * q
    BY <2>1, TimesMonotone
  <2>3. n % d = 0
    BY <1>1, <2>1, Divides
  <2> QED  BY <1>1, <2>1, <2>2, <2>3
<1>2. ASSUME NEW d \in 1 .. n, n % d = 0 PROVE \E q \in Nat : n = d * q
  BY <1>2, Divides
<1>3. Power(n) <=> \A d \in 1 .. n : n % d = 0 => d = 1 \/ d % 2 = 0
  BY DEF Power, PowersOfTwo
<1>4. ASSUME Power(n), NEW d \in Nat, NEW q \in Nat, n = d * q PROVE d = 1 \/ d % 2 = 0
  BY <1>1, <1>3, <1>4
<1>5. ASSUME \A d, q \in Nat : n = d * q => d = 1 \/ d % 2 = 0,
             NEW d \in 1 .. n, n % d = 0
      PROVE  d = 1 \/ d % 2 = 0
  BY <1>2, <1>5
<1> QED  BY <1>3, <1>4, <1>5
\* Half of a power of two other than one is a power of two, and so is its double.
LEMMA PowerHalf ==
  ASSUME NEW n \in Nat, Power(n), n # 1
  PROVE  \E p \in Nat : n = 2 * p /\ Power(p)
<1>1. n \in Nat \ {0}
  BY DEF Power
<1>2. \A d, q \in Nat : n = d * q => d = 1 \/ d % 2 = 0
  BY <1>1, PowerDef
<1>3. n % 2 = 0
  BY <1>2, n = n * 1
<1>4. PICK p \in Nat : n = 2 * p
  BY <1>3
<1>5. ASSUME NEW d \in Nat, NEW q \in Nat, p = d * q PROVE d = 1 \/ d % 2 = 0
  <2>1. n = d * (2 * q) /\ 2 * q \in Nat
    BY <1>4, <1>5
  <2>2. \A e \in Nat : n = d * e => d = 1 \/ d % 2 = 0
    BY <1>2
  <2> QED  BY <2>1, <2>2
<1>6. Power(p)
  BY <1>1, <1>4, <1>5, PowerDef
<1> QED  BY <1>4, <1>6

LEMMA PowerDouble ==
  ASSUME NEW n \in Nat, Power(n)
  PROVE  Power(2 * n)
<1>1. n \in Nat \ {0}
  BY DEF Power
<1>2. \A d, q \in Nat : n = d * q => d = 1 \/ d % 2 = 0
  BY <1>1, PowerDef
<1>3. ASSUME NEW d \in Nat, NEW q \in Nat, 2 * n = d * q, d % 2 # 0 PROVE d = 1
  <2>1. PICK c \in Nat : d = 2 * c + 1
    BY <1>3
  <2>2. d * q = 2 * (c * q) + q
    BY <2>1
  <2>3. PICK r \in Nat : q = 2 * r
    <3>1. c * q \in Nat
      BY <2>1
    <3>2. q = 2 * (n - c * q)
      BY <2>2, <3>1, <1>3
    <3> QED  BY <3>1, <3>2
  <2>4. n = d * r
    BY <2>3, <1>3
  <2> QED  BY <2>4, <1>2, <1>3
<1>4. 2 * n \in Nat \ {0}
  BY <1>1
<1> QED  BY <1>3, <1>4, PowerDef

Odd(a) == a % 2 = 1
SameProduct(a, b, c, d) == a * b = c * d

\* An odd factor of a multiple of a power of two can be left out.
LEMMA OddFactor ==
  ASSUME NEW n \in Nat, Power(n),
         NEW a \in Nat, NEW b \in Nat, NEW q \in Nat, Odd(a), SameProduct(a, b, n, q)
  PROVE  \E r \in Nat : b = n * r
<1> USE DEF Odd, SameProduct
<1> DEFINE Bad == {m \in Nat : Power(m) /\ \E c, s \in Nat : a * c = m * s /\ ~\E r \in Nat : c = m * r}
<1> SUFFICES Bad = {}
  OBVIOUS
<1> SUFFICES ASSUME Bad # {} PROVE FALSE
  OBVIOUS
<1>1. PICK m \in Bad : \A l \in Bad : m =< l
  BY LeastNatural
<1>2. PICK c, s \in Nat : a * c = m * s /\ ~\E r \in Nat : c = m * r
  OBVIOUS
<1>3. m # 1 /\ m # 0
  <2>1. c = 1 * c
    OBVIOUS
  <2> QED  BY <1>2, <2>1 DEF Power
<1>4. PICK p \in Nat : m = 2 * p /\ Power(p)
  BY <1>3, PowerHalf
<1>5. PICK h \in Nat : a = 2 * h + 1
  OBVIOUS
<1>6. PICK d \in Nat : c = 2 * d
  <2>1. a * c = 2 * (h * c) + c /\ h * c \in Nat /\ p * s \in Nat
    BY <1>5
  <2> DEFINE d == p * s - h * c
  <2>2. c = 2 * d
    BY <2>1, <1>2, <1>4
  <2>3. d \in Int
    BY <2>1
  <2> HIDE DEF d
  <2>4. d \in Nat
    BY <2>2, <2>3
  <2> QED  BY <2>2, <2>4
<1>7. a * d = p * s
  BY <1>2, <1>4, <1>6
<1>8. \E r \in Nat : d = p * r
  <2>1. ~(m =< p)
    BY <1>3, <1>4
  <2>2. p \notin Bad
    BY <1>1, <2>1
  <2> QED  BY <2>2, <1>4, <1>7
<1>9. PICK r \in Nat : d = p * r
  BY <1>8
<1>10. c = m * r
  BY <1>4, <1>6, <1>9
<1> QED  BY <1>2, <1>10

\* The steps of a probe: 0, 1, 3, 6, ...
Triangle(i) == (i * (i + 1)) \div 2

LEMMA TriangleType ==
  ASSUME NEW i \in Nat
  PROVE  Triangle(i) \in Nat /\ 2 * Triangle(i) = i * (i + 1)
<1>1. PICK t \in Nat : i * (i + 1) = 2 * t
  <2>1. CASE i % 2 = 0
    <3>1. PICK h \in Nat : i = 2 * h
      BY <2>1
    <3>2. i * (i + 1) = 2 * (h * (i + 1)) /\ h * (i + 1) \in Nat
      BY <3>1
    <3> QED  BY <3>2
  <2>2. CASE i % 2 = 1
    <3>1. PICK h \in Nat : i = 2 * h + 1
      BY <2>2
    <3>2. i * (i + 1) = 2 * (i * (h + 1)) /\ i * (h + 1) \in Nat
      BY <3>1
    <3> QED  BY <3>2
  <2> QED  BY <2>1, <2>2
<1>2. Triangle(i) = t
  BY <1>1, QuotientUnique DEF Triangle
<1> QED  BY <1>1, <1>2

LEMMA SameRemainder ==
  ASSUME NEW x \in Nat, NEW y \in Nat, NEW n \in Nat \ {0}, x % n = y % n
  PROVE  \E q \in Int : y - x = n * q
<1>1. PICK u \in Nat, w \in 0 .. n - 1 : x = n * u + w /\ x % n = w
  BY Division
<1>2. PICK v \in Nat, z \in 0 .. n - 1 : y = n * v + z /\ y % n = z
  BY Division
<1>3. y - x = n * (v - u) /\ v - u \in Int
  BY <1>1, <1>2
<1> QED  BY <1>3

\* Two steps of a probe among as many as there are groups differ.
LEMMA StepsDiffer ==
  ASSUME NEW n \in Nat, Power(n), NEW h \in Nat,
         NEW i \in 0 .. n - 1, NEW j \in 0 .. n - 1, i < j
  PROVE  (h + Triangle(i)) % n # (h + Triangle(j)) % n
<1> SUFFICES ASSUME (h + Triangle(i)) % n = (h + Triangle(j)) % n PROVE FALSE
  OBVIOUS
<1>0. PICK m \in Nat \ {0} : m = 2 * n /\ Power(m) /\ n \in Nat \ {0}
  BY PowerDouble DEF Power
<1>1. PICK x, y \in Nat : /\ x = h + Triangle(i) /\ y = h + Triangle(j)
                          /\ 2 * (x - h) = i * (i + 1) /\ 2 * (y - h) = j * (j + 1)
  <2>1. Triangle(i) \in Nat /\ 2 * Triangle(i) = i * (i + 1)
    BY TriangleType
  <2>2. Triangle(j) \in Nat /\ 2 * Triangle(j) = j * (j + 1)
    BY TriangleType
  <2> QED  BY <2>1, <2>2
<1>2. PICK a, b \in Nat : a = j - i /\ b = j + i + 1
  OBVIOUS
<1>3. 0 < a /\ a < m /\ 0 < b /\ b < m /\ (a % 2) + (b % 2) = 1
  BY <1>0, <1>2
<1>4. a * b = 2 * (y - x)
  <2>1. a * b = j * (j + 1) - i * (i + 1)
    BY <1>2
  <2> QED  BY <2>1, <1>1
<1>5. PICK q \in Int : y - x = n * q
  BY <1>0, <1>1, SameRemainder
<1>6. a * b = m * q
  BY <1>0, <1>4, <1>5
<1>7. q \in Nat
  <2> SUFFICES ASSUME q < 0 PROVE FALSE
    OBVIOUS
  <2>1. PICK p \in Nat : q = -p
    OBVIOUS
  <2>2. m * q = -(m * p) /\ m * p \in Nat /\ a * b \in Nat /\ a * b # 0
    BY <2>1, <1>3
  <2> QED  BY <2>2, <1>6
\* A multiple of m below m is zero.
<1>8. ASSUME NEW c \in Nat, NEW r \in Nat, c = m * r, 0 < c, c < m PROVE FALSE
  <2>1. r # 0
    BY <1>8
  <2>2. m * 1 =< m * r
    BY <2>1, TimesMonotone
  <2> QED  BY <2>2, <1>8
<1>9. ASSUME NEW c \in Nat, NEW d \in Nat, Odd(c), SameProduct(c, d, m, q), 0 < d, d < m
      PROVE  FALSE
  <2>1. PICK r \in Nat : d = m * r
    BY <1>9, <1>0, <1>7, OddFactor
  <2> QED  BY <2>1, <1>8, <1>9
<1>10. SameProduct(a, b, m, q) /\ SameProduct(b, a, m, q) /\ (Odd(a) \/ Odd(b))
  BY <1>6, <1>3 DEF SameProduct, Odd
<1> QED  BY <1>3, <1>9, <1>10

\* The probe (ProbeSeq::next) visits every group within as many steps as there are
\* groups, from wherever it starts.
THEOREM ProbeCovers ==
  ASSUME NEW n \in Nat, Power(n), NEW h \in Nat, NEW g \in 0 .. n - 1
  PROVE  \E i \in 0 .. n - 1 : (h + Triangle(i)) % n = g
<1> DEFINE S == 0 .. n - 1
           f == [i \in S |-> (h + Triangle(i)) % n]
<1>0. n \in Nat \ {0}
  BY DEF Power
<1>1. f \in [S -> S]
  <2>1. ASSUME NEW i \in S PROVE (h + Triangle(i)) % n \in S
    <3>1. PICK x \in Nat : x = h + Triangle(i)
      BY TriangleType
    <3> QED  BY <3>1, <1>0, DivMod
  <2> QED  BY <2>1
<1>2. \A i, j \in S : f[i] = f[j] => i = j
  <2> SUFFICES ASSUME NEW i \in S, NEW j \in S, f[i] = f[j], i # j PROVE FALSE
    OBVIOUS
  <2>1. CASE i < j
    BY <2>1, StepsDiffer
  <2>2. CASE j < i
    BY <2>2, StepsDiffer
  <2> QED  BY <2>1, <2>2
<1>3. f \in Injection(S, S)
  BY <1>1, <1>2 DEF Injection, IsInjective
<1>4. IsFiniteSet(S)
  BY FS_Interval
<1> HIDE DEF S, f
<1>5. f \in Surjection(S, S)
  BY <1>3, <1>4, FS_Injection
<1>6. \E i \in S : f[i] = g
  BY <1>5 DEF Surjection, S
<1> QED  BY <1>6 DEF S, f

-----------------------------------------------------------------------------
(* Groups and probes *)

\* A table with slots has a power of two of groups.
Sized(c) == \E g \in Nat : Power(g) /\ c = GroupWidth * g

LEMMA GroupWidthType == GroupWidth \in Nat \ {0} /\ GroupWidth >= 3
  BY HashTableAssumption

LEMMA GroupCountIs ==
  ASSUME NEW t, NEW g \in Nat, t.capacity = GroupWidth * g
  PROVE  GroupCount(t) = g
<1>1. (GroupWidth * g + 0) \div GroupWidth = g
  BY GroupWidthType, QuotientUnique
<1>2. GroupWidth * g + 0 = GroupWidth * g
  BY GroupWidthType
<1> QED  BY <1>1, <1>2 DEF GroupCount

\* The slots of a group are those whose number divides to the group's.
LEMMA SlotsOfGroup ==
  ASSUME NEW g \in Nat, NEW n \in 0 .. g - 1
  PROVE  {n * GroupWidth + b : b \in 0 .. GroupWidth - 1} =
             {s \in Slots(GroupWidth * g) : s \div GroupWidth = n}
<1> DEFINE W == GroupWidth
<1>0. W \in Nat \ {0}
  BY GroupWidthType
<1> HIDE DEF W
<1>1. ASSUME NEW b \in 0 .. W - 1
      PROVE  n * W + b \in Slots(W * g) /\ (n * W + b) \div W = n
  <2>1. (W * n + b) \div W = n
    BY <1>0, QuotientUnique
  <2>2. W * (n + 1) =< W * g
    BY <1>0, TimesMonotone
  <2>3. W * n + b < W * g /\ W * n + b \in Nat /\ W * g \in Nat
    BY <1>0, <2>2
  <2>4. n * W + b = W * n + b
    BY <1>0
  <2> QED  BY <2>1, <2>3, <2>4 DEF Slots
<1>2. ASSUME NEW s \in Slots(W * g), s \div W = n
      PROVE  \E b \in 0 .. W - 1 : s = n * W + b
  <2>1. s \in Nat
    BY <1>0 DEF Slots
  <2>2. PICK q \in Nat, b \in 0 .. W - 1 : s = W * q + b /\ s \div W = q
    BY <1>0, <2>1, Division
  <2> QED  BY <1>0, <1>2, <2>2
<1> QED  BY <1>1, <1>2 DEF W

LEMMA SlotHasGroup ==
  ASSUME NEW g \in Nat, NEW s \in Slots(GroupWidth * g)
  PROVE  s \div GroupWidth \in 0 .. g - 1
<1> DEFINE W == GroupWidth
<1>0. W \in Nat \ {0}
  BY GroupWidthType
<1> HIDE DEF W
<1>1. s \in Nat /\ s < W * g
  BY <1>0 DEF Slots, W
<1>2. PICK q \in Nat, b \in 0 .. W - 1 : s = W * q + b /\ s \div W = q
  BY <1>0, <1>1, Division
<1>3. q < g
  <2> SUFFICES ASSUME g =< q PROVE FALSE
    OBVIOUS
  <2>1. W * g =< W * q
    BY <1>0, TimesMonotone
  <2> QED  BY <1>0, <1>1, <1>2, <2>1
<1> QED  BY <1>2, <1>3 DEF W

LEMMA HashType ==
  ASSUME hash \in HashFunctions, NEW k \in Keys
  PROVE  hash[k].h1 \in Nat /\ hash[k].h2 \in Fingerprints
  BY HashTableAssumption

\* What is known of the probe of k; nothing else below looks at its arithmetic.
ProbeOf(t, k) ==
    /\ GroupCount(t) \in Nat /\ Steps(t) = 0 .. GroupCount(t) - 1
    /\ \A i \in Steps(t) : GroupSlots(t, k, i) =
           {s \in Slots(t.capacity) : s \div GroupWidth = Group(t, k, i)}
    /\ \A s \in Slots(t.capacity) : \E i \in Steps(t) : s \in GroupSlots(t, k, i)

LEMMA ProbeVisits ==
  ASSUME hash \in HashFunctions, NEW k \in Keys, NEW t, Sized(t.capacity)
  PROVE  ProbeOf(t, k)
<1>1. PICK g \in Nat : Power(g) /\ t.capacity = GroupWidth * g
  BY DEF Sized
<1>2. GroupCount(t) = g /\ g \in Nat \ {0} /\ Steps(t) = 0 .. g - 1
  BY <1>1, GroupCountIs DEF Steps, Power
<1>3. PICK h \in Nat : hash[k].h1 = h
  BY HashType
<1>4. \A i : Group(t, k, i) = (h + Triangle(i)) % g
  BY <1>2, <1>3 DEF Group, Triangle
<1>5. ASSUME NEW i \in Steps(t) PROVE Group(t, k, i) \in 0 .. g - 1
  <2>1. i \in Nat
    BY <1>2
  <2>2. Triangle(i) \in Nat
    BY <2>1, TriangleType
  <2>3. PICK x \in Nat : x = h + Triangle(i)
    BY <2>2
  <2> QED  BY <2>3, <1>2, <1>4, DivMod
<1>6. ASSUME NEW i \in Steps(t)
      PROVE  GroupSlots(t, k, i) = {s \in Slots(t.capacity) : s \div GroupWidth = Group(t, k, i)}
  BY <1>1, <1>5, <1>6, SlotsOfGroup DEF GroupSlots
<1>7. ASSUME NEW s \in Slots(t.capacity) PROVE \E i \in Steps(t) : s \in GroupSlots(t, k, i)
  <2>1. s \div GroupWidth \in 0 .. g - 1
    BY <1>1, SlotHasGroup
  <2>2. PICK i \in 0 .. g - 1 : (h + Triangle(i)) % g = s \div GroupWidth
    BY <2>1, <1>1, ProbeCovers
  <2> QED  BY <2>2, <1>2, <1>4, <1>6
<1> QED  BY <1>2, <1>6, <1>7 DEF ProbeOf

\* A probe depends on the number of slots alone.
LEMMA SameProbe ==
  ASSUME NEW t, NEW u, t.capacity = u.capacity
  PROVE  /\ Steps(t) = Steps(u) /\ GroupCount(t) = GroupCount(u)
         /\ \A k, i : Group(t, k, i) = Group(u, k, i)
         /\ \A k, i : GroupSlots(t, k, i) = GroupSlots(u, k, i)
  BY DEF Steps, GroupCount, Group, GroupSlots

-----------------------------------------------------------------------------
(* Tables *)

Marks == Fingerprints \cup Free
DeletedSlots(t) == {s \in DOMAIN t.ctrl : t.ctrl[s] = Deleted}

Fields == {"entries", "capacity", "ctrl", "index", "tombstones"}
IsTable(t) == t = [f \in Fields |-> t[f]]

\* Its arrays have the length of its capacity, and no key is in it twice.
WellFormed(t) ==
    /\ IsTable(t)
    /\ t.entries \in Seq(Keys)
    /\ t.capacity \in Nat /\ (t.capacity # 0 => Sized(t.capacity))
    /\ t.ctrl \in [Slots(t.capacity) -> Marks]
    /\ t.index \in [Slots(t.capacity) -> Nat \cup {NoEntry}]
    /\ t.tombstones \in Nat
    /\ \A i, j \in Slots(Size(t)) : EntryAt(t, i) = EntryAt(t, j) => i = j

\* The full slots and the first n entries correspond one to one.
Indexed(t, n) ==
    /\ \A s \in Full(t) : t.index[s] \in Slots(n) /\ t.ctrl[s] = hash[EntryAt(t, t.index[s])].h2
    /\ \A i \in Slots(n) : \E s \in Full(t) : t.index[s] = i
    /\ \A r, s \in Full(t) : t.index[r] = t.index[s] => r = s

\* The probe of k gets to slot s.
Reaches(t, k, s) ==
    \E i \in Steps(t) : s \in GroupSlots(t, k, i) /\ \A j \in 0 .. i - 1 : ~HasEmpty(t, k, j)

Probed(t) == \A s \in Full(t) : Reaches(t, EntryAt(t, t.index[s]), s)

\* A table whose first n entries are in their slots.
Good(t, n) == WellFormed(t) /\ n \in 0 .. Size(t) /\ Indexed(t, n) /\ Probed(t)

LEMMA EntryType ==
  ASSUME NEW t, WellFormed(t)
  PROVE  /\ Size(t) \in Nat
         /\ \A i \in Slots(Size(t)) : EntryAt(t, i) \in Keys
  BY DEF WellFormed, Size, EntryAt, Slots

\* No more slots are full than entries are indexed.
LEMMA FullCount ==
  ASSUME NEW t, NEW n \in Nat, WellFormed(t), Indexed(t, n)
  PROVE  IsFiniteSet(Full(t)) /\ Cardinality(Full(t)) =< n
<1> DEFINE S == Full(t)
           T == Slots(n)
           f == [s \in S |-> t.index[s]]
<1>1. f \in [S -> T] /\ \A r, s \in S : f[r] = f[s] => r = s
  BY DEF Indexed
<1>2. f \in Injection(S, T)
  BY <1>1 DEF Injection, IsInjective
<1>3. IsFiniteSet(T) /\ Cardinality(T) = n
  <2>1. IsFiniteSet(0 .. n - 1) /\ Cardinality(0 .. n - 1) = IF 0 > n - 1 THEN 0 ELSE n - 1 - 0 + 1
    BY FS_Interval
  <2> QED  BY <2>1 DEF Slots
<1> HIDE DEF S, T, f
<1>4. IsFiniteSet(S) /\ Cardinality(S) =< Cardinality(T)
  BY <1>2, <1>3, FS_Injection
<1> QED  BY <1>3, <1>4 DEF S

\* A table that is not loaded to the last slot has an empty slot ...
LEMMA EmptySlotLeft ==
  ASSUME NEW t, NEW n \in Nat, WellFormed(t), Indexed(t, n),
         Cardinality(DeletedSlots(t)) + n < t.capacity
  PROVE  \E s \in Slots(t.capacity) : t.ctrl[s] = Empty
<1> SUFFICES ASSUME \A s \in Slots(t.capacity) : t.ctrl[s] # Empty PROVE FALSE
  OBVIOUS
<1>1. IsFiniteSet(Slots(t.capacity)) /\ Cardinality(Slots(t.capacity)) = t.capacity
  <2>1. t.capacity \in Nat
    BY DEF WellFormed
  <2>2. PICK c \in Nat : c = t.capacity
    BY <2>1
  <2>3. IsFiniteSet(0 .. c - 1) /\ Cardinality(0 .. c - 1) = IF 0 > c - 1 THEN 0 ELSE c - 1 - 0 + 1
    BY FS_Interval
  <2> QED  BY <2>2, <2>3 DEF Slots
<1>2. Slots(t.capacity) = Full(t) \cup DeletedSlots(t) /\ DeletedSlots(t) \subseteq Slots(t.capacity)
  BY DEF Full, DeletedSlots, WellFormed, Free
<1>3. IsFiniteSet(Full(t)) /\ Cardinality(Full(t)) =< n
  BY FullCount
<1>4. IsFiniteSet(DeletedSlots(t))
  BY <1>1, <1>2, FS_Subset
<1>5. Cardinality(Full(t) \cup DeletedSlots(t)) =
        Cardinality(Full(t)) + Cardinality(DeletedSlots(t)) - Cardinality(Full(t) \cap DeletedSlots(t))
  BY <1>3, <1>4, FS_Union
<1>6. /\ Cardinality(Full(t) \cap DeletedSlots(t)) \in Nat
      /\ Cardinality(Full(t)) \in Nat /\ Cardinality(DeletedSlots(t)) \in Nat
  BY <1>3, <1>4, FS_Intersection, FS_CardinalityType
<1> QED  BY <1>1, <1>2, <1>3, <1>5, <1>6 DEF WellFormed

\* ... and every probe of it ends.
LEMMA ProbeMeetsEmpty ==
  ASSUME hash \in HashFunctions, NEW t, NEW n \in Nat, WellFormed(t), Indexed(t, n),
         Cardinality(DeletedSlots(t)) + n < t.capacity, t.capacity # 0, NEW k \in Keys
  PROVE  \E i \in Steps(t) : HasEmpty(t, k, i)
<1>1. PICK s \in Slots(t.capacity) : t.ctrl[s] = Empty
  BY EmptySlotLeft
<1>2. ProbeOf(t, k)
  BY ProbeVisits DEF WellFormed
<1> QED  BY <1>1, <1>2 DEF ProbeOf, HasEmpty

\* FirstSlot finds what the probe meets first.
LEMMA FirstSlotFound ==
  ASSUME hash \in HashFunctions, NEW t, WellFormed(t), t.capacity # 0, NEW k \in Keys,
         NEW wanted, NEW l \in Steps(t), NEW r \in GroupSlots(t, k, l), t.ctrl[r] \in wanted
  PROVE  \E i \in Steps(t) :
            /\ FirstSlot(t, k, wanted) \in GroupSlots(t, k, i)
            /\ t.ctrl[FirstSlot(t, k, wanted)] \in wanted
            /\ \A s \in GroupSlots(t, k, i) : t.ctrl[s] \in wanted => FirstSlot(t, k, wanted) =< s
            /\ \A j \in 0 .. i - 1 : \A s \in GroupSlots(t, k, j) : t.ctrl[s] \notin wanted
<1> DEFINE offers(i) == {s \in GroupSlots(t, k, i) : t.ctrl[s] \in wanted}
           J == {j \in Steps(t) : offers(j) # {}}
           i == Min(J)
<1>1. ProbeOf(t, k)
  BY ProbeVisits DEF WellFormed
<1>2. J \in SUBSET Nat /\ J # {}
  BY <1>1 DEF ProbeOf
<1>3. i \in J /\ \A j \in J : i =< j
  BY <1>2, MinIsLeast
<1>4. offers(i) \in SUBSET Nat /\ offers(i) # {}
  <2>1. Slots(t.capacity) \subseteq Nat
    BY DEF Slots, WellFormed
  <2>2. GroupSlots(t, k, i) \subseteq Slots(t.capacity)
    BY <1>1, <1>3 DEF ProbeOf
  <2> QED  BY <1>3, <2>1, <2>2
<1>5. FirstSlot(t, k, wanted) = Min(offers(i))
  BY DEF FirstSlot
<1>6. Min(offers(i)) \in offers(i) /\ \A s \in offers(i) : Min(offers(i)) =< s
  BY <1>4, MinIsLeast
<1>7. \A j \in 0 .. i - 1 : j \in Steps(t) /\ j \notin J
  <2>1. PICK g \in Nat : Steps(t) = 0 .. g - 1
    BY <1>1 DEF ProbeOf
  <2>2. i \in 0 .. g - 1
    BY <1>3, <2>1
  <2> HIDE DEF J, i
  <2>3. \A j \in 0 .. i - 1 : j \in 0 .. g - 1 /\ ~(i =< j)
    BY <2>2
  <2> QED  BY <1>3, <2>1, <2>3
<1>8. \A j \in 0 .. i - 1 : \A s \in GroupSlots(t, k, j) : t.ctrl[s] \notin wanted
  BY <1>7
<1> QED  BY <1>3, <1>5, <1>6, <1>8

-----------------------------------------------------------------------------
(* Placing one entry *)

\* u is t with index i and k's fingerprint in slot s.
Placed(u, t, s, k, i) ==
    /\ IsTable(u)
    /\ u.entries = t.entries /\ u.capacity = t.capacity /\ u.tombstones = t.tombstones
    /\ u.ctrl \in [Slots(t.capacity) -> Marks] /\ u.ctrl[s] = hash[k].h2
    /\ u.index \in [Slots(t.capacity) -> Nat \cup {NoEntry}] /\ u.index[s] = i
    /\ \A r \in Slots(t.capacity) \ {s} : u.ctrl[r] = t.ctrl[r] /\ u.index[r] = t.index[r]

LEMMA OccupiedPlaced ==
  ASSUME NEW t, WellFormed(t), NEW s \in Slots(t.capacity), NEW k, hash[k].h2 \in Marks, NEW i \in Nat
  PROVE  Placed(Occupied(t, s, k, i), t, s, k, i)
<1> DEFINE u == Occupied(t, s, k, i)
<1>1. /\ t.ctrl \in [Slots(t.capacity) -> Marks]
      /\ t.index \in [Slots(t.capacity) -> Nat \cup {NoEntry}]
  BY DEF WellFormed
<1>2. /\ IsTable(u)
      /\ u.entries = t.entries /\ u.capacity = t.capacity /\ u.tombstones = t.tombstones
      /\ u.ctrl = [t.ctrl EXCEPT ![s] = hash[k].h2]
      /\ u.index = [t.index EXCEPT ![s] = i]
  BY DEF Occupied, WellFormed, IsTable, Fields
<1> HIDE DEF u
<1>3. /\ u.ctrl \in [Slots(t.capacity) -> Marks] /\ u.ctrl[s] = hash[k].h2
      /\ u.index \in [Slots(t.capacity) -> Nat \cup {NoEntry}] /\ u.index[s] = i
      /\ \A r \in Slots(t.capacity) \ {s} : u.ctrl[r] = t.ctrl[r] /\ u.index[r] = t.index[r]
  BY <1>1, <1>2
<1>4. Placed(u, t, s, k, i)
  BY <1>2, <1>3 DEF Placed
<1> QED  BY <1>4 DEF u

\* The next entry goes to a free slot its probe gets to.
LEMMA OccupiedGood ==
  ASSUME hash \in HashFunctions, NEW t, NEW n \in Nat, Good(t, n), n < Size(t),
         NEW k, k = EntryAt(t, n),
         NEW s \in Slots(t.capacity), t.ctrl[s] \in Free, Reaches(t, k, s),
         NEW u, Placed(u, t, s, k, n)
  PROVE  /\ Good(u, n + 1)
         /\ u.entries = t.entries /\ u.capacity = t.capacity
         /\ u.tombstones = t.tombstones
         /\ DeletedSlots(u) = DeletedSlots(t) \ {s}
<1>1. /\ u.entries = t.entries /\ u.capacity = t.capacity /\ u.tombstones = t.tombstones
      /\ IsTable(u)
  BY DEF Placed
<1>2. k \in Keys /\ hash[k].h2 \in Fingerprints /\ hash[k].h2 \notin Free
  <2>1. Size(t) \in Nat /\ n \in Slots(Size(t))
    BY EntryType DEF Good, Slots
  <2>2. k \in Keys
    BY <2>1, EntryType DEF Good
  <2> QED  BY <2>2, HashType, HashTableAssumption DEF Free
<1>3. /\ t.ctrl \in [Slots(t.capacity) -> Marks]
      /\ t.index \in [Slots(t.capacity) -> Nat \cup {NoEntry}]
  BY DEF Good, WellFormed
<1>4. /\ u.ctrl \in [Slots(t.capacity) -> Marks] /\ u.ctrl[s] = hash[k].h2
      /\ u.index \in [Slots(t.capacity) -> Nat \cup {NoEntry}] /\ u.index[s] = n
      /\ \A r \in Slots(t.capacity) \ {s} : u.ctrl[r] = t.ctrl[r] /\ u.index[r] = t.index[r]
  BY DEF Placed
<1>5. Size(u) = Size(t) /\ \A i : EntryAt(u, i) = EntryAt(t, i)
  BY <1>1 DEF Size, EntryAt
<1>6. Full(u) = Full(t) \cup {s} /\ s \notin Full(t) /\ Full(t) \subseteq Slots(t.capacity)
  BY <1>2, <1>3, <1>4 DEF Full
<1>7. DeletedSlots(u) = DeletedSlots(t) \ {s}
  BY <1>2, <1>3, <1>4 DEF DeletedSlots, Free
<1>8. WellFormed(u)
  BY <1>1, <1>4, <1>5 DEF Good, WellFormed
<1>9. Indexed(u, n + 1)
  <2>1. \A r \in Full(t) : t.index[r] \in Slots(n) /\ u.index[r] = t.index[r] /\ u.ctrl[r] = t.ctrl[r]
    BY <1>4, <1>6 DEF Good, Indexed
  <2>2. Slots(n + 1) = Slots(n) \cup {n} /\ n \notin Slots(n)
    BY DEF Slots
  <2>3. \A r \in Full(u) : u.index[r] \in Slots(n + 1)
                           /\ u.ctrl[r] = hash[EntryAt(u, u.index[r])].h2
    BY <1>4, <1>5, <1>6, <2>1, <2>2 DEF Good, Indexed
  <2>4. \A i \in Slots(n + 1) : \E r \in Full(u) : u.index[r] = i
    BY <1>4, <1>6, <2>1, <2>2 DEF Good, Indexed
  <2>5. \A q, r \in Full(u) : u.index[q] = u.index[r] => q = r
    BY <1>4, <1>6, <2>1, <2>2 DEF Good, Indexed
  <2> QED  BY <2>3, <2>4, <2>5 DEF Indexed
<1>10. Probed(u)
  <2>1. /\ Steps(u) = Steps(t)
        /\ \A j, i : GroupSlots(u, j, i) = GroupSlots(t, j, i)
    BY <1>1, SameProbe
  <2>2. ProbeOf(t, k)
    BY <1>2, ProbeVisits DEF Good, WellFormed, Slots
  <2>3. ASSUME NEW j \in Keys, NEW i \in Nat, i \in Steps(t), HasEmpty(u, j, i)
        PROVE  HasEmpty(t, j, i)
    <3>1. ProbeOf(t, j)
      BY ProbeVisits DEF Good, WellFormed, Slots
    <3>2. GroupSlots(t, j, i) \subseteq Slots(t.capacity)
      BY <3>1, <2>3 DEF ProbeOf
    <3>3. PICK r \in GroupSlots(t, j, i) : u.ctrl[r] = Empty
      BY <2>1, <2>3 DEF HasEmpty
    <3>4. r # s
      BY <3>3, <1>2, <1>4 DEF Free
    <3> QED  BY <3>2, <3>3, <3>4, <1>4 DEF HasEmpty
  <2>4. ASSUME NEW j \in Keys, NEW r, Reaches(t, j, r) PROVE Reaches(u, j, r)
    <3>1. PICK i \in Steps(t) : r \in GroupSlots(t, j, i) /\ \A l \in 0 .. i - 1 : ~HasEmpty(t, j, l)
      BY <2>4 DEF Reaches
    <3>2. \A l \in 0 .. i - 1 : l \in Nat /\ l \in Steps(t)
      <4>1. PICK g \in Nat : Steps(t) = 0 .. g - 1
        BY <2>2 DEF ProbeOf
      <4> QED  BY <4>1
    <3> QED  BY <3>1, <3>2, <2>1, <2>3 DEF Reaches
  <2>5. Reaches(u, EntryAt(u, u.index[s]), s)
    BY <2>4, <1>2, <1>4, <1>5
  <2>6. ASSUME NEW r \in Full(t) PROVE Reaches(u, EntryAt(u, u.index[r]), r)
    <3>1. u.index[r] = t.index[r] /\ t.index[r] \in Slots(Size(t))
      BY <1>4, <1>6, EntryType DEF Good, Indexed, Slots
    <3>2. EntryAt(t, t.index[r]) \in Keys
      BY <3>1, EntryType DEF Good
    <3> QED  BY <3>1, <3>2, <1>5, <2>4 DEF Good, Probed
  <2> QED  BY <2>5, <2>6, <1>6 DEF Probed
<1>11. n + 1 \in 0 .. Size(u)
  BY <1>5, EntryType DEF Good
<1> QED  BY <1>1, <1>7, <1>8, <1>9, <1>10, <1>11 DEF Good

\* place_unique puts the next entry of a table with room where a lookup finds it.
LEMMA PlaceUniqueGood ==
  ASSUME hash \in HashFunctions, NEW t, NEW n \in Nat, Good(t, n), n < Size(t),
         Cardinality(DeletedSlots(t)) + n < t.capacity, t.capacity # 0,
         NEW u, u = PlaceUnique(t, n)
  PROVE  /\ Good(u, n + 1)
         /\ u.entries = t.entries /\ u.capacity = t.capacity
         /\ u.tombstones = t.tombstones
         /\ DeletedSlots(u) \subseteq DeletedSlots(t)
<1> DEFINE k == EntryAt(t, n)
           s == FirstSlot(t, k, Free)
<1>1. WellFormed(t) /\ Indexed(t, n)
  BY DEF Good
<1>2. k \in Keys
  BY <1>1, EntryType DEF Slots
<1>3. hash[k].h2 \in Marks
  BY <1>2, HashType DEF Marks
<1>4. u = Occupied(t, s, k, n)
  BY DEF PlaceUnique
<1> HIDE DEF k
<1>5. PICK l \in Steps(t) : HasEmpty(t, k, l)
  BY <1>1, <1>2, ProbeMeetsEmpty
<1>6. PICK r \in GroupSlots(t, k, l) : t.ctrl[r] \in Free
  BY <1>5 DEF HasEmpty, Free
<1> HIDE DEF s
<1>7. PICK i \in Steps(t) : /\ s \in GroupSlots(t, k, i) /\ t.ctrl[s] \in Free
                            /\ \A j \in 0 .. i - 1 : \A q \in GroupSlots(t, k, j) : t.ctrl[q] \notin Free
  BY <1>1, <1>2, <1>5, <1>6, FirstSlotFound DEF s
<1>8. s \in Slots(t.capacity)
  BY <1>1, <1>2, <1>7, ProbeVisits DEF WellFormed, ProbeOf
<1>9. Reaches(t, k, s)
  BY <1>7 DEF Reaches, HasEmpty, Free
<1>10. Placed(u, t, s, k, n)
  BY <1>1, <1>3, <1>4, <1>8, OccupiedPlaced
<1>11. /\ Good(u, n + 1)
       /\ u.entries = t.entries /\ u.capacity = t.capacity
       /\ u.tombstones = t.tombstones
       /\ DeletedSlots(u) = DeletedSlots(t) \ {s}
  BY <1>7, <1>8, <1>9, <1>10, OccupiedGood DEF k
<1> QED  BY <1>11

-----------------------------------------------------------------------------
(* Rehashing *)

\* u holds the entries of t in n slots, the first i of them in place, and no
\* erased slot.
Rehashed(u, t, n, i) ==
    /\ Good(u, i)
    /\ u.entries = t.entries /\ u.capacity = n
    /\ u.tombstones = 0 /\ DeletedSlots(u) = {}

\* The entries after the ones that are placed.
LEMMA AllocatedGood ==
  ASSUME NEW e \in Seq(Keys), \A i, j \in Slots(Len(e)) : e[i + 1] = e[j + 1] => i = j,
         NEW n \in Nat, n # 0 => Sized(n), NEW u, u = Allocated(e, n)
  PROVE  /\ Good(u, 0)
         /\ u.entries = e /\ u.capacity = n
         /\ u.tombstones = 0 /\ DeletedSlots(u) = {}
<1>1. /\ u.entries = e /\ u.capacity = n /\ u.tombstones = 0
      /\ u.ctrl = [s \in Slots(n) |-> Empty] /\ u.index = [s \in Slots(n) |-> NoEntry]
  BY DEF Allocated
<1>2. IsTable(u)
  BY DEF Allocated, IsTable, Fields
<1>3. WellFormed(u)
  BY <1>1, <1>2 DEF WellFormed, Marks, Free, Size, EntryAt
<1>4. Full(u) = {} /\ DeletedSlots(u) = {}
  BY <1>1, HashTableAssumption DEF Full, Free, DeletedSlots
<1>5. Slots(0) = {} /\ 0 \in 0 .. Size(u)
  BY <1>1 DEF Slots, Size
<1> QED  BY <1>1, <1>3, <1>4, <1>5 DEF Good, Indexed, Probed

\* The tables that a rehash goes through.
Placing(f, t, n, m) ==
    f = [i \in 0 .. m |-> IF i = 0 THEN Allocated(t.entries, n) ELSE PlaceUnique(f[i - 1], i - 1)]

LEMMA PlacingExists ==
  ASSUME NEW t, NEW n, NEW m \in Nat
  PROVE  \E f : Placing(f, t, n, m)
<1> DEFINE S == {l \in Nat : \E f : Placing(f, t, n, l)}
<1>1. 0 \in S
  <2>1. Placing([i \in 0 .. 0 |-> Allocated(t.entries, n)], t, n, 0)
    BY DEF Placing
  <2> QED  BY <2>1
<1>2. ASSUME NEW l \in Nat, l \in S PROVE l + 1 \in S
  <2>1. PICK f : Placing(f, t, n, l)
    BY <1>2
  <2> DEFINE g == [i \in 0 .. l + 1 |-> IF i = l + 1 THEN PlaceUnique(f[l], l) ELSE f[i]]
  <2>2. ASSUME NEW i \in 0 .. l + 1
        PROVE  g[i] = IF i = 0 THEN Allocated(t.entries, n) ELSE PlaceUnique(g[i - 1], i - 1)
    <3>1. CASE i = 0
      BY <2>1, <3>1 DEF Placing
    <3>2. CASE i \in 1 .. l
      <4>1. i - 1 \in 0 .. l /\ i \in 0 .. l /\ i # l + 1 /\ i # 0 /\ i - 1 # l + 1
        BY <3>2
      <4>2. g[i] = f[i] /\ g[i - 1] = f[i - 1]
        BY <4>1
      <4>3. f[i] = PlaceUnique(f[i - 1], i - 1)
        BY <4>1, <2>1 DEF Placing
      <4> QED  BY <4>1, <4>2, <4>3
    <3>3. CASE i = l + 1
      <4>1. i # 0 /\ i - 1 = l /\ g[l] = f[l] /\ g[i] = PlaceUnique(f[l], l)
        BY <3>3
      <4> QED  BY <4>1
    <3> QED  BY <3>1, <3>2, <3>3
  <2>3. g = [i \in 0 .. l + 1 |-> g[i]]
    OBVIOUS
  <2> HIDE DEF g
  <2>4. Placing(g, t, n, l + 1)
    BY <2>2, <2>3 DEF Placing
  <2> QED  BY <2>4
<1> HIDE DEF S
<1>3. Nat \subseteq S
  BY <1>1, <1>2, NatSetInduction
<1> QED  BY <1>3 DEF S

LEMMA RehashPlaces ==
  ASSUME NEW t, WellFormed(t), NEW n
  PROVE  \E f : Placing(f, t, n, Size(t)) /\ RehashTo(t, n) = f[Size(t)]
<1>1. \E f : f = [i \in 0 .. Size(t) |-> IF i = 0 THEN Allocated(t.entries, n)
                                         ELSE PlaceUnique(f[i - 1], i - 1)]
  <2>1. PICK m \in Nat : m = Size(t)
    BY EntryType
  <2>2. PICK f : Placing(f, t, n, m)
    BY PlacingExists
  <2> QED  BY <2>1, <2>2 DEF Placing
<1> QED  BY <1>1 DEF RehashTo, Placing

\* rehash_to of a table with fewer entries than slots: the same entries, all
\* in place.
LEMMA RehashGood ==
  ASSUME hash \in HashFunctions, NEW t, WellFormed(t), NEW n \in Nat, Sized(n), Size(t) < n,
         NEW u, u = RehashTo(t, n)
  PROVE  Rehashed(u, t, n, Size(t))
<1>1. PICK m \in Nat : m = Size(t)
  BY EntryType
<1>2. PICK f : Placing(f, t, n, m) /\ u = f[m]
  BY <1>1, RehashPlaces
<1>3. /\ 0 \in 0 .. m /\ f[0] = Allocated(t.entries, n)
      /\ \A i \in Nat : i < m => f[i + 1] = PlaceUnique(f[i], i)
  <2>1. ASSUME NEW i \in Nat, i < m PROVE f[i + 1] = PlaceUnique(f[i], i)
    <3>1. i + 1 \in 0 .. m /\ i + 1 # 0 /\ (i + 1) - 1 = i
      BY <2>1
    <3> QED  BY <3>1, <1>2 DEF Placing
  <2>2. 0 \in 0 .. m
    OBVIOUS
  <2> QED  BY <2>1, <2>2, <1>2 DEF Placing
<1> DEFINE S == {i \in Nat : i =< m => Rehashed(f[i], t, n, i)}
<1>4. 0 \in S
  <2>1. /\ t.entries \in Seq(Keys)
        /\ \A i, j \in Slots(Len(t.entries)) : t.entries[i + 1] = t.entries[j + 1] => i = j
    BY DEF WellFormed, Size, EntryAt
  <2>2. Rehashed(f[0], t, n, 0)
    BY <1>3, <2>1, AllocatedGood DEF Rehashed
  <2> QED  BY <2>2
<1>5. ASSUME NEW i \in Nat, i \in S PROVE i + 1 \in S
  <2> SUFFICES ASSUME i + 1 =< m PROVE Rehashed(f[i + 1], t, n, i + 1)
    OBVIOUS
  <2>1. i < m /\ Rehashed(f[i], t, n, i) /\ f[i + 1] = PlaceUnique(f[i], i)
    BY <1>3, <1>5
  <2> DEFINE a == f[i]
             b == f[i + 1]
  <2>2. Rehashed(a, t, n, i) /\ b = PlaceUnique(a, i)
    BY <2>1
  <2> HIDE DEF a, b
  <2>3. /\ Good(a, i) /\ a.entries = t.entries /\ a.capacity = n
        /\ a.tombstones = 0 /\ DeletedSlots(a) = {}
    BY <2>2 DEF Rehashed
  <2>4. Cardinality(DeletedSlots(a)) + i < a.capacity /\ a.capacity # 0 /\ i < Size(a)
    <3>1. Cardinality(DeletedSlots(a)) = 0
      BY <2>3, FS_EmptySet
    <3>2. Size(a) = Size(t)
      BY <2>3 DEF Size
    <3> QED  BY <1>1, <2>1, <2>3, <3>1, <3>2
  <2>5. /\ Good(b, i + 1) /\ b.entries = a.entries /\ b.capacity = a.capacity
        /\ b.tombstones = a.tombstones /\ DeletedSlots(b) \subseteq DeletedSlots(a)
    BY <2>2, <2>3, <2>4, PlaceUniqueGood
  <2>6. Rehashed(b, t, n, i + 1)
    BY <2>3, <2>5 DEF Rehashed
  <2> QED  BY <2>6 DEF b
<1> HIDE DEF S
<1>6. m \in S
  BY <1>4, <1>5, NatSetInduction
<1> QED  BY <1>1, <1>2, <1>6 DEF S

-----------------------------------------------------------------------------
(* Load and growth *)

LEMMA SizedType ==
  /\ Sized(GroupWidth)
  /\ \A c : Sized(c) => c \in Nat /\ c >= GroupWidth /\ Sized(c * 2)
<1>1. Sized(GroupWidth)
  <2>1. Power(1)
    BY DEF Power, PowersOfTwo
  <2>2. GroupWidth = GroupWidth * 1
    BY GroupWidthType
  <2> QED  BY <2>1, <2>2 DEF Sized
<1>2. ASSUME NEW c, Sized(c) PROVE c \in Nat /\ c >= GroupWidth /\ Sized(c * 2)
  <2>1. PICK g \in Nat : Power(g) /\ c = GroupWidth * g
    BY <1>2 DEF Sized
  <2>2. g # 0
    BY <2>1 DEF Power
  <2>3. GroupWidth * 1 =< GroupWidth * g
    BY <2>2, GroupWidthType, TimesMonotone
  <2>4. Power(2 * g) /\ 2 * g \in Nat
    BY <2>1, PowerDouble
  <2>5. c * 2 = GroupWidth * (2 * g)
    BY <2>1, GroupWidthType
  <2>6. Sized(c * 2)
    BY <2>4, <2>5 DEF Sized
  <2> QED  BY <2>1, <2>3, <2>6, GroupWidthType
<1> QED  BY <1>1, <1>2

LEMMA LoadMonotone ==
  ASSUME NEW b \in Nat, NEW c \in Nat, b =< c
  PROVE  MaxLoad(b) \in Nat /\ MaxLoad(b) =< MaxLoad(c)
<1>1. PICK m \in Nat : LoadDivisor = m + 1 /\ m >= 2
  <2>1. LoadDivisor - 1 \in Nat /\ LoadDivisor - 1 >= 2 /\ LoadDivisor = (LoadDivisor - 1) + 1
    BY HashTableAssumption
  <2> QED  BY <2>1
<1>2. PICK p \in Nat, r \in 0 .. m : b = (m + 1) * p + r /\ b \div LoadDivisor = p
  BY <1>1, Division
<1>3. PICK q \in Nat, s \in 0 .. m : c = (m + 1) * q + s /\ c \div LoadDivisor = q
  BY <1>1, Division
<1>4. MaxLoad(b) = m * p + r /\ MaxLoad(c) = m * q + s
  BY <1>2, <1>3 DEF MaxLoad
<1>5. ~(q < p)
  <2> SUFFICES ASSUME q < p PROVE FALSE
    OBVIOUS
  <2>1. PICK l \in Nat : l = m + 1
    OBVIOUS
  <2>2. l * (q + 1) =< l * p
    BY <2>1, TimesMonotone
  <2>3. l * (q + 1) = l * q + l
    OBVIOUS
  <2> QED  BY <1>2, <1>3, <2>1, <2>2, <2>3
<1>6. CASE p < q
  <2>1. m * (p + 1) =< m * q
    BY <1>6, TimesMonotone
  <2>2. m * (p + 1) = m * p + m /\ m * p \in Nat /\ m * q \in Nat
    OBVIOUS
  <2> QED  BY <1>4, <2>1, <2>2
<1>7. CASE p = q
  BY <1>2, <1>3, <1>4, <1>7
<1> QED  BY <1>5, <1>6, <1>7

\* A table of its full load has an empty slot; one that is half full has room.
LEMMA LoadBelow ==
  ASSUME NEW c \in Nat, c >= GroupWidth
  PROVE  MaxLoad(c) \in Nat /\ MaxLoad(c) < c /\ \A n \in Nat : n * 2 =< c => n < MaxLoad(c)
<1>1. PICK l \in Nat : LoadDivisor = l /\ l >= 3 /\ l =< c
  BY HashTableAssumption
<1>2. PICK q \in Nat, r \in 0 .. l - 1 : c = l * q + r /\ c \div l = q
  BY <1>1, Division
<1>3. q # 0
  <2> SUFFICES ASSUME q = 0 PROVE FALSE
    OBVIOUS
  <2>1. l * q = 0
    OBVIOUS
  <2> QED  BY <1>1, <1>2, <2>1
<1>4. l * q >= 3 * q
  <2>1. q * 3 =< q * l
    BY <1>1, TimesMonotone
  <2> QED  BY <2>1
<1>5. MaxLoad(c) = c - q /\ 3 * q =< c
  BY <1>1, <1>2, <1>4 DEF MaxLoad
<1> QED  BY <1>3, <1>5

\* The table's invariant: the entries are in place, and neither they nor the
\* erased slots take up the room that m_tombstones leaves.
Sound(t) ==
    /\ Good(t, Size(t))
    /\ t.tombstones >= Cardinality(DeletedSlots(t))
    /\ Size(t) + t.tombstones =< MaxLoad(t.capacity)

Roomy(t) == t.capacity # 0 /\ Size(t) + t.tombstones < MaxLoad(t.capacity)

LEMMA SoundType ==
  ASSUME NEW t, Sound(t)
  PROVE  /\ WellFormed(t) /\ Indexed(t, Size(t)) /\ Probed(t)
         /\ Size(t) \in Nat /\ t.tombstones \in Nat /\ t.capacity \in Nat
         /\ IsFiniteSet(DeletedSlots(t)) /\ Cardinality(DeletedSlots(t)) \in Nat
<1>1. WellFormed(t) /\ Indexed(t, Size(t)) /\ Probed(t)
  BY DEF Sound, Good
<1>2. Size(t) \in Nat
  BY <1>1, EntryType
<1>3. PICK c \in Nat : c = t.capacity
  BY <1>1 DEF WellFormed
<1>4. IsFiniteSet(Slots(c))
  BY FS_Interval DEF Slots
<1>5. DeletedSlots(t) \subseteq Slots(c)
  BY <1>1, <1>3 DEF DeletedSlots, WellFormed
<1>6. IsFiniteSet(DeletedSlots(t)) /\ Cardinality(DeletedSlots(t)) \in Nat
  BY <1>4, <1>5, FS_Subset, FS_CardinalityType
<1> QED  BY <1>1, <1>2, <1>6 DEF WellFormed

\* A sound table is not larger than it has slots, and every probe of it ends.
LEMMA SoundRoom ==
  ASSUME hash \in HashFunctions, NEW t, Sound(t)
  PROVE  /\ Size(t) =< t.capacity
         /\ t.capacity # 0 => Size(t) < t.capacity
         /\ t.capacity # 0 => Cardinality(DeletedSlots(t)) + Size(t) < t.capacity
         /\ t.capacity # 0 => \A k \in Keys : \E i \in Steps(t) : HasEmpty(t, k, i)
<1>1. /\ Size(t) \in Nat /\ t.tombstones \in Nat /\ t.capacity \in Nat
      /\ Cardinality(DeletedSlots(t)) \in Nat /\ WellFormed(t) /\ Indexed(t, Size(t))
  BY SoundType
<1>2. Cardinality(DeletedSlots(t)) + Size(t) =< MaxLoad(t.capacity)
  <2>1. MaxLoad(t.capacity) \in Nat
    BY <1>1, LoadMonotone
  <2> QED  BY <1>1, <2>1 DEF Sound
<1>3. CASE t.capacity = 0
  <2>1. MaxLoad(0) = 0
    BY HashTableAssumption DEF MaxLoad
  <2> QED  BY <1>1, <1>2, <1>3, <2>1
<1>4. CASE t.capacity # 0
  <2>1. t.capacity >= GroupWidth
    BY <1>1, <1>4, SizedType DEF WellFormed
  <2>2. MaxLoad(t.capacity) \in Nat /\ MaxLoad(t.capacity) < t.capacity
    BY <1>1, <2>1, LoadBelow
  <2>3. Cardinality(DeletedSlots(t)) + Size(t) < t.capacity
    BY <1>1, <1>2, <2>2
  <2> QED  BY <1>1, <1>4, <2>3, ProbeMeetsEmpty
<1> QED  BY <1>3, <1>4

LEMMA RehashSound ==
  ASSUME hash \in HashFunctions, NEW t, Sound(t), NEW n \in Nat, Sized(n), Size(t) =< MaxLoad(n),
         NEW u, u = RehashTo(t, n)
  PROVE  /\ Sound(u) /\ u.entries = t.entries /\ u.capacity = n
         /\ Size(t) < MaxLoad(n) => Roomy(u)
<1>1. n >= GroupWidth
  BY SizedType
<1>2. MaxLoad(n) \in Nat /\ MaxLoad(n) < n /\ n # 0
  BY <1>1, GroupWidthType, LoadBelow
<1>3. Size(t) \in Nat /\ WellFormed(t)
  BY SoundType
<1>4. Size(t) < n
  BY <1>2, <1>3
<1>5. Rehashed(u, t, n, Size(t))
  BY <1>3, <1>4, RehashGood
<1>6. /\ Good(u, Size(t)) /\ u.entries = t.entries /\ u.capacity = n
      /\ u.tombstones = 0 /\ DeletedSlots(u) = {}
  BY <1>5 DEF Rehashed
<1>7. Size(u) = Size(t) /\ Cardinality(DeletedSlots(u)) = 0
  BY <1>6, FS_EmptySet DEF Size
<1> QED  BY <1>2, <1>3, <1>6, <1>7 DEF Sound, Roomy

LEMMA GrowthSound ==
  ASSUME hash \in HashFunctions, NEW t, Sound(t), NEW u, u = EnsureGrowthRoom(t)
  PROVE  Sound(u) /\ Roomy(u) /\ u.entries = t.entries
<1>1. Size(t) \in Nat /\ t.capacity \in Nat /\ Size(t) =< t.capacity
      /\ (t.capacity # 0 => Sized(t.capacity))
  BY SoundType, SoundRoom DEF WellFormed
<1>2. CASE HasRoomForOne(t)
  BY <1>2 DEF EnsureGrowthRoom, HasRoomForOne, Roomy
<1>3. CASE ~HasRoomForOne(t) /\ t.capacity = 0
  <2>1. u = RehashTo(t, GroupWidth)
    BY <1>3 DEF EnsureGrowthRoom
  <2>2. Size(t) * 2 =< GroupWidth
    BY <1>1, <1>3, GroupWidthType
  <2>3. Size(t) < MaxLoad(GroupWidth)
    BY <1>1, <2>2, LoadBelow, GroupWidthType
  <2> QED  BY <1>1, <2>1, <2>3, RehashSound, SizedType, LoadMonotone, GroupWidthType
<1>4. CASE ~HasRoomForOne(t) /\ t.capacity # 0 /\ Size(t) * 2 =< t.capacity
  <2>1. u = RehashTo(t, t.capacity)
    BY <1>4 DEF EnsureGrowthRoom
  <2>2. PICK c \in Nat : c = t.capacity /\ Sized(c) /\ Size(t) * 2 =< c
    BY <1>1, <1>4
  <2>3. Size(t) < MaxLoad(c) /\ Size(t) =< MaxLoad(c)
    BY <1>1, <2>2, LoadBelow, SizedType
  <2> QED  BY <2>1, <2>2, <2>3, RehashSound
<1>5. CASE ~HasRoomForOne(t) /\ t.capacity # 0 /\ ~(Size(t) * 2 =< t.capacity)
  <2>1. u = RehashTo(t, t.capacity * 2)
    BY <1>5 DEF EnsureGrowthRoom
  <2>2. PICK c \in Nat : c = t.capacity * 2 /\ Sized(c) /\ Size(t) * 2 =< c
    BY <1>1, <1>5, SizedType
  <2>3. Size(t) < MaxLoad(c) /\ Size(t) =< MaxLoad(c)
    BY <1>1, <2>2, LoadBelow, SizedType
  <2> QED  BY <2>1, <2>2, <2>3, RehashSound
<1> QED  BY <1>2, <1>3, <1>4, <1>5

-----------------------------------------------------------------------------
(* Adding an entry *)

Contained(t) == {EntryAt(t, i) : i \in Slots(Size(t))}

\* u is t with the entries e and the count m of erased slots.
Refilled(u, t, e, m) ==
    /\ IsTable(u)
    /\ u.entries = e /\ u.tombstones = m
    /\ u.capacity = t.capacity /\ u.ctrl = t.ctrl /\ u.index = t.index

LEMMA PushRefills ==
  ASSUME NEW t, WellFormed(t), NEW k
  PROVE  Refilled([t EXCEPT !.entries = Append(@, k)], t, Append(t.entries, k), t.tombstones)
  BY DEF Refilled, WellFormed, IsTable, Fields

LEMMA RecountRefills ==
  ASSUME NEW t, WellFormed(t), NEW m
  PROVE  Refilled([t EXCEPT !.tombstones = m], t, t.entries, m)
  BY DEF Refilled, WellFormed, IsTable, Fields

\* The slots of such a table are those of t.
LEMMA RefilledSlots ==
  ASSUME NEW t, NEW u, NEW e, NEW m, Refilled(u, t, e, m)
  PROVE  /\ Full(u) = Full(t) /\ DeletedSlots(u) = DeletedSlots(t)
         /\ \A k, s : Reaches(u, k, s) <=> Reaches(t, k, s)
<1>1. u.capacity = t.capacity /\ u.ctrl = t.ctrl
  BY DEF Refilled
<1>2. Full(u) = Full(t) /\ DeletedSlots(u) = DeletedSlots(t)
  BY <1>1 DEF Full, DeletedSlots
<1>3. /\ Steps(t) = Steps(u)
      /\ \A k, i : GroupSlots(t, k, i) = GroupSlots(u, k, i)
  BY <1>1, SameProbe
<1>4. \A k, i : HasEmpty(u, k, i) <=> HasEmpty(t, k, i)
  BY <1>1, <1>3 DEF HasEmpty
<1> QED  BY <1>2, <1>3, <1>4 DEF Reaches

\* m_entries.push_back of a key that is not in the table.
LEMMA PushGood ==
  ASSUME NEW t, NEW n \in Nat, n = Size(t), Good(t, n), NEW k \in Keys, k \notin Contained(t),
         NEW u, Refilled(u, t, Append(t.entries, k), t.tombstones)
  PROVE  /\ Good(u, n) /\ Size(u) = n + 1
         /\ EntryAt(u, n) = k
         /\ Contained(u) = Contained(t) \cup {k}
<1>1. t.entries \in Seq(Keys) /\ Len(t.entries) = n
  BY DEF Good, WellFormed, Size
<1>2. /\ u.entries = Append(t.entries, k) /\ u.tombstones = t.tombstones /\ IsTable(u)
      /\ u.capacity = t.capacity /\ u.ctrl = t.ctrl /\ u.index = t.index
  BY DEF Refilled
<1>3. /\ u.entries \in Seq(Keys) /\ Size(u) = n + 1 /\ EntryAt(u, n) = k
      /\ \A i \in Slots(n) : EntryAt(u, i) = EntryAt(t, i)
  BY <1>1, <1>2 DEF Size, EntryAt, Slots
<1>4. Slots(n + 1) = Slots(n) \cup {n} /\ n \notin Slots(n)
  BY DEF Slots
<1>5. Contained(u) = Contained(t) \cup {k}
  BY <1>3, <1>4 DEF Contained
<1>6. \A i, j \in Slots(Size(u)) : EntryAt(u, i) = EntryAt(u, j) => i = j
  BY <1>3, <1>4 DEF Contained, Good, WellFormed
<1>7. WellFormed(u)
  BY <1>2, <1>3, <1>6 DEF Good, WellFormed
<1>8. /\ Full(u) = Full(t)
      /\ \A j, s : Reaches(u, j, s) <=> Reaches(t, j, s)
  BY RefilledSlots
<1>9. \A s \in Full(t) : t.index[s] \in Slots(n) /\ u.index[s] = t.index[s] /\ u.ctrl[s] = t.ctrl[s]
  BY <1>2 DEF Good, Indexed
<1>10. Indexed(u, n)
  BY <1>3, <1>8, <1>9 DEF Good, Indexed
<1>11. Probed(u)
  BY <1>3, <1>8, <1>9 DEF Good, Probed
<1> QED  BY <1>3, <1>5, <1>7, <1>10, <1>11 DEF Good

\* insert of a key that is not in the table.
LEMMA InsertSound ==
  ASSUME hash \in HashFunctions, NEW t, Sound(t), NEW k \in Keys, k \notin Contained(t),
         NEW u, u = InsertUnique(t, k)
  PROVE  Sound(u) /\ Contained(u) = Contained(t) \cup {k} /\ u.capacity = EnsureGrowthRoom(t).capacity
<1>1. PICK g : g = EnsureGrowthRoom(t)
  OBVIOUS
<1>2. Sound(g) /\ Roomy(g) /\ g.entries = t.entries
  BY <1>1, GrowthSound
<1>3. PICK n \in Nat : n = Size(g)
  BY <1>2, SoundType
<1>4. PICK p : p = [g EXCEPT !.entries = Append(@, k)]
  OBVIOUS
<1>5. u = PlaceUnique(p, n)
  BY <1>1, <1>3, <1>4 DEF InsertUnique
<1>6. Refilled(p, g, Append(g.entries, k), g.tombstones)
  BY <1>2, <1>4, PushRefills, SoundType
<1>7. Contained(g) = Contained(t)
  BY <1>2 DEF Contained, Size, EntryAt
<1>8. Good(g, n)
  BY <1>2, <1>3 DEF Sound
<1>9. Good(p, n) /\ Size(p) = n + 1 /\ Contained(p) = Contained(t) \cup {k}
  BY <1>3, <1>6, <1>7, <1>8, PushGood
<1>10. DeletedSlots(p) = DeletedSlots(g) /\ p.capacity = g.capacity /\ p.tombstones = g.tombstones
  BY <1>6, RefilledSlots DEF Refilled
<1>11. PICK d, m, c \in Nat : /\ d = Cardinality(DeletedSlots(g)) /\ m = g.tombstones /\ c = g.capacity
                              /\ d =< m /\ n + m < MaxLoad(c) /\ c # 0
                              /\ IsFiniteSet(DeletedSlots(g))
  BY <1>2, <1>3, SoundType DEF Sound, Roomy
<1>12. MaxLoad(c) \in Nat /\ MaxLoad(c) < c
  <2>1. c >= GroupWidth
    BY <1>2, <1>11, SoundType, SizedType DEF WellFormed
  <2> QED  BY <2>1, LoadBelow
<1>13. d + n < c
  BY <1>11, <1>12
<1>14. /\ Good(u, n + 1)
       /\ u.entries = p.entries /\ u.capacity = p.capacity
       /\ u.tombstones = p.tombstones
       /\ DeletedSlots(u) \subseteq DeletedSlots(p)
  <2>1. n < Size(p)
    BY <1>9
  <2> QED  BY <1>5, <1>9, <1>10, <1>11, <1>13, <2>1, PlaceUniqueGood
<1>15. Size(u) = n + 1 /\ Contained(u) = Contained(p)
  BY <1>9, <1>14 DEF Size, Contained, EntryAt
<1>16. Cardinality(DeletedSlots(u)) =< d /\ Cardinality(DeletedSlots(u)) \in Nat
  BY <1>10, <1>11, <1>14, FS_Subset, FS_CardinalityType
<1> QED  BY <1>1, <1>9, <1>10, <1>11, <1>12, <1>14, <1>15, <1>16 DEF Sound

-----------------------------------------------------------------------------
(* Lookups *)

\* What a lookup of k takes for k's slot is the full slot of its entry.
LEMMA HitsAre ==
  ASSUME hash \in HashFunctions, NEW t, Good(t, Size(t)), NEW k \in Keys
  PROVE  Hits(t, k) = {s \in Full(t) : EntryAt(t, t.index[s]) = k}
<1>1. /\ \A s \in Full(t) : t.index[s] \in Slots(Size(t)) /\ t.ctrl[s] = hash[EntryAt(t, t.index[s])].h2
      /\ \A s \in Full(t) : Reaches(t, EntryAt(t, t.index[s]), s)
      /\ DOMAIN t.ctrl = Slots(t.capacity)
  BY DEF Good, Indexed, Probed, WellFormed
<1>2. ASSUME NEW s \in Hits(t, k) PROVE s \in Full(t) /\ EntryAt(t, t.index[s]) = k
  <2>1. s \in DOMAIN t.ctrl /\ t.ctrl[s] = hash[k].h2 /\ EntryAt(t, t.index[s]) = k
    BY <1>2 DEF Hits
  <2>2. t.ctrl[s] \notin Free
    BY <2>1, HashType, HashTableAssumption DEF Free
  <2> QED  BY <2>1, <2>2 DEF Full
<1>3. ASSUME NEW s \in Full(t), EntryAt(t, t.index[s]) = k PROVE s \in Hits(t, k)
  <2>1. s \in Slots(t.capacity) /\ t.ctrl[s] = hash[k].h2 /\ t.index[s] \in Slots(Size(t)) /\ Reaches(t, k, s)
    BY <1>1, <1>3 DEF Full
  <2>2. PICK i \in Steps(t) : s \in GroupSlots(t, k, i) /\ \A j \in 0 .. i - 1 : ~HasEmpty(t, k, j)
    BY <2>1 DEF Reaches
  <2>3. t.capacity # 0
    BY <2>1 DEF Slots
  <2>4. ProbeOf(t, k)
    BY <2>3, ProbeVisits DEF Good, WellFormed
  <2>5. s \div GroupWidth = Group(t, k, i)
    BY <2>2, <2>4 DEF ProbeOf
  <2>6. i \in Reached(t, k)
    BY <2>2 DEF Reached
  <2> QED  BY <1>1, <1>3, <2>1, <2>5, <2>6 DEF Hits
<1> QED  BY <1>2, <1>3

\* A key is found if and only if it is the key of an entry, and in one slot.
LEMMA LookupExact ==
  ASSUME hash \in HashFunctions, NEW t, Good(t, Size(t)), NEW k \in Keys
  PROVE  /\ HasKey(t, k) <=> k \in Contained(t)
         /\ \A r, s \in Hits(t, k) : r = s
<1>1. Hits(t, k) = {s \in Full(t) : EntryAt(t, t.index[s]) = k}
  BY HitsAre
<1>2. /\ \A s \in Full(t) : t.index[s] \in Slots(Size(t))
      /\ \A i \in Slots(Size(t)) : \E s \in Full(t) : t.index[s] = i
      /\ \A r, s \in Full(t) : t.index[r] = t.index[s] => r = s
      /\ \A i, j \in Slots(Size(t)) : EntryAt(t, i) = EntryAt(t, j) => i = j
  BY DEF Good, Indexed, WellFormed
<1>3. HasKey(t, k) <=> k \in Contained(t)
  BY <1>1, <1>2 DEF HasKey, Contained
<1>4. \A r, s \in Hits(t, k) : r = s
  BY <1>1, <1>2
<1> QED  BY <1>3, <1>4

-----------------------------------------------------------------------------
(* find_or_emplace *)

\* The slot that find_or_emplace takes for a new key: an erased one if it
\* counts the reuse of one.
EmplaceSlot(t, k) ==
    IF ReusableGroups(t, k) # {} THEN FirstSlot(t, k, Free) ELSE FirstSlot(t, k, {Empty})

LEMMA EmplaceSlotFree ==
  ASSUME hash \in HashFunctions, NEW t, WellFormed(t), t.capacity # 0, NEW k \in Keys,
         \E i \in Steps(t) : HasEmpty(t, k, i),
         NEW s, s = EmplaceSlot(t, k)
  PROVE  /\ s \in Slots(t.capacity) /\ t.ctrl[s] \in Free /\ Reaches(t, k, s)
         /\ IF ReusableGroups(t, k) # {} THEN t.ctrl[s] = Deleted ELSE t.ctrl[s] = Empty
<1>1. PICK l \in Steps(t) : HasEmpty(t, k, l)
  OBVIOUS
<1>2. PICK e \in GroupSlots(t, k, l) : t.ctrl[e] = Empty /\ Empty \in Free
  BY <1>1 DEF HasEmpty, Free
<1>3. ProbeOf(t, k)
  BY ProbeVisits DEF WellFormed
<1>4. PICK g \in Nat : Steps(t) = 0 .. g - 1
  BY <1>3 DEF ProbeOf
<1>5. \A i \in Steps(t) : GroupSlots(t, k, i) \subseteq Slots(t.capacity)
  BY <1>3 DEF ProbeOf
<1>6. CASE ReusableGroups(t, k) = {}
  <2>1. s = FirstSlot(t, k, {Empty})
    BY <1>6 DEF EmplaceSlot
  <2>2. PICK i \in Steps(t) : /\ s \in GroupSlots(t, k, i) /\ t.ctrl[s] \in {Empty}
                              /\ \A j \in 0 .. i - 1 : \A q \in GroupSlots(t, k, j) : t.ctrl[q] \notin {Empty}
    <3>1. t.ctrl[e] \in {Empty}
      BY <1>2
    <3> QED  BY <2>1, <1>2, <3>1, FirstSlotFound
  <2>3. Reaches(t, k, s)
    BY <2>2 DEF Reaches, HasEmpty
  <2> QED  BY <1>5, <1>6, <2>2, <2>3 DEF Free
<1>7. CASE ReusableGroups(t, k) # {}
  <2>1. s = FirstSlot(t, k, Free)
    BY <1>7 DEF EmplaceSlot
  <2>2. PICK i \in Steps(t) : /\ s \in GroupSlots(t, k, i) /\ t.ctrl[s] \in Free
                              /\ \A q \in GroupSlots(t, k, i) : t.ctrl[q] \in Free => s =< q
                              /\ \A j \in 0 .. i - 1 : \A q \in GroupSlots(t, k, j) : t.ctrl[q] \notin Free
    <3>1. t.ctrl[e] \in Free
      BY <1>2
    <3> QED  BY <2>1, <1>2, <3>1, FirstSlotFound
  <2>3. Reaches(t, k, s)
    BY <2>2 DEF Reaches, HasEmpty, Free
  <2>4. PICK j \in Steps(t) : /\ \A h \in 0 .. j - 1 : ~HasEmpty(t, k, h)
                              /\ \E d \in GroupSlots(t, k, j) :
                                    /\ t.ctrl[d] = Deleted
                                    /\ \A f \in GroupSlots(t, k, j) : t.ctrl[f] \in Free => d =< f
    BY <1>7 DEF ReusableGroups, Reached
  <2>5. PICK d \in GroupSlots(t, k, j) :
            /\ t.ctrl[d] = Deleted /\ Deleted \in Free
            /\ \A f \in GroupSlots(t, k, j) : t.ctrl[f] \in Free => d =< f
    BY <2>4 DEF Free
  <2>6. ~(j < i)
    <3>1. ASSUME j < i PROVE j \in 0 .. i - 1
      BY <3>1, <1>4
    <3> QED  BY <3>1, <2>2, <2>5
  <2>7. CASE i < j
    <3>1. i \in 0 .. j - 1
      BY <2>7, <1>4
    <3>2. t.ctrl[s] # Empty
      BY <3>1, <2>2, <2>4 DEF HasEmpty
    <3> QED  BY <1>5, <1>7, <2>2, <2>3, <3>2 DEF Free
  <2>8. CASE i = j
    <3>1. d =< s /\ s =< d
      BY <2>2, <2>5, <2>8
    <3>2. d \in Nat /\ s \in Nat
      <4>1. Slots(t.capacity) \subseteq Nat
        BY DEF Slots, WellFormed
      <4> QED  BY <4>1, <1>5, <2>2, <2>5
    <3>3. d = s
      BY <3>1, <3>2
    <3> QED  BY <1>5, <1>7, <2>2, <2>3, <2>5, <3>3
  <2> QED  BY <1>4, <2>6, <2>7, <2>8
<1> QED  BY <1>6, <1>7

\* operator[] of a key that is not in a table with room.
LEMMA EmplaceSound ==
  ASSUME hash \in HashFunctions, NEW t, Sound(t), Roomy(t), NEW k \in Keys, k \notin Contained(t),
         NEW u, u = Emplace(t, k)
  PROVE  Sound(u) /\ Contained(u) = Contained(t) \cup {k} /\ u.capacity = t.capacity
<1> DEFINE reuse == ReusableGroups(t, k) # {}
<1>1. PICK n \in Nat : n = Size(t) /\ Good(t, n)
  BY SoundType DEF Sound
<1>2. PICK d, m \in Nat : /\ d = Cardinality(DeletedSlots(t)) /\ m = t.tombstones /\ d =< m
                          /\ n + m < MaxLoad(t.capacity) /\ IsFiniteSet(DeletedSlots(t))
  BY <1>1, SoundType DEF Sound, Roomy
<1>3. WellFormed(t) /\ t.capacity # 0 /\ \E i \in Steps(t) : HasEmpty(t, k, i)
  BY SoundType, SoundRoom DEF Roomy
<1>4. PICK s : s = EmplaceSlot(t, k)
  OBVIOUS
<1>5. /\ s \in Slots(t.capacity) /\ t.ctrl[s] \in Free /\ Reaches(t, k, s)
      /\ IF reuse THEN t.ctrl[s] = Deleted ELSE t.ctrl[s] = Empty
  BY <1>3, <1>4, EmplaceSlotFree
<1>6. PICK p : p = [t EXCEPT !.entries = Append(@, k)]
  OBVIOUS
<1>7. PICK v : v = Occupied(p, s, k, n)
  OBVIOUS
<1>8. PICK w : w = IF reuse THEN v.tombstones - 1 ELSE v.tombstones
  OBVIOUS
<1>9. u = [v EXCEPT !.tombstones = w]
  BY <1>1, <1>4, <1>6, <1>7, <1>8 DEF Emplace, EmplaceSlot
<1>10. Refilled(p, t, Append(t.entries, k), t.tombstones)
  BY <1>3, <1>6, PushRefills
<1>11. Good(p, n) /\ Size(p) = n + 1 /\ EntryAt(p, n) = k /\ Contained(p) = Contained(t) \cup {k}
  BY <1>1, <1>10, PushGood
<1>12. /\ p.capacity = t.capacity /\ p.tombstones = m /\ p.ctrl = t.ctrl
       /\ DeletedSlots(p) = DeletedSlots(t) /\ Reaches(p, k, s)
  BY <1>2, <1>5, <1>10, RefilledSlots DEF Refilled
<1>13. Placed(v, p, s, k, n)
  <2>1. hash[k].h2 \in Marks
    BY HashType DEF Marks
  <2> QED  BY <2>1, <1>5, <1>7, <1>11, <1>12, OccupiedPlaced DEF Good
<1>14. /\ Good(v, n + 1) /\ v.entries = p.entries /\ v.capacity = t.capacity
       /\ v.tombstones = m /\ DeletedSlots(v) = DeletedSlots(t) \ {s}
  <2>1. n < Size(p) /\ s \in Slots(p.capacity) /\ p.ctrl[s] \in Free
    BY <1>5, <1>11, <1>12
  <2> QED  BY <2>1, <1>11, <1>12, <1>13, OccupiedGood
<1>15. /\ w \in Nat /\ Cardinality(DeletedSlots(v)) =< w /\ w =< m
  <2>1. CASE reuse
    <3>1. s \in DeletedSlots(t)
      BY <2>1, <1>3, <1>5 DEF DeletedSlots, WellFormed
    <3>2. Cardinality(DeletedSlots(v)) = d - 1
      BY <3>1, <1>2, <1>14, FS_RemoveElement
    <3>3. d # 0
      BY <3>1, <1>2, FS_EmptySet
    <3> QED  BY <2>1, <3>2, <3>3, <1>2, <1>8, <1>14
  <2>2. CASE ~reuse
    <3>1. s \notin DeletedSlots(t)
      BY <2>2, <1>5, HashTableAssumption DEF DeletedSlots
    <3>2. DeletedSlots(v) = DeletedSlots(t)
      BY <3>1, <1>14
    <3> QED  BY <2>2, <3>2, <1>2, <1>8, <1>14
  <2> QED  BY <2>1, <2>2
<1>16. Refilled(u, v, v.entries, w)
  BY <1>9, <1>14, RecountRefills DEF Good
<1>17. /\ u.entries = p.entries /\ u.capacity = t.capacity /\ u.tombstones = w /\ IsTable(u)
       /\ u.ctrl = v.ctrl /\ u.index = v.index
       /\ Full(u) = Full(v) /\ DeletedSlots(u) = DeletedSlots(v)
       /\ \A j, r : Reaches(u, j, r) <=> Reaches(v, j, r)
  BY <1>14, <1>16, RefilledSlots DEF Refilled
<1>18. /\ Size(u) = n + 1 /\ Size(v) = n + 1 /\ Contained(u) = Contained(p)
       /\ \A i : EntryAt(u, i) = EntryAt(v, i)
  BY <1>11, <1>14, <1>17 DEF Size, Contained, EntryAt
<1>19. Good(u, n + 1)
  <2>1. WellFormed(u)
    BY <1>14, <1>15, <1>17, <1>18 DEF Good, WellFormed
  <2>2. Indexed(u, n + 1)
    BY <1>14, <1>17, <1>18 DEF Good, Indexed
  <2>3. Probed(u)
    BY <1>14, <1>17, <1>18 DEF Good, Probed
  <2> QED  BY <2>1, <2>2, <2>3, <1>14, <1>18 DEF Good
<1>20. n + 1 + w =< MaxLoad(t.capacity)
  <2>1. MaxLoad(t.capacity) \in Nat
    BY LoadMonotone, SoundType
  <2> QED  BY <2>1, <1>2, <1>15
<1> QED  BY <1>11, <1>15, <1>17, <1>18, <1>19, <1>20 DEF Sound

-----------------------------------------------------------------------------
(* Erasing *)

\* u is t without the slot s: the entry of s, and what leads to it, not yet moved.
MarkedAt(u, t, s) ==
    /\ IsTable(u)
    /\ u.entries = t.entries /\ u.capacity = t.capacity /\ u.tombstones = t.tombstones + 1
    /\ u.ctrl \in [Slots(t.capacity) -> Marks] /\ u.ctrl[s] = Deleted
    /\ u.index \in [Slots(t.capacity) -> Nat \cup {NoEntry}] /\ u.index[s] = NoEntry
    /\ \A r \in Slots(t.capacity) \ {s} : u.ctrl[r] = t.ctrl[r] /\ u.index[r] = t.index[r]

LEMMA MarkIs ==
  ASSUME NEW t, WellFormed(t), NEW s \in Slots(t.capacity)
  PROVE  MarkedAt([t EXCEPT !.ctrl[s] = Deleted, !.index[s] = NoEntry, !.tombstones = @ + 1], t, s)
<1> DEFINE u == [t EXCEPT !.ctrl[s] = Deleted, !.index[s] = NoEntry, !.tombstones = @ + 1]
<1>1. /\ t.ctrl \in [Slots(t.capacity) -> Marks]
      /\ t.index \in [Slots(t.capacity) -> Nat \cup {NoEntry}]
      /\ Deleted \in Marks
  BY DEF WellFormed, Marks, Free
<1>2. /\ IsTable(u)
      /\ u.entries = t.entries /\ u.capacity = t.capacity /\ u.tombstones = t.tombstones + 1
      /\ u.ctrl = [t.ctrl EXCEPT ![s] = Deleted]
      /\ u.index = [t.index EXCEPT ![s] = NoEntry]
  BY DEF WellFormed, IsTable, Fields
<1> HIDE DEF u
<1>3. /\ u.ctrl \in [Slots(t.capacity) -> Marks] /\ u.ctrl[s] = Deleted
      /\ u.index \in [Slots(t.capacity) -> Nat \cup {NoEntry}] /\ u.index[s] = NoEntry
      /\ \A r \in Slots(t.capacity) \ {s} : u.ctrl[r] = t.ctrl[r] /\ u.index[r] = t.index[r]
  BY <1>1, <1>2
<1>4. MarkedAt(u, t, s)
  BY <1>2, <1>3 DEF MarkedAt
<1> QED  BY <1>4 DEF u

LEMMA PopRefills ==
  ASSUME NEW t, IsTable(t)
  PROVE  Refilled([t EXCEPT !.entries = Front(@)], t, Front(t.entries), t.tombstones)
  BY DEF Refilled, IsTable, Fields

LEMMA MoveRefills ==
  ASSUME NEW t, IsTable(t), NEW j, NEW e
  PROVE  Refilled([t EXCEPT !.entries[j] = e], t, [t.entries EXCEPT ![j] = e], t.tombstones)
  BY DEF Refilled, IsTable, Fields

\* The sequence that a swap-remove of element j leaves.
Without(f, e, n, j) ==
    /\ f \in Seq(Keys) /\ Len(f) = n
    /\ \A i \in Slots(n) : f[i + 1] = IF i = j THEN e[n + 1] ELSE e[i + 1]

LEMMA FrontWithout ==
  ASSUME NEW n \in Nat, NEW e \in Seq(Keys), Len(e) = n + 1
  PROVE  Without(Front(e), e, n, n)
<1>1. Front(e) = [i \in 1 .. n |-> e[i]]
  BY DEF Front
<1>2. \A i \in Slots(n) : i # n /\ i + 1 \in 1 .. n
  BY DEF Slots
<1>3. [i \in 1 .. n |-> e[i]] \in Seq(Keys) /\ Len([i \in 1 .. n |-> e[i]]) = n
  <2>1. \A i \in 1 .. n : e[i] \in Keys
    OBVIOUS
  <2> QED  BY <2>1
<1> QED  BY <1>1, <1>2, <1>3 DEF Without

LEMMA SwapWithout ==
  ASSUME NEW n \in Nat, NEW e \in Seq(Keys), Len(e) = n + 1, NEW j \in Slots(n),
         NEW f \in Seq(Keys), Len(f) = n + 1,
         \A i \in 1 .. n : f[i] = IF i = j + 1 THEN e[n + 1] ELSE e[i]
  PROVE  Without(Front(f), e, n, j)
<1>1. Without(Front(f), f, n, n)
  BY FrontWithout
<1>2. \A i \in Slots(n) : f[i + 1] = IF i = j THEN e[n + 1] ELSE e[i + 1]
  BY DEF Slots
<1>3. \A i \in Slots(n) : i # n
  BY DEF Slots
<1> QED  BY <1>1, <1>2, <1>3 DEF Without

\* u is t with index i in slot s.
MovedAt(u, t, s, i) ==
    /\ IsTable(u)
    /\ u.entries = t.entries /\ u.capacity = t.capacity /\ u.tombstones = t.tombstones /\ u.ctrl = t.ctrl
    /\ u.index \in [Slots(t.capacity) -> Nat \cup {NoEntry}] /\ u.index[s] = i
    /\ \A r \in Slots(t.capacity) \ {s} : u.index[r] = t.index[r]

\* relocate_index finds the only slot that has the fingerprint and the index.
LEMMA RelocatedIs ==
  ASSUME NEW t, IsTable(t), t.index \in [Slots(t.capacity) -> Nat \cup {NoEntry}],
         DOMAIN t.ctrl = Slots(t.capacity), NEW k, NEW i \in Nat, NEW j,
         NEW s \in Slots(t.capacity), t.ctrl[s] = hash[k].h2, t.index[s] = j,
         \A r \in Slots(t.capacity) : t.ctrl[r] = hash[k].h2 /\ t.index[r] = j => r = s
  PROVE  MovedAt(Relocated(t, k, j, i), t, s, i)
<1> DEFINE u == Relocated(t, k, j, i)
<1>1. (CHOOSE r \in DOMAIN t.ctrl : t.ctrl[r] = hash[k].h2 /\ t.index[r] = j) = s
  OBVIOUS
<1>2. u = [t EXCEPT !.index[s] = i]
  BY <1>1 DEF Relocated
<1>3. /\ IsTable(u)
      /\ u.entries = t.entries /\ u.capacity = t.capacity /\ u.tombstones = t.tombstones
      /\ u.ctrl = t.ctrl /\ u.index = [t.index EXCEPT ![s] = i]
  BY <1>2 DEF IsTable, Fields
<1> HIDE DEF u
<1>4. /\ u.index \in [Slots(t.capacity) -> Nat \cup {NoEntry}] /\ u.index[s] = i
      /\ \A r \in Slots(t.capacity) \ {s} : u.index[r] = t.index[r]
  BY <1>3
<1>5. MovedAt(u, t, s, i)
  BY <1>3, <1>4 DEF MovedAt
<1> QED  BY <1>5 DEF u

\* u is t without the entry of the full slot s, where the last of its n + 1
\* entries has come to lie.
ErasedAt(u, t, s, n) ==
    /\ IsTable(u)
    /\ u.capacity = t.capacity /\ u.tombstones = t.tombstones + 1
    /\ u.ctrl \in [Slots(t.capacity) -> Marks] /\ u.ctrl[s] = Deleted
    /\ \A r \in Slots(t.capacity) \ {s} : u.ctrl[r] = t.ctrl[r]
    /\ u.index \in [Slots(t.capacity) -> Nat \cup {NoEntry}]
    /\ \A r \in Full(t) \ {s} : u.index[r] = IF t.index[r] = n THEN t.index[s] ELSE t.index[r]
    /\ Without(u.entries, t.entries, n, t.index[s])

LEMMA ErasedShape ==
  ASSUME hash \in HashFunctions, NEW t, NEW n \in Nat, Size(t) = n + 1, Good(t, n + 1),
         NEW k \in Keys, k \in Contained(t),
         NEW u, u = Erased(t, k)
  PROVE  \E s \in Full(t) : EntryAt(t, t.index[s]) = k /\ ErasedAt(u, t, s, n)
<1>1. /\ WellFormed(t) /\ IsTable(t)
      /\ t.entries \in Seq(Keys) /\ Len(t.entries) = n + 1 /\ t.capacity \in Nat
      /\ t.ctrl \in [Slots(t.capacity) -> Marks]
      /\ t.index \in [Slots(t.capacity) -> Nat \cup {NoEntry}]
      /\ \A r \in Full(t) : /\ t.index[r] \in Slots(n + 1)
                            /\ t.ctrl[r] = hash[EntryAt(t, t.index[r])].h2
      /\ \A i \in Slots(n + 1) : \E r \in Full(t) : t.index[r] = i
      /\ \A q, r \in Full(t) : t.index[q] = t.index[r] => q = r
  BY DEF Good, WellFormed, Indexed, Size
<1>2. Full(t) \subseteq Slots(t.capacity) /\ Slots(t.capacity) \subseteq Nat
  BY <1>1 DEF Full, Slots
<1>3. PICK s : s = Min(Hits(t, k))
  OBVIOUS
<1>4. s \in Full(t) /\ EntryAt(t, t.index[s]) = k
  <2>1. Hits(t, k) = {r \in Full(t) : EntryAt(t, t.index[r]) = k}
    BY HitsAre
  <2>2. Hits(t, k) # {}
    BY LookupExact DEF HasKey
  <2>3. Hits(t, k) \in SUBSET Nat
    BY <1>2, <2>1
  <2>4. s \in Hits(t, k)
    BY <1>3, <2>2, <2>3, MinIsLeast
  <2> QED  BY <2>1, <2>4
<1>5. s \in Slots(t.capacity)
  BY <1>2, <1>4
<1>6. PICK j \in Nat : j = t.index[s] /\ j \in Slots(n + 1)
  BY <1>1, <1>4 DEF Slots
<1>7. PICK m : m = [t EXCEPT !.ctrl[s] = Deleted, !.index[s] = NoEntry, !.tombstones = @ + 1]
  OBVIOUS
<1>8. MarkedAt(m, t, s)
  BY <1>1, <1>5, <1>7, MarkIs
<1>9. /\ IsTable(m)
      /\ m.entries = t.entries /\ m.capacity = t.capacity /\ m.tombstones = t.tombstones + 1
      /\ m.ctrl \in [Slots(t.capacity) -> Marks] /\ m.ctrl[s] = Deleted
      /\ m.index \in [Slots(t.capacity) -> Nat \cup {NoEntry}] /\ m.index[s] = NoEntry
      /\ \A r \in Slots(t.capacity) \ {s} : m.ctrl[r] = t.ctrl[r] /\ m.index[r] = t.index[r]
  BY <1>8 DEF MarkedAt
<1>10. CASE j = n
  <2>1. u = [m EXCEPT !.entries = Front(@)]
    BY <1>3, <1>6, <1>7, <1>10 DEF Erased
  <2>2. Refilled(u, m, Front(m.entries), m.tombstones)
    BY <1>9, <2>1, PopRefills
  <2>3. /\ IsTable(u)
        /\ u.entries = Front(t.entries) /\ u.capacity = t.capacity /\ u.tombstones = t.tombstones + 1
        /\ u.ctrl = m.ctrl /\ u.index = m.index
    BY <1>9, <2>2 DEF Refilled
  <2>4. Without(u.entries, t.entries, n, j)
    BY <1>1, <1>10, <2>3, FrontWithout
  <2>5. \A r \in Full(t) \ {s} : u.index[r] = t.index[r] /\ t.index[r] # n
    <3>1. \A r \in Full(t) \ {s} : u.index[r] = t.index[r]
      BY <1>2, <1>9, <2>3
    <3>2. \A r \in Full(t) \ {s} : t.index[r] # n
      BY <1>1, <1>4, <1>6, <1>10
    <3> QED  BY <3>1, <3>2
  <2>6. ErasedAt(u, t, s, n)
    BY <1>6, <1>9, <2>3, <2>4, <2>5 DEF ErasedAt
  <2> QED  BY <1>4, <2>6
<1>11. CASE j # n
  <2>0. j \in Slots(n) /\ n \in Slots(n + 1)
    BY <1>6, <1>11 DEF Slots
  <2>1. PICK l \in Keys : l = Last(t.entries) /\ l = EntryAt(t, n)
    BY <1>1 DEF Last, EntryAt
  <2>2. PICK r \in Full(t) : t.index[r] = n
    BY <1>1, <2>0
  <2>3. r # s /\ r \in Slots(t.capacity) /\ t.ctrl[r] = hash[l].h2
    BY <1>1, <1>2, <1>6, <1>11, <2>1, <2>2
  <2>4. PICK v : v = [m EXCEPT !.entries[j + 1] = l]
    OBVIOUS
  <2>5. PICK w : w = Relocated(v, l, n, j)
    OBVIOUS
  <2>6. u = [w EXCEPT !.entries = Front(@)]
    BY <1>3, <1>6, <1>7, <1>11, <2>1, <2>4, <2>5 DEF Erased
  <2>7. Refilled(v, m, [m.entries EXCEPT ![j + 1] = l], m.tombstones)
    BY <1>9, <2>4, MoveRefills
  <2>8. /\ IsTable(v)
        /\ v.entries = [t.entries EXCEPT ![j + 1] = l] /\ v.capacity = t.capacity
        /\ v.tombstones = t.tombstones + 1 /\ v.ctrl = m.ctrl /\ v.index = m.index
    BY <1>9, <2>7 DEF Refilled
  <2>9. \A q \in Slots(t.capacity) : v.ctrl[q] = hash[l].h2 /\ v.index[q] = n => q = r
    <3>1. hash[l].h2 \notin Free
      BY HashType, HashTableAssumption DEF Free
    <3> SUFFICES ASSUME NEW q \in Slots(t.capacity), v.ctrl[q] = hash[l].h2, v.index[q] = n
                 PROVE  q = r
      OBVIOUS
    <3>2. q # s
      BY <1>9, <2>8, <3>1 DEF Free
    <3>3. q \in Full(t) /\ t.index[q] = n
      BY <1>1, <1>9, <2>8, <3>1, <3>2 DEF Full
    <3> QED  BY <1>1, <2>2, <3>3
  <2>10. MovedAt(w, v, r, j)
    <3>1. v.ctrl[r] = hash[l].h2 /\ v.index[r] = n
      BY <1>9, <2>2, <2>3, <2>8
    <3> QED  BY <1>9, <2>3, <2>5, <2>8, <2>9, <3>1, RelocatedIs
  <2>11. /\ IsTable(w)
         /\ w.entries = v.entries /\ w.capacity = t.capacity /\ w.tombstones = t.tombstones + 1
         /\ w.ctrl = m.ctrl
         /\ w.index \in [Slots(t.capacity) -> Nat \cup {NoEntry}] /\ w.index[r] = j
         /\ \A q \in Slots(t.capacity) \ {r} : w.index[q] = m.index[q]
    BY <2>8, <2>10 DEF MovedAt
  <2>12. Refilled(u, w, Front(w.entries), w.tombstones)
    BY <2>6, <2>11, PopRefills
  <2>13. /\ IsTable(u)
         /\ u.entries = Front(v.entries) /\ u.capacity = t.capacity /\ u.tombstones = t.tombstones + 1
         /\ u.ctrl = m.ctrl /\ u.index = w.index
    BY <2>11, <2>12 DEF Refilled
  <2>14. Without(u.entries, t.entries, n, j)
    <3>1. PICK f : f = v.entries /\ f = [t.entries EXCEPT ![j + 1] = l]
      BY <2>8
    <3>2. j + 1 \in 1 .. n /\ l = t.entries[n + 1]
      BY <2>0, <2>1 DEF Slots, EntryAt
    <3>3. /\ f \in Seq(Keys) /\ Len(f) = n + 1
          /\ \A i \in 1 .. n : f[i] = IF i = j + 1 THEN t.entries[n + 1] ELSE t.entries[i]
      BY <1>1, <3>1, <3>2
    <3>4. Without(Front(f), t.entries, n, j)
      BY <1>1, <2>0, <3>3, SwapWithout
    <3> QED  BY <2>13, <3>1, <3>4
  <2>15. \A q \in Full(t) \ {s} : u.index[q] = IF t.index[q] = n THEN j ELSE t.index[q]
    BY <1>1, <1>2, <1>9, <2>2, <2>11, <2>13
  <2>16. ErasedAt(u, t, s, n)
    BY <1>6, <1>9, <2>11, <2>13, <2>14, <2>15 DEF ErasedAt
  <2> QED  BY <1>4, <2>16
<1> QED  BY <1>10, <1>11

\* erase of a key that is in the table.
LEMMA ErasedSound ==
  ASSUME hash \in HashFunctions, NEW t, Sound(t), NEW k \in Keys, k \in Contained(t),
         NEW u, u = Erased(t, k)
  PROVE  Sound(u) /\ Contained(u) = Contained(t) \ {k} /\ u.capacity = t.capacity
<1>1. PICK n \in Nat : Size(t) = n + 1
  <2>1. Size(t) \in Nat /\ Size(t) # 0
    BY SoundType DEF Contained, Slots
  <2> QED  BY <2>1
<1>2. Good(t, n + 1)
  BY <1>1 DEF Sound
<1>3. PICK s \in Full(t) : EntryAt(t, t.index[s]) = k /\ ErasedAt(u, t, s, n)
  BY <1>1, <1>2, ErasedShape
<1>4. /\ WellFormed(t) /\ t.capacity \in Nat /\ t.tombstones \in Nat
      /\ t.ctrl \in [Slots(t.capacity) -> Marks]
      /\ \A r \in Full(t) : /\ t.index[r] \in Slots(n + 1)
                            /\ t.ctrl[r] = hash[EntryAt(t, t.index[r])].h2
                            /\ Reaches(t, EntryAt(t, t.index[r]), r)
      /\ \A i \in Slots(n + 1) : \E r \in Full(t) : t.index[r] = i
      /\ \A q, r \in Full(t) : t.index[q] = t.index[r] => q = r
      /\ \A i \in Slots(n + 1) : EntryAt(t, i) \in Keys
      /\ \A i, j \in Slots(n + 1) : EntryAt(t, i) = EntryAt(t, j) => i = j
  BY <1>1, <1>2, EntryType DEF Good, WellFormed, Indexed, Probed
<1>5. PICK j : j = t.index[s] /\ j \in Slots(n + 1)
  BY <1>4
<1>6. /\ IsTable(u)
      /\ u.capacity = t.capacity /\ u.tombstones = t.tombstones + 1
      /\ u.ctrl \in [Slots(t.capacity) -> Marks] /\ u.ctrl[s] = Deleted
      /\ \A r \in Slots(t.capacity) \ {s} : u.ctrl[r] = t.ctrl[r]
      /\ u.index \in [Slots(t.capacity) -> Nat \cup {NoEntry}]
      /\ \A r \in Full(t) \ {s} : u.index[r] = IF t.index[r] = n THEN j ELSE t.index[r]
      /\ u.entries \in Seq(Keys) /\ Size(u) = n
      /\ \A i \in Slots(n) : EntryAt(u, i) = IF i = j THEN EntryAt(t, n) ELSE EntryAt(t, i)
  BY <1>3, <1>5 DEF ErasedAt, Without, Size, EntryAt
<1>7. Slots(n + 1) = Slots(n) \cup {n} /\ n \notin Slots(n)
  BY DEF Slots
<1>8. Full(u) = Full(t) \ {s} /\ s \in Slots(t.capacity)
  BY <1>4, <1>6 DEF Full, Free
<1>9. DeletedSlots(u) = DeletedSlots(t) \cup {s} /\ s \notin DeletedSlots(t)
  BY <1>4, <1>6 DEF DeletedSlots, Full, Free
\* Every other full slot leads to the same entry as before.
<1>10. \A r \in Full(u) : /\ u.index[r] \in Slots(n)
                          /\ EntryAt(u, u.index[r]) = EntryAt(t, t.index[r])
  <2> SUFFICES ASSUME NEW r \in Full(u)
               PROVE  /\ u.index[r] \in Slots(n)
                      /\ EntryAt(u, u.index[r]) = EntryAt(t, t.index[r])
    OBVIOUS
  <2>1. r \in Full(t) /\ r # s /\ t.index[r] \in Slots(n + 1) /\ t.index[r] # j
    BY <1>4, <1>5, <1>8
  <2>2. u.index[r] = IF t.index[r] = n THEN j ELSE t.index[r]
    BY <1>6, <2>1
  <2>3. CASE t.index[r] = n
    BY <2>1, <2>2, <2>3, <1>5, <1>6, <1>7
  <2>4. CASE t.index[r] # n
    BY <2>1, <2>2, <2>4, <1>5, <1>6, <1>7
  <2> QED  BY <2>3, <2>4
<1>11. WellFormed(u)
  <2>1. \A i, l \in Slots(n) : EntryAt(u, i) = EntryAt(u, l) => i = l
    BY <1>4, <1>6, <1>7
  <2> QED  BY <2>1, <1>4, <1>6 DEF WellFormed
<1>12. Indexed(u, n)
  <2>1. \A r \in Full(u) : u.ctrl[r] = hash[EntryAt(u, u.index[r])].h2
    <3>1. \A r \in Full(u) : r \in Full(t) /\ r # s /\ r \in Slots(t.capacity)
      BY <1>4, <1>8 DEF Full
    <3> QED  BY <3>1, <1>4, <1>6, <1>10
  <2>2. ASSUME NEW i \in Slots(n) PROVE \E r \in Full(u) : u.index[r] = i
    <3>1. CASE i = j
      <4>1. j # n /\ n \in Slots(n + 1)
        BY <3>1, <1>7
      <4>2. PICK r \in Full(t) : t.index[r] = n
        BY <4>1, <1>4
      <4> QED  BY <3>1, <4>1, <4>2, <1>5, <1>6, <1>8
    <3>2. CASE i # j
      <4>1. PICK r \in Full(t) : t.index[r] = i
        BY <1>4, <1>7
      <4> QED  BY <3>2, <4>1, <1>5, <1>6, <1>7, <1>8
    <3> QED  BY <3>1, <3>2
  <2>3. ASSUME NEW q \in Full(u), NEW r \in Full(u), u.index[q] = u.index[r] PROVE q = r
    <3>1. EntryAt(t, t.index[q]) = EntryAt(t, t.index[r])
      BY <1>10, <2>3
    <3> QED  BY <3>1, <1>4, <1>8
  <2> QED  BY <1>10, <2>1, <2>2, <2>3 DEF Indexed
<1>13. Probed(u)
  <2> SUFFICES ASSUME NEW r \in Full(u) PROVE Reaches(u, EntryAt(t, t.index[r]), r)
    BY <1>10 DEF Probed
  <2>1. PICK l \in Keys : l = EntryAt(t, t.index[r]) /\ Reaches(t, l, r)
    BY <1>4, <1>8
  <2>2. /\ Steps(u) = Steps(t)
        /\ \A i : GroupSlots(u, l, i) = GroupSlots(t, l, i)
    BY <1>6, SameProbe
  <2>3. ProbeOf(t, l)
    <3>1. t.capacity # 0
      BY <1>8 DEF Slots
    <3> QED  BY <3>1, <1>4, ProbeVisits DEF WellFormed
  <2>4. PICK i \in Steps(t) : r \in GroupSlots(t, l, i) /\ \A h \in 0 .. i - 1 : ~HasEmpty(t, l, h)
    BY <2>1 DEF Reaches
  <2>5. \A h \in 0 .. i - 1 : h \in Steps(t) /\ GroupSlots(t, l, h) \subseteq Slots(t.capacity)
    <3>1. PICK g \in Nat : Steps(t) = 0 .. g - 1
      BY <2>3 DEF ProbeOf
    <3>2. \A h \in 0 .. i - 1 : h \in Steps(t)
      BY <3>1
    <3> QED  BY <3>2, <2>3 DEF ProbeOf
  <2>6. Deleted # Empty
    BY HashTableAssumption
  <2>7. \A h \in 0 .. i - 1 : ~HasEmpty(u, l, h)
    BY <1>6, <2>2, <2>4, <2>5, <2>6 DEF HasEmpty
  <2> QED  BY <2>1, <2>2, <2>4, <2>7 DEF Reaches
<1>14. Contained(u) = Contained(t) \ {k}
  <2>1. ASSUME NEW i \in Slots(n) PROVE EntryAt(u, i) \in Contained(t) /\ EntryAt(u, i) # k
    <3>1. EntryAt(t, j) = k
      BY <1>3, <1>5
    <3> QED  BY <3>1, <1>1, <1>4, <1>5, <1>6, <1>7 DEF Contained
  <2>2. ASSUME NEW i \in Slots(n + 1), EntryAt(t, i) # k PROVE EntryAt(t, i) \in Contained(u)
    <3>1. i # j
      BY <2>2, <1>3, <1>5
    <3>2. CASE i = n
      <4>1. j \in Slots(n)
        BY <3>1, <3>2, <1>5, <1>7
      <4> QED  BY <4>1, <3>2, <1>6 DEF Contained
    <3>3. CASE i # n
      BY <3>1, <3>3, <1>6, <1>7 DEF Contained
    <3> QED  BY <3>2, <3>3
  <2> QED  BY <2>1, <2>2, <1>1, <1>6 DEF Contained
<1>15. Cardinality(DeletedSlots(u)) = Cardinality(DeletedSlots(t)) + 1
  BY <1>9, SoundType, FS_AddElement
<1>16. /\ u.tombstones >= Cardinality(DeletedSlots(u))
       /\ n + u.tombstones =< MaxLoad(u.capacity)
  <2>1. MaxLoad(t.capacity) \in Nat
    BY <1>4, LoadMonotone
  <2> QED  BY <2>1, <1>1, <1>4, <1>6, <1>15, SoundType DEF Sound
<1> QED  BY <1>6, <1>11, <1>12, <1>13, <1>14, <1>16 DEF Sound, Good

-----------------------------------------------------------------------------
(* Reserving *)

\* There is a power of two between n and 2 * n.
LEMMA PowerBetween ==
  ASSUME NEW n \in Nat \ {0}
  PROVE  \E g \in Nat : Power(g) /\ n =< g /\ g =< 2 * n
<1> DEFINE S == {m \in Nat : m = 0 \/ \E g \in Nat : Power(g) /\ m =< g /\ g =< 2 * m}
<1>1. 0 \in S
  OBVIOUS
<1>2. ASSUME NEW m \in Nat, m \in S PROVE m + 1 \in S
  <2>1. CASE m = 0
    <3>1. Power(1)
      BY DEF Power, PowersOfTwo
    <3> QED  BY <2>1, <3>1
  <2>2. CASE m # 0
    <3>1. PICK g \in Nat : Power(g) /\ m =< g /\ g =< 2 * m
      BY <1>2, <2>2
    <3>2. CASE g = m
      <4>1. Power(2 * g) /\ 2 * g \in Nat
        BY <3>1, PowerDouble
      <4>2. m + 1 =< 2 * g /\ 2 * g =< 2 * (m + 1)
        BY <2>2, <3>2
      <4> QED  BY <4>1, <4>2
    <3>3. CASE g # m
      <4>1. m + 1 =< g /\ g =< 2 * (m + 1)
        BY <3>1, <3>3
      <4> QED  BY <3>1, <4>1
    <3> QED  BY <3>2, <3>3
  <2> QED  BY <2>1, <2>2
<1> HIDE DEF S
<1>3. Nat \subseteq S
  BY <1>1, <1>2, NatSetInduction
<1> QED  BY <1>3 DEF S

\* n entries need fewer than twice as many slots, and so many that all but one
\* in LoadDivisor are n.
LEMMA NeededBound ==
  ASSUME NEW n \in Nat, NEW m \in Nat, m = LoadDivisor - 1
  PROVE  /\ NeededSlots(n) \in Nat /\ NeededSlots(n) =< 2 * n
         /\ m * n + n =< m * NeededSlots(n)
<1>1. m >= 2 /\ LoadDivisor = m + 1
  BY HashTableAssumption
<1>2. PICK x \in Nat : x = n * LoadDivisor + LoadDivisor - 2
  <2>1. n * (m + 1) = n * m + n /\ n * m \in Nat
    OBVIOUS
  <2> QED  BY <1>1, <2>1
<1>3. x = m * n + n + m - 1
  BY <1>1, <1>2
<1>4. PICK q \in Nat, r \in 0 .. m - 1 : x = m * q + r /\ x \div m = q
  BY <1>1, Division
<1>5. NeededSlots(n) = q
  BY <1>1, <1>2, <1>4 DEF NeededSlots
<1>6. ~(q > 2 * n)
  <2> SUFFICES ASSUME q > 2 * n PROVE FALSE
    OBVIOUS
  <2>1. m * (2 * n + 1) =< m * q
    BY <1>1, TimesMonotone
  <2>2. m * (2 * n + 1) = m * n + m * n + m
    OBVIOUS
  <2>3. n * 2 =< n * m
    BY <1>1, TimesMonotone
  <2> QED  BY <1>3, <1>4, <2>1, <2>2, <2>3
<1>7. m * n + n =< m * q
  BY <1>3, <1>4
<1> QED  BY <1>5, <1>6, <1>7

LEMMA SlotsForSized ==
  ASSUME NEW n \in Nat \ {0}
  PROVE  SlotsFor(n) \in Nat /\ Sized(SlotsFor(n)) /\ SlotsFor(n) >= NeededSlots(n)
<1> DEFINE C == {c \in {GroupWidth * g : g \in PowersOfTwo(2 * n)} : c >= NeededSlots(n)}
<1>1. \A g \in PowersOfTwo(2 * n) : g \in Nat /\ Power(g)
  BY DEF PowersOfTwo, Power
<1>2. C \in SUBSET Nat
  BY <1>1, GroupWidthType
<1>3. C # {}
  <2>1. PICK g \in Nat : Power(g) /\ n =< g /\ g =< 2 * n
    BY PowerBetween
  <2>2. g \in PowersOfTwo(2 * n)
    BY <2>1 DEF Power, PowersOfTwo
  <2>3. g * 3 =< g * GroupWidth
    BY GroupWidthType, TimesMonotone
  <2>4. PICK m \in Nat : m = LoadDivisor - 1
    BY HashTableAssumption
  <2>5. NeededSlots(n) \in Nat /\ NeededSlots(n) =< 2 * n
    BY <2>4, NeededBound
  <2>6. 2 * n =< 3 * g
    BY <2>1
  <2>7. GroupWidth * g >= NeededSlots(n)
    BY <2>3, <2>5, <2>6, GroupWidthType
  <2> QED  BY <2>2, <2>7
<1>4. SlotsFor(n) = Min(C)
  BY DEF SlotsFor
<1>5. Min(C) \in C
  BY <1>2, <1>3, MinIsLeast
<1>6. \A c \in C : Sized(c) /\ c >= NeededSlots(n)
  BY <1>1 DEF Sized
<1> QED  BY <1>2, <1>4, <1>5, <1>6

\* reserve of more slots than the table has.
LEMMA ReserveSound ==
  ASSUME hash \in HashFunctions, NEW t, Sound(t), NEW n \in Nat \ {0}, SlotsFor(n) > t.capacity,
         NEW u, u = RehashTo(t, SlotsFor(n))
  PROVE  Sound(u) /\ u.entries = t.entries /\ u.capacity = SlotsFor(n)
<1>1. PICK c \in Nat : c = SlotsFor(n) /\ Sized(c)
  BY SlotsForSized
<1>2. PICK m, b \in Nat : m = Size(t) /\ b = t.capacity /\ b < c
  BY <1>1, SoundType
<1>3. c >= GroupWidth
  BY <1>1, SizedType
<1>4. MaxLoad(b) \in Nat /\ MaxLoad(c) \in Nat /\ MaxLoad(b) =< MaxLoad(c)
  BY <1>2, LoadMonotone
<1>5. m =< MaxLoad(c)
  BY <1>2, <1>4, SoundType DEF Sound
<1> QED  BY <1>1, <1>2, <1>5, RehashSound

-----------------------------------------------------------------------------
(* The invariant *)

IInv ==
    /\ Sound(table) /\ table.capacity =< MaxCapacity
    /\ hash \in HashFunctions
    /\ panicked = FALSE

LEMMA AllocatedSound ==
  ASSUME NEW n \in Nat, n # 0 => Sized(n), NEW u, u = Allocated(<<>>, n)
  PROVE  Sound(u) /\ Contained(u) = {} /\ u.capacity = n
<1>1. <<>> \in Seq(Keys) /\ Len(<<>>) = 0
  OBVIOUS
<1>2. ASSUME NEW e \in Seq(Keys), Len(e) = 0, u = Allocated(e, n)
      PROVE  /\ Good(u, 0) /\ u.entries = e /\ u.capacity = n
             /\ u.tombstones = 0 /\ DeletedSlots(u) = {}
  <2>1. \A i, j \in Slots(Len(e)) : e[i + 1] = e[j + 1] => i = j
    BY <1>2 DEF Slots
  <2>2. u = Allocated(e, n)
    BY <1>2
  <2> QED  BY <2>1, <2>2, AllocatedGood
<1>3. /\ Good(u, 0) /\ u.capacity = n /\ Len(u.entries) = 0
      /\ u.tombstones = 0 /\ DeletedSlots(u) = {}
  BY <1>1, <1>2
<1>4. Size(u) = 0 /\ Contained(u) = {}
  BY <1>3 DEF Size, Contained, Slots
<1>5. Cardinality(DeletedSlots(u)) = 0
  BY <1>3, FS_EmptySet
<1>6. MaxLoad(n) \in Nat
  <2>1. n =< n
    OBVIOUS
  <2> QED  BY <2>1, LoadMonotone
<1> QED  BY <1>3, <1>4, <1>5, <1>6 DEF Sound

\* A lookup sees the keys of the entries.
LEMMA LookupSees ==
  ASSUME hash \in HashFunctions, NEW t, Sound(t), NEW k \in Keys
  PROVE  HasKey(t, k) <=> k \in Contained(t)
  BY LookupExact DEF Sound

LEMMA TryInsertSound ==
  ASSUME IInv, NEW k \in Keys, TryInsert(k), NEW u, u = table'
  PROVE  /\ Sound(u) /\ u.capacity =< MaxCapacity
         /\ k \notin Contained(table) /\ Contained(u) = Contained(table) \cup {k}
<1>1. k \notin Contained(table)
  BY LookupSees DEF IInv, TryInsert
<1>2. u = InsertUnique(table, k) /\ EnsureGrowthRoom(table).capacity =< MaxCapacity
  BY DEF TryInsert
<1>3. Sound(u) /\ Contained(u) = Contained(table) \cup {k} /\ u.capacity = EnsureGrowthRoom(table).capacity
  BY <1>1, <1>2, InsertSound DEF IInv
<1> QED  BY <1>1, <1>2, <1>3

\* find_or_emplace does not get to its panic.
LEMMA FindOrEmplaceSound ==
  ASSUME IInv, NEW k \in Keys, FindOrEmplace(k), NEW u, u = table'
  PROVE  /\ Sound(u) /\ u.capacity =< MaxCapacity
         /\ Contained(u) = Contained(table) \cup {k}
         /\ k \in Contained(table) => u.entries = table.entries
         /\ panicked' = FALSE
<1>1. PICK t : t = EnsureGrowthRoom(table)
  OBVIOUS
<1>2. Sound(t) /\ Roomy(t) /\ t.entries = table.entries
  BY <1>1, GrowthSound DEF IInv
<1>3. Contained(t) = Contained(table)
  BY <1>2 DEF Contained, Size, EntryAt
<1>4. \E i \in Steps(t) : HasEmpty(t, k, i)
  BY <1>2, SoundRoom DEF IInv, Roomy
<1>5. /\ t.capacity =< MaxCapacity
      /\ \/ HasKey(t, k) /\ u = t /\ panicked' = panicked
         \/ ~HasKey(t, k) /\ u = Emplace(t, k) /\ panicked' = panicked
  BY <1>1, <1>4 DEF FindOrEmplace
<1>6. CASE HasKey(t, k) /\ u = t /\ panicked' = panicked
  <2>1. k \in Contained(t)
    BY <1>2, <1>6, LookupSees DEF IInv
  <2> QED  BY <1>2, <1>3, <1>5, <1>6, <2>1 DEF IInv
<1>7. CASE ~HasKey(t, k) /\ u = Emplace(t, k) /\ panicked' = panicked
  <2>1. k \notin Contained(t)
    BY <1>2, <1>7, LookupSees DEF IInv
  <2>2. Sound(u) /\ Contained(u) = Contained(t) \cup {k} /\ u.capacity = t.capacity
    BY <1>2, <1>7, <2>1, EmplaceSound DEF IInv
  <2>3. k \notin Contained(table)
    BY <1>3, <2>1
  <2> QED  BY <1>3, <1>5, <1>7, <2>2, <2>3 DEF IInv
<1> QED  BY <1>5, <1>6, <1>7

LEMMA EraseSound ==
  ASSUME IInv, NEW k \in Keys, Erase(k), NEW u, u = table'
  PROVE  /\ Sound(u) /\ u.capacity =< MaxCapacity
         /\ k \in Contained(table) /\ Contained(u) = Contained(table) \ {k}
<1>1. k \in Contained(table) /\ u = Erased(table, k)
  BY LookupSees DEF IInv, Erase
<1>2. Sound(u) /\ Contained(u) = Contained(table) \ {k} /\ u.capacity = table.capacity
  BY <1>1, ErasedSound DEF IInv
<1> QED  BY <1>1, <1>2 DEF IInv

LEMMA ReserveStepSound ==
  ASSUME IInv, NEW n \in 1 .. MaxReserve, Reserve(n), NEW u, u = table'
  PROVE  /\ Sound(u) /\ u.capacity =< MaxCapacity
         /\ u.entries = table.entries /\ Contained(u) = Contained(table)
<1>1. SlotsFor(n) > table.capacity /\ SlotsFor(n) =< MaxCapacity /\ u = RehashTo(table, SlotsFor(n))
  BY DEF Reserve
<1>2. n \in Nat \ {0}
  BY HashTableAssumption
<1>3. Sound(u) /\ u.entries = table.entries /\ u.capacity = SlotsFor(n)
  BY <1>1, <1>2, ReserveSound DEF IInv
<1>4. Contained(u) = Contained(table)
  BY <1>3 DEF Contained, Size, EntryAt
<1> QED  BY <1>1, <1>3, <1>4

LEMMA EmptiedSound ==
  ASSUME IInv, Clear \/ MoveFrom, NEW u, u = table'
  PROVE  Sound(u) /\ u.capacity =< MaxCapacity /\ Contained(u) = {} /\ u.entries = <<>>
<1>1. PICK n \in Nat : u = Allocated(<<>>, n) /\ (n # 0 => Sized(n)) /\ n =< MaxCapacity
  <2>1. table.capacity \in Nat /\ (table.capacity # 0 => Sized(table.capacity))
    BY SoundType DEF IInv, WellFormed
  <2> QED  BY <2>1, HashTableAssumption DEF Clear, MoveFrom, IInv
<1>2. Sound(u) /\ Contained(u) = {} /\ u.capacity = n
  BY <1>1, AllocatedSound
<1>3. u.entries = <<>>
  BY <1>1 DEF Allocated
<1> QED  BY <1>1, <1>2, <1>3

LEMMA StepSound ==
  ASSUME IInv, [Next]_vars, NEW u, u = table'
  PROVE  /\ Sound(u) /\ u.capacity =< MaxCapacity
         /\ hash' = hash /\ panicked' = FALSE
<1>1. ASSUME NEW k \in Keys, TryInsert(k) \/ FindOrEmplace(k) \/ Erase(k)
      PROVE  /\ Sound(u) /\ u.capacity =< MaxCapacity
             /\ hash' = hash /\ panicked' = FALSE
  <2>1. hash' = hash
    BY <1>1 DEF TryInsert, FindOrEmplace, Erase
  <2>2. CASE TryInsert(k)
    BY <2>1, <2>2, TryInsertSound DEF TryInsert, IInv
  <2>3. CASE FindOrEmplace(k)
    BY <2>1, <2>3, FindOrEmplaceSound
  <2>4. CASE Erase(k)
    BY <2>1, <2>4, EraseSound DEF Erase, IInv
  <2> QED  BY <1>1, <2>2, <2>3, <2>4
<1>2. ASSUME NEW n \in 1 .. MaxReserve, Reserve(n)
      PROVE  /\ Sound(u) /\ u.capacity =< MaxCapacity
             /\ hash' = hash /\ panicked' = FALSE
  BY <1>2, ReserveStepSound DEF Reserve, IInv
<1>3. CASE Clear \/ MoveFrom
  BY <1>3, EmptiedSound DEF Clear, MoveFrom, IInv
<1>4. CASE UNCHANGED vars
  <2>1. u = table /\ hash' = hash /\ panicked' = panicked
    BY <1>4 DEF vars
  <2> QED  BY <2>1 DEF IInv
<1> QED  BY <1>1, <1>2, <1>3, <1>4 DEF Next

\* A table is as sound after a step as the value it takes in it.
LEMMA SoundPrimed ==
  ASSUME NEW u, u = table', hash' = hash
  PROVE  /\ Sound(u) => Sound(table)'
         /\ Contained(table)' = Contained(u)
<1>1. /\ Size(table)' = Size(u) /\ Full(table)' = Full(u)
      /\ DeletedSlots(table)' = DeletedSlots(u) /\ Contained(table)' = Contained(u)
      /\ Steps(table)' = Steps(u)
  BY DEF Size, Full, DeletedSlots, Contained, EntryAt, Steps, GroupCount
<1>2. WellFormed(u) => WellFormed(table)'
  BY DEF WellFormed, IsTable, Size, EntryAt
<1>3. Indexed(u, Size(u)) => Indexed(table, Size(table))'
  BY <1>1 DEF Indexed, EntryAt
<1>4. Probed(u) => Probed(table)'
  BY <1>1 DEF Probed, Reaches, HasEmpty, GroupSlots, Group, GroupCount, EntryAt
<1> QED  BY <1>1, <1>2, <1>3, <1>4 DEF Sound, Good

LEMMA Inductive == Spec => []IInv
<1>1. Init => IInv
  <2> SUFFICES ASSUME Init PROVE IInv
    OBVIOUS
  <2>1. table = Allocated(<<>>, 0) /\ hash \in HashFunctions /\ panicked = FALSE
    BY DEF Init
  <2>2. Sound(table) /\ table.capacity = 0
    BY <2>1, AllocatedSound
  <2> QED  BY <2>1, <2>2, HashTableAssumption DEF IInv
<1>2. IInv /\ [Next]_vars => IInv'
  <2> SUFFICES ASSUME IInv, [Next]_vars PROVE IInv'
    OBVIOUS
  <2>1. PICK u : u = table'
    OBVIOUS
  <2>2. /\ Sound(u) /\ u.capacity =< MaxCapacity
        /\ hash' = hash /\ panicked' = FALSE
    BY <2>1, StepSound
  <2>3. Sound(table)'
    BY <2>1, <2>2, SoundPrimed
  <2> QED  BY <2>1, <2>2, <2>3 DEF IInv
<1> QED  BY <1>1, <1>2, PTL DEF Spec

-----------------------------------------------------------------------------
(* Theorems *)

\* The table has its type, and its arrays the length of its capacity, which is
\* zero or a group doubled (rehash_to).
THEOREM TypeCorrect == Spec => []TypeOK
<1>1. ASSUME IInv PROVE TypeOK
  <2>1. /\ WellFormed(table) /\ Size(table) \in Nat
        /\ table.tombstones \in Nat /\ table.capacity \in Nat
    BY <1>1, SoundType DEF IInv
  <2>2. CASE table.capacity = 0
    <3>1. Size(table) + table.tombstones =< MaxLoad(0) /\ MaxLoad(0) = 0
      BY <1>1, <2>2, HashTableAssumption DEF IInv, Sound, MaxLoad
    <3>2. table.tombstones \in 0 .. MaxCapacity
      BY <2>1, <3>1, HashTableAssumption
    <3> QED  BY <1>1, <2>1, <2>2, <3>2, HashTableAssumption DEF TypeOK, IInv, WellFormed, Marks, Free
  <2>3. CASE table.capacity # 0
    <3>1. PICK g \in Nat : Power(g) /\ table.capacity = GroupWidth * g
      BY <2>1, <2>3 DEF WellFormed, Sized
    <3>2. g * 1 =< g * GroupWidth
      BY GroupWidthType, TimesMonotone
    <3>3. g \in PowersOfTwo(MaxCapacity)
      BY <1>1, <3>1, <3>2, GroupWidthType, HashTableAssumption DEF Power, PowersOfTwo, IInv
    <3>4. MaxLoad(table.capacity) \in Nat /\ MaxLoad(table.capacity) < table.capacity
      BY <2>1, <2>3, SizedType, LoadBelow DEF WellFormed
    <3>5. table.tombstones \in 0 .. MaxCapacity
      BY <1>1, <2>1, <3>4, HashTableAssumption DEF IInv, Sound
    <3> QED  BY <1>1, <2>1, <3>1, <3>3, <3>5 DEF TypeOK, IInv, WellFormed, Marks, Free
  <2> QED  BY <2>2, <2>3
<1>2. IInv => TypeOK
  BY <1>1
<1> QED  BY <1>2, Inductive, PTL

\* Full slots and entries correspond one to one through every insert,
\* swap-remove, reuse of an erased slot and rehash.
THEOREM IndexExactHolds == Spec => []IndexExact
<1>1. ASSUME IInv PROVE IndexExact
  <2>1. Indexed(table, Size(table))
    BY <1>1, SoundType DEF IInv
  <2>2. ASSUME NEW i \in Slots(Size(table))
        PROVE  Cardinality({s \in Full(table) : table.index[s] = i}) = 1
    <3>1. PICK r \in Full(table) : table.index[r] = i
      BY <2>1 DEF Indexed
    <3>2. {s \in Full(table) : table.index[s] = i} = {r}
      BY <2>1, <3>1 DEF Indexed
    <3> QED  BY <3>2, FS_Singleton
  <2> QED  BY <2>1, <2>2 DEF IndexExact, Indexed
<1>2. IInv => IndexExact
  BY <1>1
<1> QED  BY <1>2, Inductive, PTL

\* place_unique, relocate_index and lookups, whose loops have no bound, end for
\* every key and every hash function, and find_or_emplace never panics: the
\* probe visits every group of a power of two of them, and one has an empty slot.
THEOREM ProbesEndHolds == Spec => []ProbesEnd
<1>1. ASSUME IInv PROVE ProbesEnd
  BY <1>1, SoundRoom DEF IInv, ProbesEnd
<1>2. IInv => ProbesEnd
  BY <1>1
<1> QED  BY <1>2, Inductive, PTL

\* m_tombstones is never below the number of erased slots, so the decrement of
\* find_or_emplace does not wrap, and the load stays within its limit.
THEOREM TombstonesCountedHolds == Spec => []TombstonesCounted
<1>1. IInv => TombstonesCounted
  BY DEF IInv, Sound, DeletedSlots, TombstonesCounted
<1> QED  BY <1>1, Inductive, PTL

\* Lookups see the keys of the entries, each of them and no other.
LEMMA SeenKeys == IInv => LookupsExact
<1> SUFFICES ASSUME IInv PROVE Seen = Contained(table)
  BY DEF LookupsExact, Contained
<1>1. \A k \in Keys : HasKey(table, k) <=> k \in Contained(table)
  BY LookupSees DEF IInv
<1>2. Contained(table) \subseteq Keys
  BY SoundType, EntryType DEF IInv, Contained
<1> QED  BY <1>1, <1>2 DEF Seen

\* contains, get and erase find exactly the entries.
THEOREM LookupsExactHolds == Spec => []LookupsExact
  BY SeenKeys, Inductive, PTL

LEMMA SeenPrimed ==
  ASSUME IInv, IInv', NEW u, u = table', hash' = hash
  PROVE  Seen = Contained(table) /\ Seen' = Contained(u)
<1>1. Seen = Contained(table)
  BY SeenKeys DEF LookupsExact, Contained
<1>2. LookupsExact'
  BY SeenKeys, PTL
<1>3. Seen' = Contained(table)'
  BY <1>2 DEF LookupsExact, Contained
<1> QED  BY <1>1, <1>3, SoundPrimed

\* What each operation does to the keys that lookups see.
Effects ==
    /\ \A k \in Keys :
        /\ TryInsert(k) => k \notin Seen /\ Seen' = Seen \cup {k}
        /\ FindOrEmplace(k) => Seen' = Seen \cup {k}
        /\ Erase(k) => k \in Seen /\ Seen' = Seen \ {k}
    /\ \A n \in 1 .. MaxReserve : Reserve(n) => Seen' = Seen
    /\ Clear \/ MoveFrom => Seen' = {}

EffectsExact == [][Effects]_vars

LEMMA StepEffects ==
  ASSUME IInv, IInv', [Next]_vars
  PROVE  Effects
<1>1. PICK u : u = table'
  OBVIOUS
<1>2. hash' = hash
  BY <1>1, StepSound
<1>3. Seen = Contained(table) /\ Seen' = Contained(u)
  BY <1>1, <1>2, SeenPrimed
<1>4. ASSUME NEW k \in Keys
      PROVE  /\ TryInsert(k) => k \notin Seen /\ Seen' = Seen \cup {k}
             /\ FindOrEmplace(k) => Seen' = Seen \cup {k}
             /\ Erase(k) => k \in Seen /\ Seen' = Seen \ {k}
  BY <1>1, <1>3, TryInsertSound, FindOrEmplaceSound, EraseSound
<1>5. ASSUME NEW n \in 1 .. MaxReserve, Reserve(n) PROVE Seen' = Seen
  BY <1>1, <1>3, <1>5, ReserveStepSound
<1>6. ASSUME Clear \/ MoveFrom PROVE Seen' = {}
  BY <1>1, <1>3, <1>6, EmptiedSound
<1> QED  BY <1>4, <1>5, <1>6 DEF Effects

\* Each operation does to what lookups see exactly what its name says: an insert
\* adds its key alone, also when it grows or cleans the table; erase takes its
\* key alone, although it moves another entry; reserve hides none.
THEOREM EffectsExactHold == Spec => EffectsExact
<1>1. IInv /\ IInv' /\ [Next]_vars => [Effects]_vars
  BY StepEffects
<1> QED  BY <1>1, Inductive, PTL DEF Spec, EffectsExact

\* A step that changes nothing that lookups see leaves the entries alone.
LEMMA UnseenKeepsEntries ==
  ASSUME IInv, IInv', Next, Effects, Seen' = Seen
  PROVE  table'.entries = table.entries
<1>1. PICK u : u = table'
  OBVIOUS
<1>2. hash' = hash
  BY <1>1, StepSound
<1>3. Seen = Contained(table) /\ Seen' = Contained(u)
  BY <1>1, <1>2, SeenPrimed
<1>4. ASSUME NEW k \in Keys, TryInsert(k) \/ Erase(k) PROVE FALSE
  BY <1>4 DEF Effects
<1>5. ASSUME NEW k \in Keys, FindOrEmplace(k) PROVE u.entries = table.entries
  <2>1. k \in Contained(table)
    BY <1>3, <1>5 DEF Effects
  <2> QED  BY <1>1, <1>5, <2>1, FindOrEmplaceSound
<1>6. ASSUME NEW n \in 1 .. MaxReserve, Reserve(n) PROVE u.entries = table.entries
  BY <1>1, <1>6, ReserveStepSound
<1>7. ASSUME Clear \/ MoveFrom PROVE u.entries = table.entries
  <2>1. u.entries = <<>> /\ Contained(table) = {}
    BY <1>1, <1>3, <1>7, EmptiedSound
  <2>2. table.entries \in Seq(Keys) /\ Size(table) \in Nat
    BY SoundType DEF IInv, WellFormed
  <2>3. ~(0 \in Slots(Size(table)))
    BY <2>1 DEF Contained
  <2>4. Len(table.entries) = 0
    BY <2>2, <2>3 DEF Slots, Size
  <2> QED  BY <2>1, <2>2, <2>4
<1> QED  BY <1>1, <1>4, <1>5, <1>6, <1>7 DEF Next

LEMMA StepExact ==
  ASSUME IInv, IInv', Next
  PROVE  OperationExact
<1> DEFINE seen == Seen
           after == Seen'
<1>1. Effects
  BY StepEffects
<1>2. seen \subseteq Keys /\ after \subseteq Keys
  BY DEF Seen
<1>3. after = seen => table'.entries = table.entries
  BY <1>1, UnseenKeepsEntries
<1>4. ASSUME NEW k \in after \ seen
      PROVE  after = seen \cup {k} /\ (TryInsert(k) \/ FindOrEmplace(k))
  BY <1>1, <1>4 DEF Effects, Next
<1>5. ASSUME NEW k \in seen \ after
      PROVE  \/ after = seen \ {k} /\ Erase(k)
             \/ after = {} /\ (Clear \/ MoveFrom)
  BY <1>1, <1>5 DEF Effects, Next
<1> QED  BY <1>3, <1>4, <1>5 DEF OperationExact

\* A key that appears in what lookups see was inserted, alone; one that disappears
\* was erased, alone, or went with all others; and a step that changes nothing seen
\* adds and takes no entry.
THEOREM OperationsExactHold == Spec => OperationsExact
<1>1. IInv /\ IInv' /\ [Next]_vars => [OperationExact]_vars
  BY StepExact
<1> QED  BY <1>1, Inductive, PTL DEF Spec, OperationsExact

\* After reserve(n) a table takes n entries without another rehash: n is within
\* the load of the slots it has made, up to the last one.
THEOREM ReserveSuffices == ASSUME NEW n \in Nat \ {0} PROVE n =< MaxLoad(SlotsFor(n))
<1>1. PICK m, l \in Nat : m = LoadDivisor - 1 /\ l = LoadDivisor /\ l = m + 1 /\ m >= 2
  BY HashTableAssumption
<1>2. PICK c \in Nat : c = SlotsFor(n) /\ c >= NeededSlots(n)
  BY SlotsForSized
<1>3. PICK p \in Nat, s \in 0 .. l - 1 : c = l * p + s /\ c \div l = p
  BY <1>1, Division
<1>4. MaxLoad(c) = m * p + s
  BY <1>1, <1>3 DEF MaxLoad
<1>5. m * n + n =< m * c
  <2>1. NeededSlots(n) \in Nat /\ m * n + n =< m * NeededSlots(n)
    BY <1>1, NeededBound
  <2>2. m * NeededSlots(n) =< m * c
    BY <1>2, <2>1, TimesMonotone
  <2> QED  BY <2>1, <2>2
<1>6. m * c = m * (m * p + s) + m * p
  BY <1>1, <1>3
<1>7. ~(m * p + s < n)
  <2> SUFFICES ASSUME m * p + s < n PROVE FALSE
    OBVIOUS
  <2>1. PICK y \in Nat : y = m * p + s
    OBVIOUS
  <2>2. m * y =< m * n
    BY <2>1, TimesMonotone
  <2>3. m * p =< y
    BY <2>1
  <2> QED  BY <1>5, <1>6, <2>1, <2>2, <2>3
<1> QED  BY <1>2, <1>4, <1>7
=============================================================================
