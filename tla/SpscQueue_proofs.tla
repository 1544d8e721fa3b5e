------------------------- MODULE SpscQueue_proofs --------------------------
(***************************************************************************)
(* For every capacity, every width of the positions and every set of       *)
(* values: SpscQueue keeps its types, never mishandles a slot and leaks    *)
(* nothing.  The inductive invariant says where each slot stands between   *)
(* the two positions and how far behind the two loaded positions may be.   *)
(***************************************************************************)
EXTENDS SpscQueue, SequenceTheorems, TLAPS

-----------------------------------------------------------------------------
(* The inductive invariant *)

\* How many positions the slot lies behind the read position.
Off(s) == (s - SlotOf(m_read_pos)) % Capacity
Used == Dist(m_read_pos, m_write_pos)

\* What the slot must hold, from its place in the window of used positions.
SlotState(s) ==
    /\ Off(s) < Used /\ Off(s) # 0 => m_slots[s] \in Values
    /\ Off(s) < Used /\ Off(s) = 0 =>
          /\ pop_pc \in {"idle", "move"} => m_slots[s] \in Values
          /\ pop_pc = "destroy" => m_slots[s] = MovedFrom
          /\ pop_pc = "publish" => m_slots[s] = Raw
    /\ Off(s) = Used /\ push_pc = "publish" => m_slots[s] = push_value
    /\ Off(s) >= Used /\ ~(Off(s) = Used /\ push_pc = "publish") => m_slots[s] = Raw

\* seen_read, m_read_pos, seen_write and m_write_pos follow one another on the
\* circle of positions, and no producer step works with more than Capacity.
Window ==
    /\ Dist(seen_read, m_write_pos) =< Capacity
    /\ Dist(seen_read, m_read_pos) =< Dist(seen_read, m_write_pos)
    /\ Dist(m_read_pos, seen_write) =< Used
    /\ push_pc # "idle" => Dist(seen_read, m_write_pos) < Capacity
    /\ pop_pc # "idle" => seen_write # m_read_pos

Control ==
    /\ push_pc # "idle" => push_value \in Values
    /\ phase # "alive" => push_pc = "idle"
    /\ phase = "destroyed" => pop_pc = "idle" /\ m_read_pos = m_write_pos

IInv ==
    /\ TypeOK
    /\ Window
    /\ Control
    /\ \A s \in Slot : SlotState(s)
-----------------------------------------------------------------------------
(* Arithmetic of positions and slots *)

LEMMA Constants ==
    /\ Capacity \in Nat \ {0} /\ IndexModulus \in Nat \ {0}
    /\ Capacity < IndexModulus
    /\ IndexModulus = Capacity * (IndexModulus \div Capacity)
    /\ IndexModulus \div Capacity \in Int
  BY SpscAssumption, SMT

\* The remainder of a number at most one modulus out of range.
LEMMA ModNear ==
    ASSUME NEW c \in Nat \ {0}, NEW x \in Int, -c =< x, x < c
    PROVE  x % c = IF x < 0 THEN x + c ELSE x
  BY SMT

\* The subtraction of positions, without the remainder.
LEMMA DistValue ==
    ASSUME NEW p \in Index, NEW q \in Index
    PROVE  /\ Dist(p, q) = IF p =< q THEN q - p ELSE q - p + IndexModulus
           /\ Dist(p, q) \in 0 .. IndexModulus - 1
<1> DEFINE x == q - p
<1>1. /\ IndexModulus \in Nat \ {0}
      /\ p \in 0 .. IndexModulus - 1 /\ q \in 0 .. IndexModulus - 1
  BY Constants DEF Index
<1>2. x \in Int /\ -IndexModulus =< x /\ x < IndexModulus
  BY <1>1
<1>3. Dist(p, q) = IF x < 0 THEN x + IndexModulus ELSE x
  BY <1>1, <1>2, ModNear DEF Dist
<1> QED  BY <1>1, <1>3

LEMMA SuccValue ==
    ASSUME NEW p \in Index
    PROVE  /\ Succ(p) = IF p = IndexModulus - 1 THEN 0 ELSE p + 1
           /\ Succ(p) \in Index
<1>1. CASE p = IndexModulus - 1
  BY <1>1, Constants, SMT DEF Succ, Index
<1>2. CASE p # IndexModulus - 1
  BY <1>2, Constants, SMT DEF Succ, Index
<1> QED  BY <1>1, <1>2

\* Publishing one more position, or leaving one behind, moves the distance by one.
LEMMA DistSucc ==
    ASSUME NEW p \in Index, NEW q \in Index
    PROVE  /\ Dist(p, q) < IndexModulus - 1 => Dist(p, Succ(q)) = Dist(p, q) + 1
           /\ p # q => Dist(Succ(p), q) = Dist(p, q) - 1
           /\ Dist(p, q) = 0 <=> p = q
<1>1. Succ(p) \in Index /\ Succ(q) \in Index
  BY SuccValue
<1>2. /\ IndexModulus \in Nat \ {0}
      /\ p \in 0 .. IndexModulus - 1 /\ q \in 0 .. IndexModulus - 1
  BY Constants DEF Index
<1>3. /\ Dist(p, q) = IF p =< q THEN q - p ELSE q - p + IndexModulus
      /\ Dist(p, Succ(q)) = IF p =< Succ(q) THEN Succ(q) - p ELSE Succ(q) - p + IndexModulus
      /\ Dist(Succ(p), q) = IF Succ(p) =< q THEN q - Succ(p) ELSE q - Succ(p) + IndexModulus
      /\ Succ(p) = IF p = IndexModulus - 1 THEN 0 ELSE p + 1
      /\ Succ(q) = IF q = IndexModulus - 1 THEN 0 ELSE q + 1
  BY <1>1, DistValue, SuccValue
<1> QED  BY <1>2, <1>3

\* Distances along the circle add up as long as the way does not pass q.
LEMMA DistSplit ==
    ASSUME NEW p \in Index, NEW m \in Index, NEW q \in Index, Dist(p, m) =< Dist(p, q)
    PROVE  Dist(p, q) = Dist(p, m) + Dist(m, q)
<1>1. /\ IndexModulus \in Nat \ {0} /\ p \in 0 .. IndexModulus - 1
      /\ m \in 0 .. IndexModulus - 1 /\ q \in 0 .. IndexModulus - 1
  BY Constants DEF Index
<1>2. /\ Dist(p, q) = IF p =< q THEN q - p ELSE q - p + IndexModulus
      /\ Dist(p, m) = IF p =< m THEN m - p ELSE m - p + IndexModulus
      /\ Dist(m, q) = IF m =< q THEN q - m ELSE q - m + IndexModulus
  BY DistValue
<1> QED  BY <1>1, <1>2

LEMMA SlotValue ==
    ASSUME NEW p \in Index
    PROVE  /\ SlotOf(p) \in Slot
           /\ p = Capacity * (p \div Capacity) + SlotOf(p)
           /\ p \div Capacity \in Int
  BY Constants, SMT DEF SlotOf, Slot, Index

LEMMA ModOfMultiple ==
    ASSUME NEW c \in Nat \ {0}, NEW k \in Int, NEW y \in 0 .. c - 1
    PROVE  (c * k + y) % c = y
  BY SMT

\* Positions less than Capacity apart are as far apart as their slots, and
\* positions Capacity apart share a slot, also across the wrap.
LEMMA SlotDist ==
    ASSUME NEW p \in Index, NEW q \in Index
    PROVE  /\ Dist(p, q) < Capacity => (SlotOf(q) - SlotOf(p)) % Capacity = Dist(p, q)
           /\ Dist(p, q) = Capacity => SlotOf(q) = SlotOf(p)
<1> DEFINE d == Dist(p, q)
           a == p \div Capacity
           b == q \div Capacity
           l == IndexModulus \div Capacity
           w == IF p =< q THEN 0 ELSE l
<1>1. d = q - p + Capacity * w /\ w \in Int /\ d \in Nat
  <2>1. d = (IF p =< q THEN q - p ELSE q - p + IndexModulus) /\ d \in 0 .. IndexModulus - 1
    BY DistValue
  <2>2. IndexModulus = Capacity * l /\ l \in Int /\ Capacity * 0 = 0
    BY Constants, SMT
  <2>3. IndexModulus \in Nat /\ p \in Int /\ q \in Int
    BY Constants DEF Index
  <2> QED  BY <2>1, <2>2, <2>3
<1>2. /\ p = Capacity * a + SlotOf(p) /\ q = Capacity * b + SlotOf(q)
      /\ a \in Int /\ b \in Int /\ SlotOf(p) \in Slot /\ SlotOf(q) \in Slot
  BY SlotValue
<1> HIDE DEF d, a, b, w
<1>3. SlotOf(q) - SlotOf(p) = Capacity * (a - b - w) + d
  <2>1. /\ Capacity \in Int /\ p \in Int /\ q \in Int
        /\ SlotOf(p) \in Int /\ SlotOf(q) \in Int /\ d \in Int
    BY <1>1, <1>2, Constants DEF Index, Slot
  <2>2. PICK x \in Int : x = Capacity * a
    BY <2>1, <1>2
  <2>3. PICK y \in Int : y = Capacity * b
    BY <2>1, <1>2
  <2>4. PICK z \in Int : z = Capacity * w
    BY <2>1, <1>1
  <2>5. Capacity * (a - b - w) = x - y - z
    BY <2>1, <2>2, <2>3, <2>4, <1>1, <1>2
  <2>6. p = x + SlotOf(p) /\ q = y + SlotOf(q) /\ d = q - p + z
    BY <2>2, <2>3, <2>4, <1>1, <1>2
  <2> QED  BY <2>1, <2>5, <2>6
<1>4. ASSUME d < Capacity PROVE (SlotOf(q) - SlotOf(p)) % Capacity = d
  <2>1. a - b - w \in Int /\ d \in 0 .. Capacity - 1
    BY <1>1, <1>2, <1>4, Constants
  <2> QED  BY <2>1, <1>3, Constants, ModOfMultiple
<1>5. ASSUME d = Capacity PROVE SlotOf(q) = SlotOf(p)
  <2>1. SlotOf(q) - SlotOf(p) = Capacity * (a - b - w + 1)
    BY <1>1, <1>2, <1>3, <1>5, Constants, SMT
  <2>2. SlotOf(q) - SlotOf(p) \in -(Capacity - 1) .. Capacity - 1
    BY <1>2, Constants DEF Slot
  <2>3. a - b - w + 1 = 0
    BY <2>1, <2>2, <1>1, <1>2, Constants, SMT
  <2> QED  BY <2>1, <2>3, <1>2, Constants, SMT DEF Slot
<1> QED  BY <1>4, <1>5 DEF d

\* The place of a slot, without the remainder.
LEMMA OffValue ==
    ASSUME m_read_pos \in Index, NEW s \in Slot
    PROVE  /\ Off(s) = IF SlotOf(m_read_pos) =< s THEN s - SlotOf(m_read_pos)
                       ELSE s - SlotOf(m_read_pos) + Capacity
           /\ Off(s) \in 0 .. Capacity - 1
<1> DEFINE x == s - SlotOf(m_read_pos)
<1>1. Capacity \in Nat \ {0} /\ s \in 0 .. Capacity - 1 /\ SlotOf(m_read_pos) \in 0 .. Capacity - 1
  BY Constants, SlotValue DEF Slot
<1>2. x \in Int /\ -Capacity =< x /\ x < Capacity
  BY <1>1
<1>3. Off(s) = IF x < 0 THEN x + Capacity ELSE x
  BY <1>1, <1>2, ModNear DEF Off
<1> QED  BY <1>1, <1>3

LEMMA SlotSucc ==
    ASSUME NEW p \in Index
    PROVE  SlotOf(Succ(p)) = IF SlotOf(p) = Capacity - 1 THEN 0 ELSE SlotOf(p) + 1
<1> DEFINE a == p \div Capacity
           l == IndexModulus \div Capacity
<1>1. /\ p = Capacity * a + SlotOf(p) /\ a \in Int /\ l \in Int
      /\ SlotOf(p) \in 0 .. Capacity - 1 /\ IndexModulus = Capacity * l
      /\ Capacity \in Nat \ {0} /\ p \in Int
  <2>1. SlotOf(p) \in Slot /\ p = Capacity * a + SlotOf(p) /\ a \in Int
    BY SlotValue
  <2>2. l \in Int /\ IndexModulus = Capacity * l /\ Capacity \in Nat \ {0}
    BY Constants
  <2>3. p \in Int /\ SlotOf(p) \in 0 .. Capacity - 1
    BY <2>1, Constants DEF Index, Slot
  <2> QED  BY <2>1, <2>2, <2>3
<1> HIDE DEF a, l
<1>2. CASE p = IndexModulus - 1
  <2>1. p = Capacity * (l - 1) + (Capacity - 1) /\ l - 1 \in Int
    BY <1>1, <1>2, SMT
  <2>2. SlotOf(p) = Capacity - 1
    BY <2>1, <1>1, ModOfMultiple DEF SlotOf
  <2>3. SlotOf(Succ(p)) = 0
    BY <1>1, <1>2, SuccValue, ModNear DEF SlotOf
  <2> QED  BY <2>2, <2>3
<1>3. CASE p # IndexModulus - 1
  <2>1. Succ(p) = p + 1
    BY <1>3, SuccValue
  <2>2. CASE SlotOf(p) = Capacity - 1
    <3>1. p + 1 = Capacity * (a + 1) + 0 /\ a + 1 \in Int /\ 0 \in 0 .. Capacity - 1
      BY <1>1, <2>2, SMT
    <3> QED  BY <3>1, <2>1, <2>2, <1>1, ModOfMultiple DEF SlotOf
  <2>3. CASE SlotOf(p) # Capacity - 1
    <3>1. p + 1 = Capacity * a + (SlotOf(p) + 1) /\ SlotOf(p) + 1 \in 0 .. Capacity - 1
      BY <1>1, <2>3, SMT
    <3>2. (p + 1) % Capacity = SlotOf(p) + 1
      BY <3>1, <1>1, ModOfMultiple
    <3> QED  BY <3>2, <2>1, <2>3 DEF SlotOf
  <2> QED  BY <2>2, <2>3
<1> QED  BY <1>2, <1>3

\* Where the slot of the next value and of the oldest value stand.
LEMMA OffEnds ==
    ASSUME m_read_pos \in Index, m_write_pos \in Index
    PROVE  /\ Off(SlotOf(m_read_pos)) = 0
           /\ Used < Capacity => Off(SlotOf(m_write_pos)) = Used
           /\ \A s, t \in Slot : Off(s) = Off(t) => s = t
<1>1. Off(SlotOf(m_read_pos)) = 0
  BY SlotValue, OffValue, Constants DEF Slot
<1>2. Used < Capacity => Off(SlotOf(m_write_pos)) = Used
  BY SlotDist DEF Off, Used
<1>3. ASSUME NEW s \in Slot, NEW t \in Slot, Off(s) = Off(t) PROVE s = t
  BY <1>3, OffValue, SlotValue, Constants DEF Slot
<1> QED  BY <1>1, <1>2, <1>3

\* Every slot comes one nearer when the read position is stored, and the one
\* left behind becomes the farthest.
LEMMA OffSucc ==
    ASSUME m_read_pos \in Index, NEW s \in Slot
    PROVE  (s - SlotOf(Succ(m_read_pos))) % Capacity =
              IF Off(s) = 0 THEN Capacity - 1 ELSE Off(s) - 1
<1> DEFINE r == SlotOf(m_read_pos)
           x == s - SlotOf(Succ(m_read_pos))
<1>1. /\ Capacity \in Nat \ {0} /\ s \in 0 .. Capacity - 1 /\ r \in 0 .. Capacity - 1
      /\ SlotOf(Succ(m_read_pos)) = IF r = Capacity - 1 THEN 0 ELSE r + 1
  BY Constants, SlotValue, SlotSucc DEF Slot
<1>2. Off(s) = IF r =< s THEN s - r ELSE s - r + Capacity
  BY OffValue
<1>3. x \in Int /\ -Capacity =< x /\ x < Capacity
  BY <1>1
<1>4. x % Capacity = IF x < 0 THEN x + Capacity ELSE x
  BY <1>1, <1>3, ModNear
<1> QED  BY <1>1, <1>2, <1>4

-----------------------------------------------------------------------------
(* The steps *)

\* The ranges every step works with.
LEMMA Ranges ==
    ASSUME IInv
    PROVE  /\ m_read_pos \in Index /\ m_write_pos \in Index
           /\ seen_read \in Index /\ seen_write \in Index
           /\ Used \in Nat /\ Used =< Capacity
           /\ \A s \in Slot : Off(s) \in 0 .. Capacity - 1
           /\ push_pc # "idle" => Used < Capacity
           /\ pop_pc # "idle" => Used > 0
           /\ Dist(seen_read, m_write_pos) = Dist(seen_read, m_read_pos) + Used
<1>1. m_read_pos \in Index /\ m_write_pos \in Index /\ seen_read \in Index /\ seen_write \in Index
  BY DEF IInv, TypeOK
<1>2. \A s \in Slot : Off(s) \in 0 .. Capacity - 1
  BY <1>1, OffValue
<1>3. Dist(seen_read, m_write_pos) = Dist(seen_read, m_read_pos) + Used
  BY <1>1, DistSplit DEF IInv, Window, Used
<1>4. /\ Used \in Nat /\ Dist(seen_read, m_read_pos) \in Nat
      /\ Dist(m_read_pos, seen_write) \in Nat /\ Capacity \in Nat
  BY <1>1, DistValue, Constants DEF Used
<1>5. pop_pc # "idle" => Dist(m_read_pos, seen_write) # 0
  BY <1>1, DistSucc DEF IInv, Window
<1> QED  BY <1>1, <1>2, <1>3, <1>4, <1>5 DEF IInv, Window

LEMMA InitInv == Init => IInv
<1> SUFFICES ASSUME Init PROVE IInv
  OBVIOUS
<1>1. 0 \in Index /\ Dist(0, 0) = 0 /\ Capacity \in Nat
  BY Constants, DistSucc DEF Index
<1>2. TypeOK
  BY <1>1 DEF Init, TypeOK, Phase, PushPc, PopPc
<1>3. Window /\ Control
  BY <1>1 DEF Init, Window, Control, Used
<1>4. ASSUME NEW s \in Slot PROVE SlotState(s)
  <2>1. Used = 0 /\ Off(s) \in Nat
    BY <1>1, OffValue DEF Init, Used
  <2> QED  BY <2>1 DEF Init, SlotState
<1> QED  BY <1>2, <1>3, <1>4 DEF IInv

LEMMA PushLoadInv ==
    ASSUME IInv, NEW v \in Values, NEW read_idx \in Index, PushLoad(v, read_idx)
    PROVE  IInv'
<1>1. /\ m_read_pos' = m_read_pos /\ m_write_pos' = m_write_pos /\ m_slots' = m_slots
      /\ seen_read' = read_idx /\ push_pc = "idle" /\ phase = "alive"
      /\ UNCHANGED <<pop_pc, out_value, seen_write, phase>>
  BY DEF PushLoad, consumer
<1>2. TypeOK'
  BY <1>1 DEF IInv, TypeOK, PushLoad, PushPc
<1>3. Dist(seen_read, read_idx) =< Dist(seen_read, m_read_pos)
  BY DEF PushLoad, Visible
<1>4. /\ Dist(read_idx, m_write_pos) = Dist(read_idx, m_read_pos) + Used
      /\ Dist(read_idx, m_write_pos) =< Capacity
  <2>1. /\ Dist(seen_read, m_read_pos) = Dist(seen_read, read_idx) + Dist(read_idx, m_read_pos)
        /\ Dist(seen_read, m_write_pos) = Dist(seen_read, m_read_pos) + Used
    BY <1>3, Ranges, DistSplit
  <2>2. /\ Dist(seen_read, read_idx) \in Nat /\ Dist(read_idx, m_read_pos) \in Nat
        /\ Used \in Nat /\ Dist(seen_read, m_write_pos) \in Nat
        /\ Dist(read_idx, m_write_pos) \in Nat /\ Capacity \in Nat
    BY Ranges, DistValue, Constants
  <2>3. Dist(seen_read, m_write_pos) = Dist(seen_read, read_idx) + Dist(read_idx, m_write_pos)
    <3>1. Dist(seen_read, read_idx) =< Dist(seen_read, m_write_pos)
      BY <2>1, <2>2
    <3> QED  BY <3>1, Ranges, DistSplit
  <2> QED  BY <2>1, <2>2, <2>3 DEF IInv, Window
<1>5. Window'
  <2>1. push_pc' # "idle" => Dist(read_idx, m_write_pos) # Capacity
    BY DEF PushLoad, IsFull
  <2>2. Dist(read_idx, m_read_pos) \in Nat /\ Dist(read_idx, m_write_pos) \in Nat /\ Used \in Nat
    BY Ranges, DistValue
  <2> QED  BY <1>1, <1>4, <2>1, <2>2, Constants DEF IInv, Window, Used
<1>6. Control'
  BY <1>1 DEF IInv, Control, PushLoad
<1>7. ASSUME NEW s \in Slot PROVE SlotState(s)'
  <2>1. push_pc' # "publish"
    BY <1>1 DEF PushLoad
  <2>2. SlotState(s)
    BY DEF IInv
  <2> QED  BY <1>1, <2>1, <2>2 DEF SlotState, Used, Off
<1> QED  BY <1>2, <1>5, <1>6, <1>7 DEF IInv

LEMMA PushConstructInv ==
    ASSUME IInv, PushConstruct
    PROVE  IInv'
<1>1. /\ m_read_pos' = m_read_pos /\ m_write_pos' = m_write_pos
      /\ push_pc = "construct" /\ push_pc' = "publish"
      /\ UNCHANGED <<push_value, seen_read, pop_pc, out_value, seen_write, phase>>
      /\ m_slots' = [m_slots EXCEPT ![SlotOf(m_write_pos)] = push_value]
  BY DEF PushConstruct, consumer
<1>2. push_value \in Values /\ m_slots \in [Slot -> Values \cup {Raw, MovedFrom}]
  BY <1>1 DEF IInv, Control, TypeOK
<1>3. TypeOK' /\ Window' /\ Control'
  BY <1>1, <1>2 DEF IInv, TypeOK, PushPc, Window, Control, Used
<1>4. ASSUME NEW s \in Slot PROVE SlotState(s)'
  <2>1. SlotOf(m_write_pos) \in Slot /\ Off(SlotOf(m_write_pos)) = Used /\ Used \in Nat
    BY <1>1, Ranges, SlotValue, OffEnds
  <2>2. SlotState(s) /\ Off(s) \in Nat
    BY Ranges DEF IInv
  <2>3. Used' = Used /\ Off(s)' = Off(s)
    BY <1>1 DEF Used, Off
  <2>4. CASE s = SlotOf(m_write_pos)
    BY <1>1, <1>2, <2>1, <2>3, <2>4 DEF SlotState
  <2>5. CASE s # SlotOf(m_write_pos)
    <3>1. Off(s) # Used
      BY <2>1, <2>5, Ranges, OffEnds
    <3>2. m_slots'[s] = m_slots[s]
      BY <1>1, <1>2, <2>5
    <3> QED  BY <1>1, <2>2, <2>3, <3>1, <3>2 DEF SlotState
  <2> QED  BY <2>4, <2>5
<1> QED  BY <1>3, <1>4 DEF IInv

LEMMA PushPublishInv ==
    ASSUME IInv, PushPublish
    PROVE  IInv'
<1>1. /\ m_read_pos' = m_read_pos /\ m_slots' = m_slots /\ m_write_pos' = Succ(m_write_pos)
      /\ push_pc = "publish" /\ push_pc' = "idle" /\ push_value' = Raw
      /\ UNCHANGED <<seen_read, pop_pc, out_value, seen_write, phase>>
  BY DEF PushPublish, consumer
<1>2. /\ Used' = Used + 1
      /\ Dist(seen_read, m_write_pos') = Dist(seen_read, m_write_pos) + 1
  <2>1. Used < Capacity /\ Dist(seen_read, m_write_pos) < Capacity
    BY <1>1, Ranges DEF IInv, Window
  <2>2. Used < IndexModulus - 1 /\ Dist(seen_read, m_write_pos) < IndexModulus - 1
    BY <2>1, Ranges, DistValue, Constants DEF Used
  <2> QED  BY <1>1, <2>2, Ranges, DistSucc DEF Used
<1>3. TypeOK'
  BY <1>1, Ranges, SuccValue DEF IInv, TypeOK, PushPc
<1>4. Window'
  <2>1. /\ Dist(seen_read, m_write_pos) \in Nat /\ Dist(seen_read, m_read_pos) \in Nat
        /\ Dist(m_read_pos, seen_write) \in Nat /\ Used \in Nat /\ Capacity \in Nat
    BY Ranges, DistValue, Constants
  <2>2. /\ Dist(seen_read, m_read_pos)' = Dist(seen_read, m_read_pos)
        /\ Dist(m_read_pos, seen_write)' = Dist(m_read_pos, seen_write)
        /\ Dist(seen_read, m_write_pos)' = Dist(seen_read, m_write_pos')
    BY <1>1
  <2> QED  BY <1>1, <1>2, <2>1, <2>2 DEF IInv, Window
<1>5. Control'
  BY <1>1 DEF IInv, Control
<1>6. ASSUME NEW s \in Slot PROVE SlotState(s)'
  <2>1. SlotState(s) /\ Off(s) \in Nat /\ Used \in Nat
    BY Ranges DEF IInv
  <2>2. Off(s)' = Off(s)
    BY <1>1 DEF Off
  <2>3. Used = 0 => pop_pc = "idle"
    BY <2>1, Ranges
  <2>4. push_value \in Values
    BY <1>1 DEF IInv, Control
  <2> QED  BY <1>1, <1>2, <2>1, <2>2, <2>3, <2>4 DEF SlotState
<1> QED  BY <1>3, <1>4, <1>5, <1>6 DEF IInv

LEMMA PopLoadInv ==
    ASSUME IInv, NEW write_idx \in Index, PopLoad(write_idx)
    PROVE  IInv'
<1>1. /\ m_read_pos' = m_read_pos /\ m_write_pos' = m_write_pos /\ m_slots' = m_slots
      /\ seen_write' = write_idx /\ pop_pc = "idle" /\ phase # "destroyed"
      /\ UNCHANGED <<push_pc, push_value, seen_read, out_value>>
      /\ pop_pc' = IF write_idx = m_read_pos THEN "idle" ELSE "move"
      /\ phase' = IF phase = "draining" /\ write_idx = m_read_pos THEN "destroyed" ELSE phase
      /\ phase = "draining" => write_idx = m_write_pos
  BY DEF PopLoad, producer
<1>2. TypeOK'
  BY <1>1 DEF IInv, TypeOK, PopPc, Phase
<1>3. Dist(m_read_pos, write_idx) =< Used
  <2>1. Dist(seen_write, write_idx) =< Dist(seen_write, m_write_pos)
    BY DEF PopLoad, Visible
  <2>2. Dist(seen_write, m_write_pos) = Dist(seen_write, write_idx) + Dist(write_idx, m_write_pos)
    BY <2>1, Ranges, DistSplit
  <2>3. Used = Dist(m_read_pos, seen_write) + Dist(seen_write, m_write_pos)
    BY Ranges, DistSplit DEF IInv, Window, Used
  <2>4. IndexModulus \in Nat /\ Used \in 0 .. IndexModulus - 1
    BY Ranges, DistValue, Constants DEF Used
  <2>5. m_read_pos \in 0 .. IndexModulus - 1 /\ seen_write \in 0 .. IndexModulus - 1
        /\ write_idx \in 0 .. IndexModulus - 1
    BY Ranges DEF Index
  <2>6. /\ Dist(m_read_pos, seen_write) = IF m_read_pos =< seen_write THEN seen_write - m_read_pos
                                          ELSE seen_write - m_read_pos + IndexModulus
        /\ Dist(seen_write, write_idx) = IF seen_write =< write_idx THEN write_idx - seen_write
                                         ELSE write_idx - seen_write + IndexModulus
        /\ Dist(m_read_pos, write_idx) = IF m_read_pos =< write_idx THEN write_idx - m_read_pos
                                         ELSE write_idx - m_read_pos + IndexModulus
        /\ Dist(write_idx, m_write_pos) \in Nat /\ Dist(seen_write, m_write_pos) \in Nat
    BY Ranges, DistValue
  <2> QED  BY <2>2, <2>3, <2>4, <2>5, <2>6
<1>4. Window'
  BY <1>1, <1>3 DEF IInv, Window, Used
<1>5. Control'
  BY <1>1 DEF IInv, Control
<1>6. ASSUME NEW s \in Slot PROVE SlotState(s)'
  <2>1. SlotState(s)
    BY DEF IInv
  <2> QED  BY <1>1, <2>1 DEF SlotState, Used, Off
<1> QED  BY <1>2, <1>4, <1>5, <1>6 DEF IInv

\* The slot pop works on holds the oldest value.
LEMMA ReadSlot ==
    ASSUME IInv, pop_pc # "idle"
    PROVE  /\ SlotOf(m_read_pos) \in Slot
           /\ Off(SlotOf(m_read_pos)) = 0
           /\ \A s \in Slot : Off(s) = 0 => s = SlotOf(m_read_pos)
           /\ pop_pc = "move" => m_slots[SlotOf(m_read_pos)] \in Values
           /\ pop_pc = "destroy" => m_slots[SlotOf(m_read_pos)] = MovedFrom
           /\ pop_pc = "publish" => m_slots[SlotOf(m_read_pos)] = Raw
<1>1. SlotOf(m_read_pos) \in Slot /\ Off(SlotOf(m_read_pos)) = 0 /\ Used > 0
  BY Ranges, SlotValue, OffEnds
<1>2. \A s \in Slot : Off(s) = 0 => s = SlotOf(m_read_pos)
  BY <1>1, Ranges, OffEnds
<1>3. SlotState(SlotOf(m_read_pos))
  BY <1>1 DEF IInv
<1> QED  BY <1>1, <1>2, <1>3 DEF SlotState

LEMMA PopMoveInv ==
    ASSUME IInv, PopMove
    PROVE  IInv'
<1>1. /\ m_read_pos' = m_read_pos /\ m_write_pos' = m_write_pos
      /\ pop_pc = "move" /\ pop_pc' = "destroy"
      /\ UNCHANGED <<push_pc, push_value, seen_read, seen_write, phase>>
      /\ out_value' = m_slots[SlotOf(m_read_pos)]
      /\ m_slots' = [m_slots EXCEPT ![SlotOf(m_read_pos)] = MovedFrom]
  BY DEF PopMove, producer
<1>2. m_slots \in [Slot -> Values \cup {Raw, MovedFrom}] /\ out_value' \in Values
  BY <1>1, ReadSlot DEF IInv, TypeOK
<1>3. TypeOK' /\ Window' /\ Control'
  BY <1>1, <1>2 DEF IInv, TypeOK, PopPc, Window, Control, Used
<1>4. ASSUME NEW s \in Slot PROVE SlotState(s)'
  <2>1. SlotState(s) /\ Off(s) \in Nat /\ Used \in Nat /\ Used > 0
    BY <1>1, Ranges DEF IInv
  <2>2. Used' = Used /\ Off(s)' = Off(s)
    BY <1>1 DEF Used, Off
  <2>3. CASE Off(s) = 0
    <3>1. m_slots'[s] = MovedFrom
      BY <1>1, <1>2, <2>3, ReadSlot
    <3> QED  BY <1>1, <2>1, <2>2, <2>3, <3>1 DEF SlotState
  <2>4. CASE Off(s) # 0
    <3>1. m_slots'[s] = m_slots[s]
      BY <1>1, <1>2, <2>4, ReadSlot
    <3> QED  BY <1>1, <2>1, <2>2, <2>4, <3>1 DEF SlotState
  <2> QED  BY <2>3, <2>4
<1> QED  BY <1>3, <1>4 DEF IInv

LEMMA PopDestroyInv ==
    ASSUME IInv, PopDestroy
    PROVE  IInv'
<1>1. /\ m_read_pos' = m_read_pos /\ m_write_pos' = m_write_pos
      /\ pop_pc = "destroy" /\ pop_pc' = "publish"
      /\ UNCHANGED <<push_pc, push_value, seen_read, out_value, seen_write, phase>>
      /\ m_slots' = [m_slots EXCEPT ![SlotOf(m_read_pos)] = Raw]
  BY DEF PopDestroy, producer
<1>2. m_slots \in [Slot -> Values \cup {Raw, MovedFrom}]
  BY DEF IInv, TypeOK
<1>3. TypeOK' /\ Window' /\ Control'
  BY <1>1, <1>2 DEF IInv, TypeOK, PopPc, Window, Control, Used
<1>4. ASSUME NEW s \in Slot PROVE SlotState(s)'
  <2>1. SlotState(s) /\ Off(s) \in Nat /\ Used \in Nat /\ Used > 0
    BY <1>1, Ranges DEF IInv
  <2>2. Used' = Used /\ Off(s)' = Off(s)
    BY <1>1 DEF Used, Off
  <2>3. CASE Off(s) = 0
    <3>1. m_slots'[s] = Raw
      BY <1>1, <1>2, <2>3, ReadSlot
    <3> QED  BY <1>1, <2>1, <2>2, <2>3, <3>1 DEF SlotState
  <2>4. CASE Off(s) # 0
    <3>1. m_slots'[s] = m_slots[s]
      BY <1>1, <1>2, <2>4, ReadSlot
    <3> QED  BY <1>1, <2>1, <2>2, <2>4, <3>1 DEF SlotState
  <2> QED  BY <2>3, <2>4
<1> QED  BY <1>3, <1>4 DEF IInv

LEMMA PopPublishInv ==
    ASSUME IInv, PopPublish
    PROVE  IInv'
<1>1. /\ m_read_pos' = Succ(m_read_pos) /\ m_write_pos' = m_write_pos /\ m_slots' = m_slots
      /\ pop_pc = "publish" /\ pop_pc' = "idle"
      /\ UNCHANGED <<push_pc, push_value, seen_read, out_value, seen_write, phase>>
  BY DEF PopPublish, producer
<1>2. /\ m_read_pos # m_write_pos /\ m_read_pos # seen_write
      /\ Used' = Used - 1
      /\ Dist(m_read_pos', seen_write) = Dist(m_read_pos, seen_write) - 1
      /\ Dist(seen_read, m_read_pos') = Dist(seen_read, m_read_pos) + 1
  <2>1. m_read_pos # m_write_pos /\ m_read_pos # seen_write /\ Used > 0
    BY <1>1, Ranges, DistSucc DEF IInv, Window, Used
  <2>2. Dist(seen_read, m_read_pos) < IndexModulus - 1
    BY <2>1, Ranges, DistValue, Constants DEF IInv, Window
  <2> QED  BY <1>1, <2>1, <2>2, Ranges, DistSucc DEF Used
<1>3. TypeOK'
  BY <1>1, Ranges, SuccValue DEF IInv, TypeOK, PopPc
<1>4. Window'
  <2>1. /\ Dist(seen_read, m_write_pos) \in Nat /\ Dist(seen_read, m_read_pos) \in Nat
        /\ Dist(m_read_pos, seen_write) \in Nat /\ Used \in Nat /\ Capacity \in Nat
        /\ Used > 0
    BY <1>1, Ranges, DistValue, Constants
  <2>2. /\ Dist(seen_read, m_read_pos)' = Dist(seen_read, m_read_pos')
        /\ Dist(m_read_pos, seen_write)' = Dist(m_read_pos', seen_write)
        /\ Dist(seen_read, m_write_pos)' = Dist(seen_read, m_write_pos)
    BY <1>1
  <2> QED  BY <1>1, <1>2, <2>1, <2>2, Ranges DEF IInv, Window
<1>5. Control'
  BY <1>1 DEF IInv, Control
<1>6. ASSUME NEW s \in Slot PROVE SlotState(s)'
  <2>1. SlotState(s) /\ Off(s) \in 0 .. Capacity - 1 /\ Used \in Nat /\ Used > 0 /\ Used =< Capacity
    BY <1>1, Ranges DEF IInv
  <2>2. Off(s)' = IF Off(s) = 0 THEN Capacity - 1 ELSE Off(s) - 1
    BY <1>1, Ranges, OffSucc DEF Off
  <2>3. push_pc = "publish" => Used < Capacity
    BY Ranges
  <2>4. Off(s) = 0 => m_slots[s] = Raw
    BY <1>1, ReadSlot
  <2>5. Capacity \in Nat \ {0}
    BY Constants
  <2> QED  BY <1>1, <1>2, <2>1, <2>2, <2>3, <2>4, <2>5 DEF SlotState
<1> QED  BY <1>3, <1>4, <1>5, <1>6 DEF IInv

LEMMA DestructorInv ==
    ASSUME IInv, Destructor
    PROVE  IInv'
<1>1. /\ push_pc = "idle" /\ phase' = "draining"
      /\ UNCHANGED <<m_write_pos, m_read_pos, m_slots, producer, consumer>>
  BY DEF Destructor
<1> QED  BY <1>1 DEF IInv, TypeOK, Phase, Window, Control, SlotState, Used, Off, producer, consumer

LEMMA StepInv == IInv /\ [Next]_vars => IInv'
<1> SUFFICES ASSUME IInv, [Next]_vars PROVE IInv'
  OBVIOUS
<1>1. CASE UNCHANGED vars
  BY <1>1 DEF vars, producer, consumer, IInv, TypeOK, Window, Control, SlotState, Used, Off
<1>2. CASE Next
  BY <1>2, PushLoadInv, PushConstructInv, PushPublishInv, PopLoadInv, PopMoveInv,
     PopDestroyInv, PopPublishInv, DestructorInv DEF Next
<1> QED  BY <1>1, <1>2

LEMMA Invariance == Spec => []IInv
  BY InitInv, StepInv, PTL DEF Spec

-----------------------------------------------------------------------------
(* The theorems *)

\* Type correctness: the positions stay machine words, and no slot holds
\* anything but a pushed value, a moved-from object or nothing.
THEOREM TypeCorrect == Spec => []TypeOK
<1>1. IInv => TypeOK
  BY DEF IInv
<1> QED  BY <1>1, Invariance, PTL

\* push constructs only in raw storage, pop moves only from a live value and
\* destroys only the object it moved from, for every capacity and interleaving.
THEOREM SlotLifetimeHolds == Spec => []SlotLifetime
<1>1. IInv => SlotLifetime
  <2> SUFFICES ASSUME IInv PROVE SlotLifetime
    OBVIOUS
  <2>1. ASSUME push_pc = "construct" PROVE m_slots[SlotOf(m_write_pos)] = Raw
    <3>1. SlotOf(m_write_pos) \in Slot /\ Off(SlotOf(m_write_pos)) = Used /\ Used \in Nat
      BY <2>1, Ranges, SlotValue, OffEnds
    <3> QED  BY <2>1, <3>1 DEF IInv, SlotState
  <2> QED  BY <2>1, ReadSlot DEF SlotLifetime
<1> QED  BY <1>1, Invariance, PTL

\* The destructor's drain leaves no object behind in any slot.
THEOREM NothingLeakedHolds == Spec => []NothingLeaked
<1>1. IInv => NothingLeaked
  <2> SUFFICES ASSUME IInv, phase = "destroyed", NEW s \in Slot PROVE m_slots[s] = Raw
    BY DEF NothingLeaked
  <2>1. pop_pc = "idle" /\ push_pc = "idle" /\ m_read_pos = m_write_pos
    BY DEF IInv, Control
  <2>2. Used = 0 /\ Off(s) \in Nat
    BY <2>1, Ranges, DistSucc DEF Used
  <2> QED  BY <2>1, <2>2 DEF IInv, SlotState
<1> QED  BY <1>1, Invariance, PTL

-----------------------------------------------------------------------------
(* The ring implements the bounded FIFO *)

At(k) == (SlotOf(m_read_pos) + k) % Capacity

LEMMA AtOff ==
    ASSUME IInv, NEW k \in 0 .. Capacity - 1
    PROVE  At(k) \in Slot /\ Off(At(k)) = k
<1> DEFINE r == SlotOf(m_read_pos)
<1>1. Capacity \in Nat \ {0} /\ r \in 0 .. Capacity - 1 /\ m_read_pos \in Index
  BY Constants, Ranges, SlotValue DEF Slot
<1>2. At(k) = IF r + k < Capacity THEN r + k ELSE r + k - Capacity
  <2>1. -Capacity =< r + k - Capacity /\ r + k - Capacity < Capacity /\ r + k - Capacity \in Int
    BY <1>1
  <2>2. (r + k) % Capacity = (r + k - Capacity) % Capacity
    BY <1>1, SMT
  <2>3. At(k) = IF r + k - Capacity < 0 THEN r + k - Capacity + Capacity ELSE r + k - Capacity
    BY <1>1, <2>1, <2>2, ModNear DEF At
  <2> QED  BY <1>1, <2>3
<1>3. At(k) \in Slot
  BY <1>1, <1>2 DEF Slot
<1>4. Off(At(k)) = IF r =< At(k) THEN At(k) - r ELSE At(k) - r + Capacity
  BY <1>1, <1>3, OffValue
<1> QED  BY <1>1, <1>2, <1>3, <1>4

LEMMA ContentsValue ==
    ASSUME IInv
    PROVE  /\ Used - MovedOut \in Nat /\ MovedOut \in {0, 1}
           /\ Contents = [i \in 1 .. Used - MovedOut |-> m_slots[At(MovedOut + i - 1)]]
           /\ \A i \in 1 .. Used - MovedOut : MovedOut + i - 1 \in 0 .. Capacity - 1
           /\ Contents \in Seq(Values) /\ Len(Contents) = Used - MovedOut
<1>1. /\ Used \in Nat /\ Used =< Capacity /\ Capacity \in Nat /\ MovedOut \in {0, 1}
      /\ MovedOut = 1 => Used > 0
  BY Ranges, Constants DEF MovedOut
<1>2. \A i \in 1 .. Used - MovedOut : MovedOut + i - 1 \in 0 .. Capacity - 1
  BY <1>1
<1>3. Contents = [i \in 1 .. Used - MovedOut |-> m_slots[At(MovedOut + i - 1)]]
  <2>1. SlotOf(m_read_pos) \in Int
    BY Ranges, SlotValue, Constants DEF Slot
  <2>2. ASSUME NEW i \in 1 .. Used - MovedOut
        PROVE  SlotOf(m_read_pos) + MovedOut + i - 1 = SlotOf(m_read_pos) + (MovedOut + i - 1)
    BY <1>1, <2>1
  <2> QED  BY <2>2 DEF Contents, Used, At
<1>4. ASSUME NEW i \in 1 .. Used - MovedOut PROVE m_slots[At(MovedOut + i - 1)] \in Values
  <2> DEFINE k == MovedOut + i - 1
  <2>1. At(k) \in Slot /\ Off(At(k)) = k
    BY <1>2, AtOff
  <2>2. k < Used /\ (k = 0 => pop_pc \notin {"destroy", "publish"})
    BY <1>1 DEF MovedOut
  <2>3. SlotState(At(k)) /\ pop_pc \in PopPc
    BY <2>1 DEF IInv, TypeOK
  <2> QED  BY <2>1, <2>2, <2>3 DEF SlotState, PopPc
<1>5. Used - MovedOut \in Nat
  BY <1>1
<1>6. Contents \in [1 .. Used - MovedOut -> Values]
  BY <1>3, <1>4
<1>7. Contents \in Seq(Values) /\ Len(Contents) = Used - MovedOut
  <2> DEFINE n == Used - MovedOut
  <2>1. n \in Nat /\ Contents \in [1 .. n -> Values]
    BY <1>5, <1>6
  <2> HIDE DEF n
  <2>2. Contents \in Seq(Values) /\ Len(Contents) = n
    BY <2>1
  <2> QED  BY <2>2 DEF n
<1> QED  BY <1>1, <1>2, <1>3, <1>5, <1>7

LEMMA ContentsOf ==
    IInv => Contents = [i \in 1 .. Used - MovedOut |-> m_slots[At(MovedOut + i - 1)]]
  BY ContentsValue

\* Two states with the same window and the same slots in it hold the same queue.
LEMMA SameContents ==
    ASSUME IInv, IInv', Used' - MovedOut' = Used - MovedOut,
           \A i \in 1 .. Used - MovedOut :
              m_slots'[At(MovedOut + i - 1)'] = m_slots[At(MovedOut + i - 1)]
    PROVE  Contents' = Contents
<1>1. Contents = [i \in 1 .. Used - MovedOut |-> m_slots[At(MovedOut + i - 1)]]
  BY ContentsValue
<1>2. (Contents = [i \in 1 .. Used - MovedOut |-> m_slots[At(MovedOut + i - 1)]])'
  BY ContentsOf, PTL
<1> QED  BY <1>1, <1>2

\* The slots, the window and the stage of pop decide what the queue holds.
LEMMA FrameContents ==
    ASSUME IInv, IInv', m_slots' = m_slots, m_read_pos' = m_read_pos,
           m_write_pos' = m_write_pos, MovedOut' = MovedOut
    PROVE  Contents' = Contents
  BY DEF Contents

LEMMA PushConstructFrame ==
    ASSUME IInv, IInv', PushConstruct
    PROVE  Contents' = Contents
<1>1. /\ m_read_pos' = m_read_pos /\ m_write_pos' = m_write_pos /\ pop_pc' = pop_pc
      /\ push_pc = "construct"
      /\ m_slots' = [m_slots EXCEPT ![SlotOf(m_write_pos)] = push_value]
  BY DEF PushConstruct, consumer
<1>2. MovedOut' = MovedOut /\ Used' = Used
  BY <1>1 DEF MovedOut, Used
<1>3. SlotOf(m_write_pos) \in Slot /\ Off(SlotOf(m_write_pos)) = Used
  BY <1>1, Ranges, SlotValue, OffEnds
<1>4. ASSUME NEW i \in 1 .. Used - MovedOut
      PROVE  m_slots'[At(MovedOut + i - 1)'] = m_slots[At(MovedOut + i - 1)]
  <2>1. MovedOut + i - 1 \in 0 .. Capacity - 1 /\ MovedOut + i - 1 # Used
    BY ContentsValue, Ranges
  <2>2. At(MovedOut + i - 1) \in Slot /\ At(MovedOut + i - 1) # SlotOf(m_write_pos)
    BY <2>1, <1>3, AtOff
  <2>3. At(MovedOut + i - 1)' = At(MovedOut + i - 1)
    BY <1>1, <1>2 DEF At
  <2> QED  BY <1>1, <2>2, <2>3 DEF IInv, TypeOK
<1> QED  BY <1>2, <1>4, SameContents

LEMMA PopDestroyFrame ==
    ASSUME IInv, IInv', PopDestroy
    PROVE  Contents' = Contents
<1>1. /\ m_read_pos' = m_read_pos /\ m_write_pos' = m_write_pos
      /\ pop_pc = "destroy" /\ pop_pc' = "publish"
      /\ m_slots' = [m_slots EXCEPT ![SlotOf(m_read_pos)] = Raw]
  BY DEF PopDestroy
<1>2. MovedOut = 1 /\ MovedOut' = 1 /\ Used' = Used
  BY <1>1 DEF MovedOut, Used
<1>3. ASSUME NEW i \in 1 .. Used - MovedOut
      PROVE  m_slots'[At(MovedOut + i - 1)'] = m_slots[At(MovedOut + i - 1)]
  <2>1. MovedOut + i - 1 \in 0 .. Capacity - 1 /\ MovedOut + i - 1 # 0
    BY <1>2, ContentsValue, Ranges
  <2>2. At(MovedOut + i - 1) \in Slot /\ At(MovedOut + i - 1) # SlotOf(m_read_pos)
    BY <1>1, <2>1, AtOff, ReadSlot
  <2>3. At(MovedOut + i - 1)' = At(MovedOut + i - 1)
    BY <1>1, <1>2 DEF At
  <2> QED  BY <1>1, <2>2, <2>3 DEF IInv, TypeOK
<1> QED  BY <1>2, <1>3, SameContents

\* The position after the oldest value becomes the read position.
LEMMA PopPublishFrame ==
    ASSUME IInv, IInv', PopPublish
    PROVE  Contents' = Contents
<1>1. /\ m_read_pos' = Succ(m_read_pos) /\ m_write_pos' = m_write_pos /\ m_slots' = m_slots
      /\ pop_pc = "publish" /\ pop_pc' = "idle"
  BY DEF PopPublish
<1>2. MovedOut = 1 /\ MovedOut' = 0
  BY <1>1 DEF MovedOut
<1>3. Used' = Used - 1 /\ Used \in Nat
  <2>1. m_read_pos # m_write_pos
    BY <1>1, Ranges, DistSucc DEF Used
  <2> QED  BY <1>1, <2>1, Ranges, DistSucc DEF Used
<1>4. ASSUME NEW i \in 1 .. Used - MovedOut
      PROVE  m_slots'[At(MovedOut + i - 1)'] = m_slots[At(MovedOut + i - 1)]
  <2> DEFINE r == SlotOf(m_read_pos)
             r2 == SlotOf(Succ(m_read_pos))
  <2>1. /\ Capacity \in Nat \ {0} /\ r \in 0 .. Capacity - 1 /\ i \in Nat
        /\ r2 = IF r = Capacity - 1 THEN 0 ELSE r + 1
    BY <1>2, <1>3, Constants, Ranges, SlotValue, SlotSucc DEF Slot
  <2>2. (r2 + (i - 1)) % Capacity = (r + i) % Capacity
    <3>1. CASE r = Capacity - 1
      <4>1. r + i = Capacity + (i - 1) /\ r2 + (i - 1) = i - 1
        BY <2>1, <3>1
      <4>2. (Capacity + (i - 1)) % Capacity = (i - 1) % Capacity
        <5>1. i - 1 \in 0 .. Capacity - 1
          BY <1>2, <1>3, <2>1, Ranges
        <5>2. Capacity + (i - 1) = Capacity * 1 + (i - 1)
          BY <2>1
        <5>3. (Capacity * 1 + (i - 1)) % Capacity = i - 1
          BY <5>1, <2>1, ModOfMultiple
        <5>4. i - 1 \in Int /\ -Capacity =< i - 1 /\ i - 1 < Capacity /\ ~(i - 1 < 0)
          BY <5>1, <2>1
        <5>5. (i - 1) % Capacity = i - 1
          BY <5>4, <2>1, ModNear
        <5> QED  BY <5>2, <5>3, <5>5
      <4> QED  BY <4>1, <4>2
    <3>2. CASE r # Capacity - 1
      <4>1. r2 + (i - 1) = r + i
        BY <2>1, <3>2
      <4> QED  BY <4>1
    <3> QED  BY <3>1, <3>2
  <2>3. At(MovedOut + i - 1) = (r + i) % Capacity
    BY <1>2, <2>1 DEF At
  <2>4. At(MovedOut + i - 1)' = (r2 + (i - 1)) % Capacity
    BY <1>1, <1>2, <2>1 DEF At
  <2> QED  BY <1>1, <2>2, <2>3, <2>4
<1> QED  BY <1>2, <1>3, <1>4, SameContents

\* push accepts its value at the store of the write position.
LEMMA PushPublishEnq ==
    ASSUME IInv, IInv', PushPublish
    PROVE  push_value \in Values /\ Fifo!Enq(push_value)
<1>1. /\ m_read_pos' = m_read_pos /\ m_slots' = m_slots /\ m_write_pos' = Succ(m_write_pos)
      /\ push_pc = "publish" /\ pop_pc' = pop_pc /\ out_value' = out_value
  BY DEF PushPublish, consumer
<1>2. /\ push_value \in Values /\ Used < Capacity /\ Used \in Nat /\ MovedOut' = MovedOut
      /\ Capacity \in Nat
  BY <1>1, Ranges, Constants DEF IInv, Control, MovedOut
<1>3. Used' = Used + 1
  <2>1. Used < IndexModulus - 1
    BY <1>2, Constants
  <2> QED  BY <1>1, <2>1, Ranges, DistSucc DEF Used
<1> DEFINE n == Used - MovedOut
<1>4. /\ n \in Nat /\ MovedOut \in {0, 1} /\ Contents \in Seq(Values) /\ Len(Contents) = n
      /\ Contents = [i \in 1 .. n |-> m_slots[At(MovedOut + i - 1)]]
  BY ContentsValue
<1>5. Contents' = [i \in 1 .. n + 1 |-> m_slots[At(MovedOut + i - 1)]]
  <2>1. (Contents = [i \in 1 .. Used - MovedOut |-> m_slots[At(MovedOut + i - 1)]])'
    BY ContentsOf, PTL
  <2>2. \A k : At(k)' = At(k)
    BY <1>1 DEF At
  <2>3. Used' - MovedOut' = n + 1
    BY <1>2, <1>3, <1>4
  <2> QED  BY <1>1, <1>2, <2>1, <2>2, <2>3
<1>6. m_slots[At(MovedOut + (n + 1) - 1)] = push_value
  <2>1. MovedOut + (n + 1) - 1 = Used /\ Used \in 0 .. Capacity - 1
    BY <1>2, <1>4
  <2>2. At(Used) \in Slot /\ Off(At(Used)) = Used
    BY <2>1, AtOff
  <2>3. SlotState(At(Used))
    BY <2>2 DEF IInv
  <2> QED  BY <1>1, <2>1, <2>2, <2>3 DEF SlotState
<1>7. Contents' = Append(Contents, push_value)
  <2> HIDE DEF n
  <2>1. /\ Append(Contents, push_value) \in [1 .. n + 1 -> Values]
        /\ \A i \in 1 .. n : Append(Contents, push_value)[i] = Contents[i]
        /\ Append(Contents, push_value)[n + 1] = push_value
    <3>1. /\ Append(Contents, push_value) \in Seq(Values)
          /\ Len(Append(Contents, push_value)) = n + 1
          /\ \A i \in 1 .. n : Append(Contents, push_value)[i] = Contents[i]
          /\ Append(Contents, push_value)[n + 1] = push_value
      BY <1>2, <1>4, AppendProperties
    <3>2. Append(Contents, push_value) \in [1 .. n + 1 -> Values]
      BY <3>1, LenProperties
    <3> QED  BY <3>1, <3>2
  <2>2. ASSUME NEW i \in 1 .. n + 1
        PROVE  Append(Contents, push_value)[i] = m_slots[At(MovedOut + i - 1)]
    <3>1. CASE i = n + 1
      BY <2>1, <3>1, <1>6
    <3>2. CASE i # n + 1
      <4>1. i \in 1 .. n
        BY <3>2, <1>4
      <4> QED  BY <4>1, <2>1, <1>4
    <3> QED  BY <3>1, <3>2
  <2> QED  BY <1>5, <2>1, <2>2
<1>8. Len(Contents) < Capacity
  BY <1>2, <1>4
<1> QED  BY <1>1, <1>2, <1>7, <1>8 DEF Fifo!Enq

\* pop hands the oldest value out when it moves it out of its slot.
LEMMA PopMoveDeq ==
    ASSUME IInv, IInv', PopMove
    PROVE  Fifo!Deq
<1>1. /\ m_read_pos' = m_read_pos /\ m_write_pos' = m_write_pos
      /\ pop_pc = "move" /\ pop_pc' = "destroy"
      /\ out_value' = m_slots[SlotOf(m_read_pos)]
      /\ m_slots' = [m_slots EXCEPT ![SlotOf(m_read_pos)] = MovedFrom]
  BY DEF PopMove
<1>2. MovedOut = 0 /\ MovedOut' = 1 /\ Used' = Used /\ Used \in Nat /\ Used > 0 /\ Capacity \in Nat
  BY <1>1, Ranges, Constants DEF MovedOut, Used
<1>3. /\ Contents \in Seq(Values) /\ Len(Contents) = Used
      /\ Contents = [i \in 1 .. Used |-> m_slots[At(i - 1)]]
  <2>1. /\ Contents \in Seq(Values) /\ Len(Contents) = Used - 0
        /\ Contents = [i \in 1 .. Used - 0 |-> m_slots[At(0 + i - 1)]]
    BY <1>2, ContentsValue
  <2>2. \A i \in 1 .. Used : 0 + i - 1 = i - 1
    BY <1>2
  <2> QED  BY <1>2, <2>1, <2>2
<1>4. Contents' = [i \in 1 .. Used - 1 |-> m_slots[At(i)]]
  <2>1. (Contents = [i \in 1 .. Used - MovedOut |-> m_slots[At(MovedOut + i - 1)]])'
    BY ContentsOf, PTL
  <2>2. \A k : At(k)' = At(k)
    BY <1>1 DEF At
  <2>3. ASSUME NEW i \in 1 .. Used - 1
        PROVE  m_slots'[At(1 + i - 1)] = m_slots[At(i)]
    <3>1. 1 + i - 1 = i /\ i \in 0 .. Capacity - 1 /\ i # 0
      BY <1>2, Ranges
    <3>2. At(i) \in Slot /\ At(i) # SlotOf(m_read_pos)
      BY <3>1, <1>1, AtOff, ReadSlot
    <3> QED  BY <1>1, <3>1, <3>2 DEF IInv, TypeOK
  <2> QED  BY <1>2, <2>1, <2>2, <2>3
<1>5. Contents # <<>> /\ Head(Contents) = m_slots[At(0)] /\ At(0) = SlotOf(m_read_pos)
  <2>1. At(0) \in Slot /\ Off(At(0)) = 0
    BY <1>2, Ranges, AtOff
  <2>2. At(0) = SlotOf(m_read_pos)
    BY <1>1, <2>1, ReadSlot
  <2>3. Contents # <<>> /\ Head(Contents) = Contents[1]
    BY <1>2, <1>3
  <2>4. Contents[1] = m_slots[At(0)]
    BY <1>2, <1>3
  <2> QED  BY <2>2, <2>3, <2>4
<1>6. Contents' = Tail(Contents)
  <2>1. Tail(Contents) \in Seq(Values) /\ Len(Tail(Contents)) = Used - 1
        /\ \A i \in 1 .. Used - 1 : Tail(Contents)[i] = Contents[i + 1]
    BY <1>2, <1>3, <1>5, HeadTailProperties
  <2>2. \A i \in 1 .. Used - 1 : Contents[i + 1] = m_slots[At(i)]
    BY <1>2, <1>3
  <2>3. Tail(Contents) = [i \in 1 .. Used - 1 |-> Tail(Contents)[i]]
    <3>1. Tail(Contents) \in [1 .. Used - 1 -> Values]
      BY <2>1, LenProperties
    <3> QED  BY <3>1
  <2> QED  BY <1>4, <2>1, <2>2, <2>3
<1> QED  BY <1>1, <1>5, <1>6 DEF Fifo!Deq

LEMMA StepFifo ==
    ASSUME IInv, IInv', [Next]_vars
    PROVE  [Fifo!Next]_(Fifo!vars)
<1>1. CASE UNCHANGED vars
  BY <1>1 DEF vars, consumer, Contents, MovedOut, Fifo!vars
<1>2. ASSUME NEW v \in Values, NEW read_idx \in Index, PushLoad(v, read_idx)
      PROVE  UNCHANGED Fifo!vars
  BY <1>2, FrameContents DEF PushLoad, consumer, MovedOut, Fifo!vars
<1>3. CASE PushConstruct
  BY <1>3, PushConstructFrame DEF PushConstruct, consumer, Fifo!vars
<1>4. CASE PushPublish
  BY <1>4, PushPublishEnq DEF Fifo!Next
<1>5. ASSUME NEW write_idx \in Index, PopLoad(write_idx)
      PROVE  UNCHANGED Fifo!vars
  BY <1>5, FrameContents DEF PopLoad, producer, MovedOut, Fifo!vars
<1>6. CASE PopMove
  BY <1>6, PopMoveDeq DEF Fifo!Next
<1>7. CASE PopDestroy
  BY <1>7, PopDestroyFrame DEF PopDestroy, Fifo!vars
<1>8. CASE PopPublish
  BY <1>8, PopPublishFrame DEF PopPublish, Fifo!vars
<1>9. CASE Destructor
  BY <1>9, FrameContents DEF Destructor, consumer, MovedOut, Fifo!vars
<1> QED  BY <1>1, <1>2, <1>3, <1>4, <1>5, <1>6, <1>7, <1>8, <1>9 DEF Next

\* Whatever the two threads interleave and however stale their loads are, the
\* values come out of pop once each and in the order push accepted them, and
\* at most Capacity of them are held.
THEOREM FifoImplemented == Spec => ImplementsFifo
<1>1. Init => Fifo!Init
  <2> SUFFICES ASSUME Init PROVE Fifo!Init
    OBVIOUS
  <2>1. Used = 0 /\ MovedOut = 0 /\ Used - MovedOut = 0
    BY Constants, DistSucc DEF Init, Used, MovedOut, Index
  <2>2. Contents = <<>>
    BY <2>1 DEF Contents, Used
  <2> QED  BY <2>2, SpscAssumption DEF Init, Fifo!Init
<1>2. IInv /\ IInv' /\ [Next]_vars => [Fifo!Next]_(Fifo!vars)
  BY StepFifo
<1> QED  BY <1>1, <1>2, Invariance, PTL DEF Spec, ImplementsFifo, Fifo!Spec
=============================================================================
