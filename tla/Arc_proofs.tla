---------------------------- MODULE Arc_proofs ----------------------------
(***************************************************************************)
(* The counts of Arc and IntrusiveArc, for every number of threads,        *)
(* handles and blocks.  The count of a block is tied to the set of handles *)
(* that own it; each step adds a handle to that set, takes one out, or     *)
(* puts one in the place of another.                                       *)
(***************************************************************************)
EXTENDS Arc, FiniteSetTheorems, SequenceTheorems, TLAPS

\* Where a thread is in a call: the handle it works on is its own and, when
\* it is about to count or release, points to a block; the source is still
\* what it was when the call began.
OpInvAt(t) ==
    /\ op[t].pc = "idle" => op[t] = Idle
    /\ op[t].pc # "idle" => op[t].dst \in Own(t)
    /\ op[t].pc \in {"retain", "release"} => m_block[op[t].dst] \in Blocks
    /\ op[t].src # None => op[t].src \in Sources(t, op[t].dst)
    /\ op[t].move => op[t].src \in Own(t)
    /\ op[t].pc = "retain" => ~op[t].move
    /\ dying[t] # <<>> <=> op[t].pc = "unwind"
OpInv == \A t \in Threads : OpInvAt(t)

\* A handle about to count itself was copied from one that still points to
\* the block it took ...
CopyInv ==
    \A t \in Threads : op[t].pc = "retain" /\ op[t].src # None =>
        m_block[op[t].src] = m_block[op[t].dst]

\* ... or is the first of a block that nobody else knows.
FreshInvAt(t) ==
    op[t].pc = "retain" /\ op[t].src = None =>
        /\ Owners(m_block[op[t].dst]) = {}
        /\ mem[m_block[op[t].dst]] = "alive"
        /\ \A u \in Threads :
             op[u].pc = "retain" /\ m_block[op[u].dst] = m_block[op[t].dst] => u = t
FreshInv == \A t \in Threads : FreshInvAt(t)

\* A freed block holds no handle.
FreeInv == \A b \in Blocks : mem[b] = "free" => m_block[b] = None

\* The parts of NoUseAfterFree and DestroyedOnce that are inductive.
OwnersAlive == \A b \in Blocks : Owners(b) # {} => mem[b] = "alive"
ListedDying == \A t \in Threads : \A i \in DOMAIN dying[t] : mem[dying[t][i]] = "dying"
DyingListed ==
    \A b \in Blocks : mem[b] = "dying" =>
        \E t \in Threads : \E i \in DOMAIN dying[t] : dying[t][i] = b
ListedOnce ==
    \A t, u \in Threads : \A i \in DOMAIN dying[t], j \in DOMAIN dying[u] :
        dying[t][i] = dying[u][j] => t = u /\ i = j
ZeroIsFresh ==
    \A b \in Blocks : mem[b] = "alive" /\ refs[b] = 0 =>
        \E t \in Threads : op[t].pc = "retain" /\ m_block[op[t].dst] = b

IInv ==
    /\ TypeOK
    /\ OpInv
    /\ CopyInv
    /\ FreshInv
    /\ FreeInv
    /\ CountIsOwners
    /\ OwnersAlive
    /\ ListedDying
    /\ DyingListed
    /\ ListedOnce
    /\ ZeroIsFresh

----------------------------------------------------------------------------
(* Handles *)

LEMMA HandleFacts ==
    /\ Local \subseteq Handles /\ Blocks \subseteq Handles
    /\ None \notin Handles /\ Local \cap Blocks = {}
    /\ \A t \in Threads : Own(t) \subseteq Local
    /\ \A h \in Local : h[1] \in Threads /\ h \in Own(h[1])
    /\ \A t, u \in Threads : \A h : h \in Own(t) /\ h \in Own(u) => t = u
  BY ArcAssumption DEF Handles, Local, Own

LEMMA HandlesFinite == IsFiniteSet(Handles)
<1>1. IsFiniteSet(Local)
  BY ArcAssumption, FS_Product DEF Local
<1> QED
  BY <1>1, ArcAssumption, FS_Union DEF Handles

LEMMA CardAdd ==
    ASSUME NEW S, IsFiniteSet(S), NEW x, x \notin S
    PROVE  Cardinality(S \cup {x}) = Cardinality(S) + 1
  BY FS_AddElement

LEMMA CardRemove ==
    ASSUME NEW S, IsFiniteSet(S), NEW x \in S
    PROVE  /\ Cardinality(S) \in Nat \ {0}
           /\ Cardinality(S \ {x}) = Cardinality(S) - 1
           /\ Cardinality(S) = 1 <=> S \ {x} = {}
<1>1. Cardinality(S) \in Nat /\ Cardinality(S \ {x}) \in Nat
  BY FS_CardinalityType, FS_RemoveElement
<1>2. Cardinality(S \ {x}) = Cardinality(S) - 1 /\ IsFiniteSet(S \ {x})
  BY FS_RemoveElement
<1>3. Cardinality(S \ {x}) = 0 <=> S \ {x} = {}
  BY <1>2, FS_EmptySet
<1> QED
  BY <1>1, <1>2, <1>3

LEMMA CardReplace ==
    ASSUME NEW S, IsFiniteSet(S), NEW x \in S, NEW y, y \notin S
    PROVE  Cardinality((S \ {x}) \cup {y}) = Cardinality(S)
<1>1. IsFiniteSet(S \ {x}) /\ y \notin S \ {x}
  BY FS_RemoveElement
<1>2. Cardinality((S \ {x}) \cup {y}) = Cardinality(S \ {x}) + 1
  BY <1>1, CardAdd
<1> QED
  BY <1>2, CardRemove

\* Only the handle its own thread works on is uncounted.
LEMMA UncountedFacts ==
    ASSUME OpInv
    PROVE  /\ \A t \in Threads : \A h \in Own(t) :
                Uncounted(h) <=> op[t].dst = h /\ op[t].pc \in {"retain", "unwind", "load"}
           /\ \A b \in Blocks : ~Uncounted(b)
  BY HandleFacts DEF OpInv, OpInvAt, Uncounted

LEMMA OwnersFinite == \A b : IsFiniteSet(Owners(b))
<1> TAKE b
<1>1. Owners(b) \in SUBSET Handles
  BY DEF Owners
<1> QED
  BY <1>1, HandlesFinite, FS_Subset

\* A source is not the destination, and owns the block it points to.
LEMMA SourceFacts ==
    ASSUME TypeOK, OpInv, OwnersAlive, FreeInv,
           NEW t \in Threads, NEW d \in Own(t), NEW s \in Sources(t, d),
           op[t].pc # "idle" => op[t].dst = d
    PROVE  /\ s \in Handles /\ s # d
           /\ s \in Own(t) \/ s \in Blocks
           /\ ~Uncounted(s)
           /\ m_block[s] \in Blocks => s \in Owners(m_block[s]) /\ mem[m_block[s]] = "alive"
           /\ s \in Blocks => mem[s] = "alive"
<1>1. s \in Handles /\ s # d /\ (s \in Own(t) \/ s \in Blocks)
  BY HandleFacts DEF TypeOK, Sources
<1>2. \A h \in Own(t) \ {d} : ~Uncounted(h)
  BY UncountedFacts DEF OpInv, OpInvAt, Idle
<1>3. ~Uncounted(s)
  BY <1>1, <1>2, UncountedFacts
<1>4. m_block[s] \in Blocks => s \in Owners(m_block[s]) /\ mem[m_block[s]] = "alive"
  BY <1>1, <1>3 DEF Owners, OwnersAlive
<1>5. ASSUME s \in Blocks PROVE mem[s] = "alive"
  <2>1. PICK h \in Own(t) \ {d} : m_block[h] = s
    BY <1>5, HandleFacts DEF Sources
  <2>2. h \in Owners(s)
    BY <2>1, <1>2, HandleFacts DEF Owners
  <2> QED
    BY <2>2, <1>5 DEF OwnersAlive
<1> QED
  BY <1>1, <1>3, <1>4, <1>5

----------------------------------------------------------------------------
(* What a step of one thread leaves alone *)

\* A step of t counts or uncounts none of the other handles.
LEMMA UncountedStep ==
    ASSUME TypeOK, OpInv, NEW t \in Threads,
           \A u \in Threads \ {t} : op'[u] = op[u],
           op'[t].pc # "idle" => op'[t].dst \in Own(t),
           NEW h
    PROVE  /\ h \in Own(t) => (Uncounted(h)' <=> /\ op'[t].dst = h
                                                 /\ op'[t].pc \in {"retain", "unwind", "load"})
           /\ h \notin Own(t) => (Uncounted(h)' <=> Uncounted(h))
<1> DEFINE Within(o) == o.dst = h /\ o.pc \in {"retain", "unwind", "load"}
<1>1. Uncounted(h)' <=> Within(op'[t]) \/ \E u \in Threads \ {t} : Within(op[u])
  BY DEF Uncounted
<1>2. Uncounted(h) <=> Within(op[t]) \/ \E u \in Threads \ {t} : Within(op[u])
  BY DEF Uncounted
<1>3. Within(op[t]) => h \in Own(t)
  BY DEF OpInv, OpInvAt
<1>4. Within(op'[t]) => h \in Own(t)
  OBVIOUS
<1>5. h \in Own(t) => ~\E u \in Threads \ {t} : Within(op[u])
  BY HandleFacts DEF OpInv, OpInvAt
<1> QED
  BY <1>1, <1>2, <1>3, <1>4, <1>5

LEMMA OpInvFrame ==
    ASSUME OpInv, NEW u \in Threads,
           op'[u] = op[u], dying'[u] = dying[u],
           op[u].pc = "idle" \/ \A h \in Own(u) : m_block'[h] = m_block[h]
    PROVE  OpInvAt(u)'
<1>1. OpInvAt(u)
  BY DEF OpInv
<1>2. CASE op[u].pc = "idle"
  BY <1>1, <1>2 DEF OpInvAt, Idle
<1>3. CASE op[u].pc # "idle" /\ \A h \in Own(u) : m_block'[h] = m_block[h]
  <2>1. op[u].dst \in Own(u)
    BY <1>1, <1>3 DEF OpInvAt
  <2>2. Sources(u, op[u].dst)' = Sources(u, op[u].dst)
    BY <2>1, <1>3 DEF Sources
  <2> QED
    BY <1>1, <1>3, <2>1, <2>2 DEF OpInvAt
<1> QED
  BY <1>2, <1>3

LEMMA CopyInvFrame ==
    ASSUME CopyInv, NEW u \in Threads, op'[u] = op[u],
           op[u].pc = "retain" => m_block'[op[u].dst] = m_block[op[u].dst],
           op[u].pc = "retain" /\ op[u].src # None => m_block'[op[u].src] = m_block[op[u].src]
    PROVE  (op[u].pc = "retain" /\ op[u].src # None =>
              m_block[op[u].src] = m_block[op[u].dst])'
  BY DEF CopyInv

----------------------------------------------------------------------------
(* Calls *)

\* A call that only notes what it is about to do.
LEMMA StartPreserves ==
    ASSUME IInv, NEW t \in Threads, op[t].pc = "idle",
           NEW r \in [pc : {"load", "release"}, dst : Own(t), src : Handles \cup {None},
                      move : BOOLEAN],
           op' = [op EXCEPT ![t] = r],
           r.pc = "release" => m_block[r.dst] \in Blocks,
           r.pc = "load" => m_block[r.dst] = None,
           r.src # None => r.src \in Sources(t, r.dst),
           r.move => r.src \in Own(t),
           UNCHANGED <<m_block, refs, mem, dying>>
    PROVE  IInv'
<1> USE DEF IInv
<1>1. TypeOK'
  BY HandleFacts DEF TypeOK
<1>2. \A u \in Threads \ {t} : op'[u] = op[u]
  BY DEF TypeOK
<1>3. op'[t] = r
  BY DEF TypeOK
<1>4. OpInv'
  <2>1. ASSUME NEW u \in Threads \ {t} PROVE OpInvAt(u)'
    BY <1>2, OpInvFrame
  <2>2. OpInvAt(t)'
    BY <1>3 DEF OpInv, OpInvAt, Sources
  <2> QED
    BY <2>1, <2>2 DEF OpInv
<1>5. ASSUME NEW b \in Blocks PROVE Owners(b)' = Owners(b)
  <2>1. ASSUME NEW h \in Handles, m_block[h] = b PROVE Uncounted(h)' <=> Uncounted(h)
    <3>1. CASE h \in Own(t)
      BY <1>2, <1>3, <1>5, <2>1, <3>1, UncountedStep, UncountedFacts, HandleFacts
    <3>2. CASE h \notin Own(t)
      BY <1>2, <1>3, <3>2, UncountedStep
    <3> QED
      BY <3>1, <3>2
  <2> QED
    BY <2>1 DEF Owners
<1>6. CopyInv'
  BY <1>2, <1>3 DEF CopyInv
<1>7. FreshInv'
  <2> SUFFICES ASSUME NEW u \in Threads, op[u].pc = "retain", op[u].src = None, u # t
               PROVE  FreshInvAt(u)'
    BY <1>2, <1>3 DEF FreshInv, FreshInvAt
  <2>1. m_block[op[u].dst] \in Blocks
    BY DEF OpInv, OpInvAt
  <2> QED
    BY <1>2, <1>3, <1>5, <2>1 DEF FreshInv, FreshInvAt
<1>8. FreeInv' /\ ListedDying' /\ DyingListed' /\ ListedOnce'
  BY DEF FreeInv, ListedDying, DyingListed, ListedOnce
<1>9. CountIsOwners' /\ OwnersAlive'
  BY <1>5 DEF CountIsOwners, OwnersAlive
<1>10. ZeroIsFresh'
  BY <1>2, <1>3 DEF ZeroIsFresh
<1> QED
  BY <1>1, <1>4, <1>6, <1>7, <1>8, <1>9, <1>10

LEMMA AssignPreserves ==
    ASSUME IInv, NEW t \in Threads, NEW dst \in Own(t), NEW src \in Sources(t, dst),
           NEW move \in BOOLEAN, Assign(t, dst, src, move)
    PROVE  IInv'
<1> DEFINE r == [pc |-> IF m_block[dst] = None THEN "load" ELSE "release",
                 dst |-> dst, src |-> src, move |-> move]
<1>1. op[t].pc = "idle" /\ op' = [op EXCEPT ![t] = r]
  BY DEF Assign, Begin
<1>2. src \in Handles
  BY <1>1, SourceFacts DEF IInv
<1>3. m_block[dst] \in Blocks \cup {None}
  BY HandleFacts DEF IInv, TypeOK
<1>4. r \in [pc : {"load", "release"}, dst : Own(t), src : Handles \cup {None}, move : BOOLEAN]
  BY <1>2
<1>5. move => src \in Own(t)
  BY DEF Assign
<1>6. UNCHANGED <<m_block, refs, mem, dying>>
  BY DEF Assign
<1> QED
  BY <1>1, <1>3, <1>4, <1>5, <1>6, StartPreserves

LEMMA ResetPreserves ==
    ASSUME IInv, NEW t \in Threads, NEW dst \in Own(t), Reset(t, dst)
    PROVE  IInv'
<1> DEFINE r == [pc |-> "release", dst |-> dst, src |-> None, move |-> FALSE]
<1>1. op[t].pc = "idle" /\ op' = [op EXCEPT ![t] = r]
  BY DEF Reset, Begin
<1>2. m_block[dst] \in Blocks
  BY HandleFacts DEF IInv, TypeOK, Reset
<1>3. r \in [pc : {"load", "release"}, dst : Own(t), src : Handles \cup {None}, move : BOOLEAN]
  OBVIOUS
<1>4. UNCHANGED <<m_block, refs, mem, dying>>
  BY DEF Reset
<1> QED
  BY <1>1, <1>2, <1>3, <1>4, StartPreserves

\* What making b for dst out of arg changes among the owners: the block is
\* owned by the handle made with it, unless that one still has to count
\* itself; arg's place among the owners goes to the handle inside.
OwnersMade(t, dst, arg, b) ==
    /\ Owners(b)' = IF op'[t].pc = "idle" THEN {dst} ELSE {}
    /\ \A c \in Blocks \ {b} : /\ Cardinality(Owners(c)') = Cardinality(Owners(c))
                               /\ Owners(c)' = {} <=> Owners(c) = {}
    /\ \A c \in Blocks \ {b} : m_block'[c] = m_block[c]
    /\ \A u \in Threads \ {t} : \A h \in Own(u) : m_block'[h] = m_block[h]
    /\ m_block'[dst] = b /\ m_block'[b] = m_block[arg] /\ m_block[b] = None
    /\ m_block'[b] # b

LEMMA MakeOwners ==
    ASSUME IInv, NEW t \in Threads, op[t].pc = "idle",
           NEW dst \in Own(t), NEW arg \in Own(t), dst # arg, m_block[dst] = None,
           NEW b \in Blocks, mem[b] = "free",
           m_block' = [m_block EXCEPT ![dst] = b, ![b] = m_block[arg], ![arg] = None],
           \A u \in Threads \ {t} : op'[u] = op[u],
           op'[t].pc = "idle" \/ (op'[t].pc = "retain" /\ op'[t].dst = dst)
    PROVE  OwnersMade(t, dst, arg, b)
<1> USE DEF IInv
<1>1. /\ dst \in Handles /\ arg \in Handles /\ b \in Handles
      /\ dst # b /\ arg # b /\ b # None
  BY HandleFacts
<1>2. /\ m_block'[dst] = b /\ m_block'[b] = m_block[arg] /\ m_block'[arg] = None
      /\ \A h \in Handles \ {dst, b, arg} : m_block'[h] = m_block[h]
  BY <1>1 DEF TypeOK
<1>3. Owners(b) = {} /\ m_block[b] = None
  BY DEF OwnersAlive, FreeInv
<1>4. \A h \in Handles \ {dst} : Uncounted(h)' <=> Uncounted(h)
  <2> TAKE h \in Handles \ {dst}
  <2>1. CASE h \in Own(t)
    BY <2>1, UncountedStep, UncountedFacts
  <2>2. CASE h \notin Own(t)
    BY <2>2, UncountedStep
  <2> QED
    BY <2>1, <2>2
<1>5. Uncounted(dst)' <=> op'[t].pc = "retain"
  BY UncountedStep
<1>6. ~Uncounted(arg) /\ ~Uncounted(b)
  BY UncountedFacts
<1>7. m_block[arg] # b
  BY <1>1, <1>3, <1>6 DEF Owners
<1>8. Owners(b)' = IF op'[t].pc = "idle" THEN {dst} ELSE {}
  BY <1>1, <1>2, <1>3, <1>4, <1>5, <1>7 DEF Owners
<1>9. ASSUME NEW c \in Blocks \ {b}
      PROVE  /\ Cardinality(Owners(c)') = Cardinality(Owners(c))
             /\ Owners(c)' = {} <=> Owners(c) = {}
  <2>0. c # None
    BY HandleFacts
  <2>1. CASE m_block[arg] = c
    <3>1. Owners(c)' = (Owners(c) \ {arg}) \cup {b}
      BY <1>1, <1>2, <1>3, <1>4, <1>6, <2>0, <2>1 DEF Owners
    <3>2. arg \in Owners(c) /\ b \notin Owners(c)
      BY <1>1, <1>3, <1>6, <2>0, <2>1 DEF Owners
    <3> QED
      BY <3>1, <3>2, OwnersFinite, CardReplace
  <2>2. CASE m_block[arg] # c
    <3>1. Owners(c)' = Owners(c)
      BY <1>1, <1>2, <1>3, <1>4, <2>0, <2>2 DEF Owners
    <3> QED
      BY <3>1
  <2> QED
    BY <2>1, <2>2
<1>10. ASSUME NEW c \in Blocks \ {b} PROVE m_block'[c] = m_block[c]
  <2>1. c \in Handles \ {dst, b, arg}
    BY HandleFacts
  <2> QED
    BY <1>2, <2>1
<1>11. ASSUME NEW u \in Threads \ {t}, NEW h \in Own(u) PROVE m_block'[h] = m_block[h]
  <2>1. h \in Local /\ h \notin Own(t)
    BY HandleFacts
  <2>2. h \in Handles \ {dst, b, arg}
    BY <2>1, HandleFacts
  <2> QED
    BY <1>2, <2>2
<1> QED
  BY <1>2, <1>3, <1>7, <1>8, <1>9, <1>10, <1>11 DEF OwnersMade

\* The rest of what making a block must preserve, for both ways to make one.
LEMMA MakePreserves ==
    ASSUME IInv, NEW t \in Threads, NEW dst \in Own(t), NEW arg \in Own(t),
           Make(t, dst, arg) \/ MakeIntrusive(t, dst, arg)
    PROVE  IInv'
<1> USE DEF IInv
<1> DEFINE r == [pc |-> "retain", dst |-> dst, src |-> None, move |-> FALSE]
<1>1. op[t].pc = "idle" /\ dst # arg /\ m_block[dst] = None /\ UNCHANGED dying
  BY DEF Make, MakeIntrusive, Begin
<1>2. PICK b \in Blocks :
        /\ mem[b] = "free" /\ mem' = [mem EXCEPT ![b] = "alive"]
        /\ m_block' = [m_block EXCEPT ![dst] = b, ![b] = m_block[arg], ![arg] = None]
        /\ \/ refs' = [refs EXCEPT ![b] = 1] /\ op' = op
           \/ refs' = [refs EXCEPT ![b] = 0] /\ op' = [op EXCEPT ![t] = r]
  BY DEF Make, MakeIntrusive, Begin
<1>3. /\ \A u \in Threads \ {t} : op'[u] = op[u]
      /\ \/ op'[t].pc = "idle" /\ refs'[b] = 1 /\ op'[t] = op[t]
         \/ op'[t] = r /\ refs'[b] = 0
      /\ mem'[b] = "alive"
      /\ \A c \in Blocks \ {b} : mem'[c] = mem[c] /\ refs'[c] = refs[c]
  <2>1. CASE refs' = [refs EXCEPT ![b] = 1] /\ op' = op
    BY <1>1, <1>2, <2>1 DEF TypeOK
  <2>2. CASE refs' = [refs EXCEPT ![b] = 0] /\ op' = [op EXCEPT ![t] = r]
    BY <1>1, <1>2, <2>2 DEF TypeOK
  <2> QED
    BY <1>2, <2>1, <2>2
<1>4. OwnersMade(t, dst, arg, b)
  <2>1. op'[t].pc = "idle" \/ (op'[t].pc = "retain" /\ op'[t].dst = dst)
    BY <1>3
  <2>2. /\ mem[b] = "free"
        /\ m_block' = [m_block EXCEPT ![dst] = b, ![b] = m_block[arg], ![arg] = None]
    BY <1>2
  <2>3. \A u \in Threads \ {t} : op'[u] = op[u]
    BY <1>3
  <2> HIDE DEF IInv
  <2> QED
    BY <1>1, <2>1, <2>2, <2>3, MakeOwners
<1> USE DEF OwnersMade
<1>5. TypeOK'
  <2>1. m_block' \in [Handles -> Blocks \cup {None}]
    BY <1>2, HandleFacts DEF TypeOK
  <2>2. op' \in [Threads -> [pc : {"idle", "retain", "release", "unwind", "load"},
                             dst : Local \cup {None}, src : Handles \cup {None},
                             move : BOOLEAN]]
    <3>1. r \in [pc : {"idle", "retain", "release", "unwind", "load"},
                 dst : Local \cup {None}, src : Handles \cup {None}, move : BOOLEAN]
      BY HandleFacts
    <3> QED
      BY <1>2, <3>1 DEF TypeOK
  <2>3. refs' \in [Blocks -> Nat] /\ mem' \in [Blocks -> {"free", "alive", "dying"}]
    <3>1. refs' = [refs EXCEPT ![b] = 1] \/ refs' = [refs EXCEPT ![b] = 0]
      BY <1>2
    <3>2. mem' = [mem EXCEPT ![b] = "alive"]
      BY <1>2
    <3>3. refs \in [Blocks -> Nat] /\ mem \in [Blocks -> {"free", "alive", "dying"}]
      BY DEF TypeOK
    <3>4. refs' \in [Blocks -> Nat]
      BY <3>1, <3>3
    <3>5. mem' \in [Blocks -> {"free", "alive", "dying"}]
      BY <3>2, <3>3
    <3> QED
      BY <3>4, <3>5
  <2> QED
    BY <1>1, <2>1, <2>2, <2>3 DEF TypeOK
<1>6. OpInv'
  <2>1. ASSUME NEW u \in Threads \ {t} PROVE OpInvAt(u)'
    BY <1>1, <1>3, <1>4, OpInvFrame
  <2>2. OpInvAt(t)'
    <3>1. CASE op'[t] = op[t]
      <4>1. op'[t] = Idle /\ dying'[t] = <<>>
        BY <1>1, <3>1 DEF OpInv, OpInvAt, Idle
      <4> QED
        BY <4>1 DEF OpInvAt, Idle
    <3>2. CASE op'[t] = r
      <4>1. m_block'[dst] \in Blocks /\ dying'[t] = <<>>
        BY <1>1, <1>4 DEF OpInv, OpInvAt
      <4> QED
        BY <3>2, <4>1 DEF OpInvAt
    <3> QED
      BY <1>3, <3>1, <3>2
  <2> QED
    BY <2>1, <2>2 DEF OpInv
<1>7. ASSUME NEW u \in Threads \ {t}, op[u].pc = "retain"
      PROVE  /\ op[u].dst \in Own(u) /\ m_block[op[u].dst] \in Blocks
             /\ m_block'[op[u].dst] = m_block[op[u].dst]
             /\ mem[m_block[op[u].dst]] = "alive"
             /\ op[u].src # None => m_block'[op[u].src] = m_block[op[u].src]
  <2>1. op[u].dst \in Own(u) /\ m_block[op[u].dst] \in Blocks
    BY <1>7 DEF OpInv, OpInvAt
  <2>2. CASE op[u].src = None
    BY <1>4, <1>7, <2>1, <2>2 DEF FreshInv, FreshInvAt
  <2>3. CASE op[u].src # None
    <3>1. op[u].src \in Sources(u, op[u].dst) /\ m_block[op[u].src] = m_block[op[u].dst]
      BY <1>7, <2>3 DEF OpInv, OpInvAt, CopyInv
    <3>2. /\ mem[m_block[op[u].dst]] = "alive"
          /\ op[u].src \in Own(u) \/ op[u].src \in Blocks \ {b}
      BY <1>2, <2>1, <3>1, SourceFacts
    <3> QED
      BY <1>4, <2>1, <3>2
  <2> QED
    BY <2>2, <2>3
<1>8. CopyInv'
  BY <1>1, <1>3, <1>7 DEF CopyInv
<1>9. FreshInv'
  <2>1. ASSUME NEW u \in Threads \ {t}, op[u].pc = "retain", op[u].src = None
        PROVE  FreshInvAt(u)'
    <3>1. m_block[op[u].dst] \in Blocks \ {b}
      BY <1>2, <1>7, <2>1
    <3>2. Owners(m_block[op[u].dst]) = {}
      BY <2>1 DEF FreshInv, FreshInvAt
    <3>3. Owners(m_block[op[u].dst])' = {}
      <4> SUFFICES ASSUME NEW c \in Blocks \ {b}, c = m_block[op[u].dst]
                   PROVE  Owners(m_block[op[u].dst])' = {}
        BY <3>1
      <4>1. m_block'[op'[u].dst] = c
        BY <1>3, <1>7, <2>1
      <4>2. Owners(c)' = {}
        BY <1>4, <3>2
      <4> QED
        BY <4>1, <4>2 DEF Owners
    <3> QED
      BY <1>1, <1>3, <1>4, <1>7, <2>1, <3>1, <3>3 DEF FreshInv, FreshInvAt
  <2>2. FreshInvAt(t)'
    <3> SUFFICES ASSUME op'[t] = r PROVE FreshInvAt(t)'
      BY <1>1, <1>3 DEF FreshInvAt
    <3>1. m_block'[op'[t].dst] = b /\ Owners(b)' = {} /\ mem'[b] = "alive"
      BY <1>3, <1>4
    <3>2. ASSUME NEW u \in Threads \ {t}, op'[u].pc = "retain"
          PROVE  m_block'[op'[u].dst] # b
      <4>1. op'[u] = op[u] /\ mem[b] = "free"
        BY <1>2, <1>3
      <4> QED
        BY <1>7, <3>2, <4>1
    <3> QED
      BY <3>1, <3>2 DEF FreshInvAt, Owners
  <2> QED
    BY <1>3, <2>1, <2>2 DEF FreshInv, FreshInvAt
<1>10. FreeInv'
  BY <1>3, <1>4 DEF FreeInv
<1>11. CountIsOwners' /\ OwnersAlive'
  <2>1. refs'[b] = Cardinality(Owners(b)')
    <3>1. CASE op'[t].pc = "idle" /\ refs'[b] = 1
      <4>1. Owners(b)' = {dst}
        BY <1>4, <3>1
      <4> QED
        BY <3>1, <4>1, FS_Singleton
    <3>2. CASE op'[t] = r /\ refs'[b] = 0
      <4>1. Owners(b)' = {}
        BY <1>4, <3>2
      <4> QED
        BY <3>2, <4>1, FS_EmptySet
    <3> QED
      BY <1>3, <3>1, <3>2
  <2>2. ASSUME NEW c \in Blocks \ {b}
        PROVE  /\ mem'[c] # "free" => refs'[c] = Cardinality(Owners(c)')
               /\ Owners(c)' # {} => mem'[c] = "alive"
    <3>1. mem'[c] = mem[c] /\ refs'[c] = refs[c]
      BY <1>3
    <3>2. Cardinality(Owners(c)') = Cardinality(Owners(c)) /\ (Owners(c)' = {} <=> Owners(c) = {})
      BY <1>4
    <3> QED
      BY <3>1, <3>2 DEF CountIsOwners, OwnersAlive
  <2> QED
    BY <1>3, <2>1, <2>2 DEF CountIsOwners, OwnersAlive
<1>12. ListedDying' /\ DyingListed' /\ ListedOnce'
  BY <1>1, <1>2, <1>3 DEF ListedDying, DyingListed, ListedOnce, TypeOK
<1>13. ZeroIsFresh'
  BY <1>1, <1>3, <1>4, <1>7 DEF ZeroIsFresh
<1> QED
  BY <1>5, <1>6, <1>8, <1>9, <1>10, <1>11, <1>12, <1>13

----------------------------------------------------------------------------
(* Steps that touch no handle of another thread *)

LocalStep(t) ==
    /\ \A u \in Threads \ {t} : /\ op'[u] = op[u]
                                /\ dying'[u] = dying[u]
                                /\ \A h \in Own(u) : m_block'[h] = m_block[h]
    /\ \A b \in Blocks : mem[b] = "alive" => m_block'[b] = m_block[b]

LEMMA RetainerFacts ==
    ASSUME IInv, NEW u \in Threads, op[u].pc = "retain"
    PROVE  /\ op[u].dst \in Own(u)
           /\ m_block[op[u].dst] \in Blocks
           /\ mem[m_block[op[u].dst]] = "alive"
           /\ op[u].src # None =>
                /\ op[u].src \in Own(u) \/ (op[u].src \in Blocks /\ mem[op[u].src] = "alive")
                /\ m_block[op[u].src] = m_block[op[u].dst]
                /\ op[u].src \in Owners(m_block[op[u].dst])
<1> USE DEF IInv
<1>1. op[u].dst \in Own(u) /\ m_block[op[u].dst] \in Blocks
  BY DEF OpInv, OpInvAt
<1>2. CASE op[u].src = None
  BY <1>1, <1>2 DEF FreshInv, FreshInvAt
<1>3. CASE op[u].src # None
  <2>1. op[u].src \in Sources(u, op[u].dst) /\ m_block[op[u].src] = m_block[op[u].dst]
    BY <1>3 DEF OpInv, OpInvAt, CopyInv
  <2> QED
    BY <1>1, <2>1, SourceFacts
<1> QED
  BY <1>1, <1>2, <1>3

LEMMA OthersFrame ==
    ASSUME IInv, NEW t \in Threads, LocalStep(t), NEW u \in Threads \ {t}
    PROVE  /\ OpInvAt(u)'
           /\ op[u].pc = "retain" => m_block'[op[u].dst] = m_block[op[u].dst]
           /\ op[u].pc = "retain" /\ op[u].src # None =>
                m_block'[op[u].src] = m_block'[op[u].dst]
<1>1. OpInvAt(u)'
  BY OpInvFrame DEF IInv, LocalStep
<1>2. ASSUME op[u].pc = "retain"
      PROVE  /\ m_block'[op[u].dst] = m_block[op[u].dst]
             /\ op[u].src # None => m_block'[op[u].src] = m_block[op[u].src]
  BY <1>2, RetainerFacts DEF LocalStep
<1> QED
  BY <1>1, <1>2, RetainerFacts

\* A fresh block stays fresh while its own thread does nothing.
LEMMA FreshFrame ==
    ASSUME IInv, NEW t \in Threads, LocalStep(t),
           \A c \in Blocks :
             /\ Owners(c) = {} /\ mem[c] = "alive"
             /\ ~(op[t].pc = "retain" /\ m_block[op[t].dst] = c)
             => Owners(c)' = {} /\ mem'[c] = mem[c],
           op'[t].pc = "retain" =>
             \E c \in Blocks : m_block'[op'[t].dst] = c /\ Owners(c) # {},
           NEW u \in Threads \ {t}
    PROVE  FreshInvAt(u)'
<1> SUFFICES ASSUME op[u].pc = "retain", op[u].src = None
             PROVE  FreshInvAt(u)'
  BY DEF LocalStep, FreshInvAt
<1>1. PICK c \in Blocks : c = m_block[op[u].dst]
  BY RetainerFacts
<1>2. op'[u] = op[u] /\ m_block'[op'[u].dst] = c
  BY <1>1, OthersFrame DEF LocalStep
<1>3. /\ Owners(c) = {} /\ mem[c] = "alive"
      /\ \A v \in Threads : op[v].pc = "retain" /\ m_block[op[v].dst] = c => v = u
  BY <1>1 DEF IInv, FreshInv, FreshInvAt
<1>4. Owners(c)' = {} /\ mem'[c] = "alive"
  BY <1>3
<1>5. ASSUME NEW v \in Threads \ {u}, op'[v].pc = "retain" PROVE m_block'[op'[v].dst] # c
  <2>1. CASE v = t
    BY <1>3, <1>5, <2>1
  <2>2. CASE v # t
    <3>1. op'[v] = op[v] /\ m_block'[op[v].dst] = m_block[op[v].dst]
      BY <1>5, <2>2, OthersFrame DEF LocalStep
    <3> QED
      BY <1>3, <1>5, <3>1
  <2> QED
    BY <2>1, <2>2
<1>6. Owners(m_block[op[u].dst])' = {}
  BY <1>2, <1>4 DEF Owners
<1> QED
  BY <1>2, <1>4, <1>5, <1>6 DEF FreshInvAt

LEMMA CopyPreserves ==
    ASSUME IInv, NEW t \in Threads, NEW dst \in Own(t), NEW src \in Sources(t, dst),
           Copy(t, dst, src)
    PROVE  IInv'
<1> USE DEF IInv
<1> DEFINE r == [pc |-> "retain", dst |-> dst, src |-> src, move |-> FALSE]
<1>1. /\ op[t].pc = "idle" /\ op' = [op EXCEPT ![t] = r]
      /\ m_block[dst] = None /\ m_block[src] # None
      /\ m_block' = [m_block EXCEPT ![dst] = m_block[src]]
      /\ UNCHANGED <<refs, mem, dying>>
  BY DEF Copy, Begin
<1>2. PICK b \in Blocks : b = m_block[src]
  BY <1>1, SourceFacts DEF TypeOK
<1>3. /\ src \in Handles /\ src # dst /\ src \in Owners(b) /\ mem[b] = "alive"
  BY <1>1, <1>2, SourceFacts
<1>4. op'[t] = r /\ m_block'[dst] = b /\ m_block'[src] = b
  BY <1>1, <1>2, <1>3, HandleFacts DEF TypeOK
<1>5. LocalStep(t)
  BY <1>1, HandleFacts DEF LocalStep, TypeOK
<1>6. TypeOK'
  <2>1. r \in [pc : {"idle", "retain", "release", "unwind", "load"},
               dst : Local \cup {None}, src : Handles \cup {None}, move : BOOLEAN]
    BY <1>3, HandleFacts
  <2> QED
    BY <1>1, <1>2, <2>1 DEF TypeOK
<1>7. OpInv'
  <2>1. Sources(t, dst)' = Sources(t, dst)
    BY <1>1, HandleFacts DEF Sources, TypeOK
  <2>2. dying'[t] = <<>>
    BY <1>1 DEF OpInv, OpInvAt
  <2>3. OpInvAt(t)'
    BY <1>4, <2>1, <2>2 DEF OpInvAt
  <2> QED
    BY <1>5, <2>3, OthersFrame DEF OpInv
<1>8. ASSUME NEW c \in Blocks PROVE Owners(c)' = Owners(c)
  <2>1. dst \notin Owners(c) /\ dst \notin Owners(c)'
    BY <1>1, <1>4, HandleFacts DEF Owners, Uncounted
  <2>2. ASSUME NEW h \in Handles \ {dst} PROVE h \in Owners(c)' <=> h \in Owners(c)
    <3>1. m_block'[h] = m_block[h]
      BY <1>1 DEF TypeOK
    <3>2. Uncounted(h)' <=> Uncounted(h)
      <4>1. CASE h \in Own(t)
        BY <1>1, <1>4, <1>5, <4>1, UncountedStep, UncountedFacts DEF LocalStep
      <4>2. CASE h \notin Own(t)
        BY <1>4, <1>5, <4>2, UncountedStep DEF LocalStep
      <4> QED
        BY <4>1, <4>2
    <3> QED
      BY <3>1, <3>2 DEF Owners
  <2>3. Owners(c) \subseteq Handles /\ Owners(c)' \subseteq Handles
    BY DEF Owners
  <2> QED
    BY <2>1, <2>2, <2>3
<1>9. CopyInv'
  BY <1>4, <1>5, OthersFrame DEF CopyInv, LocalStep
<1>10. FreshInv'
  <2>1. op'[t].pc = "retain" => \E c \in Blocks : m_block'[op'[t].dst] = c /\ Owners(c) # {}
    BY <1>3, <1>4
  <2>2. \A c \in Blocks :
          Owners(c) = {} /\ ~(op[t].pc = "retain" /\ m_block[op[t].dst] = c)
            => Owners(c)' = {} /\ mem'[c] = mem[c]
    BY <1>1, <1>8
  <2>3. \A u \in Threads \ {t} : FreshInvAt(u)'
    BY <1>5, <2>1, <2>2, FreshFrame
  <2>4. FreshInvAt(t)'
    BY <1>3, <1>4, HandleFacts DEF FreshInvAt
  <2> QED
    BY <2>3, <2>4 DEF FreshInv
<1>11. FreeInv'
  BY <1>1, HandleFacts DEF FreeInv, TypeOK
<1>12. CountIsOwners' /\ OwnersAlive'
  BY <1>1, <1>8 DEF CountIsOwners, OwnersAlive
<1>13. ListedDying' /\ DyingListed' /\ ListedOnce'
  BY <1>1 DEF ListedDying, DyingListed, ListedOnce
<1>14. ZeroIsFresh'
  BY <1>1, <1>5, OthersFrame DEF ZeroIsFresh, LocalStep
<1> QED
  BY <1>6, <1>7, <1>9, <1>10, <1>11, <1>12, <1>13, <1>14

LEMMA MovePreserves ==
    ASSUME IInv, NEW t \in Threads, NEW w \in Threads, NEW src \in Own(t), NEW dst \in Own(w),
           dst[1] = w, Move(t, src, dst)
    PROVE  IInv'
<1> USE DEF IInv
<1>1. /\ op[t].pc = "idle" /\ op[w].pc = "idle"
      /\ m_block[dst] = None /\ m_block[src] # None
      /\ m_block' = [m_block EXCEPT ![dst] = m_block[src], ![src] = None]
      /\ UNCHANGED <<refs, mem, op, dying>>
  BY DEF Move
<1>2. src \in Handles /\ dst \in Handles /\ src # dst /\ src \notin Blocks /\ dst \notin Blocks
  BY <1>1, HandleFacts
<1>3. PICK b \in Blocks : b = m_block[src]
  BY <1>1, <1>2 DEF TypeOK
<1>4. /\ m_block'[dst] = b /\ m_block'[src] = None
      /\ \A h \in Handles \ {src, dst} : m_block'[h] = m_block[h]
  BY <1>1, <1>2, <1>3 DEF TypeOK
<1>5. TypeOK'
  BY <1>1, <1>2, <1>3 DEF TypeOK
<1>6. ASSUME NEW u \in Threads, op[u].pc # "idle", NEW h \in Own(u) \cup Blocks
      PROVE  m_block'[h] = m_block[h]
  <2>1. h \in Handles /\ h # src /\ h # dst
    BY <1>1, <1>2, <1>6, HandleFacts
  <2> QED
    BY <1>4, <2>1
<1>7. OpInv'
  BY <1>1, <1>6, OpInvFrame DEF OpInv
<1>8. ASSUME NEW u \in Threads, op[u].pc = "retain"
      PROVE  /\ m_block'[op[u].dst] = m_block[op[u].dst]
             /\ op[u].src # None => m_block'[op[u].src] = m_block[op[u].src]
  BY <1>6, <1>8, RetainerFacts
<1>9. CopyInv'
  BY <1>1, <1>8 DEF CopyInv
<1>10. \A h : Uncounted(h)' <=> Uncounted(h)
  BY <1>1 DEF Uncounted
<1>11. ~Uncounted(src) /\ ~Uncounted(dst)
  BY <1>1, UncountedFacts
<1>12. src \in Owners(b) /\ dst \notin Owners(b) /\ b # None
  BY <1>1, <1>2, <1>3, <1>11, HandleFacts DEF Owners
<1>13. Owners(b)' = (Owners(b) \ {src}) \cup {dst}
  BY <1>1, <1>2, <1>4, <1>10, <1>11, <1>12 DEF Owners
<1>14. ASSUME NEW c \in Blocks \ {b} PROVE Owners(c)' = Owners(c)
  <2>1. c # None
    BY HandleFacts
  <2>2. ASSUME NEW h \in Handles PROVE m_block'[h] = c <=> m_block[h] = c
    BY <1>1, <1>3, <1>4, <1>14, <2>1
  <2> QED
    BY <1>10, <2>2 DEF Owners
<1>15. CountIsOwners' /\ OwnersAlive'
  <2>1. Cardinality(Owners(b)') = Cardinality(Owners(b))
    BY <1>12, <1>13, OwnersFinite, CardReplace
  <2> QED
    BY <1>1, <1>12, <1>14, <2>1 DEF CountIsOwners, OwnersAlive
<1>16. FreshInv'
  <2> SUFFICES ASSUME NEW u \in Threads, op[u].pc = "retain", op[u].src = None
               PROVE  FreshInvAt(u)'
    BY <1>1 DEF FreshInv, FreshInvAt
  <2>1. PICK c \in Blocks : c = m_block[op[u].dst]
    BY RetainerFacts
  <2>2. Owners(c) = {} /\ mem[c] = "alive" /\ c # b
    BY <1>12, <2>1 DEF FreshInv, FreshInvAt
  <2>3. Owners(c)' = {} /\ m_block'[op'[u].dst] = c
    BY <1>1, <1>8, <1>14, <2>1, <2>2
  <2>4. Owners(m_block[op[u].dst])' = {}
    BY <2>3 DEF Owners
  <2>5. \A v \in Threads : op[v].pc = "retain" /\ m_block[op[v].dst] = c => v = u
    BY <2>1 DEF FreshInv, FreshInvAt
  <2> QED
    BY <1>1, <1>8, <2>2, <2>3, <2>4, <2>5 DEF FreshInvAt
<1>17. FreeInv'
  BY <1>1, <1>2, <1>4, HandleFacts DEF FreeInv
<1>18. ListedDying' /\ DyingListed' /\ ListedOnce'
  BY <1>1 DEF ListedDying, DyingListed, ListedOnce
<1>19. ZeroIsFresh'
  <2> SUFFICES ASSUME NEW c \in Blocks, mem'[c] = "alive", refs'[c] = 0
               PROVE  \E u \in Threads : op'[u].pc = "retain" /\ m_block'[op'[u].dst] = c
    BY DEF ZeroIsFresh
  <2>1. PICK u \in Threads : op[u].pc = "retain" /\ m_block[op[u].dst] = c
    BY <1>1 DEF ZeroIsFresh
  <2> QED
    BY <1>1, <1>8, <2>1
<1> QED
  BY <1>5, <1>7, <1>9, <1>15, <1>16, <1>17, <1>18, <1>19

----------------------------------------------------------------------------
(* Steps of a call *)

LEMMA RetainPreserves ==
    ASSUME IInv, NEW t \in Threads, Retain(t)
    PROVE  IInv'
<1> USE DEF IInv
<1>1. /\ op[t].pc = "retain" /\ op' = [op EXCEPT ![t] = Idle]
      /\ refs' = [refs EXCEPT ![m_block[op[t].dst]] = @ + 1]
      /\ UNCHANGED <<m_block, mem, dying>>
  BY DEF Retain, Return
<1>2. PICK b \in Blocks : b = m_block[op[t].dst]
  BY <1>1, RetainerFacts
<1>3. PICK h \in Own(t) : h = op[t].dst
  BY <1>1, RetainerFacts
<1>4. /\ op'[t] = Idle /\ refs'[b] = refs[b] + 1 /\ mem[b] = "alive"
      /\ \A c \in Blocks \ {b} : refs'[c] = refs[c]
  BY <1>1, <1>2, RetainerFacts DEF TypeOK
<1>5. LocalStep(t)
  BY <1>1 DEF LocalStep, TypeOK
<1>6. TypeOK'
  <2>1. Idle \in [pc : {"idle", "retain", "release", "unwind", "load"},
                  dst : Local \cup {None}, src : Handles \cup {None}, move : BOOLEAN]
    BY DEF Idle
  <2> QED
    BY <1>1, <1>2, <2>1 DEF TypeOK
<1>7. OpInv'
  <2>1. dying'[t] = <<>>
    BY <1>1 DEF OpInv, OpInvAt
  <2>2. OpInvAt(t)'
    BY <1>4, <2>1 DEF OpInvAt, Idle
  <2> QED
    BY <1>5, <2>2, OthersFrame DEF OpInv
<1>8. Uncounted(h) /\ ~Uncounted(h)'
  BY <1>1, <1>3, <1>4, <1>5, UncountedFacts, UncountedStep DEF LocalStep, Idle
<1>9. ASSUME NEW g, g # h PROVE Uncounted(g)' <=> Uncounted(g)
  <2>1. CASE g \in Own(t)
    BY <1>1, <1>3, <1>4, <1>5, <1>9, <2>1, UncountedFacts, UncountedStep DEF LocalStep, Idle
  <2>2. CASE g \notin Own(t)
    BY <1>4, <1>5, <2>2, UncountedStep DEF LocalStep, Idle
  <2> QED
    BY <2>1, <2>2
<1>10. h \in Handles /\ m_block[h] = b /\ m_block' = m_block
  BY <1>1, <1>2, <1>3, HandleFacts
<1>11. h \notin Owners(b) /\ Owners(b)' = Owners(b) \cup {h}
  BY <1>8, <1>9, <1>10 DEF Owners
<1>12. ASSUME NEW c \in Blocks \ {b} PROVE Owners(c)' = Owners(c)
  BY <1>9, <1>10 DEF Owners
<1>13. CountIsOwners' /\ OwnersAlive'
  <2>1. Cardinality(Owners(b)') = Cardinality(Owners(b)) + 1
    BY <1>11, OwnersFinite, CardAdd
  <2> QED
    BY <1>1, <1>4, <1>12, <2>1 DEF CountIsOwners, OwnersAlive
<1>14. CopyInv'
  BY <1>4, <1>5, OthersFrame DEF CopyInv, LocalStep, Idle
<1>15. FreshInv'
  <2>1. op'[t].pc # "retain"
    BY <1>4 DEF Idle
  <2>2. ASSUME NEW c \in Blocks, Owners(c) = {}, ~(op[t].pc = "retain" /\ m_block[op[t].dst] = c)
        PROVE  Owners(c)' = {} /\ mem'[c] = mem[c]
    BY <1>1, <1>2, <1>12, <2>2
  <2>3. \A u \in Threads \ {t} : FreshInvAt(u)'
    BY <1>5, <2>1, <2>2, FreshFrame
  <2> QED
    BY <2>1, <2>3 DEF FreshInv, FreshInvAt
<1>16. FreeInv' /\ ListedDying' /\ DyingListed' /\ ListedOnce'
  BY <1>1 DEF FreeInv, ListedDying, DyingListed, ListedOnce
<1>17. ZeroIsFresh'
  <2> SUFFICES ASSUME NEW c \in Blocks, mem[c] = "alive", refs'[c] = 0
               PROVE  \E u \in Threads : op'[u].pc = "retain" /\ m_block'[op'[u].dst] = c
    BY <1>1 DEF ZeroIsFresh
  <2>1. c # b /\ refs[c] = 0
    BY <1>4 DEF TypeOK
  <2>2. PICK u \in Threads : op[u].pc = "retain" /\ m_block[op[u].dst] = c
    BY <2>1 DEF ZeroIsFresh
  <2>3. u # t
    BY <1>2, <2>1, <2>2
  <2> QED
    BY <1>5, <1>10, <2>2, <2>3 DEF LocalStep
<1> QED
  BY <1>6, <1>7, <1>13, <1>14, <1>15, <1>16, <1>17

LEMMA FrontFacts ==
    ASSUME NEW s \in Seq(Blocks), s # <<>>
    PROVE  /\ Len(s) \in DOMAIN s
           /\ Last(s) \in Blocks /\ Last(s) = s[Len(s)]
           /\ Front(s) \in Seq(Blocks)
           /\ DOMAIN Front(s) = DOMAIN s \ {Len(s)}
           /\ \A i \in DOMAIN Front(s) : Front(s)[i] = s[i]
<1>1. Len(s) \in Nat /\ Len(s) >= 1 /\ DOMAIN s = 1 .. Len(s)
  OBVIOUS
<1>2. Front(s) \in Seq(Blocks) /\ Len(Front(s)) = Len(s) - 1
  BY <1>1 DEF Front
<1>3. \A i \in 1 .. Len(s) - 1 : Front(s)[i] = s[i]
  BY <1>1 DEF Front
<1>4. Last(s) = s[Len(s)] /\ Last(s) \in Blocks
  BY <1>1 DEF Last
<1>5. DOMAIN Front(s) = 1 .. Len(s) - 1
  BY <1>2
<1> QED
  BY <1>1, <1>2, <1>3, <1>4, <1>5

LEMMA AppendFacts ==
    ASSUME NEW s \in Seq(Blocks), NEW b \in Blocks
    PROVE  /\ Append(s, b) \in Seq(Blocks) /\ Append(s, b) # <<>>
           /\ DOMAIN Append(s, b) = DOMAIN s \cup {Len(s) + 1}
           /\ Len(s) + 1 \notin DOMAIN s
           /\ \A i \in DOMAIN s : Append(s, b)[i] = s[i]
           /\ Append(s, b)[Len(s) + 1] = b
  OBVIOUS

\* Taking the handle h off the block b, the destructor begun if it was the last.
LEMMA DropPreserves ==
    ASSUME IInv, NEW t \in Threads, NEW b \in Blocks, NEW h \in Owners(b),
           Dropped(t, b), op[t].pc # "retain",
           Owners(b)' = Owners(b) \ {h},
           \A c \in Blocks \ {b} : Owners(c)' = Owners(c)
    PROVE  /\ refs' \in [Blocks -> Nat]
           /\ mem' \in [Blocks -> {"free", "alive", "dying"}]
           /\ dying' \in [Threads -> Seq(Blocks)]
           /\ \A u \in Threads \ {t} : dying'[u] = dying[u]
           /\ dying[t] # <<>> => dying'[t] # <<>>
           /\ \A c \in Blocks : mem'[c] = "free" <=> mem[c] = "free"
           /\ \A c \in Blocks : Owners(c) = {} => Owners(c)' = {} /\ mem'[c] = mem[c]
           /\ \A c \in Blocks : mem'[c] = "alive" /\ refs'[c] = 0 => mem[c] = "alive" /\ refs[c] = 0
           /\ CountIsOwners' /\ OwnersAlive' /\ ListedDying' /\ DyingListed' /\ ListedOnce'
<1> USE DEF IInv
<1>1. mem[b] = "alive" /\ refs[b] = Cardinality(Owners(b))
  BY DEF OwnersAlive, CountIsOwners
<1>2. /\ refs[b] \in Nat \ {0} /\ refs[b] - 1 = Cardinality(Owners(b)')
      /\ refs[b] = 1 <=> Owners(b)' = {}
  BY <1>1, OwnersFinite, CardRemove
<1>3. /\ refs' = [refs EXCEPT ![b] = @ - 1]
      /\ refs'[b] = refs[b] - 1 /\ \A c \in Blocks \ {b} : refs'[c] = refs[c]
  BY DEF Dropped, TypeOK
<1>4. refs' \in [Blocks -> Nat]
  BY <1>2, <1>3 DEF TypeOK
<1>5. ASSUME NEW u \in Threads, NEW i \in DOMAIN dying[u]
      PROVE  dying[u][i] \in Blocks /\ dying[u][i] # b /\ mem[dying[u][i]] = "dying"
  BY <1>1 DEF ListedDying, TypeOK
<1>6. CASE refs[b] # 1
  <2>1. mem' = mem /\ dying' = dying
    BY <1>6 DEF Dropped
  <2>2. CountIsOwners' /\ OwnersAlive'
    BY <1>1, <1>2, <1>3, <2>1 DEF CountIsOwners, OwnersAlive
  <2>3. ListedDying' /\ DyingListed' /\ ListedOnce'
    BY <2>1 DEF ListedDying, DyingListed, ListedOnce
  <2>4. refs'[b] # 0
    BY <1>2, <1>3, <1>6
  <2> QED
    BY <1>3, <1>4, <2>1, <2>2, <2>3, <2>4 DEF TypeOK
<1>7. CASE refs[b] = 1
  <2>1. mem' = [mem EXCEPT ![b] = "dying"] /\ dying' = [dying EXCEPT ![t] = Append(@, b)]
    BY <1>7 DEF Dropped
  <2>2. mem'[b] = "dying" /\ \A c \in Blocks \ {b} : mem'[c] = mem[c]
    BY <2>1 DEF TypeOK
  <2>3. /\ dying'[t] = Append(dying[t], b) /\ dying[t] \in Seq(Blocks)
        /\ \A u \in Threads \ {t} : dying'[u] = dying[u]
    BY <2>1 DEF TypeOK
  <2>4. dying' \in [Threads -> Seq(Blocks)] /\ dying'[t] # <<>>
    BY <2>1, <2>3, AppendFacts DEF TypeOK
  <2>5. ASSUME NEW u \in Threads, NEW i \in DOMAIN dying'[u]
        PROVE  \/ i \in DOMAIN dying[u] /\ dying'[u][i] = dying[u][i]
               \/ u = t /\ i = Len(dying[t]) + 1 /\ dying'[u][i] = b
    BY <2>3, AppendFacts
  <2>6. CountIsOwners' /\ OwnersAlive'
    BY <1>1, <1>2, <1>3, <1>7, <2>2 DEF CountIsOwners, OwnersAlive
  <2>7. ListedDying'
    BY <1>5, <2>2, <2>5 DEF ListedDying
  <2>8. DyingListed'
    <3> SUFFICES ASSUME NEW c \in Blocks, mem'[c] = "dying"
                 PROVE  \E u \in Threads : \E i \in DOMAIN dying'[u] : dying'[u][i] = c
      BY DEF DyingListed
    <3>1. CASE c = b
      BY <2>3, <3>1, AppendFacts
    <3>2. CASE c # b
      <4>1. PICK u \in Threads : \E i \in DOMAIN dying[u] : dying[u][i] = c
        BY <2>2, <3>2 DEF DyingListed
      <4>2. PICK i \in DOMAIN dying[u] : dying[u][i] = c
        BY <4>1
      <4>3. i \in DOMAIN dying'[u] /\ dying'[u][i] = c
        BY <2>3, <4>2, AppendFacts
      <4> QED
        BY <4>3
    <3> QED
      BY <3>1, <3>2
  <2>9. ListedOnce'
    <3> SUFFICES ASSUME NEW u \in Threads, NEW v \in Threads,
                        NEW i \in DOMAIN dying'[u], NEW j \in DOMAIN dying'[v],
                        dying'[u][i] = dying'[v][j]
                 PROVE  u = v /\ i = j
      BY DEF ListedOnce
    <3> QED
      BY <1>5, <2>5 DEF ListedOnce
  <2>10. mem' \in [Blocks -> {"free", "alive", "dying"}]
    BY <2>1 DEF TypeOK
  <2> QED
    BY <1>1, <1>3, <1>4, <2>2, <2>3, <2>4, <2>6, <2>7, <2>8, <2>9, <2>10
<1> QED
  BY <1>6, <1>7

LEMMA ReleasePreserves ==
    ASSUME IInv, NEW t \in Threads, Release(t)
    PROVE  IInv'
<1> USE DEF IInv
<1>1. PICK h \in Own(t) : h = op[t].dst
  BY DEF Release, OpInv, OpInvAt
<1>2. PICK b \in Blocks : b = m_block[h]
  BY <1>1 DEF Release, OpInv, OpInvAt
<1>3. /\ op[t].pc = "release" /\ Dropped(t, b) /\ UNCHANGED m_block
      /\ op' = [op EXCEPT ![t].pc = IF dying'[t] = <<>> THEN "load" ELSE "unwind"]
  BY <1>1, <1>2 DEF Release, Goto
<1>4. /\ op'[t] \in [pc : {"load", "unwind"}, dst : Local \cup {None},
                     src : Handles \cup {None}, move : BOOLEAN]
      /\ op'[t].dst = h /\ op'[t].src = op[t].src /\ op'[t].move = op[t].move
      /\ op'[t].pc = IF dying'[t] = <<>> THEN "load" ELSE "unwind"
      /\ \A u \in Threads \ {t} : op'[u] = op[u]
  BY <1>1, <1>3 DEF TypeOK
<1>5. ~Uncounted(h) /\ Uncounted(h)'
  BY <1>1, <1>3, <1>4, UncountedFacts, UncountedStep
<1>6. ASSUME NEW g, g # h PROVE Uncounted(g)' <=> Uncounted(g)
  <2>1. CASE g \in Own(t)
    BY <1>1, <1>3, <1>4, <1>6, <2>1, UncountedFacts, UncountedStep
  <2>2. CASE g \notin Own(t)
    BY <1>1, <1>4, <2>2, UncountedStep
  <2> QED
    BY <2>1, <2>2
<1>7. h \in Owners(b) /\ Owners(b)' = Owners(b) \ {h}
  BY <1>1, <1>2, <1>3, <1>5, <1>6, HandleFacts DEF Owners
<1>8. ASSUME NEW c \in Blocks \ {b} PROVE Owners(c)' = Owners(c)
  BY <1>2, <1>3, <1>6 DEF Owners
<1>9. /\ refs' \in [Blocks -> Nat]
      /\ mem' \in [Blocks -> {"free", "alive", "dying"}]
      /\ dying' \in [Threads -> Seq(Blocks)]
      /\ \A u \in Threads \ {t} : dying'[u] = dying[u]
      /\ \A c \in Blocks : mem'[c] = "free" <=> mem[c] = "free"
      /\ \A c \in Blocks : Owners(c) = {} => Owners(c)' = {} /\ mem'[c] = mem[c]
      /\ \A c \in Blocks : mem'[c] = "alive" /\ refs'[c] = 0 => mem[c] = "alive" /\ refs[c] = 0
      /\ CountIsOwners' /\ OwnersAlive' /\ ListedDying' /\ DyingListed' /\ ListedOnce'
  <2>1. op[t].pc # "retain"
    BY <1>3
  <2> HIDE DEF IInv
  <2> QED
    BY <1>3, <1>7, <1>8, <2>1, DropPreserves
<1>10. LocalStep(t)
  BY <1>3, <1>4, <1>9 DEF LocalStep
<1>11. TypeOK'
  <2>1. op' \in [Threads -> [pc : {"idle", "retain", "release", "unwind", "load"},
                             dst : Local \cup {None}, src : Handles \cup {None},
                             move : BOOLEAN]]
    BY <1>3 DEF TypeOK
  <2> QED
    BY <1>3, <1>9, <2>1 DEF TypeOK
<1>12. OpInv'
  <2>1. Sources(t, h)' = Sources(t, h)
    BY <1>3 DEF Sources
  <2>2. OpInvAt(t)
    BY DEF OpInv
  <2>3. OpInvAt(t)'
    BY <1>1, <1>3, <1>4, <2>1, <2>2 DEF OpInvAt
  <2> QED
    BY <1>10, <2>3, OthersFrame DEF OpInv
<1>13. op'[t].pc # "retain"
  BY <1>4
<1>14. CopyInv'
  BY <1>4, <1>10, <1>13, OthersFrame DEF CopyInv
<1>15. FreshInv'
  <2>1. \A u \in Threads \ {t} : FreshInvAt(u)'
    BY <1>9, <1>10, <1>13, FreshFrame
  <2> QED
    BY <1>13, <2>1 DEF FreshInv, FreshInvAt
<1>16. FreeInv'
  BY <1>3, <1>9 DEF FreeInv
<1>17. ZeroIsFresh'
  <2> SUFFICES ASSUME NEW c \in Blocks, mem'[c] = "alive", refs'[c] = 0
               PROVE  \E u \in Threads : op'[u].pc = "retain" /\ m_block'[op'[u].dst] = c
    BY DEF ZeroIsFresh
  <2>1. PICK u \in Threads : op[u].pc = "retain" /\ m_block[op[u].dst] = c
    BY <1>9 DEF ZeroIsFresh
  <2> QED
    BY <1>3, <1>4, <2>1
<1> QED
  BY <1>9, <1>11, <1>12, <1>14, <1>15, <1>16, <1>17

\* In the destructor of its innermost block, the thread holds that block: it
\* is dying, and so is no handle's, nor a source of another thread.
LEMMA UnwindFacts ==
    ASSUME IInv, NEW t \in Threads, op[t].pc = "unwind"
    PROVE  /\ dying[t] \in Seq(Blocks) /\ dying[t] # <<>>
           /\ Last(dying[t]) \in Blocks
           /\ mem[Last(dying[t])] = "dying"
           /\ ~Uncounted(Last(dying[t]))
           /\ op[t].dst \in Own(t)
<1> USE DEF IInv
<1>1. dying[t] \in Seq(Blocks) /\ dying[t] # <<>> /\ op[t].dst \in Own(t)
  BY DEF OpInv, OpInvAt, TypeOK
<1>2. Last(dying[t]) \in Blocks /\ mem[Last(dying[t])] = "dying"
  <2>1. /\ Len(dying[t]) \in DOMAIN dying[t]
        /\ Last(dying[t]) \in Blocks /\ Last(dying[t]) = dying[t][Len(dying[t])]
    BY <1>1, FrontFacts
  <2> QED
    BY <2>1 DEF ListedDying
<1> QED
  BY <1>1, <1>2, UncountedFacts

LEMMA ReleaseInnerPreserves ==
    ASSUME IInv, NEW t \in Threads, ReleaseInner(t)
    PROVE  IInv'
<1> USE DEF IInv
<1>1. op[t].pc = "unwind"
  BY DEF ReleaseInner
<1>2. PICK d \in Blocks : d = Last(dying[t])
  BY <1>1, UnwindFacts
<1>3. d \in Handles /\ mem[d] = "dying" /\ ~Uncounted(d)
  BY <1>1, <1>2, UnwindFacts, HandleFacts
<1>4. PICK b \in Blocks : b = m_block[d]
  BY <1>2, <1>3 DEF ReleaseInner, TypeOK
<1>5. Dropped(t, b) /\ m_block' = [m_block EXCEPT ![d] = None] /\ UNCHANGED op
  BY <1>2, <1>4 DEF ReleaseInner
<1>6. m_block'[d] = None /\ \A h \in Handles \ {d} : m_block'[h] = m_block[h]
  BY <1>3, <1>5 DEF TypeOK
<1>7. \A h : Uncounted(h)' <=> Uncounted(h)
  BY <1>5 DEF Uncounted
<1>8. b # None
  BY HandleFacts
<1>9. d \in Owners(b) /\ Owners(b)' = Owners(b) \ {d}
  BY <1>3, <1>4, <1>6, <1>7, <1>8 DEF Owners
<1>10. ASSUME NEW c \in Blocks \ {b} PROVE Owners(c)' = Owners(c)
  <2>1. c # None
    BY HandleFacts
  <2> QED
    BY <1>4, <1>6, <1>7, <1>10, <2>1 DEF Owners
<1>11. /\ refs' \in [Blocks -> Nat]
       /\ mem' \in [Blocks -> {"free", "alive", "dying"}]
       /\ dying' \in [Threads -> Seq(Blocks)]
       /\ \A u \in Threads \ {t} : dying'[u] = dying[u]
       /\ dying[t] # <<>> => dying'[t] # <<>>
       /\ \A c \in Blocks : mem'[c] = "free" <=> mem[c] = "free"
       /\ \A c \in Blocks : Owners(c) = {} => Owners(c)' = {} /\ mem'[c] = mem[c]
       /\ \A c \in Blocks : mem'[c] = "alive" /\ refs'[c] = 0 => mem[c] = "alive" /\ refs[c] = 0
       /\ CountIsOwners' /\ OwnersAlive' /\ ListedDying' /\ DyingListed' /\ ListedOnce'
  <2>1. op[t].pc # "retain"
    BY <1>1
  <2> HIDE DEF IInv
  <2> QED
    BY <1>5, <1>9, <1>10, <2>1, DropPreserves
<1>12. \A u \in Threads : \A h \in Own(u) : m_block'[h] = m_block[h]
  BY <1>6, HandleFacts
<1>13. LocalStep(t)
  BY <1>3, <1>5, <1>6, <1>11, <1>12, HandleFacts DEF LocalStep
<1>14. TypeOK'
  BY <1>5, <1>11 DEF TypeOK
<1>15. OpInv'
  <2>1. Sources(t, op[t].dst)' = Sources(t, op[t].dst)
    BY <1>5, <1>12 DEF Sources
  <2>2. OpInvAt(t)
    BY DEF OpInv
  <2>3. OpInvAt(t)'
    BY <1>1, <1>5, <1>11, <2>1, <2>2 DEF OpInvAt
  <2> QED
    BY <1>13, <2>3, OthersFrame DEF OpInv
<1>16. op'[t].pc # "retain"
  BY <1>1, <1>5
<1>17. CopyInv'
  BY <1>5, <1>13, <1>16, OthersFrame DEF CopyInv
<1>18. FreshInv'
  <2>1. \A u \in Threads \ {t} : FreshInvAt(u)'
    BY <1>11, <1>13, <1>16, FreshFrame
  <2> QED
    BY <1>16, <2>1 DEF FreshInv, FreshInvAt
<1>19. FreeInv'
  <2> SUFFICES ASSUME NEW c \in Blocks, mem'[c] = "free" PROVE m_block'[c] = None
    BY DEF FreeInv
  <2>1. mem[c] = "free" /\ c \in Handles
    BY <1>11, HandleFacts
  <2> QED
    BY <1>6, <2>1 DEF FreeInv
<1>20. ZeroIsFresh'
  <2> SUFFICES ASSUME NEW c \in Blocks, mem'[c] = "alive", refs'[c] = 0
               PROVE  \E u \in Threads : op'[u].pc = "retain" /\ m_block'[op'[u].dst] = c
    BY DEF ZeroIsFresh
  <2>1. PICK u \in Threads : op[u].pc = "retain" /\ m_block[op[u].dst] = c
    BY <1>11 DEF ZeroIsFresh
  <2> QED
    BY <1>5, <1>12, <2>1, RetainerFacts
<1> QED
  BY <1>11, <1>14, <1>15, <1>17, <1>18, <1>19, <1>20

LEMMA FreePreserves ==
    ASSUME IInv, NEW t \in Threads, Free(t)
    PROVE  IInv'
<1> USE DEF IInv
<1>1. op[t].pc = "unwind"
  BY DEF Free
<1>2. PICK d \in Blocks : d = Last(dying[t])
  BY <1>1, UnwindFacts
<1>3. dying[t] \in Seq(Blocks) /\ dying[t] # <<>> /\ mem[d] = "dying" /\ op[t].dst \in Own(t)
  BY <1>1, <1>2, UnwindFacts
<1>4. /\ m_block[d] = None /\ mem' = [mem EXCEPT ![d] = "free"]
      /\ dying' = [dying EXCEPT ![t] = Front(@)]
      /\ op' = [op EXCEPT ![t].pc = IF Front(dying[t]) = <<>> THEN "load" ELSE "unwind"]
      /\ UNCHANGED <<m_block, refs>>
  BY <1>2 DEF Free, Goto
<1>5. /\ op'[t].dst = op[t].dst /\ op'[t].src = op[t].src /\ op'[t].move = op[t].move
      /\ op'[t].pc = IF dying'[t] = <<>> THEN "load" ELSE "unwind"
      /\ dying'[t] = Front(dying[t])
      /\ \A u \in Threads \ {t} : op'[u] = op[u] /\ dying'[u] = dying[u]
      /\ mem'[d] = "free" /\ \A c \in Blocks \ {d} : mem'[c] = mem[c]
  BY <1>4 DEF TypeOK
<1>6. /\ Len(dying[t]) \in DOMAIN dying[t] /\ dying[t][Len(dying[t])] = d
      /\ dying'[t] \in Seq(Blocks)
      /\ DOMAIN dying'[t] = DOMAIN dying[t] \ {Len(dying[t])}
      /\ \A i \in DOMAIN dying'[t] : dying'[t][i] = dying[t][i]
  BY <1>2, <1>3, <1>5, FrontFacts
<1>7. LocalStep(t)
  BY <1>4, <1>5 DEF LocalStep
<1>8. TypeOK'
  <2>1. op' \in [Threads -> [pc : {"idle", "retain", "release", "unwind", "load"},
                             dst : Local \cup {None}, src : Handles \cup {None},
                             move : BOOLEAN]]
    <3> DEFINE p == IF Front(dying[t]) = <<>> THEN "load" ELSE "unwind"
    <3>1. p \in {"load", "unwind"} /\ op' = [op EXCEPT ![t].pc = p]
      BY <1>4
    <3> HIDE DEF p
    <3> QED
      BY <3>1 DEF TypeOK
  <2>2. dying' \in [Threads -> Seq(Blocks)]
    BY <1>4, <1>5, <1>6 DEF TypeOK
  <2> QED
    BY <1>4, <2>1, <2>2 DEF TypeOK
<1>9. op'[t].pc \in {"load", "unwind"}
  BY <1>5
<1>10. OpInv'
  <2>1. Sources(t, op[t].dst)' = Sources(t, op[t].dst)
    BY <1>4, <1>5 DEF Sources
  <2>2. OpInvAt(t)
    BY DEF OpInv
  <2>3. OpInvAt(t)'
    BY <1>3, <1>5, <2>1, <2>2 DEF OpInvAt
  <2> QED
    BY <1>7, <2>3, OthersFrame DEF OpInv
<1>11. \A h : Uncounted(h)' <=> Uncounted(h)
  <2> TAKE h
  <2>1. CASE h \in Own(t)
    BY <1>1, <1>3, <1>5, <1>9, <2>1, UncountedFacts, UncountedStep
  <2>2. CASE h \notin Own(t)
    BY <1>3, <1>5, <2>2, UncountedStep
  <2> QED
    BY <2>1, <2>2
<1>12. \A c \in Blocks : Owners(c)' = Owners(c)
  BY <1>4, <1>11 DEF Owners
<1>13. Owners(d) = {}
  BY <1>3 DEF OwnersAlive
<1>14. CountIsOwners' /\ OwnersAlive'
  BY <1>4, <1>5, <1>12, <1>13 DEF CountIsOwners, OwnersAlive
<1>15. CopyInv'
  BY <1>5, <1>7, <1>9, OthersFrame DEF CopyInv
<1>16. FreeInv'
  BY <1>4, <1>5 DEF FreeInv
<1>17. ASSUME NEW u \in Threads, NEW i \in DOMAIN dying'[u]
       PROVE  i \in DOMAIN dying[u] /\ dying'[u][i] = dying[u][i] /\ dying[u][i] \in Blocks \ {d}
  <2>1. i \in DOMAIN dying[u] /\ dying'[u][i] = dying[u][i]
    BY <1>5, <1>6
  <2>2. dying[u][i] # d
    BY <1>6, <2>1 DEF ListedOnce
  <2> QED
    BY <2>1, <2>2 DEF TypeOK
<1>18. ListedDying' /\ ListedOnce'
  BY <1>5, <1>17 DEF ListedDying, ListedOnce
<1>19. DyingListed'
  <2> SUFFICES ASSUME NEW c \in Blocks, mem'[c] = "dying"
               PROVE  \E u \in Threads : \E i \in DOMAIN dying'[u] : dying'[u][i] = c
    BY DEF DyingListed
  <2>1. c # d /\ mem[c] = "dying"
    BY <1>5
  <2>2. PICK u \in Threads : \E i \in DOMAIN dying[u] : dying[u][i] = c
    BY <2>1 DEF DyingListed
  <2>3. PICK i \in DOMAIN dying[u] : dying[u][i] = c
    BY <2>2
  <2>4. i \in DOMAIN dying'[u] /\ dying'[u][i] = c
    BY <1>5, <1>6, <2>1, <2>3
  <2> QED
    BY <2>4
<1>20. FreshInv'
  <2>1. op'[t].pc # "retain"
    BY <1>9
  <2>2. \A c \in Blocks : Owners(c) = {} /\ mem[c] = "alive" => Owners(c)' = {} /\ mem'[c] = mem[c]
    BY <1>3, <1>5, <1>12
  <2>3. \A u \in Threads \ {t} : FreshInvAt(u)'
    BY <1>7, <2>1, <2>2, FreshFrame
  <2> QED
    BY <2>1, <2>3 DEF FreshInv, FreshInvAt
<1>21. ZeroIsFresh'
  <2> SUFFICES ASSUME NEW c \in Blocks, mem'[c] = "alive", refs'[c] = 0
               PROVE  \E u \in Threads : op'[u].pc = "retain" /\ m_block'[op'[u].dst] = c
    BY DEF ZeroIsFresh
  <2>1. mem[c] = "alive" /\ refs[c] = 0
    BY <1>4, <1>5
  <2>2. PICK u \in Threads : op[u].pc = "retain" /\ m_block[op[u].dst] = c
    BY <2>1 DEF ZeroIsFresh
  <2> QED
    BY <1>1, <1>4, <1>5, <2>2
<1> QED
  BY <1>8, <1>10, <1>14, <1>15, <1>16, <1>18, <1>19, <1>20, <1>21

\* What a load does to the owners, for the block it takes and for the others.
LEMMA LoadOwners ==
    ASSUME IInv, NEW t \in Threads, Load(t), NEW c \in Blocks
    PROVE  /\ Cardinality(Owners(c)') = Cardinality(Owners(c))
           /\ Owners(c)' = {} <=> Owners(c) = {}
<1> USE DEF IInv
<1>1. PICK dst \in Own(t) : dst = op[t].dst
  BY DEF Load, OpInv, OpInvAt
<1>2. PICK src \in Handles \cup {None} : src = op[t].src
  BY DEF TypeOK
<1>3. dst \in Handles /\ dst # None /\ c # None
  BY HandleFacts
<1>4. src # None => src \in Sources(t, dst) /\ src # dst /\ ~Uncounted(src)
  BY <1>1, <1>2, SourceFacts DEF OpInv, OpInvAt, Load
<1>5. Uncounted(dst)
  BY <1>1, UncountedFacts DEF Load
<1> DEFINE b == IF src = None THEN None ELSE m_block[src]
<1>6. \A u \in Threads \ {t} : op'[u] = op[u]
  BY DEF Load, Return, Goto, TypeOK
<1>7. op'[t] = IF b = None \/ op[t].move THEN Idle ELSE [op[t] EXCEPT !.pc = "retain"]
  BY <1>2 DEF Load, Return, Goto, TypeOK
<1>8. op'[t].pc # "idle" => op'[t].dst = dst
  BY <1>1, <1>7 DEF Idle, TypeOK
<1>9. Uncounted(dst)' <=> b # None /\ ~op[t].move
  <2>1. CASE b = None \/ op[t].move
    BY <1>6, <1>7, <1>8, <2>1, UncountedStep DEF Idle
  <2>2. CASE b # None /\ ~op[t].move
    BY <1>1, <1>6, <1>7, <1>8, <2>2, UncountedStep DEF TypeOK
  <2> QED
    BY <2>1, <2>2
<1>10. ASSUME NEW h, h # dst PROVE Uncounted(h)' <=> Uncounted(h)
  <2>1. CASE h \in Own(t)
    BY <1>1, <1>6, <1>8, <1>10, <2>1, UncountedFacts, UncountedStep DEF Idle
  <2>2. CASE h \notin Own(t)
    BY <1>6, <1>8, <2>2, UncountedStep
  <2> QED
    BY <2>1, <2>2
<1>11. CASE op[t].move
  <2>1. src # None /\ src \in Handles
    BY <1>2, <1>11, HandleFacts DEF OpInv, OpInvAt
  <2>2. /\ m_block'[dst] = m_block[src] /\ m_block'[src] = None
        /\ \A h \in Handles \ {src, dst} : m_block'[h] = m_block[h]
    BY <1>1, <1>2, <1>3, <1>4, <1>11, <2>1 DEF Load, TypeOK
  <2>3. CASE m_block[src] = c
    <3>1. src \in Owners(c) /\ dst \notin Owners(c)
      BY <1>4, <1>5, <2>1, <2>3 DEF Owners
    <3>2. Owners(c)' = (Owners(c) \ {src}) \cup {dst}
      BY <1>3, <1>4, <1>5, <1>9, <1>10, <1>11, <2>1, <2>2, <2>3 DEF Owners
    <3> QED
      BY <3>1, <3>2, OwnersFinite, CardReplace
  <2>4. CASE m_block[src] # c
    <3>1. Owners(c)' = Owners(c)
      BY <1>3, <1>4, <1>5, <1>10, <2>1, <2>2, <2>4 DEF Owners
    <3> QED
      BY <3>1
  <2> QED
    BY <2>3, <2>4
<1>12. CASE ~op[t].move
  <2>1. m_block'[dst] = b /\ \A h \in Handles \ {dst} : m_block'[h] = m_block[h]
    BY <1>1, <1>2, <1>3, <1>12 DEF Load, TypeOK
  <2>2. dst \notin Owners(c) /\ dst \notin Owners(c)'
    BY <1>3, <1>5, <1>9, <1>12, <2>1 DEF Owners
  <2>3. ASSUME NEW h \in Handles \ {dst} PROVE h \in Owners(c)' <=> h \in Owners(c)
    BY <1>10, <2>1 DEF Owners
  <2>4. Owners(c)' \subseteq Handles /\ Owners(c) \subseteq Handles
    BY DEF Owners
  <2>5. Owners(c)' = Owners(c)
    BY <2>2, <2>3, <2>4
  <2> QED
    BY <2>5
<1> QED
  BY <1>11, <1>12

LEMMA LoadPreserves ==
    ASSUME IInv, NEW t \in Threads, Load(t)
    PROVE  IInv'
<1> USE DEF IInv
<1>1. PICK dst \in Own(t) : dst = op[t].dst
  BY DEF Load, OpInv, OpInvAt
<1>2. PICK src \in Handles \cup {None} : src = op[t].src
  BY DEF TypeOK
<1>3. op[t].pc = "load" /\ dst \in Handles /\ None \notin Handles
  BY HandleFacts DEF Load
<1>4. src # None => src \in Sources(t, dst) /\ src # dst
  BY <1>1, <1>2, SourceFacts DEF OpInv, OpInvAt, Load
<1>5. PICK b \in Blocks \cup {None} : b = IF src = None THEN None ELSE m_block[src]
  BY <1>2 DEF TypeOK
<1>6. b # None => src \in Owners(b)
  BY <1>1, <1>2, <1>3, <1>4, <1>5, SourceFacts
<1>7. /\ \A u \in Threads \ {t} : op'[u] = op[u]
      /\ UNCHANGED <<refs, mem, dying>>
  BY DEF Load, Return, Goto, TypeOK
<1>8. op'[t] = IF b = None \/ op[t].move THEN Idle ELSE [op[t] EXCEPT !.pc = "retain"]
  BY <1>2, <1>5 DEF Load, Return, Goto, TypeOK
<1>9. op[t].move => src \in Own(t)
  BY <1>2 DEF OpInv, OpInvAt
<1>10. /\ m_block' \in [Handles -> Blocks \cup {None}]
       /\ m_block'[dst] = b
       /\ ~op[t].move /\ src # None => m_block'[src] = m_block[src]
       /\ \A h \in Handles \ Own(t) : m_block'[h] = m_block[h]
  <2>1. CASE op[t].move
    BY <1>1, <1>2, <1>3, <1>4, <1>5, <1>9, <2>1 DEF Load, TypeOK
  <2>2. CASE ~op[t].move
    BY <1>1, <1>2, <1>3, <1>4, <1>5, <2>2 DEF Load, TypeOK
  <2> QED
    BY <2>1, <2>2
<1>11. LocalStep(t)
  <2>1. ASSUME NEW u \in Threads \ {t}, NEW h \in Own(u) PROVE h \in Handles \ Own(t)
    BY HandleFacts
  <2>2. ASSUME NEW c \in Blocks PROVE c \in Handles \ Own(t)
    BY HandleFacts
  <2> QED
    BY <1>7, <1>10, <2>1, <2>2 DEF LocalStep
<1>12. TypeOK'
  <2>1. op'[t] \in [pc : {"idle", "retain", "release", "unwind", "load"},
                    dst : Local \cup {None}, src : Handles \cup {None}, move : BOOLEAN]
    <3>1. op'[t] = Idle \/ op'[t] = [op[t] EXCEPT !.pc = "retain"]
      BY <1>8
    <3>2. op[t] \in [pc : {"idle", "retain", "release", "unwind", "load"},
                     dst : Local \cup {None}, src : Handles \cup {None}, move : BOOLEAN]
      BY DEF TypeOK
    <3>3. CASE op'[t] = Idle
      BY <3>3 DEF Idle
    <3>4. CASE op'[t] = [op[t] EXCEPT !.pc = "retain"]
      BY <3>2, <3>4
    <3> QED
      BY <3>1, <3>3, <3>4
  <2>2. op' \in [Threads -> [pc : {"idle", "retain", "release", "unwind", "load"},
                             dst : Local \cup {None}, src : Handles \cup {None},
                             move : BOOLEAN]]
    <3>1. op' = [op EXCEPT ![t] = op'[t]]
      BY DEF Load, Return, Goto, TypeOK
    <3> QED
      BY <2>1, <3>1 DEF TypeOK
  <2> QED
    BY <1>7, <1>10, <2>2 DEF TypeOK
<1>13. OpInv'
  <2>1. dying'[t] = <<>>
    BY <1>3, <1>7 DEF OpInv, OpInvAt
  <2>2. CASE b = None \/ op[t].move
    <3>1. op'[t] = Idle
      BY <1>8, <2>2
    <3>2. OpInvAt(t)'
      BY <2>1, <3>1 DEF OpInvAt, Idle
    <3> QED
      BY <1>11, <3>2, OthersFrame DEF OpInv
  <2>3. CASE b # None /\ ~op[t].move
    <3>1. /\ op'[t].pc = "retain" /\ op'[t].dst = dst /\ op'[t].src = src
          /\ ~op'[t].move /\ m_block'[dst] \in Blocks
      BY <1>1, <1>2, <1>8, <1>10, <2>3 DEF TypeOK
    <3>2. \A h \in Own(t) \ {dst} : m_block'[h] = m_block[h]
      BY <1>1, <1>2, <1>3, <2>3, HandleFacts DEF Load, TypeOK
    <3>3. Sources(t, dst)' = Sources(t, dst)
      BY <3>2 DEF Sources
    <3>4. OpInvAt(t)'
      BY <1>4, <2>1, <3>1, <3>3 DEF OpInvAt
    <3> QED
      BY <1>11, <3>4, OthersFrame DEF OpInv
  <2> QED
    BY <2>2, <2>3
<1>14. op'[t].pc = "retain" =>
         /\ b # None /\ src # None /\ ~op[t].move
         /\ op'[t].src = src /\ op'[t].dst = dst
  BY <1>1, <1>2, <1>5, <1>8 DEF Idle, TypeOK
<1>15. CopyInv'
  <2>1. op'[t].pc = "retain" => m_block'[op'[t].src] = m_block'[op'[t].dst]
    BY <1>5, <1>10, <1>14
  <2> QED
    BY <1>7, <1>11, <2>1, OthersFrame DEF CopyInv
<1>16. \A c \in Blocks : /\ Cardinality(Owners(c)') = Cardinality(Owners(c))
                         /\ Owners(c)' = {} <=> Owners(c) = {}
  <2> HIDE DEF IInv
  <2> QED
    BY LoadOwners
<1>17. FreshInv'
  <2>1. op'[t].pc = "retain" => \E c \in Blocks : m_block'[op'[t].dst] = c /\ Owners(c) # {}
    BY <1>6, <1>10, <1>14
  <2>2. \A c \in Blocks : Owners(c) = {} => Owners(c)' = {} /\ mem'[c] = mem[c]
    BY <1>7, <1>16
  <2>3. \A u \in Threads \ {t} : FreshInvAt(u)'
    BY <1>11, <2>1, <2>2, FreshFrame
  <2>4. FreshInvAt(t)'
    BY <1>14 DEF FreshInvAt
  <2> QED
    BY <2>3, <2>4 DEF FreshInv
<1>18. FreeInv'
  <2> SUFFICES ASSUME NEW c \in Blocks, mem'[c] = "free" PROVE m_block'[c] = None
    BY DEF FreeInv
  <2>1. c \in Handles \ Own(t)
    BY HandleFacts
  <2> QED
    BY <1>7, <1>10, <2>1 DEF FreeInv
<1>19. CountIsOwners' /\ OwnersAlive'
  BY <1>7, <1>16 DEF CountIsOwners, OwnersAlive
<1>20. ListedDying' /\ DyingListed' /\ ListedOnce'
  BY <1>7 DEF ListedDying, DyingListed, ListedOnce
<1>21. ZeroIsFresh'
  <2> SUFFICES ASSUME NEW c \in Blocks, mem'[c] = "alive", refs'[c] = 0
               PROVE  \E u \in Threads : op'[u].pc = "retain" /\ m_block'[op'[u].dst] = c
    BY DEF ZeroIsFresh
  <2>1. PICK u \in Threads : op[u].pc = "retain" /\ m_block[op[u].dst] = c
    BY <1>7 DEF ZeroIsFresh
  <2>2. u # t
    BY <1>3, <2>1
  <2> QED
    BY <1>7, <1>11, <2>1, <2>2, OthersFrame
<1> QED
  BY <1>12, <1>13, <1>15, <1>17, <1>18, <1>19, <1>20, <1>21

----------------------------------------------------------------------------
(* The specification *)

LEMMA InitIInv == Init => IInv
<1> SUFFICES ASSUME Init PROVE IInv
  OBVIOUS
<1> USE DEF Init
<1>1. TypeOK
  <2>1. Idle \in [pc : {"idle", "retain", "release", "unwind", "load"},
                  dst : Local \cup {None}, src : Handles \cup {None}, move : BOOLEAN]
    BY DEF Idle
  <2> QED
    BY <2>1, HandleFacts DEF TypeOK
<1>2. OpInv /\ CopyInv /\ FreshInv
  BY DEF OpInv, OpInvAt, CopyInv, FreshInv, FreshInvAt, Idle
<1>3. \A b \in Blocks : m_block[b] = None /\ Owners(b) = {}
  BY HandleFacts DEF Owners
<1>4. FreeInv /\ CountIsOwners /\ OwnersAlive
  BY <1>3 DEF FreeInv, CountIsOwners, OwnersAlive
<1>5. ListedDying /\ DyingListed /\ ListedOnce /\ ZeroIsFresh
  BY DEF ListedDying, DyingListed, ListedOnce, ZeroIsFresh
<1> QED
  BY <1>1, <1>2, <1>4, <1>5 DEF IInv

LEMMA StutterIInv == IInv /\ UNCHANGED vars => IInv'
<1> SUFFICES ASSUME IInv, UNCHANGED vars PROVE IInv'
  OBVIOUS
<1>1. UNCHANGED <<m_block, refs, mem, op, dying>>
  BY DEF vars
<1>2. \A b : Owners(b)' = Owners(b)
  BY <1>1 DEF Owners, Uncounted
<1>3. TypeOK' /\ OpInv' /\ CopyInv' /\ FreeInv'
  BY <1>1 DEF IInv, TypeOK, OpInv, OpInvAt, Sources, CopyInv, FreeInv
<1>4. FreshInv' /\ CountIsOwners' /\ OwnersAlive'
  BY <1>1, <1>2 DEF IInv, FreshInv, FreshInvAt, CountIsOwners, OwnersAlive, Owners, Uncounted
<1>5. ListedDying' /\ DyingListed' /\ ListedOnce' /\ ZeroIsFresh'
  BY <1>1 DEF IInv, ListedDying, DyingListed, ListedOnce, ZeroIsFresh
<1> QED
  BY <1>3, <1>4, <1>5 DEF IInv

LEMMA NextIInv == IInv /\ [Next]_vars => IInv'
<1> SUFFICES ASSUME IInv, Next PROVE IInv'
  BY StutterIInv
<1> PICK t \in Threads : Call(t) \/ Step(t)
  BY DEF Next
<1>1. ASSUME NEW dst \in Own(t), NEW arg \in Own(t), Make(t, dst, arg) \/ MakeIntrusive(t, dst, arg)
      PROVE  IInv'
  BY <1>1, MakePreserves
<1>2. ASSUME NEW dst \in Own(t), NEW src \in Sources(t, dst), Copy(t, dst, src)
      PROVE  IInv'
  BY <1>2, CopyPreserves
<1>3. ASSUME NEW dst \in Own(t), NEW src \in Sources(t, dst), NEW move \in BOOLEAN,
             Assign(t, dst, src, move)
      PROVE  IInv'
  BY <1>3, AssignPreserves
<1>4. ASSUME NEW dst \in Own(t), Reset(t, dst)
      PROVE  IInv'
  BY <1>4, ResetPreserves
<1>5. ASSUME NEW src \in Own(t), NEW dst \in Local, Move(t, src, dst)
      PROVE  IInv'
  BY <1>5, HandleFacts, MovePreserves
<1>6. CASE Call(t)
  BY <1>1, <1>2, <1>3, <1>4, <1>5, <1>6 DEF Call
<1>7. CASE Step(t)
  BY <1>7, RetainPreserves, ReleasePreserves, ReleaseInnerPreserves, FreePreserves,
     LoadPreserves DEF Step
<1> QED
  BY <1>6, <1>7

LEMMA IInvHolds == Spec => []IInv
  BY InitIInv, NextIInv, PTL DEF Spec

\* What a call is about to count itself in, or to read from, is alive because
\* another handle of the thread owns it.
LEMMA IInvImpliesNoUseAfterFree == IInv => NoUseAfterFree
<1> SUFFICES ASSUME IInv PROVE NoUseAfterFree
  OBVIOUS
<1>1. \A t \in Threads : op[t].pc = "retain" => mem[m_block[op[t].dst]] = "alive"
  BY RetainerFacts
<1>2. ASSUME NEW t \in Threads, op[t].src \in Blocks PROVE mem[op[t].src] = "alive"
  <2>1. op[t].src # None /\ OpInvAt(t)
    BY <1>2, HandleFacts DEF IInv, OpInv
  <2>2. op[t].dst \in Own(t) /\ op[t].src \in Sources(t, op[t].dst)
    BY <2>1 DEF OpInvAt, Idle
  <2> QED
    BY <1>2, <2>2, SourceFacts DEF IInv
<1> QED
  BY <1>1, <1>2 DEF NoUseAfterFree, OwnersAlive, IInv

\* Every variable keeps its type, for any number of threads, handles and
\* blocks.
THEOREM TypeCorrect == Spec => []TypeOK
<1>1. IInv => TypeOK
  BY DEF IInv
<1> QED
  BY <1>1, IInvHolds, PTL

\* The count of a block is the number of handles that own it, through every
\* interleaving of copies, moves, hand-overs and releases.
THEOREM CountIsOwnersHolds == Spec => []CountIsOwners
<1>1. IInv => CountIsOwners
  BY DEF IInv
<1> QED
  BY <1>1, IInvHolds, PTL

\* A handle that owns a block, and a call that works on one, find it alive.
THEOREM NoUseAfterFreeHolds == Spec => []NoUseAfterFree
  BY IInvHolds, IInvImpliesNoUseAfterFree, PTL

\* A block is destroyed once, by one thread, and not before its last owner
\* is gone.
THEOREM DestroyedOnceHolds == Spec => []DestroyedOnce
<1>1. IInv => DestroyedOnce
  BY DEF IInv, DestroyedOnce, ListedDying, DyingListed, ListedOnce, ZeroIsFresh
<1> QED
  BY <1>1, IInvHolds, PTL

\* Between calls no block is left without a handle and no handle without its
\* block.
THEOREM AtRestOwnedHolds == Spec => []AtRestOwned
<1>1. ASSUME IInv, \A t \in Threads : op[t].pc = "idle", NEW b \in Blocks
      PROVE  /\ mem[b] # "dying"
             /\ mem[b] = "alive" <=> \E h \in Handles : m_block[h] = b
  <2>1. Owners(b) = {h \in Handles : m_block[h] = b}
    BY <1>1 DEF Owners, Uncounted
  <2>2. \A t \in Threads : dying[t] = <<>>
    BY <1>1 DEF IInv, OpInv, OpInvAt
  <2>3. mem[b] # "dying"
    BY <1>1, <2>2 DEF IInv, DyingListed
  <2>4. ASSUME mem[b] = "alive"
        PROVE  Owners(b) # {}
    <3>1. refs[b] = Cardinality(Owners(b))
      BY <1>1, <2>4 DEF IInv, CountIsOwners
    <3>2. refs[b] # 0
      BY <1>1, <2>4 DEF IInv, ZeroIsFresh
    <3> QED
      BY <3>1, <3>2, FS_EmptySet
  <2>5. Owners(b) # {} => mem[b] = "alive"
    BY <1>1 DEF IInv, OwnersAlive
  <2> QED
    BY <2>1, <2>3, <2>4, <2>5
<1>2. IInv => AtRestOwned
  BY <1>1 DEF AtRestOwned
<1> QED
  BY <1>2, IInvHolds, PTL
=============================================================================
