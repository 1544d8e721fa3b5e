-------------------------------- MODULE Arc --------------------------------
(***************************************************************************)
(* memory::Arc and memory::IntrusiveArc: handles that share a counted      *)
(* block.  Several threads copy, assign, move, hand over and drop handles; *)
(* each handle belongs to one thread, the counts are shared.  A block      *)
(* holds one handle of its own, set when it is made, so that destroying it *)
(* releases another block from inside the first release.                   *)
(*                                                                         *)
(* A step touches one count or one block.  Both classes run the same       *)
(* protocol; they differ in the count a new block starts with.  Read-      *)
(* modify-writes of one count are totally ordered whatever their memory    *)
(* order, and the release decrement with the acquire fence orders the      *)
(* uses of a block before its destruction.  Definitions introduced by      *)
(* "Variant:" are faulty readings of the one below them; nothing else uses *)
(* them.                                                                   *)
(***************************************************************************)
EXTENDS Naturals, Sequences, SequencesExt, FiniteSets

CONSTANTS
    Threads,
    Names,   \* the handles each thread has
    Blocks,  \* addresses of blocks, reused once freed
    None     \* the null pointer

Local == Threads \X Names
Own(t) == {t} \X Names

\* A block also stands for the handle inside it.
Handles == Local \cup Blocks

ASSUME ArcAssumption ==
    /\ IsFiniteSet(Threads) /\ IsFiniteSet(Names) /\ IsFiniteSet(Blocks)
    /\ None \notin Handles /\ Local \cap Blocks = {}

VARIABLES
    m_block,  \* m_block[h]: the block a handle points to, or None
    refs,     \* refs[b]: the count in a block
    mem,      \* mem[b]: "free", "alive", or "dying" while its destructor runs
    op,       \* op[t]: the call t is in, and how far it got
    dying     \* dying[t]: the blocks t is destroying, the innermost last

vars == <<m_block, refs, mem, op, dying>>

Idle == [pc |-> "idle", dst |-> None, src |-> None, move |-> FALSE]

Init ==
    /\ m_block = [h \in Handles |-> None]
    /\ refs = [b \in Blocks |-> 0]
    /\ mem = [b \in Blocks |-> "free"]
    /\ op = [t \in Threads |-> Idle]
    /\ dying = [t \in Threads |-> <<>>]

-----------------------------------------------------------------------------
(* Calls *)

Begin(t, pc, dst, src, move) ==
    /\ op[t].pc = "idle"
    /\ op' = [op EXCEPT ![t] = [pc |-> pc, dst |-> dst, src |-> src, move |-> move]]

\* What t may copy to dst: its other handles, and the handle inside a block
\* that one of those keeps alive.
Sources(t, dst) ==
    LET others == Own(t) \ {dst}
    IN  others \cup ({m_block[h] : h \in others} \ {None})

\* make_arc: a block with a count of one, its inner handle moved from arg.
Make(t, dst, arg) ==
    /\ op[t].pc = "idle"
    /\ dst # arg /\ m_block[dst] = None
    /\ \E b \in Blocks :
        /\ mem[b] = "free"
        /\ mem' = [mem EXCEPT ![b] = "alive"]
        /\ refs' = [refs EXCEPT ![b] = 1]
        /\ m_block' = [m_block EXCEPT ![dst] = b, ![b] = m_block[arg], ![arg] = None]
    /\ UNCHANGED <<op, dying>>

\* make_intrusive_arc: the count starts at zero and the handle adds its one.
MakeIntrusive(t, dst, arg) ==
    /\ Begin(t, "retain", dst, None, FALSE)
    /\ dst # arg /\ m_block[dst] = None
    /\ \E b \in Blocks :
        /\ mem[b] = "free"
        /\ mem' = [mem EXCEPT ![b] = "alive"]
        /\ refs' = [refs EXCEPT ![b] = 0]
        /\ m_block' = [m_block EXCEPT ![dst] = b, ![b] = m_block[arg], ![arg] = None]
    /\ UNCHANGED dying

\* Variant: the copy does not count itself.
CopyUncounted(t, dst, src) ==
    /\ op[t].pc = "idle"
    /\ m_block[dst] = None /\ m_block[src] # None
    /\ m_block' = [m_block EXCEPT ![dst] = m_block[src]]
    /\ UNCHANGED <<refs, mem, op, dying>>

\* The copy constructors, and IntrusiveArc(T *) on the pointer of a handle:
\* the pointer is copied, then counted.
Copy(t, dst, src) ==
    /\ Begin(t, "retain", dst, src, FALSE)
    /\ m_block[dst] = None /\ m_block[src] # None
    /\ m_block' = [m_block EXCEPT ![dst] = m_block[src]]
    /\ UNCHANGED <<refs, mem, dying>>

\* The move constructors; the new handle may belong to another thread.
Move(t, src, dst) ==
    /\ op[t].pc = "idle" /\ op[dst[1]].pc = "idle"
    /\ m_block[dst] = None /\ m_block[src] # None
    /\ m_block' = [m_block EXCEPT ![dst] = m_block[src], ![src] = None]
    /\ UNCHANGED <<refs, mem, op, dying>>

\* The copy and move assignments, to another handle than themselves.
Assign(t, dst, src, move) ==
    /\ Begin(t, IF m_block[dst] = None THEN "load" ELSE "release", dst, src, move)
    /\ move => src \in Own(t)
    /\ UNCHANGED <<m_block, refs, mem, dying>>

\* reset() and the destructors.
Reset(t, dst) ==
    /\ m_block[dst] # None
    /\ Begin(t, "release", dst, None, FALSE)
    /\ UNCHANGED <<m_block, refs, mem, dying>>

-----------------------------------------------------------------------------
(* Steps of a call *)

Goto(t, pc) == op' = [op EXCEPT ![t].pc = pc]
Return(t) == op' = [op EXCEPT ![t] = Idle]

\* fetch_add
Retain(t) ==
    /\ op[t].pc = "retain"
    /\ refs' = [refs EXCEPT ![m_block[op[t].dst]] = @ + 1]
    /\ Return(t)
    /\ UNCHANGED <<m_block, mem, dying>>

\* Variant: the last owner is taken to be the one that finds a count of zero.
DroppedOffByOne(t, b) ==
    /\ refs' = [refs EXCEPT ![b] = @ - 1]
    /\ IF refs[b] = 0
       THEN mem' = [mem EXCEPT ![b] = "dying"] /\ dying' = [dying EXCEPT ![t] = Append(@, b)]
       ELSE UNCHANGED <<mem, dying>>
\* fetch_sub; the owner that finds a count of one starts the destructor.
Dropped(t, b) ==
    /\ refs' = [refs EXCEPT ![b] = @ - 1]
    /\ IF refs[b] = 1
       THEN mem' = [mem EXCEPT ![b] = "dying"] /\ dying' = [dying EXCEPT ![t] = Append(@, b)]
       ELSE UNCHANGED <<mem, dying>>

Release(t) ==
    /\ op[t].pc = "release"
    /\ Dropped(t, m_block[op[t].dst])
    /\ Goto(t, IF dying'[t] = <<>> THEN "load" ELSE "unwind")
    /\ UNCHANGED m_block

\* The destructor of a block releases the handle inside it ...
ReleaseInner(t) ==
    LET b == Last(dying[t])
    IN  /\ op[t].pc = "unwind"
        /\ m_block[b] # None
        /\ Dropped(t, m_block[b])
        /\ m_block' = [m_block EXCEPT ![b] = None]
        /\ UNCHANGED op

\* Variant: the block is freed before the handle inside it is released.
FreeKeepingInner(t) ==
    LET b == Last(dying[t])
    IN  /\ op[t].pc = "unwind"
        /\ mem' = [mem EXCEPT ![b] = "free"]
        /\ m_block' = [m_block EXCEPT ![b] = None]
        /\ dying' = [dying EXCEPT ![t] = Front(@)]
        /\ Goto(t, IF Front(dying[t]) = <<>> THEN "load" ELSE "unwind")
        /\ UNCHANGED refs
\* Variant: the destructor runs but the block is not given back.
FreeForgotten(t) ==
    LET b == Last(dying[t])
    IN  /\ op[t].pc = "unwind"
        /\ m_block[b] = None
        /\ dying' = [dying EXCEPT ![t] = Front(@)]
        /\ Goto(t, IF Front(dying[t]) = <<>> THEN "load" ELSE "unwind")
        /\ UNCHANGED <<m_block, refs, mem>>
\* ... and then the block is freed.
Free(t) ==
    LET b == Last(dying[t])
    IN  /\ op[t].pc = "unwind"
        /\ m_block[b] = None
        /\ mem' = [mem EXCEPT ![b] = "free"]
        /\ dying' = [dying EXCEPT ![t] = Front(@)]
        /\ Goto(t, IF Front(dying[t]) = <<>> THEN "load" ELSE "unwind")
        /\ UNCHANGED <<m_block, refs>>

\* The handle takes its new block, or none; a copy then counts itself.
Load(t) ==
    LET o == op[t]
        b == IF o.src = None THEN None ELSE m_block[o.src]
        taken == [m_block EXCEPT ![o.dst] = b]
    IN  /\ o.pc = "load"
        /\ m_block' = IF o.move THEN [taken EXCEPT ![o.src] = None] ELSE taken
        /\ IF b = None \/ o.move THEN Return(t) ELSE Goto(t, "retain")
        /\ UNCHANGED <<refs, mem, dying>>

Step(t) == Retain(t) \/ Release(t) \/ ReleaseInner(t) \/ Free(t) \/ Load(t)

Call(t) ==
    \E dst \in Own(t) :
        \/ \E arg \in Own(t) : Make(t, dst, arg) \/ MakeIntrusive(t, dst, arg)
        \/ \E src \in Sources(t, dst) : \/ Copy(t, dst, src)
                                        \/ \E move \in BOOLEAN : Assign(t, dst, src, move)
        \/ Reset(t, dst)
        \/ \E to \in Local : Move(t, dst, to)

Next == \E t \in Threads : Call(t) \/ Step(t)

Spec == Init /\ [][Next]_vars

\* A call that was begun goes on; nothing makes a thread call.
FairSpec == Spec /\ \A t \in Threads : WF_vars(Step(t))

-----------------------------------------------------------------------------
(* Properties *)

\* Every variable has its type; a count is never negative.
TypeOK ==
    /\ m_block \in [Handles -> Blocks \cup {None}]
    /\ refs \in [Blocks -> Nat]
    /\ mem \in [Blocks -> {"free", "alive", "dying"}]
    /\ op \in [Threads -> [pc : {"idle", "retain", "release", "unwind", "load"},
                           dst : Local \cup {None}, src : Handles \cup {None},
                           move : BOOLEAN]]
    /\ dying \in [Threads -> Seq(Blocks)]

\* A handle in the middle of a call points to a block it does not count in:
\* it has not added itself yet, or has already taken itself off.
Uncounted(h) == \E t \in Threads : op[t].dst = h /\ op[t].pc \in {"retain", "unwind", "load"}
Owners(b) == {h \in Handles : m_block[h] = b /\ ~Uncounted(h)}

\* The count of a block is the number of handles that own it, at every point
\* of every interleaving of copies, moves and releases.
CountIsOwners == \A b \in Blocks : mem[b] # "free" => refs[b] = Cardinality(Owners(b))

\* No handle that owns a block, and no call that is about to count itself in
\* one or to read the handle inside one, ever meets a block that is being
\* destroyed or freed (release against a concurrent copy).
NoUseAfterFree ==
    /\ \A b \in Blocks : Owners(b) # {} => mem[b] = "alive"
    /\ \A t \in Threads :
        /\ op[t].pc = "retain" => mem[m_block[op[t].dst]] = "alive"
        /\ op[t].src \in Blocks => mem[op[t].src] = "alive"

\* A block is destroyed by one thread, once, after the last owner went; and
\* a block without an owner is being destroyed, unless its first handle is
\* about to count itself.
DestroyedOnce ==
    /\ \A t \in Threads : \A i \in DOMAIN dying[t] : mem[dying[t][i]] = "dying"
    /\ \A b \in Blocks : mem[b] = "dying" =>
            \E t \in Threads : \E i \in DOMAIN dying[t] : dying[t][i] = b
    /\ \A t, u \in Threads : \A i \in DOMAIN dying[t], j \in DOMAIN dying[u] :
            dying[t][i] = dying[u][j] => t = u /\ i = j
    /\ \A b \in Blocks : mem[b] = "alive" /\ refs[b] = 0 =>
            \E t \in Threads : op[t].pc = "retain" /\ m_block[op[t].dst] = b

\* When no call is in progress the blocks that are there are those a handle
\* points to, and all are alive: nothing leaks and no handle dangles, however
\* the calls before it interleaved (~Arc, ~IntrusiveArc, reset).
AtRestOwned ==
    (\A t \in Threads : op[t].pc = "idle") =>
        \A b \in Blocks : /\ mem[b] # "dying"
                          /\ mem[b] = "alive" <=> \E h \in Handles : m_block[h] = b

\* A block without owners is freed, with every block only it kept alive: a
\* chain of destructors comes to its end.
OwnerlessIsFreed == \A b \in Blocks : mem[b] = "dying" ~> mem[b] = "free"
=============================================================================
