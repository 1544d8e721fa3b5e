----------------------------- MODULE SpscQueue -----------------------------
(***************************************************************************)
(* containers::SpscQueue<T, Capacity>: a ring of raw storage shared by one *)
(* producer thread and one consumer thread, without a lock.                *)
(*                                                                         *)
(* One action per memory access that the other thread can observe.  The    *)
(* positions are unsigned machine words that wrap at IndexModulus.  A      *)
(* thread reads its own position exactly (it is the only writer), but the  *)
(* acquire load of the other thread's position may return any value that   *)
(* is not older than the one it returned last.  Definitions introduced by  *)
(* "Variant:" are faulty readings of the one below them; nothing uses them *)
(* except the experiments that show which property notices the fault.      *)
(***************************************************************************)
EXTENDS Integers, Sequences

CONSTANTS
    Capacity,       \* template parameter, the number of slots
    IndexModulus,   \* 2^64 in the code: the positions are usize
    Values,         \* the values of type T that the client pushes
    Raw,            \* a slot that holds no object
    MovedFrom       \* a slot whose object has been moved out, not destroyed yet

ASSUME SpscAssumption ==
    /\ Capacity \in Nat \ {0}
    /\ IndexModulus \in Nat
    /\ IndexModulus > Capacity /\ IndexModulus % Capacity = 0
    /\ Raw \notin Values /\ MovedFrom \notin Values /\ Raw # MovedFrom

VARIABLES
    m_write_pos,    \* stored by the producer only
    m_read_pos,     \* stored by the consumer only
    m_slots,        \* [0 .. Capacity-1 -> what the slot holds]
    push_pc,        \* where the producer is inside push
    push_value,     \* the parameter of the push under way
    seen_read,      \* what the producer's last acquire load returned
    pop_pc,         \* where the consumer is inside pop
    out_value,      \* the object pop assigns to; Raw before the first pop
    seen_write,     \* what the consumer's last acquire load returned
    phase           \* "alive", "draining" inside ~SpscQueue, "destroyed"

producer == <<push_pc, push_value, seen_read>>
consumer == <<pop_pc, out_value, seen_write>>
vars == <<m_write_pos, m_read_pos, m_slots, producer, consumer, phase>>

Index == 0 .. IndexModulus - 1
Slot  == 0 .. Capacity - 1

-----------------------------------------------------------------------------
(* usize arithmetic *)

Succ(pos) == (pos + 1) % IndexModulus

\* to - from, as usize subtraction computes it
Dist(from, to) == (to - from) % IndexModulus

\* pos & K_MASK
SlotOf(pos) == pos % Capacity

\* Variant: the full test off by one.
IsFullOffByOne(write_idx, read_idx) == Dist(read_idx, write_idx) > Capacity
IsFull(write_idx, read_idx) == Dist(read_idx, write_idx) = Capacity

\* The positions that an acquire load may still return: not older than the
\* last one returned, not newer than the last one stored.
Visible(seen, current) ==
    {pos \in Index : Dist(seen, pos) =< Dist(seen, current)}

-----------------------------------------------------------------------------
Init ==
    /\ m_write_pos = 0
    /\ m_read_pos = 0
    /\ m_slots = [s \in Slot |-> Raw]
    /\ push_pc = "idle" /\ push_value = Raw /\ seen_read = 0
    /\ pop_pc = "idle" /\ out_value = Raw /\ seen_write = 0
    /\ phase = "alive"

(* push *)

\* Load both positions; return false on a full queue.
PushLoad(v, read_idx) ==
    /\ phase = "alive" /\ push_pc = "idle"
    /\ read_idx \in Visible(seen_read, m_read_pos)
    /\ seen_read' = read_idx
    /\ IF IsFull(m_write_pos, read_idx)
       THEN UNCHANGED <<push_pc, push_value>>
       ELSE push_pc' = "construct" /\ push_value' = v
    /\ UNCHANGED <<m_write_pos, m_read_pos, m_slots, consumer, phase>>

\* new (slot) T(std::move(value))
PushConstruct ==
    /\ push_pc = "construct"
    /\ m_slots' = [m_slots EXCEPT ![SlotOf(m_write_pos)] = push_value]
    /\ push_pc' = "publish"
    /\ UNCHANGED <<m_write_pos, m_read_pos, push_value, seen_read, consumer, phase>>

\* m_write_pos.store(write_idx + 1, release); return true
PushPublish ==
    /\ push_pc = "publish"
    /\ m_write_pos' = Succ(m_write_pos)
    /\ push_pc' = "idle"
    /\ push_value' = Raw
    /\ UNCHANGED <<m_read_pos, m_slots, seen_read, consumer, phase>>

(* pop *)

\* Load both positions; return false on an empty queue.  That ends the drain
\* of the destructor, whose loads are ordered after everything both threads did.
PopLoad(write_idx) ==
    /\ phase # "destroyed" /\ pop_pc = "idle"
    /\ write_idx \in Visible(seen_write, m_write_pos)
    /\ phase = "draining" => write_idx = m_write_pos
    /\ seen_write' = write_idx
    /\ pop_pc' = IF write_idx = m_read_pos THEN "idle" ELSE "move"
    /\ phase' = IF phase = "draining" /\ write_idx = m_read_pos
                THEN "destroyed" ELSE phase
    /\ UNCHANGED <<m_write_pos, m_read_pos, m_slots, producer, out_value>>

\* out_value = std::move(*slot)
PopMove ==
    /\ pop_pc = "move"
    /\ out_value' = m_slots[SlotOf(m_read_pos)]
    /\ m_slots' = [m_slots EXCEPT ![SlotOf(m_read_pos)] = MovedFrom]
    /\ pop_pc' = "destroy"
    /\ UNCHANGED <<m_write_pos, m_read_pos, producer, seen_write, phase>>

\* Variant: pop forgets slot->~T().
PopDestroyForgotten ==
    /\ pop_pc = "destroy"
    /\ pop_pc' = "publish"
    /\ UNCHANGED <<m_write_pos, m_read_pos, m_slots, producer, out_value, seen_write, phase>>

\* slot->~T()
PopDestroy ==
    /\ pop_pc = "destroy"
    /\ m_slots' = [m_slots EXCEPT ![SlotOf(m_read_pos)] = Raw]
    /\ pop_pc' = "publish"
    /\ UNCHANGED <<m_write_pos, m_read_pos, producer, out_value, seen_write, phase>>

\* Variant: pop leaves the read position where it was.
PopPublishForgotten ==
    /\ pop_pc = "publish"
    /\ pop_pc' = "idle"
    /\ UNCHANGED <<m_write_pos, m_read_pos, m_slots, producer, out_value, seen_write, phase>>

\* Variant: pop stores the position it loaded, releasing every value it saw.
PopPublishSeenWrite ==
    /\ pop_pc = "publish"
    /\ m_read_pos' = seen_write
    /\ pop_pc' = "idle"
    /\ UNCHANGED <<m_write_pos, m_slots, producer, out_value, seen_write, phase>>

\* m_read_pos.store(read_idx + 1, release); return true
PopPublish ==
    /\ pop_pc = "publish"
    /\ m_read_pos' = Succ(m_read_pos)
    /\ pop_pc' = "idle"
    /\ UNCHANGED <<m_write_pos, m_slots, producer, out_value, seen_write, phase>>

\* ~SpscQueue starts once neither thread is inside the queue; it calls pop
\* until pop returns false.
Destructor ==
    /\ phase = "alive" /\ push_pc = "idle" /\ pop_pc = "idle"
    /\ phase' = "draining"
    /\ UNCHANGED <<m_write_pos, m_read_pos, m_slots, producer, consumer>>

Next ==
    \/ \E v \in Values, read_idx \in Index : PushLoad(v, read_idx)
    \/ PushConstruct
    \/ PushPublish
    \/ \E write_idx \in Index : PopLoad(write_idx)
    \/ PopMove
    \/ PopDestroy
    \/ PopPublish
    \/ Destructor

\* The consumer keeps calling pop, each call runs to its end, and a store
\* becomes visible to the other thread after a finite time.
Fairness ==
    /\ WF_vars(PopLoad(m_write_pos))
    /\ WF_vars(PopMove)
    /\ WF_vars(PopDestroy)
    /\ WF_vars(PopPublish)

Spec == Init /\ [][Next]_vars
FairSpec == Spec /\ Fairness

-----------------------------------------------------------------------------
(* Properties *)

Phase  == {"alive", "draining", "destroyed"}
PushPc == {"idle", "construct", "publish"}
PopPc  == {"idle", "move", "destroy", "publish"}

\* Every variable has its type: in particular both positions stay machine words.
TypeOK ==
    /\ m_write_pos \in Index
    /\ m_read_pos \in Index
    /\ m_slots \in [Slot -> Values \cup {Raw, MovedFrom}]
    /\ push_pc \in PushPc
    /\ push_value \in Values \cup {Raw}
    /\ seen_read \in Index
    /\ pop_pc \in PopPc
    /\ out_value \in Values \cup {Raw}
    /\ seen_write \in Index
    /\ phase \in Phase

\* The placement new of push never lands on an object that is still alive,
\* and the move, the destructor call and their slot in pop always find the
\* object they are meant for: no slot is written over, read raw or destroyed
\* twice, however stale the positions are that the two threads work from.
SlotLifetime ==
    /\ push_pc = "construct" => m_slots[SlotOf(m_write_pos)] = Raw
    /\ pop_pc = "move" => m_slots[SlotOf(m_read_pos)] \in Values
    /\ pop_pc = "destroy" => m_slots[SlotOf(m_read_pos)] = MovedFrom

\* After ~SpscQueue no slot holds an object: the drain destroys every value
\* still queued, whatever the positions were and wherever the ring had wrapped.
NothingLeaked == phase = "destroyed" => \A s \in Slot : m_slots[s] = Raw

\* The queued values: the published ones, without the one pop has moved out.
MovedOut == IF pop_pc \in {"destroy", "publish"} THEN 1 ELSE 0
Contents ==
    [i \in 1 .. Dist(m_read_pos, m_write_pos) - MovedOut |->
        m_slots[(SlotOf(m_read_pos) + MovedOut + i - 1) % Capacity]]

Fifo == INSTANCE BoundedFifo WITH queue <- Contents, out <- out_value

\* The ring implements a bounded FIFO: push accepts at its release store, pop
\* hands out at its move, nothing is lost, duplicated, reordered or invented.
ImplementsFifo == Fifo!Spec

\* A published position is left behind by the consumer: every accepted value
\* is handed out, or destroyed by the destructor, also across the wrap of the
\* positions and while the producer keeps pushing.
AcceptedIsConsumed ==
    \A pos \in Index :
        (Dist(m_read_pos, pos) < Dist(m_read_pos, m_write_pos))
            ~> (Dist(m_read_pos, pos) >= Dist(m_read_pos, m_write_pos))
=============================================================================
