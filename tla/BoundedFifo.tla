---------------------------- MODULE BoundedFifo ----------------------------
(***************************************************************************)
(* What a single-producer single-consumer queue promises its two clients:  *)
(* accepted values come out once each, in the order they were accepted,    *)
(* and at most Capacity of them are held at any time.                      *)
(***************************************************************************)
EXTENDS Naturals, Sequences

CONSTANTS
    Values,     \* the values that travel through the queue
    Capacity    \* how many of them it holds

VARIABLES
    queue,      \* the accepted values that have not been handed out, oldest first
    out         \* the value handed out last, or a value outside Values

vars == <<queue, out>>

Init ==
    /\ queue = <<>>
    /\ out \notin Values

Enq(v) ==
    /\ Len(queue) < Capacity
    /\ queue' = Append(queue, v)
    /\ UNCHANGED out

Deq ==
    /\ queue # <<>>
    /\ out' = Head(queue)
    /\ queue' = Tail(queue)

Next == Deq \/ \E v \in Values : Enq(v)

Spec == Init /\ [][Next]_vars
=============================================================================
