--------------------------- MODULE ThreadContext ---------------------------
(***************************************************************************)
(* What the thread guards promise: each thread has a logger exactly while  *)
(* it is inside a guard, whatever other threads came before it under the   *)
(* same native id, and the main thread is the one that took a main guard   *)
(* as its outermost.                                                       *)
(***************************************************************************)
EXTENDS Naturals

CONSTANTS
    Threads,
    None

VARIABLES
    depth,   \* depth[t]: the guards t is inside
    logged,  \* logged[t]: t has a logger
    main     \* the main thread, or None

Init ==
    /\ depth = [t \in Threads |-> 0]
    /\ logged = [t \in Threads |-> FALSE]
    /\ main = None

Enter(t) ==
    /\ depth' = [depth EXCEPT ![t] = @ + 1]
    /\ logged' = [logged EXCEPT ![t] = TRUE]
    /\ main' \in IF depth[t] = 0 THEN {main, t} ELSE {main}

Leave(t) ==
    /\ depth[t] > 0
    /\ depth' = [depth EXCEPT ![t] = @ - 1]
    /\ logged' = [logged EXCEPT ![t] = depth[t] > 1]
    /\ main' = main

Next == \E t \in Threads : Enter(t) \/ Leave(t)

Spec == Init /\ [][Next]_<<depth, logged, main>>
=============================================================================
