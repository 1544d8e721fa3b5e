----------------------------- MODULE KeyedStore ----------------------------
(***************************************************************************)
(* What a slot map promises: insert hands out a key that is neither live   *)
(* nor retired, the key leads to its value until it is erased, and to      *)
(* nothing for as long as it is retired afterwards.  How long that is, the *)
(* slot map says.                                                          *)
(***************************************************************************)
EXTENDS Naturals, FiniteSets

CONSTANTS Keys, Values

VARIABLES
    content,    \* the values by the keys that lead to them
    retired     \* the erased keys the client may still use

vars == <<content, retired>>

Init ==
    /\ content = [k \in {} |-> k]
    /\ retired = {}

Insert(k, v) ==
    /\ k \notin DOMAIN content \cup retired
    /\ content' = [j \in DOMAIN content \cup {k} |-> IF j = k THEN v ELSE content[j]]
    /\ UNCHANGED retired

\* The erased key retires, and older ones may be given up for it.
Erase(k) ==
    /\ k \in DOMAIN content
    /\ content' = [j \in DOMAIN content \ {k} |-> content[j]]
    /\ k \in retired' /\ retired' \subseteq retired \cup {k}

\* The client drops every key it holds.
Clear ==
    /\ content' = [k \in {} |-> k]
    /\ retired' = {}

Next ==
    \/ \E k \in Keys, v \in Values : Insert(k, v)
    \/ \E k \in Keys : Erase(k)
    \/ Clear

Spec == Init /\ [][Next]_vars
=============================================================================
