---------------------------- MODULE MCHashTable ----------------------------
(***************************************************************************)
(* The swiss table on groups of three slots, one in three kept empty: the  *)
(* smallest numbers that the assumptions allow.  The keys of one group     *)
(* overflow into the next, where erased slots pile up with those of other  *)
(* keys, and the table both rehashes in place and doubles.                 *)
(***************************************************************************)
EXTENDS HashTable

CONSTANTS k1, k2, k3, k4, k5, k6
Near == {k1, k2, k3, k4}
Far == {k5, k6}
MCKeys == Near \cup Far

\* The near keys all collide and overflow their group into that of the far
\* keys, which share their fingerprint or have another.
MCHashFunctions ==
    {[k \in MCKeys |-> [h1 |-> IF k \in Far THEN 1 ELSE 0, h2 |-> IF k \in Far THEN mark ELSE 0]] :
        mark \in {0, 1}}

\* No hash function tells two near keys, or two far keys, apart.
MCSymmetry == Permutations(Near) \cup Permutations(Far)
=============================================================================
