---------------------------- MODULE MCSlotMap ------------------------------
(***************************************************************************)
(* The slot map with values that may be renamed: it moves them about and   *)
(* never looks at them.                                                    *)
(***************************************************************************)
EXTENDS SlotMap, TLC

MCSymmetry == Permutations(Values)
=============================================================================
