------------------------------ MODULE MCKitchen ------------------------------
(***************************************************************************)
(* Kitchen on small instances: one order of two or three lines.            *)
(***************************************************************************)
EXTENDS Kitchen, TLC

CONSTANTS o1, l1, l2, l3

OneOrder == [l \in Line |-> o1]
Symmetry == Permutations(Request)
==============================================================================
