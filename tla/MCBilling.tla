------------------------------ MODULE MCBilling ------------------------------
(***************************************************************************)
(* Billing on small instances: a line costs one unit of money, which a line *)
(* discount takes off it; a point is worth one unit.                        *)
(***************************************************************************)
EXTENDS Billing, TLC, FiniteSetsExt

CONSTANTS o1, o2, l1, l2, l3, c1, c2

OneOrder  == [l \in Line |-> o1]
OrderEach == [l \in Line |-> IF l = l1 THEN o1 ELSE o2]
TwoPlaced == {l1, l2}
OnePlaced == {l1}
AllPlaced == Line
OnePoint  == [c \in Customer |-> 1]
Prices == [live \in SUBSET Line |-> [cut \in SUBSET Line |->
             Cardinality(live \ cut)]]
NoPoints  == [c \in Customer |-> 0]

Symmetry == Permutations(Payment) \cup Permutations(Key)
              \cup Permutations(Request)
==============================================================================
