------------------------------ MODULE MCSeating ------------------------------
(***************************************************************************)
(* Seating on small instances: two tables, two guests with a cart each, and *)
(* the staff, who send carts without a key.                                *)
(***************************************************************************)
EXTENDS Seating, TLC

CONSTANTS a, b, t1, t2, k1, k2

\* A guest and the staff order at one table and the staff at another; the guest's
\* cart may be sent twice.
BothTables ==
  {[party |-> a, table |-> t1, key |-> k1]}
    \cup {[party |-> None, table |-> t, key |-> None] : t \in Table}
\* One guest orders at either table, another at the first, the staff at the second.
EveryoneEverywhere ==
  [party: {a}, table: Table, key: {k1}]
    \cup {[party |-> b, table |-> t1, key |-> k2], [party |-> None, table |-> t2, key |-> None]}

Symmetry == Permutations(Request)
==============================================================================
