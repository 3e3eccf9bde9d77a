------------------------------- MODULE Takings -------------------------------
(***************************************************************************)
(* What the billing code promises about cash and cards, with everything    *)
(* else left out: a payment is taken once, for one order; what goes back   *)
(* never exceeds it; an order that is closed takes nothing more.           *)
(***************************************************************************)
EXTENDS Naturals

CONSTANTS Order, Payment, None

VARIABLES
  owner,   \* the order each payment was taken for, None before it is taken
  taken,   \* what each payment brought in
  given,   \* what has gone back on it
  closed   \* the orders that were cancelled

Init ==
  /\ owner = [p \in Payment |-> None]
  /\ taken = [p \in Payment |-> 0]
  /\ given = [p \in Payment |-> 0]
  /\ closed = {}

Take(p, o) ==
  /\ owner[p] = None /\ o \notin closed
  /\ owner' = [owner EXCEPT ![p] = o]
  /\ taken'[p] \in Nat /\ taken' = [taken EXCEPT ![p] = taken'[p]]
  /\ UNCHANGED <<given, closed>>

GiveBack(p) ==
  /\ owner[p] # None
  /\ given'[p] \in given[p]..taken[p]
  /\ given' = [given EXCEPT ![p] = given'[p]]
  /\ UNCHANGED <<owner, taken, closed>>

Close(o) ==
  /\ closed' = closed \cup {o}
  /\ UNCHANGED <<owner, taken, given>>

Next ==
  \/ \E p \in Payment, o \in Order : Take(p, o)
  \/ \E p \in Payment : GiveBack(p)
  \/ \E o \in Order : Close(o)

vars == <<owner, taken, given, closed>>
Spec == Init /\ [][Next]_vars
==============================================================================
