---------------------------- MODULE SeatingProofs ----------------------------
(***************************************************************************)
(* Types, sittings, carts and numbers of Seating, for every number of      *)
(* tables, orders, guests, invocations and attempts.                       *)
(***************************************************************************)
EXTENDS Seating, FiniteSetTheorems, TLAPS

USE NoneAssumption, CartAssumption, HandAssumption, BoundAssumption

------------------------------------------------------------------------------
(* Types *)

\* The kinds of call are told apart by their step.
LEMMA Calls ==
  ASSUME TypeOK, NEW r \in Request
  PROVE  /\ req[r] # Idle /\ req[r].step \in {"begun", "seen", "opening", "seated", "numbered"}
              => req[r] \in Placing
         /\ req[r].step \in {"closing", "counted"} => req[r] \in Closing
         /\ req[r].step = "idle" => req[r] = Idle
BY DEF TypeOK, Placing, Closing, Idle

\* A call of the right type keeps the requests typed.
LEMMA GotoTyped ==
  ASSUME TypeOK, NEW r \in Request,
         NEW call \in Placing \cup Closing \cup {Idle}, Goto(r, call)
  PROVE  req' \in [Request -> Placing \cup Closing \cup {Idle}]
BY DEF TypeOK, Goto

LEMMA AttemptTyped ==
  ASSUME NEW cart \in Carts, NEW n \in 1..MaxAttempts
  PROVE  Attempt(cart, n) \in Placing
BY DEF Attempt, Placing, TableState

LEMMA AgainTyped ==
  ASSUME TypeOK, NEW r \in Request, req[r] \in Placing, Again(r)
  PROVE  req' \in [Request -> Placing \cup Closing \cup {Idle}]
<1>1. CASE req[r].attempt = MaxAttempts
  BY <1>1, GotoTyped DEF Again, Finish
<1>2. CASE req[r].attempt # MaxAttempts
  <2>1. req[r].attempt + 1 \in 1..MaxAttempts /\ req[r].cart \in Carts
    BY <1>2 DEF Placing
  <2>2. Attempt(req[r].cart, req[r].attempt + 1) \in Placing
    BY <2>1, AttemptTyped
  <2> QED
    BY <1>2, <2>2, GotoTyped DEF Again
<1> QED
  BY <1>1, <1>2

LEMMA FreedTyped ==
  ASSUME TypeOK, NEW t \in Table \cup {None}, Freed(t)
  PROVE  table' \in [Table -> TableState] /\ sitting' \in [Sitting -> SittingRow]
BY DEF TypeOK, Freed, TableState, SittingRow

\* The types of Seating's state.
LEMMA InitTyped == Init => TypeOK
BY DEF Init, NoOrder, TypeOK, TableState, SittingRow, OrderRow, Idle

LEMMA TypeStep ==
  ASSUME TypeOK, [Next]_vars
  PROVE  TypeOK'
<1>0. CASE UNCHANGED vars
  BY <1>0 DEF vars, TypeOK
<1>a. CASE \E t \in Table, s \in ByHand : SetStatus(t, s)
  BY <1>a DEF SetStatus, TypeOK, TableState
<1> SUFFICES ASSUME NEW r \in Request, NextOf(r) PROVE TypeOK'
  BY <1>0, <1>a DEF Next
<1>1. ASSUME NEW cart \in Carts, Begin(r, cart) PROVE TypeOK'
  <2>1. 1 \in 1..MaxAttempts
    OBVIOUS
  <2> QED
    BY <1>1, <2>1, AttemptTyped, GotoTyped DEF Begin, TypeOK
<1>2. CASE ReadTable(r)
  <2>1. req[r] \in Placing /\ req[r].cart \in Carts /\ req[r].cart.table \in Table
    BY <1>2, Calls DEF ReadTable, At, Placing, Idle
  <2>2. [req[r] EXCEPT !.step = "seen", !.status = table[req[r].cart.table]] \in Placing
    BY <2>1 DEF Placing, TypeOK
  <2> QED
    BY <1>2, <2>2, GotoTyped DEF ReadTable, Finish, TypeOK
<1>3. CASE FindSitting(r)
  <2>1. req[r] \in Placing
    <3>1. req[r].step = "seen"
      BY <1>3 DEF FindSitting, At
    <3> QED
      BY <3>1, Calls DEF Idle
  <2>2. \A s \in Sitting : [req[r] EXCEPT !.step = "seated", !.sitting = s] \in Placing
    BY <2>1 DEF Placing
  <2>3. [req[r] EXCEPT !.step = "opening"] \in Placing
    BY <2>1 DEF Placing
  <2> QED
    BY <1>3, <2>2, <2>3, GotoTyped DEF FindSitting, OpenSitting, TypeOK
<1>4. CASE OpenSittingAt(r)
  <2>1. req[r] \in Placing
    BY <1>4, Calls DEF OpenSittingAt, At, Idle
  <2>2. \A s \in Sitting : [req[r] EXCEPT !.step = "seated", !.opens = TRUE, !.sitting = s] \in Placing
    BY <2>1 DEF Placing
  <2>3. Fresh # {} => (CHOOSE s \in Fresh : TRUE) \in Sitting
    BY DEF Fresh
  <2> QED
    BY <1>4, <2>1, <2>2, <2>3, GotoTyped, AgainTyped DEF OpenSittingAt, TypeOK
<1>5. CASE ReadNumber(r)
  <2>1. req[r] \in Placing
    BY <1>5, Calls DEF ReadNumber, At, Idle
  <2>2. \A n \in Nat : [req[r] EXCEPT !.step = "numbered", !.number = n] \in Placing
    BY <2>1 DEF Placing
  <2>3. \A n \in {0} \cup {order[o].number : o \in Placed} : n + 1 \in Nat
    BY DEF TypeOK, OrderRow, Placed
  <2> QED
    BY <1>5, <2>2, <2>3, GotoTyped DEF ReadNumber, TypeOK
<1>6. CASE Commit(r)
  <2>1. /\ req[r] \in Placing /\ req[r].cart \in Carts /\ req[r].cart.table \in Table
        /\ req[r].sitting \in Sitting \cup {None} /\ req[r].number \in Nat
        /\ req[r].cart.key \in Key \cup {None} /\ req[r].cart.party \in Party \cup {None}
    BY <1>6, Calls DEF Commit, At, Placing, Idle
  <2>2. order' \in [Order -> OrderRow]
    BY <1>6, <2>1 DEF Commit, TypeOK, OrderRow
  <2>3. sitting' \in [Sitting -> SittingRow]
    BY <1>6, <2>1 DEF Commit, TypeOK, SittingRow
  <2>4. table' \in [Table -> TableState]
    BY <1>6, <2>1 DEF Commit, TypeOK, TableState
  <2> QED
    BY <1>6, <2>2, <2>3, <2>4, GotoTyped DEF Commit, Finish, TypeOK
<1>7. CASE Refused(r)
  <2>1. req[r] \in Placing
    BY <1>7, Calls DEF Refused, At, Idle
  <2> QED
    BY <1>7, <2>1, GotoTyped, AgainTyped DEF Refused, Finish, TypeOK
<1>8. ASSUME NEW o \in Order, PayClosing(r, o) PROVE TypeOK'
  <2> DEFINE call == [step |-> "counted", as |-> "COMPLETED", order |-> o,
                      table |-> order[o].table, pays |-> TRUE,
                      alone |-> Alone(order[o].table, o)]
  <2>1. call \in Closing
    BY DEF Closing, Alone, TypeOK, OrderRow
  <2>2. Goto(r, call) /\ UNCHANGED <<table, sitting, order>>
    BY <1>8 DEF PayClosing
  <2> QED
    BY <2>1, <2>2, GotoTyped DEF TypeOK
<1>9. ASSUME NEW o \in Order, PayEarly(r, o) PROVE TypeOK'
  <2>1. order[o] \in OrderRow
    BY DEF TypeOK
  <2>2. [order[o] EXCEPT !.paid = TRUE] \in OrderRow
    BY <2>1, Zenon DEF OrderRow
  <2> QED
    BY <1>9, <2>2 DEF PayEarly, TypeOK
<1>10. ASSUME NEW o \in Order, NEW as \in {"COMPLETED", "CANCELLED"}, Close(r, o, as)
       PROVE  TypeOK'
  BY <1>10, GotoTyped DEF Close, Closing, TypeOK, OrderRow
<1>11. CASE Count(r)
  <2>1. req[r] \in Closing
    BY <1>11, Calls DEF Count, At
  <2>2. [req[r] EXCEPT !.step = "counted", !.alone = Alone(req[r].table, req[r].order)] \in Closing
    BY <2>1 DEF Closing, Alone
  <2> QED
    BY <1>11, <2>2, GotoTyped DEF Count, Finish, TypeOK
<1>12. CASE CommitClose(r)
  <2>1. /\ req[r] \in Closing /\ req[r].table \in Table \cup {None} /\ req[r].order \in Order
        /\ req[r].as \in {"COMPLETED", "CANCELLED"} /\ req[r].pays \in BOOLEAN
    BY <1>12, Calls DEF CommitClose, At, Closing
  <2>2. order' \in [Order -> OrderRow]
    BY <1>12, <2>1 DEF CommitClose, TypeOK, OrderRow
  <2> QED
    BY <1>12, <2>1, <2>2, FreedTyped, GotoTyped DEF CommitClose, Finish, TypeOK
<1>13. CASE Fail(r)
  BY <1>13, GotoTyped DEF Fail, Finish, TypeOK
<1>14. ASSUME NEW from \in Table, NEW to \in Table, Swap(r, from, to) PROVE TypeOK'
  <2>1. order' \in [Order -> OrderRow]
    <3>1. \A o \in Order : [order[o] EXCEPT !.table = to] \in OrderRow /\ order[o] \in OrderRow
      BY DEF TypeOK, OrderRow
    <3> QED
      BY <1>14, <3>1 DEF Swap, Moved
  <2>2. sitting' \in [Sitting -> SittingRow]
    <3>1. \A s \in Sitting : /\ [sitting[s] EXCEPT !.table = to, !.activeTableKey = to]
                                  \in SittingRow
                             /\ sitting[s] \in SittingRow
      <4> SUFFICES ASSUME NEW s \in Sitting
                   PROVE  [sitting[s] EXCEPT !.table = to, !.activeTableKey = to]
                            \in SittingRow /\ sitting[s] \in SittingRow
        OBVIOUS
      <4>1. sitting[s] \in SittingRow
        BY DEF TypeOK
      <4>2. [sitting[s] EXCEPT !.table = to] \in SittingRow
        BY <4>1 DEF SittingRow
      <4> QED
        BY <4>1, <4>2 DEF SittingRow
    <3> QED
      BY <1>14, <3>1 DEF Swap
  <2>3. table' \in [Table -> TableState]
    BY <1>14 DEF Swap, TypeOK, TableState
  <2> QED
    BY <1>14, <2>1, <2>2, <2>3 DEF Swap, TypeOK
<1> QED
  BY <1>1, <1>2, <1>3, <1>4, <1>5, <1>6, <1>7, <1>8, <1>9, <1>10, <1>11, <1>12, <1>13,
     <1>14 DEF NextOf

\* Every placement, closing and move keeps the rows and the calls well formed.
THEOREM SeatingTypes == Spec => []TypeOK
<1>1. TypeOK /\ [Next]_vars => TypeOK'
  BY TypeStep
<1> QED
  BY <1>1, InitTyped, PTL DEF Spec

------------------------------------------------------------------------------
(* Sittings *)

\* What placements in flight have inserted is apart from every sitting that is
\* committed, and from each other's.
InsertedApart ==
  /\ \A r \in Request : Inserted(r) =>
       /\ req[r].sitting \in Sitting /\ sitting[req[r].sitting].status = "NONE"
       /\ OpenSitting(req[r].cart.table) = {}
  /\ \A r, q \in Request : Inserted(r) /\ Inserted(q) /\ r # q =>
       /\ req[r].cart.table # req[q].cart.table
       /\ req[r].sitting # req[q].sitting
  /\ \A r \in Request : req[r].step \in {"begun", "seen", "opening"} => ~ req[r].opens

Placings == {"begun", "seen", "opening", "seated", "numbered"}
SittingInv == TypeOK /\ OneSitting /\ InsertedApart

LEMMA InitSitting == Init => SittingInv
<1> SUFFICES ASSUME Init PROVE SittingInv
  OBVIOUS
<1>1. TypeOK
  BY InitTyped
<1>2. OneSitting /\ InsertedApart
  BY DEF Init, OneSitting, InsertedApart, Inserted, Idle
<1> QED
  BY <1>1, <1>2 DEF SittingInv

\* A call that has inserted nothing, put in the place of another, parts nothing.
LEMMA GotoApart ==
  ASSUME TypeOK, InsertedApart, UNCHANGED sitting, NEW r \in Request, NEW call,
         Goto(r, call), call.step \in Placings => ~ call.opens
  PROVE  InsertedApart'
BY DEF TypeOK, InsertedApart, Inserted, Goto, OpenSitting, Placings

LEMMA AgainApart ==
  ASSUME TypeOK, InsertedApart, UNCHANGED sitting, NEW r \in Request, Again(r)
  PROVE  InsertedApart'
<1>1. CASE req[r].attempt = MaxAttempts
  BY <1>1, GotoApart DEF Again, Finish, Idle, Placings
<1>2. CASE req[r].attempt # MaxAttempts
  BY <1>2, GotoApart DEF Again, Attempt
<1> QED
  BY <1>1, <1>2

\* Freeing a table only closes sittings.
LEMMA FreedSitting ==
  ASSUME SittingInv, NEW t \in Table \cup {None}, Freed(t), NEW r \in Request, Finish(r)
  PROVE  OneSitting' /\ InsertedApart'
<1> USE DEF SittingInv
<1>1. \A s \in Sitting : sitting'[s] = IF s \in OpenSitting(t)
        THEN [sitting[s] EXCEPT !.status = "CLOSED", !.activeTableKey = None]
        ELSE sitting[s]
  BY DEF Freed
<1>2. \A s \in Sitting : sitting[s] \in SittingRow
  BY DEF TypeOK
<1>3. \A s \in Sitting :
        /\ s \in OpenSitting(t) => /\ sitting'[s].status = "CLOSED"
                                   /\ sitting'[s].activeTableKey = None
        /\ s \notin OpenSitting(t) => sitting'[s] = sitting[s]
  BY <1>1, <1>2 DEF SittingRow
<1>4. OneSitting'
  BY <1>3 DEF OneSitting, OpenSitting
<1>5. \A q \in Request : q # r => req'[q] = req[q]
  BY DEF Finish, Goto, TypeOK
<1>6. req'[r] = Idle
  BY DEF Finish, Goto, TypeOK
<1>7. InsertedApart'
  BY <1>3, <1>5, <1>6 DEF InsertedApart, Inserted, Idle, OpenSitting
<1> QED
  BY <1>4, <1>7

LEMMA SittingStep ==
  ASSUME SittingInv, [Next]_vars
  PROVE  SittingInv'
<1> USE DEF SittingInv
<1>t. TypeOK'
  BY TypeStep
<1> SUFFICES OneSitting' /\ InsertedApart'
  BY <1>t
<1>0. CASE UNCHANGED vars
  BY <1>0 DEF vars, OneSitting, InsertedApart, Inserted, OpenSitting
<1>a. CASE \E t \in Table, s \in ByHand : SetStatus(t, s)
  BY <1>a DEF SetStatus, OneSitting, InsertedApart, Inserted, OpenSitting
<1> SUFFICES ASSUME NEW r \in Request, NextOf(r) PROVE OneSitting' /\ InsertedApart'
  BY <1>0, <1>a DEF Next
<1>k. UNCHANGED sitting => OneSitting'
  BY DEF OneSitting
<1>1. ASSUME NEW cart \in Carts, Begin(r, cart) PROVE OneSitting' /\ InsertedApart'
  BY <1>1, <1>k, GotoApart DEF Begin, Attempt
<1>2. CASE ReadTable(r)
  <2> DEFINE call == [req[r] EXCEPT !.step = "seen", !.status = table[req[r].cart.table]]
  <2>1. req[r].step = "begun" /\ UNCHANGED sitting
    BY <1>2 DEF ReadTable, At
  <2>2. req[r] \in Placing /\ ~ req[r].opens
    BY <2>1, Calls DEF Idle, InsertedApart
  <2>3. call.step = "seen" /\ ~ call.opens
    BY <2>2 DEF Placing
  <2>4. Goto(r, call) \/ Goto(r, Idle)
    BY <1>2 DEF ReadTable, Finish
  <2> HIDE DEF call
  <2> QED
    BY <1>k, <2>1, <2>3, <2>4, GotoApart DEF Idle, Placings
<1>3. CASE FindSitting(r)
  <2>1. req[r].step = "seen" /\ UNCHANGED sitting
    BY <1>3 DEF FindSitting, At
  <2>2. req[r] \in Placing /\ ~ req[r].opens
    BY <2>1, Calls DEF Idle, InsertedApart
  <2>3. ASSUME NEW s \in OpenSitting(req[r].cart.table),
               Goto(r, [req[r] EXCEPT !.step = "seated", !.sitting = s])
        PROVE  InsertedApart'
    <3> DEFINE call == [req[r] EXCEPT !.step = "seated", !.sitting = s]
    <3>1. ~ call.opens
      BY <2>2 DEF Placing
    <3> HIDE DEF call
    <3> QED
      BY <2>1, <2>3, <3>1, GotoApart DEF call
  <2>4. ASSUME Goto(r, [req[r] EXCEPT !.step = "opening"])
        PROVE  InsertedApart'
    <3> DEFINE call == [req[r] EXCEPT !.step = "opening"]
    <3>1. ~ call.opens
      BY <2>2 DEF Placing
    <3> QED
      BY <2>1, <2>4, <3>1, GotoApart
  <2> QED
    BY <1>3, <1>k, <2>1, <2>3, <2>4 DEF FindSitting
<1>4. CASE OpenSittingAt(r)
  <2> DEFINE t == req[r].cart.table
             u == CHOOSE s \in Fresh : TRUE
             call == [req[r] EXCEPT !.step = "seated", !.opens = TRUE, !.sitting = u]
  <2>1. req[r].step = "opening" /\ UNCHANGED sitting /\ Opening(t) = {}
    BY <1>4 DEF OpenSittingAt, At
  <2>2. req[r] \in Placing /\ t \in Table
    BY <2>1, Calls DEF Idle, Placing
  <2>3. CASE Again(r)
    BY <1>k, <2>1, <2>3, AgainApart
  <2>4. ASSUME ~ Keyed(t), Fresh # {}, Goto(r, call) PROVE InsertedApart'
    <3>1. u \in Sitting /\ sitting[u].status = "NONE"
      BY <2>4 DEF Fresh
    <3>2. \A q \in Request : Inserted(q) => req[q].sitting # u
      BY <2>4 DEF Fresh
    <3>3. \A q \in Request : Inserted(q) => req[q].cart.table # t
      BY <2>1 DEF Opening
    <3>4. OpenSitting(t) = {}
      BY <2>2, <2>4 DEF Keyed, OpenSitting, OneSitting
    <3>5. /\ call.step = "seated" /\ call.opens /\ call.sitting = u
          /\ call.cart.table = t
      BY <2>2 DEF Placing
    <3>6. req'[r] = call /\ \A q \in Request : q # r => req'[q] = req[q]
      BY <2>4 DEF Goto, TypeOK
    <3> HIDE DEF call, u, t
    <3> QED
      BY <2>1, <3>1, <3>2, <3>3, <3>4, <3>5, <3>6 DEF InsertedApart, Inserted, OpenSitting
  <2> QED
    BY <1>4, <1>k, <2>1, <2>3, <2>4 DEF OpenSittingAt
<1>5. CASE ReadNumber(r)
  <2>1. PICK n : req' = [req EXCEPT ![r] = [req[r] EXCEPT !.step = "numbered", !.number = n]]
    BY <1>5 DEF ReadNumber, Goto
  <2>2. req[r].step = "seated" /\ UNCHANGED sitting
    BY <1>5 DEF ReadNumber, At
  <2>3. req[r] \in Placing
    BY <2>2, Calls DEF Idle
  <2>4. /\ req'[r].step = "numbered" /\ req'[r].opens = req[r].opens
        /\ req'[r].sitting = req[r].sitting /\ req'[r].cart = req[r].cart
        /\ \A q \in Request : q # r => req'[q] = req[q]
    BY <2>1, <2>3 DEF TypeOK, Placing
  <2> QED
    BY <1>k, <2>2, <2>4 DEF InsertedApart, Inserted, OpenSitting
<1>6. CASE Commit(r)
  <2> DEFINE t == req[r].cart.table
             u == req[r].sitting
  <2>1. req[r].step = "numbered"
    BY <1>6 DEF Commit, At
  <2>2. req[r] \in Placing /\ t \in Table
    BY <2>1, Calls DEF Idle, Placing
  <2>3. req'[r] = Idle /\ \A q \in Request : q # r => req'[q] = req[q]
    BY <1>6 DEF Commit, Finish, Goto, TypeOK
  <2>4. CASE ~ req[r].opens
    <3>1. UNCHANGED sitting
      BY <1>6, <2>4 DEF Commit
    <3> QED
      BY <1>k, <2>3, <3>1 DEF InsertedApart, Inserted, Idle, OpenSitting
  <2>5. CASE req[r].opens
    <3>1. Inserted(r)
      BY <2>1, <2>5 DEF Inserted
    <3>2. u \in Sitting /\ sitting[u].status = "NONE" /\ OpenSitting(t) = {}
      BY <3>1 DEF InsertedApart
    <3>3. /\ sitting'[u].status = "OPEN" /\ sitting'[u].table = t
          /\ sitting'[u].activeTableKey = t
          /\ \A s \in Sitting : s # u => sitting'[s] = sitting[s]
      BY <1>6, <2>5, <3>2 DEF Commit, TypeOK
    <3>4. OneSitting'
      BY <3>2, <3>3 DEF OneSitting, OpenSitting
    <3>5. \A q \in Request : Inserted(q) /\ q # r => req[q].cart.table # t /\ req[q].sitting # u
      BY <3>1 DEF InsertedApart
    <3> HIDE DEF t, u
    <3>6. InsertedApart'
      BY <2>3, <3>2, <3>3, <3>5 DEF InsertedApart, Inserted, Idle, OpenSitting
    <3> QED
      BY <3>4, <3>6
  <2> QED
    BY <2>4, <2>5
<1>7. CASE Refused(r)
  BY <1>7, <1>k, AgainApart, GotoApart DEF Refused, Finish, Idle, Placings
<1>8. ASSUME NEW o \in Order, PayClosing(r, o) PROVE OneSitting' /\ InsertedApart'
  BY <1>8, <1>k, GotoApart DEF PayClosing, Placings
<1>9. ASSUME NEW o \in Order, PayEarly(r, o) PROVE OneSitting' /\ InsertedApart'
  BY <1>9, <1>k DEF PayEarly, InsertedApart, Inserted, OpenSitting
<1>10. ASSUME NEW o \in Order, NEW as \in {"COMPLETED", "CANCELLED"}, Close(r, o, as)
       PROVE  OneSitting' /\ InsertedApart'
  BY <1>10, <1>k, GotoApart DEF Close, Placings
<1>11. CASE Count(r)
  <2> DEFINE call == [req[r] EXCEPT !.step = "counted",
                                    !.alone = Alone(req[r].table, req[r].order)]
  <2>1. req[r].step = "closing" /\ UNCHANGED sitting
    BY <1>11 DEF Count, At
  <2>2. call.step = "counted"
    BY <2>1, Calls DEF Closing
  <2>3. Goto(r, call) \/ Goto(r, Idle)
    BY <1>11 DEF Count, Finish
  <2> HIDE DEF call
  <2> QED
    BY <1>k, <2>1, <2>2, <2>3, GotoApart DEF Idle, Placings
<1>12. CASE CommitClose(r)
  <2>1. req[r].step = "counted" /\ Finish(r)
    BY <1>12 DEF CommitClose, At
  <2>2. req[r].table \in Table \cup {None}
    BY <2>1, Calls DEF Closing
  <2>3. CASE req[r].alone
    BY <1>12, <2>1, <2>2, <2>3, FreedSitting DEF CommitClose
  <2>4. CASE ~ req[r].alone
    BY <1>12, <1>k, <2>1, <2>4, GotoApart DEF CommitClose, Finish, Idle, Placings
  <2> QED
    BY <2>3, <2>4
<1>13. CASE Fail(r)
  BY <1>13, <1>k, GotoApart DEF Fail, Finish, Idle, Placings
<1>14. ASSUME NEW from \in Table, NEW to \in Table, Swap(r, from, to)
       PROVE  OneSitting' /\ InsertedApart'
  <2>1. \A s \in Sitting : sitting[s] \in SittingRow
    BY DEF TypeOK
  <2>2. \A s \in Sitting :
          /\ s \in OpenSitting(from) => /\ sitting'[s].status = "OPEN"
                                        /\ sitting'[s].table = to
                                        /\ sitting'[s].activeTableKey = to
          /\ s \notin OpenSitting(from) => sitting'[s] = sitting[s]
    BY <1>14, <2>1 DEF Swap, OpenSitting, SittingRow
  <2>3. OpenSitting(to) = {} /\ Opening(from) = {} /\ Opening(to) = {} /\ UNCHANGED req
    BY <1>14 DEF Swap, MaySwapTo
  <2>4. OneSitting'
    BY <2>2, <2>3 DEF OneSitting, OpenSitting
  <2>5. \A q \in Request : Inserted(q) => req[q].cart.table \notin {from, to}
    BY <2>3 DEF Opening
  <2>6. InsertedApart'
    BY <2>2, <2>3, <2>5 DEF InsertedApart, Inserted, OpenSitting
  <2> QED
    BY <2>4, <2>6
<1> QED
  BY <1>1, <1>2, <1>3, <1>4, <1>5, <1>6, <1>7, <1>8, <1>9, <1>10, <1>11, <1>12, <1>13,
     <1>14 DEF NextOf

\* However many first orders race for a table, and wherever sittings are moved,
\* a table has one open sitting at most (the unique activeTableKey).
THEOREM OneSittingPerTable == Spec => []OneSitting
<1>1. SittingInv /\ [Next]_vars => SittingInv'
  BY SittingStep
<1>2. SittingInv => OneSitting
  BY DEF SittingInv
<1> QED
  BY <1>1, <1>2, InitSitting, PTL DEF Spec

------------------------------------------------------------------------------
(* Numbers: one order for each cart, and numbers without a gap *)

Numbers == {order[o].number : o \in Placed}

\* An invocation closes an order that has been placed.
ClosesPlaced ==
  \A r \in Request : req[r].step \in {"closing", "counted"} =>
    req[r].order \in Placed

\* What a placement in flight read was the highest when it read it.
NumberRead ==
  \A r \in Request : req[r].step = "numbered" =>
    req[r].number \in 1..(Cardinality(Placed) + 1)

PlacedInv ==
  /\ TypeOK /\ IsFiniteSet(Placed) /\ ClosesPlaced /\ NumberRead
  /\ PlacedOnce /\ NumbersInSequence

------------------------------------------------------------------------------
(* Numbers: what a step can touch *)

SameOrders ==
  \A o \in Order : /\ order'[o].status = "NONE" <=> order[o].status = "NONE"
                   /\ order'[o].number = order[o].number
                   /\ order'[o].key = order[o].key

\* Orders come into being, and are given their keys and numbers, by Commit alone.
LEMMA OrderFrame ==
  ASSUME TypeOK, ClosesPlaced, [Next]_vars
  PROVE  (\E r \in Request : Commit(r)) \/ SameOrders
<1>0. ASSUME UNCHANGED order PROVE SameOrders
  BY <1>0 DEF SameOrders
<1>1. ASSUME NEW r \in Request, NEW o \in Order, PayEarly(r, o) PROVE SameOrders
  BY <1>1 DEF PayEarly, SameOrders, TypeOK, OrderRow
<1>2. ASSUME NEW r \in Request, CommitClose(r) PROVE SameOrders
  <2>1. req[r].step = "counted"
    BY <1>2 DEF CommitClose, At
  <2>2. req[r].as # "NONE" /\ req[r].order \in Placed
    BY <2>1, Calls DEF Closing, ClosesPlaced
  <2> QED
    BY <1>2, <2>2 DEF CommitClose, SameOrders, TypeOK, OrderRow, Placed
<1>3. ASSUME NEW r \in Request, NEW from \in Table, NEW to \in Table, Swap(r, from, to)
      PROVE  SameOrders
  <2>1. \A o \in Order : order[o] \in OrderRow
    BY DEF TypeOK
  <2> QED
    BY <1>3, <2>1 DEF Swap, Moved, SameOrders, OrderRow
<1>4. ASSUME NEW r \in Request, NextOf(r), ~ Commit(r) PROVE SameOrders
  <2>1. \/ UNCHANGED order \/ CommitClose(r)
        \/ \E o \in Order : PayEarly(r, o)
        \/ \E from, to \in Table : Swap(r, from, to)
    BY <1>4 DEF NextOf, Begin, ReadTable, FindSitting, OpenSittingAt, ReadNumber, Refused,
                PayClosing, Close, Count, Fail
  <2>2. CASE UNCHANGED order
    BY <1>0, <2>2
  <2>3. CASE \E o \in Order : PayEarly(r, o)
    BY <1>1, <2>3
  <2>4. CASE \E from, to \in Table : Swap(r, from, to)
    BY <1>3, <2>4
  <2> QED
    BY <1>2, <2>1, <2>2, <2>3, <2>4
<1>5. CASE \E t \in Table, s \in ByHand : SetStatus(t, s)
  BY <1>0, <1>5 DEF SetStatus
<1> QED
  BY <1>0, <1>4, <1>5 DEF Next, vars

LEMMA SamePlaced ==
  ASSUME SameOrders
  PROVE  Placed' = Placed /\ Numbers' = Numbers
<1>1. Placed' = Placed
  BY DEF SameOrders, Placed
<1> QED
  BY <1>1 DEF SameOrders, Numbers, Placed

\* One invocation moves in a step, and the calls of the others stay.
LEMMA OthersStay ==
  ASSUME TypeOK, NEW r \in Request, NextOf(r), NEW q \in Request, q # r
  PROVE  req'[q] = req[q]
<1>1. (\E call : Goto(r, call)) \/ UNCHANGED req
  BY DEF NextOf, Begin, ReadTable, FindSitting, OpenSittingAt, ReadNumber, Commit, Refused,
         Again, PayClosing, PayEarly, Close, Count, CommitClose, Fail, Swap, Finish
<1> QED
  BY <1>1 DEF Goto, TypeOK

\* A number is held from ReadNumber until the attempt is over.
LEMMA NumberFrame ==
  ASSUME TypeOK, NEW r \in Request, NextOf(r), ~ ReadNumber(r),
         req'[r].step = "numbered"
  PROVE  UNCHANGED req
<1> DEFINE Past == \E call : Goto(r, call) /\ call.step # "numbered"
<1>1. Idle.step # "numbered" /\ \A c, n : Attempt(c, n).step # "numbered"
  BY DEF Idle, Attempt
<1>2. ASSUME Finish(r) \/ Again(r) PROVE Past
  BY <1>1, <1>2 DEF Finish, Again
<1>3. ASSUME NEW cart \in Carts, Begin(r, cart) PROVE Past
  BY <1>1, <1>3 DEF Begin
<1>4. ASSUME ReadTable(r) PROVE Past
  <2>1. req[r].step = "begun"
    BY <1>4 DEF ReadTable, At
  <2>2. \A s : [req[r] EXCEPT !.step = "seen", !.status = s].step = "seen"
    BY <2>1, Calls DEF Idle, Placing
  <2> QED
    BY <1>2, <1>4, <2>2 DEF ReadTable
<1>5. ASSUME FindSitting(r) PROVE Past
  <2>1. req[r].step = "seen"
    BY <1>5 DEF FindSitting, At
  <2>2. \A s : [req[r] EXCEPT !.step = "seated", !.sitting = s].step = "seated"
    BY <2>1, Calls DEF Idle, Placing
  <2>3. [req[r] EXCEPT !.step = "opening"].step = "opening"
    BY <2>1, Calls DEF Idle, Placing
  <2> QED
    BY <1>5, <2>2, <2>3 DEF FindSitting
<1>6. ASSUME OpenSittingAt(r) PROVE Past
  <2>1. req[r].step = "opening"
    BY <1>6 DEF OpenSittingAt, At
  <2>2. \A s : [req[r] EXCEPT !.step = "seated", !.opens = TRUE, !.sitting = s].step = "seated"
    BY <2>1, Calls DEF Idle, Placing
  <2> QED
    BY <1>2, <1>6, <2>2 DEF OpenSittingAt
<1>7. ASSUME Commit(r) \/ Refused(r) \/ CommitClose(r) \/ Fail(r) PROVE Past
  BY <1>2, <1>7 DEF Commit, Refused, CommitClose, Fail
<1>8. ASSUME NEW o \in Order, PayClosing(r, o) PROVE Past
  BY <1>8 DEF PayClosing
<1>9. ASSUME NEW o \in Order, NEW as \in {"COMPLETED", "CANCELLED"}, Close(r, o, as)
      PROVE  Past
  BY <1>9 DEF Close
<1>10. ASSUME Count(r) PROVE Past
  <2>1. req[r].step = "closing"
    BY <1>10 DEF Count, At
  <2>2. \A a : [req[r] EXCEPT !.step = "counted", !.alone = a].step = "counted"
    BY <2>1, Calls DEF Closing
  <2> QED
    BY <1>2, <1>10, <2>2 DEF Count
<1>11. ASSUME NEW o \in Order, PayEarly(r, o) PROVE UNCHANGED req
  BY <1>11 DEF PayEarly
<1>12. ASSUME NEW from \in Table, NEW to \in Table, Swap(r, from, to) PROVE UNCHANGED req
  BY <1>12 DEF Swap
<1>13. Past => req'[r].step # "numbered"
  BY DEF Goto, TypeOK
<1> HIDE DEF Past
<1> QED
  BY <1>3, <1>4, <1>5, <1>6, <1>7, <1>8, <1>9, <1>10, <1>11, <1>12, <1>13 DEF NextOf

\* The order an invocation closes was placed when it was read.
LEMMA ClosingFrame ==
  ASSUME TypeOK, ClosesPlaced, NEW r \in Request, NextOf(r),
         req'[r].step \in {"closing", "counted"}
  PROVE  req'[r].order \in Placed
<1> DEFINE Past == \E call : Goto(r, call) /\ call.step \notin {"closing", "counted"}
           Known == \E call : Goto(r, call) /\ call.order \in Placed
<1>1. Idle.step = "idle" /\ \A c, n : Attempt(c, n).step = "begun"
  BY DEF Idle, Attempt
<1>2. ASSUME Finish(r) \/ Again(r) PROVE Past
  BY <1>1, <1>2 DEF Finish, Again
<1>3. ASSUME NEW cart \in Carts, Begin(r, cart) PROVE Past
  BY <1>1, <1>3 DEF Begin
<1>4. ASSUME ReadTable(r) PROVE Past
  <2>1. req[r].step = "begun"
    BY <1>4 DEF ReadTable, At
  <2>2. \A s : [req[r] EXCEPT !.step = "seen", !.status = s].step = "seen"
    BY <2>1, Calls DEF Idle, Placing
  <2> QED
    BY <1>2, <1>4, <2>2 DEF ReadTable
<1>5. ASSUME FindSitting(r) PROVE Past
  <2>1. req[r].step = "seen"
    BY <1>5 DEF FindSitting, At
  <2>2. \A s : [req[r] EXCEPT !.step = "seated", !.sitting = s].step = "seated"
    BY <2>1, Calls DEF Idle, Placing
  <2>3. [req[r] EXCEPT !.step = "opening"].step = "opening"
    BY <2>1, Calls DEF Idle, Placing
  <2> QED
    BY <1>5, <2>2, <2>3 DEF FindSitting
<1>6. ASSUME OpenSittingAt(r) PROVE Past
  <2>1. req[r].step = "opening"
    BY <1>6 DEF OpenSittingAt, At
  <2>2. \A s : [req[r] EXCEPT !.step = "seated", !.opens = TRUE, !.sitting = s].step = "seated"
    BY <2>1, Calls DEF Idle, Placing
  <2> QED
    BY <1>2, <1>6, <2>2 DEF OpenSittingAt
<1>7. ASSUME ReadNumber(r) PROVE Past
  <2>1. req[r].step = "seated"
    BY <1>7 DEF ReadNumber, At
  <2>2. \A n : [req[r] EXCEPT !.step = "numbered", !.number = n].step = "numbered"
    BY <2>1, Calls DEF Idle, Placing
  <2> QED
    BY <1>7, <2>2 DEF ReadNumber
<1>8. ASSUME Commit(r) \/ Refused(r) \/ CommitClose(r) \/ Fail(r) PROVE Past
  BY <1>2, <1>8 DEF Commit, Refused, CommitClose, Fail
<1>9. ASSUME NEW o \in Order, PayClosing(r, o) PROVE Known
  BY <1>9 DEF PayClosing, Placed
<1>10. ASSUME NEW o \in Order, NEW as \in {"COMPLETED", "CANCELLED"}, Close(r, o, as)
       PROVE  Known
  <2>1. order[o].status # "NONE"
    BY <1>10 DEF Close
  <2> DEFINE call == [step |-> "closing", as |-> as, order |-> o, table |-> order[o].table,
                      pays |-> FALSE, alone |-> FALSE]
  <2>2. Goto(r, call) /\ call.order = o
    BY <1>10 DEF Close
  <2> HIDE DEF call
  <2> QED
    BY <2>1, <2>2 DEF Placed
<1>11. ASSUME Count(r) PROVE Past \/ Known
  <2>1. req[r].step = "closing"
    BY <1>11 DEF Count, At
  <2>2. /\ req[r].order \in Placed
        /\ \A a : [req[r] EXCEPT !.step = "counted", !.alone = a].order = req[r].order
    BY <2>1, Calls DEF Closing, ClosesPlaced
  <2> QED
    BY <1>2, <1>11, <2>2 DEF Count
<1>12. ASSUME NEW o \in Order, PayEarly(r, o) PROVE UNCHANGED req
  BY <1>12 DEF PayEarly
<1>13. ASSUME NEW from \in Table, NEW to \in Table, Swap(r, from, to) PROVE UNCHANGED req
  BY <1>13 DEF Swap
<1>14. /\ Past => req'[r].step \notin {"closing", "counted"}
       /\ Known => req'[r].order \in Placed
       /\ UNCHANGED req => req'[r].order \in Placed
  BY DEF Goto, TypeOK, ClosesPlaced
<1> HIDE DEF Past, Known
<1> QED
  BY <1>3, <1>4, <1>5, <1>6, <1>7, <1>8, <1>9, <1>10, <1>11, <1>12, <1>13, <1>14 DEF NextOf

------------------------------------------------------------------------------
(* Numbers: the invariant *)

LEMMA InitPlaced == Init => PlacedInv
<1> SUFFICES ASSUME Init PROVE PlacedInv
  OBVIOUS
<1>1. Placed = {}
  BY DEF Init, Placed, NoOrder
<1>2. IsFiniteSet(Placed) /\ Cardinality(Placed) = 0
  BY <1>1, FS_EmptySet
<1>3. ClosesPlaced /\ NumberRead
  BY DEF Init, ClosesPlaced, NumberRead, Idle
<1>4. PlacedOnce /\ NumbersInSequence
  BY <1>1, <1>2 DEF PlacedOnce, NumbersInSequence
<1> QED
  BY <1>2, <1>3, <1>4, InitTyped DEF PlacedInv

\* The order that Commit inserts takes the next number and a key nobody has.
LEMMA CommitPlaces ==
  ASSUME PlacedInv, NEW r \in Request, Commit(r)
  PROVE  /\ Placed \subseteq Placed' /\ IsFiniteSet(Placed')
         /\ Cardinality(Placed') = Cardinality(Placed) + 1
         /\ PlacedOnce' /\ NumbersInSequence'
<1> USE DEF PlacedInv
<1> DEFINE new == CHOOSE o \in Order : o \notin Placed
           n == req[r].number
           k == req[r].cart.key
<1>1. new \in Order /\ new \notin Placed
  BY DEF Commit, Placed
<1>2. /\ order'[new].status = "OPEN" /\ order'[new].number = n /\ order'[new].key = k
      /\ \A o \in Order : o # new => order'[o] = order[o]
  BY <1>1 DEF Commit, TypeOK
<1> HIDE DEF new
<1>3. Placed' = Placed \cup {new}
  BY <1>1, <1>2 DEF Placed
<1>4. IsFiniteSet(Placed') /\ Cardinality(Placed') = Cardinality(Placed) + 1
  BY <1>1, <1>3, FS_AddElement
<1>5. Cardinality(Placed) \in Nat
  BY FS_CardinalityType
<1>6. n = Cardinality(Placed) + 1
  <2>1. n \in 1..(Cardinality(Placed) + 1)
    BY DEF Commit, At, NumberRead
  <2>2. n \notin {order[o].number : o \in Placed}
    BY DEF Commit, NumberTaken
  <2>3. n \notin 1..Cardinality(Placed)
    BY <2>2 DEF NumbersInSequence
  <2> QED
    BY <1>5, <2>1, <2>3
<1>7. {order'[o].number : o \in Placed'} = {order[o].number : o \in Placed} \cup {n}
  BY <1>1, <1>2, <1>3 DEF Placed
<1>8. {order'[o].number : o \in Placed'} = 1..Cardinality(Placed')
  <2>1. 1..(Cardinality(Placed) + 1) = 1..Cardinality(Placed) \cup {Cardinality(Placed) + 1}
    BY <1>5
  <2> QED
    BY <1>4, <1>6, <1>7, <2>1 DEF NumbersInSequence
<1>9. \A o, u \in Placed' : order'[o].number = order'[u].number => o = u
  <2>1. \A o \in Placed : order[o].number # n
    BY DEF Commit, NumberTaken
  <2> QED
    BY <1>1, <1>2, <1>3, <2>1 DEF NumbersInSequence, Placed
<1>10. PlacedOnce'
  <2>1. k # None => \A o \in Placed : order[o].key # k
    BY DEF Commit, Replay
  <2> QED
    BY <1>1, <1>2, <1>3, <2>1 DEF PlacedOnce, Placed
<1> QED
  BY <1>3, <1>4, <1>8, <1>9, <1>10 DEF NumbersInSequence

LEMMA PlacedStep ==
  ASSUME PlacedInv, [Next]_vars
  PROVE  PlacedInv'
<1> USE DEF PlacedInv
<1>1. TypeOK'
  BY TypeStep
<1>4. /\ Placed \subseteq Placed' /\ IsFiniteSet(Placed') /\ PlacedOnce' /\ NumbersInSequence'
      /\ Cardinality(Placed') \in {Cardinality(Placed), Cardinality(Placed) + 1}
  <2>1. CASE \E r \in Request : Commit(r)
    BY <2>1, CommitPlaces
  <2>2. CASE SameOrders
    <3>1. Placed' = Placed
      BY <2>2, SamePlaced
    <3>2. \A o \in Placed : order'[o].number = order[o].number /\ order'[o].key = order[o].key
      BY <2>2 DEF SameOrders, Placed
    <3> QED
      BY <3>1, <3>2 DEF PlacedOnce, NumbersInSequence
  <2> QED
    BY <2>1, <2>2, OrderFrame
<1>5. NumberRead'
  <2> SUFFICES ASSUME NEW q \in Request, req'[q].step = "numbered"
               PROVE  req'[q].number \in 1..(Cardinality(Placed') + 1)
    BY DEF NumberRead
  <2>1. Cardinality(Placed) \in Nat
    BY FS_CardinalityType
  <2>2. CASE req'[q] = req[q]
    BY <1>4, <2>1, <2>2 DEF NumberRead
  <2>3. CASE ReadNumber(q)
    <3>1. PICK m \in {0} \cup {order[o].number : o \in Placed} :
            Highest(m) /\ Goto(q, [req[q] EXCEPT !.step = "numbered", !.number = m + 1])
      BY <2>3 DEF ReadNumber
    <3>2. m \in 0..Cardinality(Placed)
      BY <2>1, <3>1 DEF NumbersInSequence
    <3>3. req[q] \in Placing
      <4>1. req[q].step = "seated"
        BY <2>3 DEF ReadNumber, At
      <4> QED
        BY <4>1, Calls DEF Idle
    <3>4. req'[q].number = m + 1
      BY <3>1, <3>3 DEF Goto, TypeOK, Placing
    <3> QED
      BY <1>4, <2>1, <3>2, <3>4
  <2>4. CASE req'[q] # req[q] /\ ~ ReadNumber(q)
    <3>1. PICK r \in Request : NextOf(r)
      BY <2>4 DEF Next, SetStatus, vars
    <3>2. r = q
      BY <2>4, <3>1, OthersStay
    <3> QED
      BY <2>4, <3>1, <3>2, NumberFrame
  <2> QED
    BY <2>2, <2>3, <2>4
<1>6. ClosesPlaced'
  <2> SUFFICES ASSUME NEW q \in Request, req'[q].step \in {"closing", "counted"}
               PROVE  req'[q].order \in Placed
    BY <1>4 DEF ClosesPlaced
  <2>1. CASE req'[q] = req[q]
    BY <2>1 DEF ClosesPlaced
  <2>2. CASE req'[q] # req[q]
    <3>1. PICK r \in Request : NextOf(r)
      BY <2>2 DEF Next, SetStatus, vars
    <3>2. r = q
      BY <2>2, <3>1, OthersStay
    <3> QED
      BY <3>1, <3>2, ClosingFrame
  <2> QED
    BY <2>1, <2>2
<1> QED
  BY <1>1, <1>4, <1>5, <1>6 DEF PlacedInv

\* A cart makes one order, however often it is sent and whatever it races.
THEOREM CartsArePlacedOnce == Spec => []PlacedOnce
<1>1. PlacedInv /\ [Next]_vars => PlacedInv'
  BY PlacedStep
<1>2. PlacedInv => PlacedOnce
  BY DEF PlacedInv
<1> QED
  BY <1>1, <1>2, InitPlaced, PTL DEF Spec

\* The numbers of the day have no gap and no repeat, though placements lose races,
\* give up and die (nextOrderNumber and the unique index on the number).
THEOREM NumbersHaveNoGap == Spec => []NumbersInSequence
<1>1. PlacedInv /\ [Next]_vars => PlacedInv'
  BY PlacedStep
<1>2. PlacedInv => NumbersInSequence
  BY DEF PlacedInv
<1> QED
  BY <1>1, <1>2, InitPlaced, PTL DEF Spec

\* One order for each cart and one number for each order.
THEOREM PlacementsAreSound == Spec => []PlacedInSequence
<1>1. PlacedOnce /\ NumbersInSequence => PlacedInSequence
  BY DEF PlacedInSequence
<1> QED
  BY <1>1, CartsArePlacedOnce, NumbersHaveNoGap, PTL

------------------------------------------------------------------------------
(* One invocation after another: strangers *)

OneAtATime == \A r, u \in Request : r = u

\* A guest who has been let order at a table finds nobody open there, or an
\* order of their own.
Welcome(party, t) ==
  party # None => OpenAt(t) = {} \/ \E o \in OpenAt(t) : order[o].party = party
Admitted ==
  \A r \in Request : req[r].step \in {"seen", "opening", "seated", "numbered"}
                       => Welcome(req[r].cart.party, req[r].cart.table)
StrangersInv == TypeOK /\ StrangersApart /\ Admitted

\* A step that writes no order admits nobody else.
LEMMA AdmittedOn ==
  ASSUME TypeOK, OneAtATime, NEW r \in Request, NEW call, Goto(r, call), order' = order,
         call.step \in {"seen", "opening", "seated", "numbered"}
           => Welcome(call.cart.party, call.cart.table)
  PROVE  Admitted'
BY DEF OneAtATime, Goto, Admitted, Welcome, OpenAt, TypeOK

\* A finished invocation has been admitted nowhere, whatever it wrote.
LEMMA AdmittedNowhere ==
  ASSUME TypeOK, OneAtATime, NEW r \in Request, req'[r] = Idle
  PROVE  Admitted'
BY DEF OneAtATime, Admitted, Idle

LEMMA AgainAdmits ==
  ASSUME TypeOK, OneAtATime, NEW r \in Request, Again(r), order' = order
  PROVE  Admitted'
BY AdmittedOn DEF Again, Finish, Idle, Attempt

\* Orders that are open where they were open before bring no strangers together.
LEMMA StrangersSame ==
  ASSUME StrangersApart,
         \A o \in Order : order'[o].status = "OPEN" =>
           /\ order[o].status = "OPEN" /\ order'[o].table = order[o].table
           /\ order'[o].party = order[o].party
  PROVE  StrangersApart'
BY DEF StrangersApart, OpenAt

LEMMA StrangersStep ==
  ASSUME OneAtATime, StrangersInv, [Next]_vars
  PROVE  StrangersApart' /\ Admitted'
<1>t. TypeOK /\ StrangersApart /\ Admitted /\ order \in [Order -> OrderRow]
        /\ req \in [Request -> Placing \cup Closing \cup {Idle}]
  BY DEF StrangersInv, TypeOK
<1>s. ASSUME order' = order PROVE StrangersApart'
  BY <1>s, <1>t, StrangersSame
<1>0. CASE UNCHANGED vars
  BY <1>0, <1>t, <1>s DEF vars, Admitted, Welcome, OpenAt
<1>a. CASE \E t \in Table, s \in ByHand : SetStatus(t, s)
  BY <1>a, <1>t, <1>s DEF SetStatus, Admitted, Welcome, OpenAt
<1> SUFFICES ASSUME NEW r \in Request, NextOf(r) PROVE StrangersApart' /\ Admitted'
  BY <1>0, <1>a DEF Next
<1>f. ASSUME Finish(r) PROVE Admitted'
  BY <1>f, <1>t, AdmittedNowhere DEF Finish, Goto
<1>1. ASSUME NEW cart \in Carts, Begin(r, cart) PROVE Admitted' /\ order' = order
  BY <1>1, <1>t, AdmittedOn DEF Begin, Attempt
<1>2. ASSUME ReadTable(r) PROVE Admitted' /\ order' = order
  <2> DEFINE cart == req[r].cart
             seen == [req[r] EXCEPT !.step = "seen", !.status = table[cart.table]]
  <2>1. order' = order
    BY <1>2 DEF ReadTable
  <2>2. CASE Finish(r)
    BY <2>1, <2>2, <1>f
  <2>3. CASE Goto(r, seen) /\ (cart.party = None \/ MayOrderAt(cart.table, cart.party))
    <3>1. seen.cart = cart
      BY <1>2, Calls, <1>t DEF ReadTable, At, Placing, Idle
    <3>2. Welcome(cart.party, cart.table)
      BY <2>3 DEF Welcome, MayOrderAt, InUse
    <3> HIDE DEF seen
    <3> QED BY <1>t, <2>1, <2>3, <3>1, <3>2, AdmittedOn
  <2> QED BY <1>2, <2>1, <2>2, <2>3 DEF ReadTable
<1>3. ASSUME NEW call, Goto(r, call), order' = order, call.cart = req[r].cart,
             req[r].step \in {"seen", "opening", "seated", "numbered"}
      PROVE  Admitted'
  BY <1>3, <1>t, AdmittedOn DEF Admitted
<1>4. ASSUME FindSitting(r) PROVE Admitted' /\ order' = order
  <2>0. req[r].step = "seen"
    BY <1>4, Zenon DEF FindSitting, At
  <2>1. req[r] \in Placing
    BY <1>t, <2>0, Calls DEF Idle
  <2>2. /\ \A s : [req[r] EXCEPT !.step = "seated", !.sitting = s].cart = req[r].cart
        /\ [req[r] EXCEPT !.step = "opening"].cart = req[r].cart
    BY <2>1 DEF Placing
  <2>3. order' = order /\ \E call : Goto(r, call) /\ call.cart = req[r].cart
    BY <1>4, <2>2, Zenon DEF FindSitting
  <2> QED BY <1>3, <2>0, <2>3
<1>5. ASSUME OpenSittingAt(r) PROVE Admitted' /\ order' = order
  <2>1. req[r] \in Placing
    BY <1>5, <1>t, Calls DEF OpenSittingAt, At, Idle
  <2>2. \A s : [req[r] EXCEPT !.step = "seated", !.opens = TRUE, !.sitting = s].cart
                 = req[r].cart
    BY <2>1 DEF Placing
  <2>3. /\ order' = order /\ req[r].step = "opening"
        /\ Again(r) \/ \E call : Goto(r, call) /\ call.cart = req[r].cart
    BY <1>5, <2>2, Zenon DEF OpenSittingAt, At
  <2> QED BY <1>3, <1>t, <2>3, AgainAdmits
<1>6. ASSUME ReadNumber(r) PROVE Admitted' /\ order' = order
  <2>1. req[r] \in Placing
    BY <1>6, <1>t, Calls DEF ReadNumber, At, Idle
  <2>2. \A n : [req[r] EXCEPT !.step = "numbered", !.number = n].cart = req[r].cart
    BY <2>1 DEF Placing
  <2> QED BY <1>6, <1>3, <2>2 DEF ReadNumber, At
<1>7. ASSUME Refused(r) PROVE Admitted' /\ order' = order
  BY <1>7, <1>t, <1>f, AgainAdmits DEF Refused
<1>8. ASSUME Commit(r) PROVE StrangersApart' /\ Admitted'
  <2> DEFINE cart == req[r].cart
             o == CHOOSE u \in Order : u \notin Placed
             row == [status |-> "OPEN", paid |-> FALSE, table |-> cart.table,
                     sitting |-> req[r].sitting, number |-> req[r].number,
                     key |-> cart.key, party |-> cart.party]
  <2>1. Admitted'
    BY <1>8, <1>f DEF Commit
  <2>2. o \in Order /\ o \notin Placed
    BY <1>8 DEF Commit, Placed
  <2>3. order' = [order EXCEPT ![o] = row]
    BY <1>8 DEF Commit
  <2>4. Welcome(cart.party, cart.table)
    BY <1>8, <1>t DEF Commit, At, Admitted
  <2>5. row.status = "OPEN" /\ row.table = cart.table /\ row.party = cart.party
    OBVIOUS
  <2> HIDE DEF row, o, cart
  <2>6. ASSUME NEW t \in Table, NEW u \in Order, NEW v \in Order,
               order'[u].status = "OPEN", order'[u].table = t, order'[u].party # None,
               order'[v].status = "OPEN", order'[v].table = t, order'[v].party # None,
               v # o
        PROVE  order'[u].party = order'[v].party
    <3>1. order'[v] = order[v] /\ v \in OpenAt(t)
      BY <1>t, <2>3, <2>6 DEF OpenAt
    <3>2. CASE u = o
      <4>1. order'[u] = row
        BY <1>t, <2>2, <2>3, <3>2
      <4>2. t = cart.table /\ cart.party # None /\ order'[u].party = cart.party
        BY <2>5, <2>6, <4>1
      <4>3. PICK w \in OpenAt(t) : order[w].party = cart.party
        BY <2>4, <3>1, <4>2 DEF Welcome
      <4> QED BY <1>t, <2>6, <3>1, <4>2, <4>3 DEF StrangersApart
    <3>3. CASE u # o
      BY <1>t, <2>3, <2>6, <3>1, <3>3 DEF StrangersApart, OpenAt
    <3> QED BY <3>2, <3>3
  <2>7. StrangersApart'
    <3> SUFFICES ASSUME NEW t \in Table, NEW u \in Order, NEW v \in Order,
                        order'[u].status = "OPEN", order'[u].table = t,
                        order'[v].status = "OPEN", order'[v].table = t,
                        order'[u].party # None, order'[v].party # None
                 PROVE  order'[u].party = order'[v].party
      BY DEF StrangersApart, OpenAt
    <3>1. CASE v # o
      BY <2>6, <3>1
    <3>2. CASE u # o
      BY <2>6, <3>2
    <3>3. CASE u = o /\ v = o
      BY <3>3
    <3> QED BY <3>1, <3>2, <3>3
  <2> QED BY <2>1, <2>7
<1>9. ASSUME NEW o \in Order, PayClosing(r, o) PROVE Admitted' /\ order' = order
  BY <1>9, <1>t, AdmittedOn DEF PayClosing
<1>10. ASSUME NEW o \in Order, NEW as, Close(r, o, as) PROVE Admitted' /\ order' = order
  BY <1>10, <1>t, AdmittedOn DEF Close
<1>11. ASSUME NEW o \in Order, PayEarly(r, o) PROVE StrangersApart' /\ Admitted'
  <2>1. order' = [order EXCEPT ![o].paid = TRUE] /\ req'[r] = Idle
    BY <1>11 DEF PayEarly
  <2>2. \A u \in Order : /\ order'[u].status = order[u].status
                         /\ order'[u].table = order[u].table
                         /\ order'[u].party = order[u].party
    BY <1>t, <2>1 DEF OrderRow
  <2> QED BY <1>t, <2>1, <2>2, StrangersSame, AdmittedNowhere
<1>12. ASSUME Count(r) PROVE Admitted' /\ order' = order
  <2>1. req[r] \in Closing
    BY <1>12, <1>t, Calls DEF Count, At, Idle
  <2>2. \A b : [req[r] EXCEPT !.step = "counted", !.alone = b].step = "counted"
    BY <2>1 DEF Closing
  <2>3. order' = order /\ (Finish(r) \/
           Goto(r, [req[r] EXCEPT !.step = "counted", !.alone = Alone(req[r].table, req[r].order)]))
    BY <1>12 DEF Count
  <2> QED BY <1>f, <1>t, <2>2, <2>3, AdmittedOn
<1>13. ASSUME CommitClose(r) PROVE StrangersApart' /\ Admitted'
  <2> DEFINE o == req[r].order
  <2>1. /\ o \in Order /\ req[r].as \in {"COMPLETED", "CANCELLED"}
        /\ order' = [order EXCEPT ![o].status = req[r].as, ![o].paid = @ \/ req[r].pays]
    BY <1>13, <1>t, Calls DEF CommitClose, At, Closing
  <2>2. \A u \in Order : /\ u # o => order'[u] = order[u]
                         /\ u = o => order'[u].status # "OPEN"
    BY <1>t, <2>1 DEF OrderRow
  <2>3. Admitted'
    BY <1>13, <1>f DEF CommitClose
  <2> QED BY <1>t, <2>2, <2>3, StrangersSame
<1>14. ASSUME Fail(r) PROVE Admitted' /\ order' = order
  BY <1>14, <1>f DEF Fail
<1>15. ASSUME NEW from \in Table, NEW to \in Table, Swap(r, from, to)
       PROVE  StrangersApart' /\ Admitted'
  <2>1. order' = Moved(from, to) /\ req'[r] = Idle /\ OpenAt(to) = {} /\ from # to
    BY <1>15, Zenon DEF Swap, MaySwapTo
  <2>2. \A u \in Order : /\ order'[u].status = order[u].status
                         /\ order'[u].party = order[u].party
                         /\ order'[u].table = IF u \in OpenAt(from) THEN to ELSE order[u].table
    BY <1>t, <2>1 DEF Moved, OrderRow
  <2>3. \A u \in Order : order'[u].status = "OPEN" /\ order'[u].table = to => u \in OpenAt(from)
    BY <2>1, <2>2 DEF OpenAt
  <2>4. \A u \in Order : order'[u].status = "OPEN" /\ order'[u].table # to
                           => order'[u].table = order[u].table
    BY <2>2
  <2>5. StrangersApart'
    BY <1>t, <2>2, <2>3, <2>4 DEF StrangersApart, OpenAt
  <2> QED BY <1>t, <2>1, <2>5, AdmittedNowhere
<1> QED
  BY <1>s, <1>1, <1>2, <1>4, <1>5, <1>6, <1>7, <1>8, <1>9, <1>10, <1>11, <1>12, <1>13, <1>14,
     <1>15 DEF NextOf

\* Two guests who do not know each other are never at one table together, as
\* long as placements come one after another: who joins was asked, and nobody
\* came between the question and the order.
THEOREM StrangersStayApart == ASSUME OneAtATime PROVE Spec => []StrangersApart
<1>1. Init => StrangersInv
  BY InitTyped DEF Init, StrangersInv, StrangersApart, OpenAt, NoOrder, Admitted, Idle
<1>2. OneAtATime
  OBVIOUS
<1>3. StrangersInv /\ [Next]_vars => StrangersInv'
  BY <1>2, TypeStep, StrangersStep DEF StrangersInv
<1> QED BY <1>1, <1>3, PTL DEF Spec, StrangersInv

------------------------------------------------------------------------------
(* One invocation after another: the floor *)

NobodyByHand == ByHand = {}

\* What an invocation has read is still so: nobody came between.
StillSo(call) ==
  /\ call.step \in {"begun", "seen", "opening"} => ~ call.opens
  /\ call.step \in {"seen", "opening", "seated", "numbered"} =>
       call.status = table[call.cart.table]
  /\ call.step \in {"seated", "numbered"} =>
       IF call.opens THEN call.sitting \in Sitting /\ sitting[call.sitting].status = "NONE"
                     ELSE call.sitting \in OpenSitting(call.cart.table)
  /\ call.step \in {"closing", "counted"} => call.table = order[call.order].table
  /\ call.step = "counted" => call.alone = Alone(call.table, call.order)
ReadsStand == \A r \in Request : StillSo(req[r])
FloorInv == TypeOK /\ FloorAgrees /\ ReadsStand

LEMMA ReadsOn ==
  ASSUME TypeOK, OneAtATime, NEW r \in Request, NEW call, Goto(r, call), StillSo(call),
         UNCHANGED <<table, sitting, order>>
  PROVE  ReadsStand'
<1>1. \A u \in Request : req'[u] = call
  BY DEF OneAtATime, Goto, TypeOK
<1>2. table' = table /\ sitting' = sitting /\ order' = order
  OBVIOUS
<1> QED BY <1>1, <1>2 DEF ReadsStand, StillSo, OpenSitting, Alone, OpenAt

LEMMA IdleReadsNothing ==
  ASSUME OneAtATime, NEW r \in Request, req'[r] = Idle
  PROVE  ReadsStand'
BY DEF OneAtATime, ReadsStand, StillSo, Idle

LEMMA AgainReads ==
  ASSUME TypeOK, OneAtATime, NEW r \in Request, Again(r), UNCHANGED <<table, sitting, order>>
  PROVE  ReadsStand'
<1>1. \A cart, n : StillSo(Attempt(cart, n))
  BY DEF StillSo, Attempt
<1>2. StillSo(Idle)
  BY DEF StillSo, Idle
<1>3. \E call : Goto(r, call) /\ StillSo(call)
  BY <1>1, <1>2, Zenon DEF Again, Finish
<1> QED BY <1>3, ReadsOn

LEMMA FloorSame ==
  ASSUME FloorAgrees, UNCHANGED <<table, sitting, order>>
  PROVE  FloorAgrees'
<1>1. table' = table /\ sitting' = sitting /\ order' = order
  OBVIOUS
<1> QED BY <1>1 DEF FloorAgrees, OccupiedWhileOpen, SitsAtItsTable, OpenAt, OpenSitting

\* What a step that reads goes on with.
LEMMA ReadingStep ==
  ASSUME OneAtATime, FloorInv, NEW r \in Request,
         \/ \E cart \in Carts : Begin(r, cart)
         \/ ReadTable(r) \/ FindSitting(r) \/ OpenSittingAt(r) \/ ReadNumber(r) \/ Refused(r)
         \/ \E o \in Order : PayClosing(r, o)
         \/ \E o \in Order, as \in {"COMPLETED", "CANCELLED"} : Close(r, o, as)
         \/ Count(r) \/ Fail(r)
  PROVE  ReadsStand' /\ UNCHANGED <<table, sitting, order>>
<1>t. TypeOK /\ StillSo(req[r])
  BY DEF FloorInv, ReadsStand
<1>u. UNCHANGED <<table, sitting, order>>
  BY Zenon DEF Begin, ReadTable, FindSitting, OpenSittingAt, ReadNumber, Refused, PayClosing,
               Close, Count, Fail
<1>n. ASSUME NEW call, Goto(r, call), StillSo(call) PROVE ReadsStand'
  BY <1>n, <1>t, <1>u, ReadsOn
<1>i. StillSo(Idle)
  BY DEF StillSo, Idle
<1>f. ASSUME Finish(r) PROVE ReadsStand'
  BY <1>f, <1>i, <1>n DEF Finish
<1>g. ASSUME Again(r) PROVE ReadsStand'
  BY <1>g, <1>t, <1>u, AgainReads
<1>1. ASSUME NEW cart \in Carts, Begin(r, cart) PROVE ReadsStand'
  <2>1. StillSo(Attempt(cart, 1))
    BY DEF StillSo, Attempt
  <2> QED BY <1>1, <1>n, <2>1 DEF Begin
<1>2. ASSUME ReadTable(r) PROVE ReadsStand'
  <2> DEFINE next == [req[r] EXCEPT !.step = "seen", !.status = table[req[r].cart.table]]
  <2>1. req[r] \in Placing /\ req[r].step = "begun"
    BY <1>2, <1>t, Calls DEF ReadTable, At, Placing, Idle
  <2>2. StillSo(next)
    BY <1>t, <2>1 DEF StillSo, Placing
  <2>3. Finish(r) \/ Goto(r, next)
    BY <1>2, Zenon DEF ReadTable
  <2> QED BY <1>f, <1>n, <2>2, <2>3
<1>3. ASSUME FindSitting(r) PROVE ReadsStand'
  <2>0. req[r].step = "seen"
    BY <1>3, Zenon DEF FindSitting, At
  <2>1. req[r] \in Placing
    BY <1>t, <2>0, Calls DEF Idle
  <2>2. \A s \in OpenSitting(req[r].cart.table) :
          StillSo([req[r] EXCEPT !.step = "seated", !.sitting = s])
    BY <1>t, <2>0, <2>1 DEF StillSo, Placing
  <2>3. StillSo([req[r] EXCEPT !.step = "opening"])
    BY <1>t, <2>0, <2>1 DEF StillSo, Placing
  <2>4. \E call : Goto(r, call) /\ StillSo(call)
    BY <1>3, <2>2, <2>3, Zenon DEF FindSitting
  <2> QED BY <1>n, <2>4
<1>4. ASSUME OpenSittingAt(r) PROVE ReadsStand'
  <2> DEFINE s == CHOOSE u \in Fresh : TRUE
             next == [req[r] EXCEPT !.step = "seated", !.opens = TRUE, !.sitting = s]
  <2>1. req[r] \in Placing /\ req[r].step = "opening"
    BY <1>4, <1>t, Calls DEF OpenSittingAt, At, Idle
  <2>2. Fresh # {} => s \in Sitting /\ sitting[s].status = "NONE"
    BY DEF Fresh
  <2>3. Again(r) \/ (Fresh # {} /\ Goto(r, next))
    BY <1>4, Zenon DEF OpenSittingAt
  <2> HIDE DEF s
  <2>4. Fresh # {} => StillSo(next)
    BY <1>t, <2>1, <2>2 DEF StillSo, Placing
  <2> QED BY <1>g, <1>n, <2>3, <2>4
<1>5. ASSUME ReadNumber(r) PROVE ReadsStand'
  <2>0. req[r].step = "seated"
    BY <1>5, Zenon DEF ReadNumber, At
  <2>1. req[r] \in Placing
    BY <1>t, <2>0, Calls DEF Idle
  <2>2. \A n : StillSo([req[r] EXCEPT !.step = "numbered", !.number = n])
    BY <1>t, <2>0, <2>1 DEF StillSo, Placing
  <2>3. \E n : Goto(r, [req[r] EXCEPT !.step = "numbered", !.number = n])
    BY <1>5, Zenon DEF ReadNumber
  <2>4. PICK n : Goto(r, [req[r] EXCEPT !.step = "numbered", !.number = n])
    BY <2>3, Zenon
  <2> QED BY <1>n, <2>2, <2>4, Zenon
<1>6. ASSUME Refused(r) PROVE ReadsStand'
  BY <1>6, <1>f, <1>g, Zenon DEF Refused
<1>7. ASSUME NEW o \in Order, PayClosing(r, o) PROVE ReadsStand'
  <2> DEFINE call == [step |-> "counted", as |-> "COMPLETED", order |-> o,
                      table |-> order[o].table, pays |-> TRUE,
                      alone |-> Alone(order[o].table, o)]
  <2>1. StillSo(call)
    BY DEF StillSo
  <2>2. Goto(r, call)
    BY <1>7 DEF PayClosing
  <2> QED BY <1>n, <2>1, <2>2
<1>8. ASSUME NEW o \in Order, NEW as, Close(r, o, as) PROVE ReadsStand'
  <2> DEFINE call == [step |-> "closing", as |-> as, order |-> o, table |-> order[o].table,
                      pays |-> FALSE, alone |-> FALSE]
  <2>1. StillSo(call)
    BY DEF StillSo
  <2>2. Goto(r, call)
    BY <1>8 DEF Close
  <2> QED BY <1>n, <2>1, <2>2
<1>9. ASSUME Count(r) PROVE ReadsStand'
  <2> DEFINE alone == Alone(req[r].table, req[r].order)
             next == [req[r] EXCEPT !.step = "counted", !.alone = alone]
  <2>1. req[r] \in Closing /\ req[r].step = "closing"
    BY <1>9, <1>t, Calls DEF Count, At, Idle
  <2>2. Finish(r) \/ Goto(r, next)
    BY <1>9, Zenon DEF Count
  <2>3. alone = Alone(req[r].table, req[r].order)
    OBVIOUS
  <2> HIDE DEF alone
  <2>4. /\ next.step = "counted" /\ next.alone = alone /\ next.table = req[r].table
        /\ next.order = req[r].order
    BY <2>1 DEF Closing
  <2> HIDE DEF next
  <2>5. StillSo(next)
    BY <1>t, <2>1, <2>3, <2>4 DEF StillSo
  <2> QED BY <1>f, <1>n, <2>2, <2>5
<1>10. ASSUME Fail(r) PROVE ReadsStand'
  BY <1>10, <1>f DEF Fail
<1> QED
  BY <1>u, <1>1, <1>2, <1>3, <1>4, <1>5, <1>6, <1>7, <1>8, <1>9, <1>10

\* The order is open at a table that is occupied, with the sitting it joined or
\* brought.
LEMMA CommitSeats ==
  ASSUME OneAtATime, FloorInv, NEW r \in Request, Commit(r)
  PROVE  FloorAgrees'
<1> DEFINE call == req[r]
           t == call.cart.table
           s == call.sitting
           o == CHOOSE u \in Order : u \notin Placed
           row == [status |-> "OPEN", paid |-> FALSE, table |-> t, sitting |-> s,
                   number |-> call.number, key |-> call.cart.key, party |-> call.cart.party]
           opened == [status |-> "OPEN", table |-> t, activeTableKey |-> t]
<1>t. /\ TypeOK /\ OccupiedWhileOpen /\ SitsAtItsTable /\ StillSo(call)
      /\ table \in [Table -> TableState] /\ sitting \in [Sitting -> SittingRow]
      /\ order \in [Order -> OrderRow]
  BY DEF FloorInv, FloorAgrees, ReadsStand, TypeOK
<1>1. call \in Placing /\ call.step = "numbered" /\ t \in Table /\ call.opens \in BOOLEAN
  BY <1>t, Calls DEF Commit, At, Placing, Idle
<1>2. o \in Order /\ order[o].status = "NONE"
  BY DEF Commit, Placed
<1>3. /\ order' = [order EXCEPT ![o] = row]
      /\ sitting' = IF call.opens THEN [sitting EXCEPT ![s] = opened] ELSE sitting
      /\ table' = IF call.status = "OCCUPIED" THEN table ELSE [table EXCEPT ![t] = "OCCUPIED"]
  BY Zenon DEF Commit
<1>4. /\ call.status = table[t]
      /\ call.opens => s \in Sitting /\ sitting[s].status = "NONE"
      /\ ~ call.opens => s \in Sitting /\ sitting[s].status = "OPEN" /\ sitting[s].table = t
  BY <1>t, <1>1 DEF StillSo, OpenSitting
<1>5. /\ row.status = "OPEN" /\ row.table = t /\ row.sitting = s
      /\ opened.status = "OPEN" /\ opened.table = t
  OBVIOUS
<1> HIDE DEF row, opened, o
<1>6. /\ order'[o] = row /\ \A u \in Order : u # o => order'[u] = order[u]
      /\ table'[t] = "OCCUPIED" /\ \A v \in Table : v # t => table'[v] = table[v]
  BY <1>t, <1>1, <1>2, <1>3, <1>4
<1>7. /\ s \in Sitting /\ sitting'[s].status = "OPEN" /\ sitting'[s].table = t
      /\ \A u \in Sitting : sitting'[u] = sitting[u]
                              \/ (u = s /\ sitting[u].status = "NONE")
  BY <1>t, <1>3, <1>4, <1>5
<1>8. OccupiedWhileOpen'
  <2> SUFFICES ASSUME NEW v \in Table
               PROVE  /\ table'[v] = "OCCUPIED" <=> \E u \in Order : order'[u].status = "OPEN"
                                                                       /\ order'[u].table = v
                      /\ (\E u \in Sitting : sitting'[u].status = "OPEN" /\ sitting'[u].table = v)
                           <=> \E u \in Order : order'[u].status = "OPEN" /\ order'[u].table = v
    BY DEF OccupiedWhileOpen, OpenAt, OpenSitting
  <2>1. CASE v = t
    BY <1>2, <1>5, <1>6, <1>7, <2>1
  <2>2. CASE v # t
    <3>1. (\E u \in Order : order'[u].status = "OPEN" /\ order'[u].table = v)
            <=> OpenAt(v) # {}
      BY <1>2, <1>5, <1>6, <2>2 DEF OpenAt
    <3>2. (\E u \in Sitting : sitting'[u].status = "OPEN" /\ sitting'[u].table = v)
            <=> OpenSitting(v) # {}
      BY <1>7, <2>2 DEF OpenSitting
    <3> QED BY <1>t, <1>6, <2>2, <3>1, <3>2 DEF OccupiedWhileOpen
  <2> QED BY <2>1, <2>2
<1>9. SitsAtItsTable'
  <2> SUFFICES ASSUME NEW u \in Order, order'[u].status = "OPEN"
               PROVE  /\ order'[u].sitting \in Sitting
                      /\ sitting'[order'[u].sitting].status = "OPEN"
                      /\ sitting'[order'[u].sitting].table = order'[u].table
    BY DEF SitsAtItsTable, OpenSitting
  <2>1. CASE u = o
    BY <1>5, <1>6, <1>7, <2>1
  <2>2. CASE u # o
    BY <1>t, <1>6, <1>7, <2>2 DEF SitsAtItsTable, OpenSitting
  <2> QED BY <2>1, <2>2
<1> QED BY <1>8, <1>9 DEF FloorAgrees

\* The last order of a table frees it and ends its sitting, and no other does.
LEMMA CloseFrees ==
  ASSUME FloorInv, NEW r \in Request, CommitClose(r)
  PROVE  FloorAgrees'
<1> DEFINE call == req[r]
           t == call.table
           o == call.order
<1>t. /\ TypeOK /\ OccupiedWhileOpen /\ SitsAtItsTable /\ StillSo(call)
      /\ table \in [Table -> TableState] /\ sitting \in [Sitting -> SittingRow]
      /\ order \in [Order -> OrderRow]
  BY DEF FloorInv, FloorAgrees, ReadsStand, TypeOK
<1>1. /\ call \in Closing /\ o \in Order /\ call.as # "OPEN" /\ call.step = "counted"
      /\ order' = [order EXCEPT ![o].status = call.as, ![o].paid = @ \/ call.pays]
  BY <1>t, Calls DEF CommitClose, At, Closing
<1>2. t = order[o].table /\ call.alone = (OpenAt(t) \subseteq {o})
  BY <1>t, <1>1 DEF StillSo, Alone
<1>3. \A u \in Order : /\ order'[u].table = order[u].table /\ order'[u].sitting = order[u].sitting
                       /\ u # o => order'[u] = order[u]
                       /\ u = o => order'[u].status # "OPEN"
  BY <1>t, <1>1 DEF OrderRow
<1> HIDE DEF o, t
<1>4. CASE call.alone
  <2>1. Freed(t)
    BY <1>4 DEF CommitClose, t
  <2>2. \A u \in Order : order'[u].status = "OPEN" => order'[u].table # t
    <3>1. \A u \in OpenAt(t) : u = o
      BY <1>2, <1>4
    <3> QED BY <1>3, <3>1 DEF OpenAt
  <2>3. \A u \in Order : order'[u].status = "OPEN" => order'[u] = order[u]
    BY <1>3
  <2>4. \A u \in Order : order[u].status = "OPEN" /\ order[u].table # t => order'[u] = order[u]
    BY <1>2, <1>3
  <2>f. table' = [table EXCEPT ![t] = "AVAILABLE"]
    BY <2>1, Zenon DEF Freed
  <2>5. \A v \in Table : /\ v = t => table'[v] = "AVAILABLE"
                         /\ v # t => table'[v] = table[v]
    BY <1>t, <2>f
  <2> DEFINE over(s) == [sitting[s] EXCEPT !.status = "CLOSED", !.activeTableKey = None]
  <2>s. \A s \in Sitting : sitting'[s] = IF s \in OpenSitting(t) THEN over(s) ELSE sitting[s]
    BY <2>1, Zenon DEF Freed
  <2>m. \A s \in Sitting : over(s).status = "CLOSED" /\ over(s).table = sitting[s].table
    BY <1>t DEF SittingRow
  <2> HIDE DEF over
  <2>6. \A s \in Sitting :
          /\ sitting'[s].table = sitting[s].table
          /\ sitting[s].table # t => sitting'[s] = sitting[s]
          /\ sitting'[s].status = "OPEN" <=> sitting[s].status = "OPEN" /\ sitting[s].table # t
    BY <2>s, <2>m DEF OpenSitting
  <2>7. OccupiedWhileOpen'
    <3> SUFFICES ASSUME NEW v \in Table
                 PROVE  /\ table'[v] = "OCCUPIED" <=> \E u \in Order : order'[u].status = "OPEN"
                                                                         /\ order'[u].table = v
                        /\ (\E u \in Sitting : sitting'[u].status = "OPEN" /\ sitting'[u].table = v)
                             <=> \E u \in Order : order'[u].status = "OPEN" /\ order'[u].table = v
      BY DEF OccupiedWhileOpen, OpenAt, OpenSitting
    <3>1. CASE v = t
      BY <2>2, <2>5, <2>6, <3>1
    <3>2. CASE v # t
      <4>1. (\E u \in Order : order'[u].status = "OPEN" /\ order'[u].table = v)
              <=> OpenAt(v) # {}
        BY <2>3, <2>4, <3>2 DEF OpenAt
      <4>2. (\E u \in Sitting : sitting'[u].status = "OPEN" /\ sitting'[u].table = v)
              <=> OpenSitting(v) # {}
        BY <2>6, <3>2 DEF OpenSitting
      <4> QED BY <1>t, <2>5, <3>2, <4>1, <4>2 DEF OccupiedWhileOpen
    <3> QED BY <3>1, <3>2
  <2>8. SitsAtItsTable'
    BY <1>t, <2>2, <2>3, <2>6 DEF SitsAtItsTable, OpenSitting
  <2> QED BY <2>7, <2>8 DEF FloorAgrees
<1>5. CASE ~ call.alone
  <2>1. table' = table /\ sitting' = sitting
    BY <1>5 DEF CommitClose
  <2>2. PICK w \in OpenAt(t) : w # o
    BY <1>2, <1>5
  <2>3. ASSUME NEW v \in Table
        PROVE  (\E u \in Order : order'[u].status = "OPEN" /\ order'[u].table = v)
                 <=> OpenAt(v) # {}
    <3>1. CASE v = t
      BY <1>3, <2>2, <3>1 DEF OpenAt
    <3>2. CASE v # t
      BY <1>2, <1>3, <3>2 DEF OpenAt
    <3> QED BY <3>1, <3>2
  <2>4. OccupiedWhileOpen'
    BY <1>t, <2>1, <2>3 DEF OccupiedWhileOpen, OpenAt, OpenSitting
  <2>5. SitsAtItsTable'
    BY <1>t, <1>3, <2>1 DEF SitsAtItsTable, OpenSitting
  <2> QED BY <2>4, <2>5 DEF FloorAgrees
<1>6. call.alone \in BOOLEAN
  BY <1>1 DEF Closing
<1> QED BY <1>4, <1>5, <1>6

\* A party that is moved takes its sitting and all its open orders along.
LEMMA SwapCarries ==
  ASSUME FloorInv, NEW r \in Request, NEW from \in Table, NEW to \in Table, Swap(r, from, to)
  PROVE  FloorAgrees'
<1>t. /\ OccupiedWhileOpen /\ SitsAtItsTable
      /\ table \in [Table -> TableState] /\ sitting \in [Sitting -> SittingRow]
      /\ order \in [Order -> OrderRow]
  BY DEF FloorInv, FloorAgrees, TypeOK
<1>1. /\ from # to /\ OpenAt(to) = {} /\ OpenSitting(to) = {}
      /\ OpenAt(from) # {} \/ OpenSitting(from) # {}
      /\ order' = Moved(from, to)
      /\ table' = [table EXCEPT ![from] = "AVAILABLE", ![to] = "OCCUPIED"]
  BY Zenon DEF Swap, MaySwapTo
<1> DEFINE moved(s) == [sitting[s] EXCEPT !.table = to, !.activeTableKey = to]
<1>s. \A s \in Sitting : sitting'[s] = IF s \in OpenSitting(from) THEN moved(s) ELSE sitting[s]
  BY Zenon DEF Swap
<1>m. \A s \in Sitting : moved(s).status = sitting[s].status /\ moved(s).table = to
  BY <1>t DEF SittingRow
<1> HIDE DEF moved
<1>2. \A u \in Order : /\ order'[u].status = order[u].status
                       /\ order'[u].sitting = order[u].sitting
                       /\ order'[u].table = IF u \in OpenAt(from) THEN to ELSE order[u].table
  BY <1>t, <1>1 DEF Moved, OrderRow
<1>3. \A s \in Sitting : /\ sitting'[s].status = sitting[s].status
                         /\ sitting'[s].table = IF s \in OpenSitting(from) THEN to
                                                ELSE sitting[s].table
  BY <1>s, <1>m
<1>4. /\ table'[from] = "AVAILABLE" /\ table'[to] = "OCCUPIED"
      /\ \A v \in Table : v \notin {from, to} => table'[v] = table[v]
  BY <1>t, <1>1
<1>5. OpenAt(from) # {} /\ OpenSitting(from) # {}
  BY <1>t, <1>1 DEF OccupiedWhileOpen
<1>6. OccupiedWhileOpen'
  <2> SUFFICES ASSUME NEW v \in Table
               PROVE  /\ table'[v] = "OCCUPIED" <=> \E u \in Order : order'[u].status = "OPEN"
                                                                       /\ order'[u].table = v
                      /\ (\E u \in Sitting : sitting'[u].status = "OPEN" /\ sitting'[u].table = v)
                           <=> \E u \in Order : order'[u].status = "OPEN" /\ order'[u].table = v
    BY DEF OccupiedWhileOpen, OpenAt, OpenSitting
  <2>1. CASE v = from
    <3>1. ~ \E u \in Order : order'[u].status = "OPEN" /\ order'[u].table = from
      BY <1>1, <1>2 DEF OpenAt
    <3>2. ~ \E s \in Sitting : sitting'[s].status = "OPEN" /\ sitting'[s].table = from
      BY <1>1, <1>3 DEF OpenSitting
    <3> QED BY <1>4, <2>1, <3>1, <3>2
  <2>2. CASE v = to
    <3>1. PICK u \in Order : order'[u].status = "OPEN" /\ order'[u].table = to
      BY <1>2, <1>5 DEF OpenAt
    <3>2. PICK s \in Sitting : sitting'[s].status = "OPEN" /\ sitting'[s].table = to
      BY <1>3, <1>5 DEF OpenSitting
    <3> QED BY <1>4, <2>2, <3>1, <3>2
  <2>3. CASE v \notin {from, to}
    <3>1. (\E u \in Order : order'[u].status = "OPEN" /\ order'[u].table = v)
            <=> OpenAt(v) # {}
      BY <1>2, <2>3 DEF OpenAt
    <3>2. (\E u \in Sitting : sitting'[u].status = "OPEN" /\ sitting'[u].table = v)
            <=> OpenSitting(v) # {}
      BY <1>3, <2>3 DEF OpenSitting
    <3> QED BY <1>t, <1>4, <2>3, <3>1, <3>2 DEF OccupiedWhileOpen
  <2> QED BY <2>1, <2>2, <2>3
<1>7. SitsAtItsTable'
  BY <1>t, <1>1, <1>2, <1>3 DEF SitsAtItsTable, OpenAt, OpenSitting
<1> QED BY <1>6, <1>7 DEF FloorAgrees

LEMMA FloorStep ==
  ASSUME OneAtATime, NobodyByHand, FloorInv, [Next]_vars
  PROVE  FloorAgrees' /\ ReadsStand'
<1>t. TypeOK /\ FloorAgrees /\ ReadsStand /\ order \in [Order -> OrderRow]
  BY DEF FloorInv, TypeOK
<1>0. CASE UNCHANGED vars
  <2>1. table' = table /\ sitting' = sitting /\ order' = order /\ req' = req
    BY <1>0 DEF vars
  <2>2. ReadsStand'
    BY <1>t, <2>1 DEF ReadsStand, StillSo, OpenSitting, Alone, OpenAt
  <2> QED BY <1>t, <2>1, <2>2, FloorSame
<1>a. ~ \E t \in Table, s \in ByHand : SetStatus(t, s)
  BY DEF NobodyByHand
<1> SUFFICES ASSUME NEW r \in Request, NextOf(r) PROVE FloorAgrees' /\ ReadsStand'
  BY <1>0, <1>a DEF Next
<1>n. ASSUME req'[r] = Idle PROVE ReadsStand'
  BY <1>n, IdleReadsNothing
<1>i. ASSUME Finish(r) PROVE ReadsStand'
  BY <1>i, <1>t, <1>n DEF Finish, Goto, TypeOK
<1>1. CASE Commit(r)
  BY <1>1, <1>i, CommitSeats DEF Commit
<1>2. CASE CommitClose(r)
  BY <1>2, <1>i, CloseFrees DEF CommitClose
<1>3. ASSUME NEW from \in Table, NEW to \in Table, Swap(r, from, to)
      PROVE  FloorAgrees' /\ ReadsStand'
  <2>1. req'[r] = Idle
    BY <1>3, Zenon DEF Swap
  <2> QED BY <1>3, <1>n, <2>1, SwapCarries
<1>4. ASSUME NEW o \in Order, PayEarly(r, o) PROVE FloorAgrees' /\ ReadsStand'
  <2>1. /\ order' = [order EXCEPT ![o].paid = TRUE] /\ req'[r] = Idle
        /\ table' = table /\ sitting' = sitting
    BY <1>4 DEF PayEarly
  <2>2. \A u \in Order : /\ order'[u].status = order[u].status
                         /\ order'[u].table = order[u].table
                         /\ order'[u].sitting = order[u].sitting
    BY <1>t, <2>1 DEF OrderRow
  <2>3. FloorAgrees'
    BY <1>t, <2>1, <2>2 DEF FloorAgrees, OccupiedWhileOpen, SitsAtItsTable, OpenAt, OpenSitting
  <2> QED BY <1>n, <2>1, <2>3
<1>5. CASE \/ \E cart \in Carts : Begin(r, cart)
           \/ ReadTable(r) \/ FindSitting(r) \/ OpenSittingAt(r) \/ ReadNumber(r) \/ Refused(r)
           \/ \E o \in Order : PayClosing(r, o)
           \/ \E o \in Order, as \in {"COMPLETED", "CANCELLED"} : Close(r, o, as)
           \/ Count(r) \/ Fail(r)
  BY <1>5, <1>t, ReadingStep, FloorSame
<1> QED BY <1>1, <1>2, <1>3, <1>4, <1>5 DEF NextOf

\* Placing, moving, paying, completing and cancelling leave a floor on which
\* tables, sittings and orders agree, as long as they come one after another and
\* nobody sets a table by hand.
THEOREM FloorAlwaysAgrees ==
  ASSUME OneAtATime, NobodyByHand PROVE Spec => []FloorAgrees
<1>1. Init => FloorInv
  BY InitTyped DEF Init, FloorInv, FloorAgrees, OccupiedWhileOpen, SitsAtItsTable, OpenAt,
                   OpenSitting, NoOrder, ReadsStand, StillSo, Idle
<1>2. OneAtATime /\ NobodyByHand
  OBVIOUS
<1>3. FloorInv /\ [Next]_vars => FloorInv'
  BY <1>2, TypeStep, FloorStep DEF FloorInv
<1> QED BY <1>1, <1>3, PTL DEF Spec, FloorInv
==============================================================================
