------------------------------- MODULE Seating -------------------------------
(***************************************************************************)
(* Placing orders and sitting at tables: an order is placed once for each  *)
(* cart, is numbered, and joins the sitting at its table or opens one; a   *)
(* table is freed with the last order on it; a sitting may be moved.       *)
(*                                                                         *)
(* Transactions are READ COMMITTED: each statement sees what had been      *)
(* committed when it began, and nothing of what is in flight.  A           *)
(* transaction whose statements can be separated by another's commit is    *)
(* a chain of steps here; what it has inserted and not yet committed is    *)
(* kept in its request, where only a unique index can feel it.             *)
(***************************************************************************)
EXTENDS Integers, FiniteSets

CONSTANTS
  Table, Order, Sitting, Request,
  Party,         \* guest sessions: the phones that order at a table
  Key,           \* idempotency keys: one for each cart
  None,          \* no party (an order of the staff), no key, no table
  Carts,         \* the carts that are sent: who, at which table, with which key
  MaxAttempts,   \* how often a placement is tried (24 in the code)
  ByHand,        \* the statuses somebody gives a table by hand
  Ops            \* the handlers this instance exercises

ASSUME NoneAssumption  == None \notin Table \cup Sitting \cup Party \cup Key
ASSUME CartAssumption  ==
  Carts \subseteq [party: Party \cup {None}, table: Table, key: Key \cup {None}]
ASSUME HandAssumption  == ByHand \subseteq {"AVAILABLE", "OCCUPIED", "RESERVED"}
ASSUME BoundAssumption == MaxAttempts \in Nat \ {0}

VARIABLES
  table,     \* restaurant_tables: the stored status
  sitting,   \* table_sessions, "NONE" until inserted
  order,     \* orders, "NONE" until inserted
  req        \* what each invocation is in the middle of

vars == <<table, sitting, order, req>>

\* What normalizeTableStatus makes of the column.
TableState == {"AVAILABLE", "OCCUPIED", "RESERVED"}
SittingRow == [status: {"NONE", "OPEN", "CLOSED"}, table: Table \cup {None},
               activeTableKey: Table \cup {None}]
NoOrder == [status |-> "NONE", paid |-> FALSE, table |-> None, sitting |-> None,
            number |-> 0, key |-> None, party |-> None]
OrderRow == [status: {"NONE", "OPEN", "COMPLETED", "CANCELLED"}, paid: BOOLEAN,
             table: Table \cup {None}, sitting: Sitting \cup {None}, number: Nat,
             key: Key \cup {None}, party: Party \cup {None}]

Placing == [step: {"begun", "seen", "opening", "seated", "numbered"}, cart: Carts,
            attempt: 1..MaxAttempts, status: TableState,   \* of the table, as read
            sitting: Sitting \cup {None}, opens: BOOLEAN, number: Nat]
Closing == [step: {"closing", "counted"}, as: {"COMPLETED", "CANCELLED"},
            order: Order, table: Table \cup {None},
            pays: BOOLEAN, alone: BOOLEAN]
Idle == [step |-> "idle"]

At(r, step) == req[r].step = step
Goto(r, call) == req' = [req EXCEPT ![r] = call]
Finish(r) == Goto(r, Idle)

------------------------------------------------------------------------------
(* What a reader sees *)

OpenAt(t) == {o \in Order : order[o].status = "OPEN" /\ order[o].table = t}
OpenSitting(t) == {s \in Sitting : sitting[s].status = "OPEN" /\ sitting[s].table = t}
Placed == {o \in Order : order[o].status # "NONE"}

\* tableAvailability, for a guest: nobody is there and it is not held, or one of
\* the orders there is this guest's.
InUse(t) ==
  OpenAt(t) # {} \/ OpenSitting(t) # {} \/ table[t] = "OCCUPIED"
Anyone(t, party) == TRUE                            \* mutant: it is not asked
MayOrderAt(t, party) ==
  IF InUse(t) THEN \E o \in OpenAt(t) : order[o].party = party
              ELSE table[t] # "RESERVED"

\* nextOrderNumber: the highest number of the day, 0 before the first order.
Highest(n) == \A o \in Placed : order[o].number <= n

\* The invocations in the middle of a placement that has inserted a sitting and
\* not committed it: what they inserted waits in their request.
Inserted(r) == /\ req[r].step \in {"seated", "numbered"} /\ req[r].opens
Opening(t) == {r \in Request : Inserted(r) /\ req[r].cart.table = t}
Fresh == {s \in Sitting : /\ sitting[s].status = "NONE"
                         /\ \A r \in Request : ~ (Inserted(r) /\ req[r].sitting = s)}

\* The order rows a closing transaction has locked.
Locked(o) == \E r \in Request : At(r, "counted") /\ req[r].order = o

------------------------------------------------------------------------------
(* Placing an order (placeOrder) *)

Replay(k) == k # None /\ \E o \in Placed : order[o].key = k

Attempt(cart, n) ==
  [step |-> "begun", cart |-> cart, attempt |-> n, status |-> "AVAILABLE",
   sitting |-> None, opens |-> FALSE, number |-> 0]

\* The cart is looked up, priced and checked; a known one is answered with the
\* order it already made.
Begin(r, cart) ==
  /\ "place" \in Ops /\ req[r] = Idle
  /\ ~ Replay(cart.key)
  /\ Goto(r, Attempt(cart, 1))
  /\ UNCHANGED <<table, sitting, order>>

\* The transaction reads the table, and refuses a guest whose table it is not.
ReadTable(r) ==
  LET cart == req[r].cart IN
  /\ At(r, "begun")
  /\ IF cart.party = None \/ MayOrderAt(cart.table, cart.party)
     THEN Goto(r, [req[r] EXCEPT !.step = "seen", !.status = table[cart.table]])
     ELSE Finish(r)
  /\ UNCHANGED <<table, sitting, order>>

\* Another attempt, from the start of the transaction, while any are left.
Again(r) ==
  IF req[r].attempt = MaxAttempts THEN Finish(r)
  ELSE Goto(r, Attempt(req[r].cart, req[r].attempt + 1))

\* The sitting at the table is joined, or one is to be opened.
FindSitting(r) ==
  LET there == OpenSitting(req[r].cart.table) IN
  /\ At(r, "seen")
  /\ \/ \E s \in there : Goto(r, [req[r] EXCEPT !.step = "seated", !.sitting = s])
     \/ there = {} /\ Goto(r, [req[r] EXCEPT !.step = "opening"])
  /\ UNCHANGED <<table, sitting, order>>

\* The insert waits for any other at the same table; the unique key refuses it
\* when one has been committed, and the placement is tried again.
Unkeyed(t) == FALSE                                 \* mutant: no unique index
Keyed(t) == \E s \in Sitting : sitting[s].activeTableKey = t

OpenSittingAt(r) ==
  LET t == req[r].cart.table IN
  /\ At(r, "opening") /\ Opening(t) = {}
  /\ IF Keyed(t) THEN Again(r)
     ELSE /\ Fresh # {}
          /\ Goto(r, [req[r] EXCEPT !.step = "seated", !.opens = TRUE,
                                    !.sitting = CHOOSE s \in Fresh : TRUE])
  /\ UNCHANGED <<table, sitting, order>>

ReadNumber(r) ==
  /\ At(r, "seated")
  /\ \E n \in {0} \cup {order[o].number : o \in Placed} :
       Highest(n) /\ Goto(r, [req[r] EXCEPT !.step = "numbered", !.number = n + 1])
  /\ UNCHANGED <<table, sitting, order>>

NumberUnchecked(n) == FALSE                         \* mutant: no unique index
NumberTaken(n) == \E o \in Placed : order[o].number = n

\* The order is inserted and the table marked, by what was read of it.
Commit(r) ==
  LET call == req[r]
      t    == call.cart.table
  IN
  /\ At(r, "numbered") /\ ~ NumberTaken(call.number) /\ ~ Replay(call.cart.key)
  /\ Placed # Order
  /\ order' = [order EXCEPT ![CHOOSE o \in Order : o \notin Placed] =
            [status |-> "OPEN", paid |-> FALSE, table |-> t, sitting |-> call.sitting,
             number |-> call.number, key |-> call.cart.key, party |-> call.cart.party]]
  /\ sitting' = IF call.opens
       THEN [sitting EXCEPT ![call.sitting] =
              [status |-> "OPEN", table |-> t, activeTableKey |-> t]]
       ELSE sitting
  /\ table' = IF call.status = "OCCUPIED" THEN table
              ELSE [table EXCEPT ![t] = "OCCUPIED"]
  /\ Finish(r)

\* A unique index refuses the order: of the cart's key, and the winner's order is
\* the answer; of the number, and it is tried again.
Refused(r) ==
  /\ At(r, "numbered")
  /\ \/ Replay(req[r].cart.key) /\ Finish(r)
     \/ NumberTaken(req[r].number) /\ Again(r)
  /\ UNCHANGED <<table, sitting, order>>

------------------------------------------------------------------------------
(* Closing an order, and with the last one its table *)

\* otherOpenOrders: no order but this one is open at the table, as committed.
Alone(t, o) == OpenAt(t) \subseteq {o}

\* updateOrderStatus to COMPLETED and cancelOrder read the order, and where it
\* is, before their transaction.
Close(r, o, as) ==
  /\ as = "COMPLETED" => "complete" \in Ops /\ order[o].status = "OPEN"
  /\ as = "CANCELLED" => "cancel" \in Ops /\ order[o].status \in {"OPEN", "COMPLETED"}
                          /\ ~ order[o].paid
  /\ req[r] = Idle
  /\ Goto(r, [step |-> "closing", as |-> as, order |-> o, table |-> order[o].table,
              pays |-> FALSE, alone |-> FALSE])
  /\ UNCHANGED <<table, sitting, order>>

\* capturePayment in full of an order whose food is out: read under the lock.
PayClosing(r, o) ==
  /\ "pay" \in Ops /\ req[r] = Idle /\ ~ Locked(o)
  /\ order[o].status = "OPEN" /\ ~ order[o].paid
  /\ Goto(r, [step |-> "counted", as |-> "COMPLETED", order |-> o,
              table |-> order[o].table, pays |-> TRUE,
              alone |-> Alone(order[o].table, o)])
  /\ UNCHANGED <<table, sitting, order>>

\* In full, the food still to come: the order stays open.
PayEarly(r, o) ==
  /\ "pay" \in Ops /\ req[r] = Idle /\ ~ Locked(o)
  /\ order[o].status = "OPEN" /\ ~ order[o].paid
  /\ order' = [order EXCEPT ![o].paid = TRUE]
  /\ UNCHANGED <<table, sitting, req>>

\* Under the order's lock the others are counted.  Completing judges the status
\* again; cancelling does not.
Count(r) ==
  LET o == req[r].order IN
  /\ At(r, "closing") /\ ~ Locked(o)
  /\ IF req[r].as = "COMPLETED" /\ order[o].status # "OPEN" THEN Finish(r)
     ELSE Goto(r, [req[r] EXCEPT !.step = "counted", !.alone = Alone(req[r].table, o)])
  /\ UNCHANGED <<table, sitting, order>>

\* freeTable: the table is empty and its sitting over.
Freed(t) ==
  /\ table' = [table EXCEPT ![t] = "AVAILABLE"]
  /\ sitting' = [s \in Sitting |->
       IF s \in OpenSitting(t)
       THEN [sitting[s] EXCEPT !.status = "CLOSED", !.activeTableKey = None]
       ELSE sitting[s]]

CommitClose(r) ==
  LET o == req[r].order IN
  /\ At(r, "counted")
  /\ order' = [order EXCEPT ![o].status = req[r].as, ![o].paid = @ \/ req[r].pays]
  /\ IF req[r].alone THEN Freed(req[r].table) ELSE UNCHANGED <<table, sitting>>
  /\ Finish(r)

------------------------------------------------------------------------------
(* The floor *)

\* swapTable: both table rows locked, so it waits for every insert that refers
\* to them and every order it would move.
MaySwapTo(to) ==
  OpenAt(to) = {} /\ OpenSitting(to) = {} /\ table[to] # "OCCUPIED"

LeftBehind(from, to) == order                   \* mutant: only the sitting moves
Moved(from, to) ==
  [o \in Order |->
     IF o \in OpenAt(from) THEN [order[o] EXCEPT !.table = to] ELSE order[o]]

Swap(r, from, to) ==
  /\ "swap" \in Ops /\ req[r] = Idle /\ from # to
  /\ Opening(from) = {} /\ Opening(to) = {}
  /\ \A o \in OpenAt(from) : ~ Locked(o)
  /\ MaySwapTo(to)
  /\ OpenAt(from) # {} \/ OpenSitting(from) # {}
  /\ sitting' = [s \in Sitting |->
       IF s \in OpenSitting(from)
       THEN [sitting[s] EXCEPT !.table = to, !.activeTableKey = to] ELSE sitting[s]]
  /\ order' = Moved(from, to)
  /\ table' = [table EXCEPT ![from] = "AVAILABLE", ![to] = "OCCUPIED"]
  /\ UNCHANGED req

\* setServiceTableStatus, updateTableStatus: somebody sets the column by hand.
SetStatus(t, s) ==
  /\ table[t] # s
  /\ table' = [table EXCEPT ![t] = s]
  /\ UNCHANGED <<sitting, order, req>>

\* The invocation dies, and what its transaction did is rolled back.
Fail(r) ==
  /\ "fail" \in Ops /\ req[r] # Idle
  /\ Finish(r)
  /\ UNCHANGED <<table, sitting, order>>

------------------------------------------------------------------------------

Init ==
  /\ table = [t \in Table |-> "AVAILABLE"]
  /\ sitting = [s \in Sitting |->
       [status |-> "NONE", table |-> None, activeTableKey |-> None]]
  /\ order = [o \in Order |-> NoOrder]
  /\ req = [r \in Request |-> Idle]

NextOf(r) ==
  \/ \E cart \in Carts : Begin(r, cart)
  \/ ReadTable(r) \/ FindSitting(r) \/ OpenSittingAt(r) \/ ReadNumber(r)
  \/ Commit(r) \/ Refused(r)
  \/ \E o \in Order : PayClosing(r, o) \/ PayEarly(r, o)
  \/ \E o \in Order, as \in {"COMPLETED", "CANCELLED"} : Close(r, o, as)
  \/ Count(r) \/ CommitClose(r) \/ Fail(r)
  \/ \E from, to \in Table : Swap(r, from, to)

Next ==
  \/ \E r \in Request : NextOf(r)
  \/ \E t \in Table, s \in ByHand : SetStatus(t, s)

Spec == Init /\ [][Next]_vars

------------------------------------------------------------------------------
(* What must hold *)

TypeOK ==
  /\ table \in [Table -> TableState]
  /\ sitting \in [Sitting -> SittingRow]
  /\ order \in [Order -> OrderRow]
  /\ req \in [Request -> Placing \cup Closing \cup {Idle}]

\* A table has one open sitting at most, however many first orders race for it
\* (the unique activeTableKey, kept by every writer of a sitting).
OneSitting ==
  /\ \A s, u \in Sitting :
       sitting[s].status = "OPEN" /\ sitting[u].status = "OPEN"
         /\ sitting[s].table = sitting[u].table => s = u
  /\ \A s \in Sitting : sitting[s].activeTableKey =
       IF sitting[s].status = "OPEN" THEN sitting[s].table ELSE None

\* A cart becomes one order, whatever is tapped twice or sent again.
PlacedOnce ==
  \A o, u \in Placed : order[o].key # None /\ order[o].key = order[u].key => o = u

\* The day's numbers are 1, 2, 3 ... with none used twice and none left out,
\* though orders are cancelled and placements lose races and die.
NumbersInSequence ==
  /\ \A o, u \in Placed : order[o].number = order[u].number => o = u
  /\ {order[o].number : o \in Placed} = 1..Cardinality(Placed)

\* Together: placements that race, are sent again, give up or die leave one order
\* for each cart and one number for each order (placeOrder's retry loop).
PlacedInSequence == PlacedOnce /\ NumbersInSequence

\* One invocation after another: a table is occupied, and has a sitting, exactly
\* while an order is open on it (placeOrder, freeTable and swapTable together).
OccupiedWhileOpen ==
  \A t \in Table : /\ table[t] = "OCCUPIED" <=> OpenAt(t) # {}
                   /\ OpenSitting(t) # {} <=> OpenAt(t) # {}

\* Every open order belongs to the open sitting at its own table.
SitsAtItsTable ==
  \A o \in Order : order[o].status = "OPEN" =>
    order[o].sitting \in OpenSitting(order[o].table)

\* Together: tables, sittings and orders tell one story (tableAvailability trusts
\* the first two for what the third would say).
FloorAgrees == OccupiedWhileOpen /\ SitsAtItsTable

\* "A guest may only order at a table that is theirs to order at": two guests who
\* are strangers never have open orders at one table.
StrangersApart ==
  \A t \in Table : \A o, u \in OpenAt(t) :
    order[o].party # None /\ order[u].party # None => order[o].party = order[u].party
==============================================================================
