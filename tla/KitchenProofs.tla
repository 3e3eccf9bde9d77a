---------------------------- MODULE KitchenProofs ----------------------------
(***************************************************************************)
(* Lines, statuses and the till of Kitchen, for every number of orders,    *)
(* lines and invocations.                                                  *)
(***************************************************************************)
EXTENDS Kitchen, SequenceTheorems, TLAPS

USE LineAssumption, BoundAssumption

Call == Walking \cup AtOrder \cup AtLine \cup Editing

------------------------------------------------------------------------------
(* What may become of a line *)

\* A row that is well formed, with nothing served unprepared or unordered.
Sound(row) ==
  row \in ItemRow /\ row.served <= row.prepared /\ row.prepared <= row.quantity

\* A line that is there stays, and its counters never fall.
Grown(old, new) ==
  old.status # "ABSENT" =>
    /\ new.status # "ABSENT"
    /\ new.prepared >= old.prepared /\ new.served >= old.served

\* Writing a status over a row touches no counter.
LEMMA StatusWritten ==
  ASSUME NEW row, Sound(row), NEW s \in ItemStatus
  PROVE  Sound([row EXCEPT !.status = s]) /\ Grown(row, [row EXCEPT !.status = s])
BY DEF Sound, Grown, ItemRow, ItemStatus

\* Nor does it when what is prepared, or served too, is carried up to a number
\* the line's quantity allows.
LEMMA PreparedWritten ==
  ASSUME NEW row, Sound(row), NEW q \in 0..MaxQuantity, q = row.quantity
  PROVE  LET after == [row EXCEPT !.status = "READY", !.prepared = q]
         IN  Sound(after) /\ Grown(row, after)
<1> DEFINE after == [row EXCEPT !.status = "READY", !.prepared = q]
<1>1. after \in ItemRow /\ after.status = "READY" /\ after.prepared = q
        /\ after.served = row.served /\ after.quantity = row.quantity
  BY DEF Sound, ItemRow, ItemStatus
<1> HIDE DEF after
<1>2. Sound(after) /\ Grown(row, after)
  BY <1>1 DEF Sound, Grown, ItemRow
<1> QED BY <1>2 DEF after

LEMMA ServedWritten ==
  ASSUME NEW row, Sound(row), NEW q \in 0..MaxQuantity, q = row.quantity
  PROVE  LET after == [row EXCEPT !.status = "SERVED", !.prepared = q, !.served = q]
         IN  Sound(after) /\ Grown(row, after)
<1> DEFINE after == [row EXCEPT !.status = "SERVED", !.prepared = q, !.served = q]
<1>1. after \in ItemRow /\ after.status = "SERVED" /\ after.prepared = q
        /\ after.served = q /\ after.quantity = row.quantity
  BY DEF Sound, ItemRow, ItemStatus
<1> HIDE DEF after
<1>2. Sound(after) /\ Grown(row, after)
  BY <1>1 DEF Sound, Grown, ItemRow
<1> QED BY <1>2 DEF after

LEMMA NewRowSound == ASSUME NEW n \in 0..MaxQuantity PROVE Sound(NewRow(n))
BY DEF Sound, NewRow, ItemRow, ItemStatus

\* A counted line is sound: applyProgress refuses what is not.
LEMMA ProgressSound ==
  ASSUME NEW row, Sound(row), NEW p \in 0..MaxQuantity, NEW s \in 0..MaxQuantity,
         Applies(row, p, s)
  PROVE  Sound(applyProgress(row, p, s)) /\ Grown(row, applyProgress(row, p, s))
<1> DEFINE counted == [row EXCEPT !.prepared = p, !.served = s]
<1>1. counted \in ItemRow /\ counted.served <= counted.prepared
        /\ counted.prepared <= counted.quantity
        /\ counted.prepared >= row.prepared /\ counted.served >= row.served
  BY DEF Sound, Applies, ItemRow
<1>2. /\ rowStatusFromCounters(counted) \in ItemStatus \cup {"ABSENT"}
      /\ row.status # "ABSENT" => rowStatusFromCounters(counted) # "ABSENT"
  BY <1>1 DEF rowStatusFromCounters, ItemRow, ItemStatus
<1>3. applyProgress(row, p, s) = [counted EXCEPT !.status = rowStatusFromCounters(counted)]
  BY DEF applyProgress
<1> HIDE DEF counted
<1> QED BY <1>1, <1>2, <1>3 DEF Sound, Grown, ItemRow

\* Routing a line writes its status and its mark.
LEMMA RoutedSound ==
  ASSUME NEW l \in Line, NEW row, Sound(row)
  PROVE  Sound(RoutedRow(l, row)) /\ Grown(row, RoutedRow(l, row))
<1>1. CASE row.routed \/ row.status \in {"ABSENT", "CANCELLED"}
  BY <1>1 DEF Sound, Grown, RoutedRow, ItemRow
<1>2. CASE ~ (row.routed \/ row.status \in {"ABSENT", "CANCELLED"})
  <2> DEFINE s == IF l \in OffShelf /\ row.status = "QUEUED" THEN "READY" ELSE row.status
  <2>1. s \in ItemStatus /\ s # "ABSENT"
    BY <1>2 DEF Sound, ItemRow, ItemStatus
  <2>2. RoutedRow(l, row) = [row EXCEPT !.routed = TRUE, !.status = s]
    BY <1>2 DEF RoutedRow
  <2> HIDE DEF s
  <2>3. /\ RoutedRow(l, row) \in ItemRow
        /\ RoutedRow(l, row).prepared = row.prepared
        /\ RoutedRow(l, row).served = row.served
        /\ RoutedRow(l, row).quantity = row.quantity
        /\ RoutedRow(l, row).status = s
    BY <2>1, <2>2 DEF Sound, ItemRow
  <2> QED BY <2>1, <2>3 DEF Sound, Grown, ItemRow
<1> QED BY <1>1, <1>2

LEMMA RoutingSound ==
  ASSUME NEW o, NEW rows \in [Line -> ItemRow], \A l \in Line : Sound(rows[l])
  PROVE  /\ routeOrderItems(o, rows) \in [Line -> ItemRow]
         /\ \A l \in Line : /\ Sound(routeOrderItems(o, rows)[l])
                            /\ Grown(rows[l], routeOrderItems(o, rows)[l])
                            /\ LineOf[l] # o => routeOrderItems(o, rows)[l] = rows[l]
<1>1. \A l \in Line : Grown(rows[l], rows[l])
  BY DEF Grown, ItemRow
<1>2. CASE ~ sections
  BY <1>1, <1>2 DEF routeOrderItems
<1>3. CASE sections
  <2>1. routeOrderItems(o, rows)
          = [l \in Line |-> IF LineOf[l] = o THEN RoutedRow(l, rows[l]) ELSE rows[l]]
    BY <1>3 DEF routeOrderItems
  <2> QED BY <1>1, <2>1, RoutedSound DEF Sound
<1> QED BY <1>2, <1>3

\* A cascade carries the counters up to the quantity.
LEMMA CascadedSound ==
  ASSUME NEW target, NEW routed, NEW row, Sound(row)
  PROVE  Sound(Cascaded(target, routed, row)) /\ Grown(row, Cascaded(target, routed, row))
<1>1. \/ Cascaded(target, routed, row) = row
      \/ /\ row.status = "QUEUED"
         /\ Cascaded(target, routed, row) = [row EXCEPT !.status = "PREPARING"]
      \/ /\ Cascaded(target, routed, row)
               = [row EXCEPT !.status = "READY", !.prepared = row.quantity]
      \/ /\ Cascaded(target, routed, row)
               = [row EXCEPT !.status = "SERVED", !.prepared = row.quantity,
                             !.served = row.quantity]
  BY Zenon DEF Cascaded
<1>2. /\ row = [status |-> row.status, quantity |-> row.quantity,
                prepared |-> row.prepared, served |-> row.served, routed |-> row.routed]
      /\ row.status \in ItemStatus \cup {"ABSENT"} /\ row.routed \in BOOLEAN
      /\ row.quantity \in 0..MaxQuantity
      /\ row.prepared \in 0..MaxQuantity /\ row.served \in 0..MaxQuantity
  BY DEF Sound, ItemRow
<1>3. CASE Cascaded(target, routed, row) = row
  BY <1>2, <1>3 DEF Sound, Grown
<1>4. CASE Cascaded(target, routed, row) = [row EXCEPT !.status = "PREPARING"]
  <2>1. LET after == [row EXCEPT !.status = "PREPARING"]
        IN  Sound(after) /\ Grown(row, after)
    BY ONLY <1>2, Sound(row), StatusWritten DEF ItemStatus
  <2> QED BY <1>4, <2>1
<1>5. CASE Cascaded(target, routed, row)
             = [row EXCEPT !.status = "READY", !.prepared = row.quantity]
  <2>1. LET after == [row EXCEPT !.status = "READY", !.prepared = row.quantity]
        IN  Sound(after) /\ Grown(row, after)
    BY ONLY <1>2, Sound(row), PreparedWritten, Zenon
  <2> QED BY <1>5, <2>1
<1>6. CASE Cascaded(target, routed, row)
             = [row EXCEPT !.status = "SERVED", !.prepared = row.quantity,
                           !.served = row.quantity]
  <2>1. LET after == [row EXCEPT !.status = "SERVED", !.prepared = row.quantity,
                                 !.served = row.quantity]
        IN  Sound(after) /\ Grown(row, after)
    BY ONLY <1>2, Sound(row), ServedWritten, Zenon
  <2> QED BY <1>6, <2>1
<1> QED BY <1>1, <1>3, <1>4, <1>5, <1>6

LEMMA CascadeSound ==
  ASSUME NEW call, NEW target, item \in [Line -> ItemRow], \A l \in Line : Sound(item[l])
  PROVE  /\ Cascade(call, target) \in [Line -> ItemRow]
         /\ \A l \in Line : /\ Sound(Cascade(call, target)[l])
                            /\ Grown(item[l], Cascade(call, target)[l])
                            /\ LineOf[l] # call.order => Cascade(call, target)[l] = item[l]
<1>1. \A l \in Line : Grown(item[l], item[l])
  BY DEF Grown, ItemRow
<1> QED BY <1>1, CascadedSound DEF Cascade, Sound

------------------------------------------------------------------------------
(* Calls *)

\* The kinds of call are told apart by their step.
LEMMA Calls ==
  ASSUME TypeOK, NEW r \in Request
  PROVE  /\ req[r].step \in {"read", "write"} => req[r] \in Walking
         /\ req[r].step \in {"derive", "cancel", "reject"} => req[r] \in AtOrder
         /\ req[r].step \in {"start", "void"} => req[r] \in AtLine
         /\ req[r].step = "edit" => req[r] \in Editing
         /\ req[r].step = "idle" => req[r] = Idle
BY DEF TypeOK, Walking, AtOrder, AtLine, Editing, Idle

------------------------------------------------------------------------------
(* Lines *)

LinesSound == item \in [Line -> ItemRow] /\ \A l \in Line : Sound(item[l])

\* Every line is sound after a step, and has not shrunk in it.
LinesKept ==
  /\ item' \in [Line -> ItemRow]
  /\ \A l \in Line : Sound(item'[l]) /\ Grown(item[l], item'[l])

LEMMA LinesInit == Init => LinesSound
<1> SUFFICES ASSUME Init PROVE LinesSound
  OBVIOUS
<1>1. PICK n \in [Placed -> 1..MaxQuantity] :
         item = [l \in Line |->
           IF l \notin Placed THEN [NewRow(0) EXCEPT !.status = "ABSENT"]
           ELSE IF sections /\ LineOf[l] \notin Guest THEN RoutedRow(l, NewRow(n[l]))
           ELSE NewRow(n[l])]
  BY DEF Init
<1>2. Sound([NewRow(0) EXCEPT !.status = "ABSENT"])
  <2>1. Sound(NewRow(0))
    BY NewRowSound
  <2>2. \A row : Sound(row) => Sound([row EXCEPT !.status = "ABSENT"])
    BY DEF Sound, ItemRow
  <2> QED BY <2>1, <2>2
<1>3. \A l \in Placed : n[l] \in 0..MaxQuantity
  OBVIOUS
<1>4. \A l \in Line : Sound(item[l])
  BY <1>1, <1>2, <1>3, NewRowSound, RoutedSound
<1>5. item = [l \in Line |-> item[l]]
  BY <1>1
<1> QED BY <1>4, <1>5 DEF LinesSound, Sound

LEMMA LinesSame ==
  ASSUME LinesSound, item' = item
  PROVE  LinesKept
BY DEF LinesSound, LinesKept, Sound, Grown, ItemRow

LEMMA OneLine ==
  ASSUME LinesSound, NEW l \in Line, NEW row, Sound(row), Grown(item[l], row),
         item' = [item EXCEPT ![l] = row]
  PROVE  LinesKept
<1>1. \A m \in Line : Grown(item[m], item[m])
  BY DEF LinesSound, Grown, ItemRow
<1> QED BY <1>1 DEF LinesSound, LinesKept, Sound

LEMMA GrownTwice ==
  ASSUME NEW x, NEW y, NEW z, Sound(x), Sound(y), Sound(z), Grown(x, y), Grown(y, z)
  PROVE  Grown(x, z)
BY DEF Sound, Grown, ItemRow

LEMMA RoutingAfter ==
  ASSUME LinesSound, NEW o, NEW rows \in [Line -> ItemRow],
         \A l \in Line : Sound(rows[l]) /\ Grown(item[l], rows[l]),
         item' = routeOrderItems(o, rows)
  PROVE  LinesKept
BY RoutingSound, GrownTwice DEF LinesSound, LinesKept

LEMMA LinesStep == TypeOK /\ LinesSound /\ [Next]_vars => LinesKept
<1> SUFFICES ASSUME TypeOK, LinesSound, [Next]_vars PROVE LinesKept
  OBVIOUS
<1>0. CASE UNCHANGED vars
  BY <1>0, LinesSame DEF vars
<1>a. CASE OpenSection
  BY <1>a, LinesSame DEF OpenSection
<1>b. ASSUME NEW o \in Order, Pay(o) \/ Deliver(o) PROVE LinesKept
  BY <1>b, LinesSame DEF Pay, Deliver
<1> SUFFICES ASSUME NEW r \in Request, NextOf(r) PROVE LinesKept
  BY <1>0, <1>a, <1>b DEF Next
<1>1. CASE UpdateWrite(r)
  <2> DEFINE call == req[r]
             target == Head(call.chain)
             cascade == Cascade(call, target)
  <2>1. /\ cascade \in [Line -> ItemRow]
        /\ \A l \in Line : Sound(cascade[l]) /\ Grown(item[l], cascade[l])
    BY CascadeSound DEF LinesSound
  <2>2. \/ item' = item
        \/ item' = cascade
        \/ item' = routeOrderItems(call.order, cascade)
    BY <1>1 DEF UpdateWrite
  <2> HIDE DEF cascade
  <2>3. CASE item' = cascade
    BY <2>1, <2>3 DEF LinesKept
  <2>4. CASE item' = routeOrderItems(call.order, cascade)
    BY <2>1, <2>4, RoutingAfter
  <2> QED BY <2>2, <2>3, <2>4, LinesSame
<1>2. CASE StartWrite(r)
  <2>1. req[r].line \in Line
    BY <1>2, Calls DEF StartWrite, At, AtLine
  <2> DEFINE l == req[r].line
  <2>2. item' = [item EXCEPT ![l] = [item[l] EXCEPT !.status = "PREPARING"]]
    BY <1>2 DEF StartWrite
  <2> QED BY <2>1, <2>2, OneLine, StatusWritten DEF LinesSound, ItemStatus
<1>3. CASE VoidWrite(r)
  <2>1. req[r].line \in Line
    BY <1>3, Calls DEF VoidWrite, At, AtLine
  <2> DEFINE l == req[r].line
  <2>2. item' = [item EXCEPT ![l] = [item[l] EXCEPT !.status = "CANCELLED"]]
    BY <1>3 DEF VoidWrite
  <2> QED BY <2>1, <2>2, OneLine, StatusWritten DEF LinesSound, ItemStatus
<1>4. CASE EditWrite(r)
  <2> DEFINE call == req[r]
             l == call.line
  <2>1. call \in Editing /\ l \in Line /\ call.wanted \in 0..MaxQuantity
          /\ call.seen \in ItemRow
    BY <1>4, Calls DEF EditWrite, At, Editing
  <2>2. CASE item' = [item EXCEPT ![l] = [item[l] EXCEPT !.status = "CANCELLED"]]
    BY <2>1, <2>2, OneLine, StatusWritten DEF LinesSound, ItemStatus
  <2>3. CASE /\ ProgressCheck(l, call.wanted)
             /\ item' = [item EXCEPT ![l] = [item[l] EXCEPT !.quantity = call.wanted]]
    <3> DEFINE row == [item[l] EXCEPT !.quantity = call.wanted]
    <3>1. Sound(item[l])
      BY <2>1 DEF LinesSound
    <3>2. /\ row \in ItemRow /\ row.quantity = call.wanted
          /\ row.prepared = item[l].prepared /\ row.served = item[l].served
          /\ row.status = item[l].status
      BY <2>1, <3>1 DEF Sound, ItemRow
    <3>3. item' = [item EXCEPT ![l] = row]
      BY <2>3
    <3> HIDE DEF row
    <3>4. Sound(row) /\ Grown(item[l], row)
      BY <2>1, <2>3, <3>1, <3>2 DEF Sound, Grown, ProgressCheck, ItemRow
    <3> QED BY <2>1, <3>3, <3>4, OneLine
  <2>4. CASE /\ call.wanted > call.seen.quantity
             /\ \E extra \in LinesOf(call.order) :
                  /\ item[extra].status = "ABSENT"
                  /\ item' = [item EXCEPT ![extra] = NewRow(Extra(call))]
    <3>1. PICK extra \in LinesOf(call.order) :
                  /\ item[extra].status = "ABSENT"
                  /\ item' = [item EXCEPT ![extra] = NewRow(Extra(call))]
      BY <2>4
    <3>2. Extra(call) \in 0..MaxQuantity /\ extra \in Line
      BY <2>1, <2>4, <3>1 DEF Extra, ItemRow, LinesOf
    <3>3. Grown(item[extra], NewRow(Extra(call)))
      BY <3>1 DEF Grown
    <3> QED BY <3>1, <3>2, <3>3, NewRowSound, OneLine
  <2>5. \/ item' = [item EXCEPT ![l].status = "CANCELLED"]
        \/ /\ ProgressCheck(l, call.wanted)
           /\ item' = [item EXCEPT ![l].quantity = call.wanted]
        \/ /\ call.wanted > call.seen.quantity
           /\ \E extra \in LinesOf(call.order) :
                /\ item[extra].status = "ABSENT"
                /\ item' = [item EXCEPT ![extra] = NewRow(Extra(call))]
    BY <1>4, Zenon DEF EditWrite
  <2> QED BY <2>2, <2>3, <2>4, <2>5
<1>5. CASE CancelWrite(r)
  <2> DEFINE cancelled(l) == [item[l] EXCEPT !.status = "CANCELLED"]
  <2>1. item' = [l \in Line |->
          IF LineOf[l] = req[r].order /\ item[l].status # "ABSENT"
          THEN cancelled(l) ELSE item[l]]
    BY <1>5 DEF CancelWrite
  <2>2. \A l \in Line : Sound(cancelled(l)) /\ Grown(item[l], cancelled(l))
    BY StatusWritten DEF LinesSound, ItemStatus
  <2> HIDE DEF cancelled
  <2>3. \A l \in Line : Grown(item[l], item[l])
    BY DEF LinesSound, Grown, ItemRow
  <2> QED BY <2>1, <2>2, <2>3 DEF LinesSound, LinesKept, Sound
<1>6. ASSUME NEW o \in Order, NEW updates \in Updates(o), Progress(r, o, updates)
      PROVE  LinesKept
  <2> DEFINE counted(l) == applyProgress(item[l], updates[l].prepared, updates[l].served)
  <2>1. item' = [l \in Line |-> IF l \in DOMAIN updates THEN counted(l) ELSE item[l]]
    BY <1>6 DEF Progress
  <2>2. \A l \in DOMAIN updates :
           updates[l].prepared \in 0..MaxQuantity /\ updates[l].served \in 0..MaxQuantity
    BY DEF Updates
  <2>3. \A l \in Line : l \in DOMAIN updates =>
           Sound(counted(l)) /\ Grown(item[l], counted(l))
    BY <1>6, <2>2, ProgressSound DEF Progress, LinesSound
  <2> HIDE DEF counted
  <2>4. \A l \in Line : Grown(item[l], item[l])
    BY DEF LinesSound, Grown, ItemRow
  <2> QED BY <2>1, <2>3, <2>4 DEF LinesSound, LinesKept, Sound
<1>7. ASSUME NEW l \in Line, NEW n \in 1..MaxQuantity, AddItem(r, l, n)
      PROVE  LinesKept
  <2> DEFINE rows == [item EXCEPT ![l] = NewRow(n)]
             o == LineOf[l]
  <2>1. Sound(NewRow(n)) /\ Grown(item[l], NewRow(n))
    BY <1>7, NewRowSound DEF AddItem, Grown
  <2>2. \A m \in Line : Grown(item[m], item[m])
    BY DEF LinesSound, Grown, ItemRow
  <2>3. rows \in [Line -> ItemRow] /\ \A m \in Line : Sound(rows[m]) /\ Grown(item[m], rows[m])
    BY <2>1, <2>2 DEF LinesSound, Sound
  <2>4. item' = rows \/ item' = routeOrderItems(o, rows)
    BY <1>7 DEF AddItem, JoinKitchen
  <2> HIDE DEF rows
  <2> QED BY <2>3, <2>4, RoutingAfter DEF LinesKept
<1>8. ASSUME item' = item PROVE LinesKept
  BY <1>8, LinesSame
<1> QED
  BY <1>1, <1>2, <1>3, <1>4, <1>5, <1>6, <1>7, <1>8
  DEF NextOf, Continue, Fail, UpdateRead, Derive, Tap, Accept, ServeWhole, CancelRead,
      RejectRead, StartRead, VoidRead, EditRead
------------------------------------------------------------------------------
(* Orders *)

OrderRow == [status: Status, paid: BOOLEAN, log: Seq(Status)]

Rank(s) ==
  CASE s = "PENDING" -> 1 [] s = "ACCEPTED" -> 2 [] s = "PREPARING" -> 3
    [] s = "READY" -> 4 [] s = "SERVED" -> 5 [] s = "COMPLETED" -> 6
    [] OTHER -> 7

\* An order is given a further status, served only once ready, or cancelled.
Moves(old, new) ==
  /\ new.log = Append(old.log, new.status)
  /\ \/ new.status = "CANCELLED"
     \/ /\ Rank(old.status) < Rank(new.status)
        /\ new.status = "SERVED" => old.status = "READY"

Stays(old, new) == new.status = old.status /\ new.log = old.log

\* What a step may do to the orders.
OrdersKept ==
  /\ order' \in [Order -> OrderRow]
  /\ \A o \in Order : Stays(order[o], order'[o]) \/ Moves(order[o], order'[o])

\* What a call was sent on with, and judged when it was.
Sent(call) ==
  /\ call.step \in {"read", "write"} =>
       /\ call.chain # <<>>
       /\ call.gate => call.chain = <<"ACCEPTED">>
  /\ call.step = "write" =>
       /\ Head(call.chain) \in ALLOWED_TRANSITIONS[call.seen]
       /\ call.gate \/ call.order \notin Guest \/ call.seen # "PENDING"
            \/ Head(call.chain) \notin {"ACCEPTED", "PREPARING"}
CallsSent == \A r \in Request : Sent(req[r])

\* A line about to be started is on an order the kitchen has.
Started(call) ==
  call.step = "start" =>
    LineOf[call.line] = call.order /\ order[call.order].status # "PENDING"

\* Every transition of the table goes up, or cancels.
LEMMA TableClimbs ==
  ASSUME NEW s \in Status, NEW u \in ALLOWED_TRANSITIONS[s]
  PROVE  /\ u \in Status /\ u # "PENDING"
         /\ \/ u = "CANCELLED"
            \/ Rank(s) < Rank(u) /\ (u = "SERVED" => s = "READY")
         /\ s # "CANCELLED" /\ s # "COMPLETED"
BY DEF Status, ALLOWED_TRANSITIONS, Rank

LEMMA GivenMoves ==
  ASSUME order \in [Order -> OrderRow], NEW o \in Order, NEW s \in Status,
         \/ s = "CANCELLED"
         \/ /\ Rank(order[o].status) < Rank(s)
            /\ s = "SERVED" => order[o].status = "READY"
  PROVE  /\ Given(o, s) \in [Order -> OrderRow]
         /\ \A u \in Order : Stays(order[u], Given(o, s)[u]) \/ Moves(order[u], Given(o, s)[u])
         /\ Given(o, s)[o].status = s
<1>1. Append(order[o].log, s) \in Seq(Status)
  BY DEF OrderRow
<1> DEFINE more == Append(order[o].log, s)
           row == [order[o] EXCEPT !.status = s, !.log = more]
<1>2. Given(o, s) = [order EXCEPT ![o] = row]
  BY DEF Given
<1> HIDE DEF more
<1>4. row \in OrderRow /\ row.status = s /\ row.log = more
  BY <1>1 DEF OrderRow, more
<1> HIDE DEF row
<1>3. /\ Given(o, s) \in [Order -> OrderRow]
      /\ Given(o, s)[o].status = s
      /\ Given(o, s)[o].log = Append(order[o].log, s)
      /\ \A u \in Order : u # o => Given(o, s)[u] = order[u]
  BY <1>2, <1>4 DEF more
<1> QED BY <1>3 DEF Stays, Moves

LEMMA OrdersSame ==
  ASSUME TypeOK, order' = order
  PROVE  OrdersKept
BY DEF TypeOK, OrdersKept, OrderRow, Stays

LEMMA OrdersStep == TypeOK /\ CallsSent /\ [Next]_vars => OrdersKept
<1> SUFFICES ASSUME TypeOK, CallsSent, [Next]_vars PROVE OrdersKept
  OBVIOUS
<1>t. order \in [Order -> OrderRow]
  BY DEF TypeOK, OrderRow
<1>0. CASE UNCHANGED vars
  BY <1>0, OrdersSame DEF vars
<1>a. CASE OpenSection
  BY <1>a, OrdersSame DEF OpenSection
<1>b. ASSUME NEW o \in Order, Deliver(o) PROVE OrdersKept
  <2>1. order[o].status = "READY" /\ order' = Given(o, "SERVED")
    BY <1>b DEF Deliver
  <2>2. Rank("READY") < Rank("SERVED") /\ "SERVED" \in Status
    BY DEF Rank, Status
  <2> QED BY <1>t, <2>1, <2>2, GivenMoves DEF OrdersKept
<1>c. ASSUME NEW o \in Order, Pay(o) PROVE OrdersKept
  <2> DEFINE moved == IF order[o].status \in {"SERVED", "READY"}
                      THEN Given(o, "COMPLETED") ELSE order
  <2>1. order' = [moved EXCEPT ![o].paid = TRUE]
    BY <1>c DEF Pay
  <2>2. /\ moved \in [Order -> OrderRow]
        /\ \A u \in Order : Stays(order[u], moved[u]) \/ Moves(order[u], moved[u])
    BY <1>t, GivenMoves DEF Rank, Status, Stays
  <2> HIDE DEF moved
  <2>3. /\ order' \in [Order -> OrderRow]
        /\ \A u \in Order : order'[u].status = moved[u].status /\ order'[u].log = moved[u].log
    BY <2>1, <2>2 DEF OrderRow
  <2> QED BY <2>2, <2>3 DEF OrdersKept, Stays, Moves
<1> SUFFICES ASSUME NEW r \in Request, NextOf(r) PROVE OrdersKept
  BY <1>0, <1>a, <1>b, <1>c DEF Next
<1>1. CASE UpdateWrite(r)
  <2> DEFINE call == req[r]
             o == call.order
             target == Head(call.chain)
  <2>1. call \in Walking /\ o \in Order /\ call.seen \in Status /\ call.step = "write"
    BY <1>1, Calls DEF UpdateWrite, At, Walking
  <2>2. target \in ALLOWED_TRANSITIONS[call.seen]
    BY <2>1 DEF CallsSent, Sent
  <2>3. order' = order \/ (order[o].status = call.seen /\ order' = Given(o, target))
    BY <1>1 DEF UpdateWrite, StillAsRead
  <2> HIDE DEF target
  <2>4. CASE order[o].status = call.seen /\ order' = Given(o, target)
    <3>1. target \in Status
            /\ \/ target = "CANCELLED"
               \/ /\ Rank(call.seen) < Rank(target)
                  /\ target = "SERVED" => call.seen = "READY"
      BY <2>1, <2>2, TableClimbs
    <3> HIDE DEF o
    <3>2. o \in Order /\ order[o].status = call.seen /\ order' = Given(o, target)
      BY <2>1, <2>4 DEF o
    <3>3. /\ Given(o, target) \in [Order -> OrderRow]
          /\ \A u \in Order : \/ Stays(order[u], Given(o, target)[u])
                              \/ Moves(order[u], Given(o, target)[u])
      BY <1>t, <3>1, <3>2, GivenMoves
    <3> QED BY <3>2, <3>3 DEF OrdersKept
  <2> QED BY <2>3, <2>4, OrdersSame
<1>2. CASE CancelWrite(r)
  <2>1. req[r].order \in Order
    BY <1>2, Calls DEF CancelWrite, At, AtOrder
  <2>2. order' = Given(req[r].order, "CANCELLED")
    BY <1>2 DEF CancelWrite
  <2> QED BY <1>t, <2>1, <2>2, GivenMoves DEF OrdersKept, Status
<1>3. ASSUME order' = order PROVE OrdersKept
  BY <1>3, OrdersSame
<1> QED
  BY <1>1, <1>2, <1>3
  DEF NextOf, Continue, Fail, UpdateRead, Derive, Tap, Accept, ServeWhole, CancelRead,
      RejectRead, StartRead, VoidRead, EditRead, StartWrite, VoidWrite, EditWrite,
      Progress, AddItem
------------------------------------------------------------------------------
(* Calls are sent on as they were judged *)

CallsKept ==
  /\ req' \in [Request -> Call \cup {Idle}]
  /\ CallsSent'
  /\ \A r \in Request : req'[r] = req[r] \/ Started(req'[r])

LEMMA OneCall ==
  ASSUME TypeOK, CallsSent, NEW r \in Request, NEW call \in Call \cup {Idle}, Sent(call),
         Started(call), req' = [req EXCEPT ![r] = call]
  PROVE  CallsKept
BY DEF TypeOK, CallsSent, CallsKept, Call

LEMMA CallsSame ==
  ASSUME TypeOK, CallsSent, req' = req
  PROVE  CallsKept
BY DEF TypeOK, CallsSent, CallsKept, Call

LEMMA IdleSent == Sent(Idle) /\ Started(Idle)
BY DEF Sent, Started, Idle

LEMMA WalkSent ==
  ASSUME NEW o \in Order, NEW chain \in Seq(Status), NEW derived \in BOOLEAN,
         NEW gate \in BOOLEAN, gate => chain \in {<<"ACCEPTED">>, <<>>}
  PROVE  /\ Walk(o, chain, derived, gate) \in Walking \cup {Idle}
         /\ Sent(Walk(o, chain, derived, gate)) /\ Started(Walk(o, chain, derived, gate))
BY IdleSent DEF Walk, Walking, Sent, Started, Status

LEMMA WalkOnSent ==
  ASSUME NEW call \in Walking, Sent(call)
  PROVE  /\ WalkOn(call) \in Walking \cup {Idle}
         /\ Sent(WalkOn(call)) /\ Started(WalkOn(call))
<1>1. /\ call.order \in Order /\ call.chain \in Seq(Status) /\ call.chain # <<>>
      /\ call.derived \in BOOLEAN /\ call.gate \in BOOLEAN
      /\ call.gate => call.chain = <<"ACCEPTED">>
  BY DEF Walking, Sent
<1>2. Tail(call.chain) \in Seq(Status)
  BY <1>1, HeadTailProperties
<1>3. Tail(<<"ACCEPTED">>) = <<>>
  <2>1. <<"ACCEPTED">> \in Seq(Status) /\ <<"ACCEPTED">> # <<>> /\ Len(<<"ACCEPTED">>) = 1
    BY DEF Status
  <2>2. Tail(<<"ACCEPTED">>) \in Seq(Status) /\ Len(Tail(<<"ACCEPTED">>)) = 0
    BY <2>1, HeadTailProperties
  <2> QED BY <2>2, EmptySeq
<1>4. call.gate => Tail(call.chain) = <<>>
  BY <1>1, <1>3
<1> QED BY <1>1, <1>2, <1>4, WalkSent DEF WalkOn

\* A part of the ladder is a sequence of statuses.
LEMMA Rungs ==
  ASSUME NEW m \in 1..5, NEW n \in 1..5
  PROVE  SubSeq(LADDER, m + 1, n) \in Seq(Status)
<1>1. \A i \in (m + 1)..n : LADDER[i] \in Status
  BY DEF LADDER, Status
<1> QED BY <1>1, SubSeqProperties

LEMMA RungIs ==
  ASSUME NEW s \in Status, OnLadder(s)
  PROVE  Rung(s) \in 1..5 /\ LADDER[Rung(s)] = s
<1>1. \E i \in 1..5 : LADDER[i] = s
  BY DEF OnLadder, Status, LADDER
<1> QED BY <1>1 DEF Rung

LEMMA CallsStep == TypeOK /\ CallsSent /\ [Next]_vars => CallsKept
<1> SUFFICES ASSUME TypeOK, CallsSent, [Next]_vars PROVE CallsKept
  OBVIOUS
<1>0. CASE UNCHANGED vars
  BY <1>0, CallsSame DEF vars
<1>a. CASE OpenSection
  BY <1>a, CallsSame DEF OpenSection
<1>b. ASSUME NEW o \in Order, Pay(o) \/ Deliver(o) PROVE CallsKept
  BY <1>b, CallsSame DEF Pay, Deliver
<1> SUFFICES ASSUME NEW r \in Request, NextOf(r) PROVE CallsKept
  BY <1>0, <1>a, <1>b DEF Next
<1>f. CASE Finish(r)
  BY <1>f, OneCall, IdleSent DEF Finish
<1>d. ASSUME NEW o \in Order, req' = [req EXCEPT ![r] = [step |-> "derive", order |-> o]]
      PROVE  CallsKept
  <2>1. /\ [step |-> "derive", order |-> o] \in Call
        /\ Sent([step |-> "derive", order |-> o])
        /\ Started([step |-> "derive", order |-> o])
    BY DEF Call, AtOrder, Sent, Started
  <2> QED BY <1>d, <2>1, OneCall
<1>w. ASSUME NEW o \in Order, NEW chain \in Seq(Status), NEW derived \in BOOLEAN,
             NEW gate \in BOOLEAN, gate => chain = <<"ACCEPTED">>,
             req' = [req EXCEPT ![r] = Walk(o, chain, derived, gate)]
      PROVE  CallsKept
  BY <1>w, WalkSent, OneCall DEF Call
<1>1. CASE UpdateRead(r)
  <2> DEFINE call == req[r]
             current == order[call.order].status
  <2>1. call \in Walking /\ Sent(call) /\ call.order \in Order /\ current \in Status
          /\ call.step = "read"
    BY <1>1, Calls DEF UpdateRead, At, Walking, CallsSent, TypeOK
  <2>2. CASE req' = [req EXCEPT ![r] = WalkOn(call)]
    BY <2>1, <2>2, WalkOnSent, OneCall DEF Call
  <2>3. CASE /\ Gated(call) /\ Head(call.chain) \in ALLOWED_TRANSITIONS[current]
             /\ req' = [req EXCEPT ![r] = [call EXCEPT !.step = "write", !.seen = current]]
    <3> DEFINE next == [call EXCEPT !.step = "write", !.seen = current]
    <3>1. /\ next \in Walking /\ next.step = "write" /\ next.seen = current
          /\ next.chain = call.chain /\ next.gate = call.gate /\ next.order = call.order
      BY <2>1 DEF Walking
    <3>2. req' = [req EXCEPT ![r] = next]
      BY <2>3
    <3> HIDE DEF next
    <3>3. Sent(next) /\ Started(next)
      BY <2>1, <2>3, <3>1 DEF Sent, Started, Gated
    <3> QED BY <3>1, <3>2, <3>3, OneCall DEF Call
  <2> QED BY <1>1, <1>f, <2>2, <2>3 DEF UpdateRead, Finish
<1>2. CASE UpdateWrite(r)
  <2> DEFINE call == req[r]
  <2>1. call \in Walking /\ Sent(call) /\ call.order \in Order
    BY <1>2, Calls DEF UpdateWrite, At, Walking, CallsSent
  <2>2. CASE req' = [req EXCEPT ![r] = WalkOn(call)]
    BY <2>1, <2>2, WalkOnSent, OneCall DEF Call
  <2>3. CASE req' = [req EXCEPT ![r] = Walk(call.order, <<"COMPLETED">>, FALSE, FALSE)]
    <3>1. <<"COMPLETED">> \in Seq(Status)
      BY DEF Status
    <3> QED BY <2>1, <2>3, <3>1, <1>w
  <2> QED BY <1>2, <1>f, <2>2, <2>3 DEF UpdateWrite, Finish
<1>3. CASE Derive(r)
  <2> DEFINE o == req[r].order
             s == order[o].status
  <2>1. o \in Order /\ s \in Status
    BY <1>3, Calls DEF Derive, At, AtOrder, TypeOK
  <2>2. Readout(o) \in {"PREPARING", "READY", "SERVED", "NONE"}
    BY DEF Readout
  <2>3. RungsTo(s, Readout(o)) \in Seq(Status)
    <3>1. \A u \in {"PREPARING", "READY", "SERVED"} : u \in Status /\ OnLadder(u)
      BY DEF Status, OnLadder
    <3> QED BY <2>1, <2>2, <3>1, Rungs, RungIs DEF RungsTo
  <2> QED BY <1>3, <1>f, <1>w, <2>1, <2>3 DEF Derive, Finish
<1>4. ASSUME NEW o \in Order,
             NEW s \in {"ACCEPTED", "PREPARING", "READY", "SERVED", "COMPLETED"}, Tap(r, o, s)
      PROVE  CallsKept
  <2>1. <<s>> \in Seq(Status)
    BY DEF Status
  <2> QED BY <1>4, <1>w, <2>1 DEF Tap
<1>5. ASSUME NEW o \in Order, Accept(r, o) PROVE CallsKept
  <2>1. <<"ACCEPTED">> \in Seq(Status)
    BY DEF Status
  <2> QED BY <1>5, <1>w, <2>1 DEF Accept
<1>6. ASSUME NEW o \in Order, ServeWhole(r, o) PROVE CallsKept
  <2> DEFINE s == order[o].status
  <2>1. s \in Status /\ OnLadder(s)
    BY <1>6 DEF ServeWhole, OnLadder, Status
  <2>2. SubSeq(LADDER, Rung(s) + 1, 5) \in Seq(Status)
    BY <2>1, RungIs, Rungs
  <2> QED BY <1>6, <1>w, <2>2 DEF ServeWhole
<1>7. ASSUME NEW o \in Order, CancelRead(r, o) \/ RejectRead(r, o) PROVE CallsKept
  <2>1. \A st \in {"cancel", "reject"} :
          /\ [step |-> st, order |-> o] \in Call
          /\ Sent([step |-> st, order |-> o]) /\ Started([step |-> st, order |-> o])
    BY DEF Call, AtOrder, Sent, Started
  <2> QED BY <1>7, <2>1, OneCall DEF CancelRead, RejectRead
<1>8. ASSUME NEW l \in Line, StartRead(r, l) \/ VoidRead(r, l) PROVE CallsKept
  <2> DEFINE call(st) == [step |-> st, order |-> LineOf[l], line |-> l]
  <2>1. \A st \in {"start", "void"} : call(st) \in Call /\ Sent(call(st))
    BY DEF Call, AtLine, Sent
  <2>2. Started(call("void"))
    BY DEF Started
  <2>3. StartRead(r, l) => Started(call("start"))
    BY DEF Started, StartRead, Cooking
  <2>4. \/ StartRead(r, l) /\ req' = [req EXCEPT ![r] = call("start")]
        \/ VoidRead(r, l) /\ req' = [req EXCEPT ![r] = call("void")]
    BY <1>8 DEF StartRead, VoidRead
  <2> HIDE DEF call
  <2> QED BY <2>1, <2>2, <2>3, <2>4, OneCall
<1>9. ASSUME NEW l \in Line, NEW n \in 0..MaxQuantity, EditRead(r, l, n) PROVE CallsKept
  <2> DEFINE call == [step |-> "edit", order |-> LineOf[l], line |-> l,
                      seen |-> item[l], wanted |-> n]
  <2>1. call \in Call /\ Sent(call) /\ Started(call)
    BY DEF Call, Editing, Sent, Started, TypeOK
  <2>2. req' = [req EXCEPT ![r] = call]
    BY <1>9 DEF EditRead
  <2> HIDE DEF call
  <2> QED BY <2>1, <2>2, OneCall
<1>10. CASE StartWrite(r)
  <2>1. req[r].order \in Order
    BY <1>10, Calls DEF StartWrite, At, AtLine
  <2> QED BY <1>10, <1>d, <2>1 DEF StartWrite
<1>11. ASSUME NEW o \in Order, NEW updates, Progress(r, o, updates) PROVE CallsKept
  BY <1>11, <1>d DEF Progress
<1>12. ASSUME NEW l \in Line, NEW n, AddItem(r, l, n) PROVE CallsKept
  BY <1>12, CallsSame DEF AddItem
<1> QED
  BY <1>f, <1>1, <1>2, <1>3, <1>4, <1>5, <1>6, <1>7, <1>8, <1>9, <1>10, <1>11, <1>12
  DEF NextOf, Continue, Fail, EditWrite, VoidWrite, CancelWrite

------------------------------------------------------------------------------
(* What every reachable state keeps *)

\* An order's history climbs, and is where its status comes from.
Logged(row) ==
  /\ \A i, j \in DOMAIN row.log :
       i < j => row.log[j] = "CANCELLED" \/ Rank(row.log[i]) < Rank(row.log[j])
  /\ \A i \in DOMAIN row.log : Rank(row.log[i]) <= Rank(row.status)
  /\ row.status = "READY" => \E i \in DOMAIN row.log : row.log[i] = "READY"
  /\ \A i \in DOMAIN row.log :
       row.log[i] = "SERVED" => \E j \in 1..i : row.log[j] = "READY"
History == \A o \in Order : Logged(order[o])

KitchenInv == TypeOK /\ LinesSound /\ CallsSent /\ History

LEMMA RankIsNat == ASSUME NEW s PROVE Rank(s) \in 1..7
BY DEF Rank

\* A further entry keeps the history climbing.
LEMMA MovesLogged ==
  ASSUME NEW old \in OrderRow, NEW new \in OrderRow, Logged(old), Moves(old, new)
  PROVE  Logged(new)
<1>1. /\ new.log = Append(old.log, new.status) /\ old.log \in Seq(Status)
      /\ new.status \in Status
  BY DEF Moves, OrderRow
<1> DEFINE n == Len(old.log)
<1>2. /\ n \in Nat /\ DOMAIN old.log = 1..n /\ DOMAIN new.log = 1..(n + 1)
      /\ new.log[n + 1] = new.status
      /\ \A i \in 1..n : new.log[i] = old.log[i]
  BY <1>1
<1> HIDE DEF n
<1>3. new.status = "CANCELLED" \/ Rank(old.status) < Rank(new.status)
  BY DEF Moves
<1>4. \A i \in 1..n : Rank(old.log[i]) <= Rank(old.status)
  BY <1>2 DEF Logged
<1>5. \A i \in 1..n : Rank(old.log[i]) <= Rank(new.status)
                         /\ (new.status = "CANCELLED" \/ Rank(old.log[i]) < Rank(new.status))
  <2>1. Rank("CANCELLED") = 7
    BY DEF Rank
  <2> QED BY <1>3, <1>4, <2>1, RankIsNat
<1>6. \A i, j \in DOMAIN new.log :
        i < j => new.log[j] = "CANCELLED" \/ Rank(new.log[i]) < Rank(new.log[j])
  <2> SUFFICES ASSUME NEW i \in 1..(n + 1), NEW j \in 1..(n + 1), i < j
               PROVE  new.log[j] = "CANCELLED" \/ Rank(new.log[i]) < Rank(new.log[j])
    BY <1>2
  <2>1. i \in 1..n
    BY <1>2
  <2>2. CASE j = n + 1
    BY <1>2, <1>5, <2>1, <2>2
  <2>3. CASE j \in 1..n
    BY <1>2, <2>1, <2>3 DEF Logged
  <2> QED BY <1>2, <2>2, <2>3
<1>7. \A i \in DOMAIN new.log : Rank(new.log[i]) <= Rank(new.status)
  <2> SUFFICES ASSUME NEW i \in 1..(n + 1) PROVE Rank(new.log[i]) <= Rank(new.status)
    BY <1>2
  <2>1. CASE i = n + 1
    BY <1>2, <2>1, RankIsNat
  <2>2. CASE i \in 1..n
    BY <1>2, <1>5, <2>2
  <2> QED BY <1>2, <2>1, <2>2
<1>8. new.status = "READY" => \E i \in DOMAIN new.log : new.log[i] = "READY"
  BY <1>2
<1>9. \A i \in DOMAIN new.log :
        new.log[i] = "SERVED" => \E j \in 1..i : new.log[j] = "READY"
  <2> SUFFICES ASSUME NEW i \in 1..(n + 1), new.log[i] = "SERVED"
               PROVE  \E j \in 1..i : new.log[j] = "READY"
    BY <1>2
  <2>1. CASE i = n + 1
    <3>1. old.status = "READY"
      BY <1>2, <2>1 DEF Moves
    <3>2. PICK j \in 1..n : old.log[j] = "READY"
      BY <1>2, <3>1 DEF Logged
    <3> QED BY <1>2, <2>1, <3>2
  <2>2. CASE i \in 1..n
    <3>1. PICK j \in 1..i : old.log[j] = "READY"
      BY <1>2, <2>2 DEF Logged
    <3>2. j \in 1..n
      BY <1>2, <2>2
    <3> QED BY <1>2, <3>1, <3>2
  <2> QED BY <1>2, <2>1, <2>2
<1> QED BY <1>6, <1>7, <1>8, <1>9 DEF Logged

LEMMA InitKeeps == Init => KitchenInv
<1> SUFFICES ASSUME Init PROVE KitchenInv
  OBVIOUS
<1> DEFINE placed(o) ==
       IF o \in Guest THEN [status |-> "PENDING", paid |-> FALSE, log |-> <<>>]
       ELSE [status |-> "ACCEPTED", paid |-> FALSE, log |-> <<"ACCEPTED">>]
<1>1. \A o \in Order : placed(o) \in OrderRow /\ Logged(placed(o))
  BY DEF OrderRow, Status, Logged, Rank
<1>2. order = [o \in Order |-> placed(o)]
  BY DEF Init
<1> HIDE DEF placed
<1>3. order \in [Order -> OrderRow] /\ History
  BY <1>1, <1>2 DEF History
<1>4. req = [r \in Request |-> Idle] /\ sections \in BOOLEAN
  BY DEF Init
<1>5. TypeOK
  BY <1>3, <1>4, LinesInit DEF TypeOK, LinesSound, OrderRow
<1>6. CallsSent
  BY <1>4, IdleSent DEF CallsSent
<1> QED BY <1>3, <1>5, <1>6, LinesInit DEF KitchenInv

LEMMA StepKeeps == KitchenInv /\ [Next]_vars => KitchenInv'
<1> SUFFICES ASSUME KitchenInv, [Next]_vars PROVE KitchenInv'
  OBVIOUS
<1>1. LinesKept /\ OrdersKept /\ CallsKept
  BY LinesStep, OrdersStep, CallsStep DEF KitchenInv
<1>2. sections' \in BOOLEAN
  <2>0. sections \in BOOLEAN
    BY DEF KitchenInv, TypeOK
  <2>1. ASSUME NEW r \in Request, NextOf(r) PROVE sections' = sections
    <3>1. CASE Continue(r)
      BY <3>1, Zenon DEF Continue, UpdateRead, UpdateWrite, Derive, StartWrite, EditWrite,
                         VoidWrite, CancelWrite
    <3> QED BY <2>1, <3>1, Zenon DEF NextOf, Fail, Tap, Accept, ServeWhole, CancelRead,
               RejectRead, Progress, StartRead, VoidRead, AddItem, EditRead
  <2>2. CASE OpenSection
    BY <2>2 DEF OpenSection
  <2>3. ASSUME NEW o \in Order, Pay(o) \/ Deliver(o) PROVE sections' = sections
    BY <2>3, Zenon DEF Pay, Deliver
  <2>4. ASSUME UNCHANGED vars PROVE sections' = sections
    BY <2>4 DEF vars
  <2>5. sections' \in BOOLEAN \/ sections' = sections
    BY <2>1, <2>2, <2>3, <2>4, Zenon DEF Next
  <2> QED BY <2>0, <2>5
<1>3. TypeOK'
  BY <1>1, <1>2 DEF LinesKept, OrdersKept, CallsKept, TypeOK, Call, OrderRow
<1>4. LinesSound' /\ CallsSent'
  BY <1>1 DEF LinesKept, LinesSound, CallsKept
<1>5. ASSUME NEW o \in Order PROVE Logged(order'[o])
  <2>1. order[o] \in OrderRow /\ order'[o] \in OrderRow /\ Logged(order[o])
    BY <1>1 DEF KitchenInv, TypeOK, OrdersKept, OrderRow, History
  <2>2. CASE Stays(order[o], order'[o])
    BY <2>1, <2>2 DEF Stays, Logged
  <2>3. CASE Moves(order[o], order'[o])
    BY <2>1, <2>3, MovesLogged
  <2> QED BY <1>1, <2>2, <2>3 DEF OrdersKept
<1>6. History'
  BY <1>5 DEF History
<1> QED BY <1>3, <1>4, <1>6 DEF KitchenInv

\* What the theorems below rest on.
THEOREM KitchenSafe == Spec => []KitchenInv
<1> QED BY InitKeeps, StepKeeps, PTL DEF Spec

\* Every state is well formed: rows, histories and what is still to do.
THEOREM TypeSafe == Spec => []TypeOK
<1>1. KitchenInv => TypeOK
  BY DEF KitchenInv
<1> QED BY <1>1, KitchenSafe, PTL

\* Nothing is served that was not prepared, nor prepared that was not ordered,
\* whatever guest edits, cascades and taps come between.
THEOREM CountersSafe == Spec => []CountersInOrder
<1>1. KitchenInv => CountersInOrder
  BY DEF KitchenInv, LinesSound, Sound, CountersInOrder
<1> QED BY <1>1, KitchenSafe, PTL

\* No step ever takes back what a counter says was prepared or served.
THEOREM CountersOnlyClimb == Spec => CountersClimb
<1>1. KitchenInv /\ [Next]_vars =>
        [\A l \in Line : item[l].status # "ABSENT" =>
           item'[l].prepared >= item[l].prepared /\ item'[l].served >= item[l].served]_vars
  BY LinesStep DEF KitchenInv, LinesKept, Grown
<1> QED BY <1>1, KitchenSafe, PTL DEF Spec, CountersClimb

\* No clock of an order is written twice, however the requests interleave.
THEOREM EnteredOnceSafe == Spec => []EnteredOnce
<1>1. KitchenInv => EnteredOnce
  <2> SUFFICES ASSUME KitchenInv, NEW o \in Order,
                      NEW i \in DOMAIN order[o].log, NEW j \in DOMAIN order[o].log,
                      order[o].log[i] = order[o].log[j], order[o].log[i] # "CANCELLED"
               PROVE  i = j
    BY DEF EnteredOnce
  <2>1. i \in Int /\ j \in Int
    BY DEF KitchenInv, TypeOK
  <2>2. ~ (i < j) /\ ~ (j < i)
    BY RankIsNat DEF KitchenInv, History, Logged
  <2> QED BY <2>1, <2>2
<1> QED BY <1>1, KitchenSafe, PTL

\* An order is served only after it was ready, by hand, by its lines or at the
\* door.
THEOREM ReadyBeforeServedSafe == Spec => []ReadyBeforeServed
<1>1. KitchenInv => ReadyBeforeServed
  BY DEF KitchenInv, History, Logged, ReadyBeforeServed
<1> QED BY <1>1, KitchenSafe, PTL

\* A request that read the order before its cancellation cannot revive it.
THEOREM CancelledStaysSafe == Spec => CancelledStays
<1>1. KitchenInv /\ [Next]_vars =>
        [\A o \in Order : order[o].status = "CANCELLED" => order'[o].status = "CANCELLED"]_vars
  <2> SUFFICES ASSUME KitchenInv, [Next]_vars, NEW o \in Order, order[o].status = "CANCELLED"
               PROVE  order'[o].status = "CANCELLED"
    OBVIOUS
  <2>1. Stays(order[o], order'[o]) \/ Moves(order[o], order'[o])
    BY OrdersStep DEF KitchenInv, OrdersKept
  <2>2. Rank("CANCELLED") = 7
    BY DEF Rank
  <2> QED BY <2>1, <2>2, RankIsNat DEF Stays, Moves
<1> QED BY <1>1, KitchenSafe, PTL DEF Spec, CancelledStays

\* The history of an order has each status once, READY before SERVED, and ends
\* with its cancellation.
THEOREM HistorySoundSafe == Spec => HistorySound
BY EnteredOnceSafe, ReadyBeforeServedSafe, CancelledStaysSafe, PTL DEF HistorySound

------------------------------------------------------------------------------
(* The cashier's gate *)

\* What may become of the orders' statuses, and by whom.
LEMMA StatusWriters ==
  ASSUME KitchenInv, [Next]_vars, NEW o \in Order, order[o].status = "PENDING",
         order'[o].status # "PENDING"
  PROVE  \/ order'[o].status = "CANCELLED"
         \/ \E r \in Request :
              /\ At(r, "write") /\ req[r].order = o /\ req[r].seen = "PENDING"
              /\ order'[o].status = Head(req[r].chain)
<1>t. order \in [Order -> OrderRow]
  BY DEF KitchenInv, TypeOK, OrderRow
<1>g. \A u \in Order, s \in Status :
        /\ u = o => Given(u, s)[o].status = s
        /\ u # o => Given(u, s)[o] = order[o]
  BY <1>t DEF Given, OrderRow
<1>1. order' # order
  OBVIOUS
<1>2. ASSUME NEW u \in Order, Pay(u) \/ Deliver(u) PROVE FALSE
  <2>1. CASE Deliver(u)
    BY <1>g, <2>1 DEF Deliver, Status
  <2>2. CASE Pay(u)
    <3> DEFINE moved == IF order[u].status \in {"SERVED", "READY"}
                        THEN Given(u, "COMPLETED") ELSE order
    <3>1. moved \in [Order -> OrderRow] /\ moved[o].status = "PENDING"
      <4>1. CASE order[u].status \in {"SERVED", "READY"}
        <5>1. Given(u, "COMPLETED") \in [Order -> OrderRow]
          BY <1>t, <4>1, GivenMoves DEF Rank, Status
        <5> QED BY <1>g, <4>1, <5>1 DEF Status
      <4> QED BY <1>t, <4>1
    <3>2. order' = [moved EXCEPT ![u].paid = TRUE]
      BY <2>2 DEF Pay
    <3> HIDE DEF moved
    <3> QED BY <3>1, <3>2 DEF OrderRow
  <2> QED BY <1>2, <2>1, <2>2
<1> SUFFICES ASSUME NEW r \in Request, NextOf(r)
             PROVE  \/ order'[o].status = "CANCELLED"
                    \/ /\ At(r, "write") /\ req[r].order = o /\ req[r].seen = "PENDING"
                       /\ order'[o].status = Head(req[r].chain)
  BY <1>1, <1>2 DEF Next, vars, OpenSection
<1>3. CASE UpdateWrite(r)
  <2> DEFINE call == req[r]
             target == Head(call.chain)
  <2>1. call \in Walking /\ call.order \in Order /\ call.seen \in Status /\ At(r, "write")
    BY <1>3, Calls DEF UpdateWrite, At, Walking, KitchenInv
  <2>2. target \in Status
    BY <2>1, TableClimbs DEF KitchenInv, CallsSent, Sent, At
  <2>3. order[call.order].status = call.seen /\ order' = Given(call.order, target)
    BY <1>1, <1>3 DEF UpdateWrite, StillAsRead
  <2> HIDE DEF target
  <2>4. call.order = o
    BY <1>g, <2>1, <2>2, <2>3
  <2>5. order'[o].status = target
    BY <1>g, <2>2, <2>3, <2>4
  <2> QED BY <2>1, <2>3, <2>4, <2>5 DEF target
<1>4. CASE CancelWrite(r)
  <2>1. req[r].order \in Order
    BY <1>4, Calls DEF CancelWrite, At, AtOrder, KitchenInv
  <2> QED BY <1>g, <1>4, <2>1 DEF CancelWrite, Status
<1> QED
  BY <1>1, <1>3, <1>4
  DEF NextOf, Continue, Fail, UpdateRead, Derive, Tap, Accept, ServeWhole, CancelRead,
      RejectRead, StartRead, VoidRead, EditRead, StartWrite, VoidWrite, EditWrite,
      Progress, AddItem

\* Whoever else taps, cooks, edits or delivers meanwhile, a guest's order leaves
\* PENDING by the cashier's accept alone, or cancelled.
THEOREM GuestWaitsSafe == Spec => GuestWaits
<1>1. KitchenInv /\ [Next]_vars =>
        [\A o \in Guest :
           order[o].status = "PENDING" /\ order'[o].status # "PENDING"
             => \/ order'[o].status = "CANCELLED"
                \/ order'[o].status = "ACCEPTED" /\ \E r \in Request :
                     At(r, "write") /\ req[r].order = o /\ req[r].gate]_vars
  <2> SUFFICES ASSUME KitchenInv, [Next]_vars, NEW o \in Guest,
                      order[o].status = "PENDING", order'[o].status # "PENDING",
                      order'[o].status # "CANCELLED"
               PROVE  order'[o].status = "ACCEPTED" /\ \E r \in Request :
                        At(r, "write") /\ req[r].order = o /\ req[r].gate
    OBVIOUS
  <2>1. PICK r \in Request :
          /\ At(r, "write") /\ req[r].order = o /\ req[r].seen = "PENDING"
          /\ order'[o].status = Head(req[r].chain)
    BY StatusWriters
  <2>2. Sent(req[r]) /\ req[r].step = "write"
    BY <2>1 DEF KitchenInv, CallsSent, At
  <2>3. Head(req[r].chain) \in {"ACCEPTED", "PREPARING", "CANCELLED"}
    BY <2>1, <2>2 DEF Sent, ALLOWED_TRANSITIONS
  <2>4. req[r].gate
    BY <2>1, <2>2, <2>3 DEF Sent
  <2>5. Head(req[r].chain) = "ACCEPTED"
    BY <2>2, <2>4 DEF Sent
  <2> QED BY <2>1, <2>4, <2>5
<1> QED BY <1>1, KitchenSafe, PTL DEF Spec, GuestWaits

------------------------------------------------------------------------------
(* The kitchen keeps its hands off what the cashier has not accepted *)

\* Not on the order any more, or as it was written when it came.
Fresh(row) == row.status \in {"ABSENT", "CANCELLED"} \/ row = NewRow(row.quantity)

PendingFresh == \A l \in Line : order[LineOf[l]].status = "PENDING" => Fresh(item[l])
StartsCooking == \A r \in Request : Started(req[r])
GateInv == KitchenInv /\ PendingFresh /\ StartsCooking

\* What is PENDING after a step was PENDING before it.
LEMMA PendingWas ==
  ASSUME KitchenInv, [Next]_vars, NEW o \in Order, order'[o].status = "PENDING"
  PROVE  order[o].status = "PENDING"
<1>1. Stays(order[o], order'[o]) \/ Moves(order[o], order'[o])
  BY OrdersStep DEF KitchenInv, OrdersKept
<1>2. Rank("PENDING") = 1
  BY DEF Rank
<1> QED BY <1>1, <1>2, RankIsNat DEF Stays, Moves

LEMMA NewRowFresh == ASSUME NEW n PROVE Fresh(NewRow(n))
BY DEF Fresh, NewRow

LEMMA Resized ==
  ASSUME NEW row \in ItemRow, NEW q, row = NewRow(q), NEW n
  PROVE  [row EXCEPT !.quantity = n] = NewRow(n)
<1>1. /\ row.status = "QUEUED" /\ row.prepared = 0 /\ row.served = 0 /\ row.routed = FALSE
  BY DEF NewRow
<1>2. row = [status |-> row.status, quantity |-> row.quantity, prepared |-> row.prepared,
             served |-> row.served, routed |-> row.routed]
  BY DEF ItemRow
<1>3. [row EXCEPT !.quantity = n]
        = [status |-> row.status, quantity |-> n, prepared |-> row.prepared,
           served |-> row.served, routed |-> row.routed]
  BY <1>2
<1> QED BY <1>1, <1>3 DEF NewRow

LEMMA GateInit == Init => GateInv
<1> SUFFICES ASSUME Init PROVE GateInv
  OBVIOUS
<1>1. PICK n \in [Placed -> 1..MaxQuantity] :
         item = [l \in Line |->
           IF l \notin Placed THEN [NewRow(0) EXCEPT !.status = "ABSENT"]
           ELSE IF sections /\ LineOf[l] \notin Guest THEN RoutedRow(l, NewRow(n[l]))
           ELSE NewRow(n[l])]
  BY DEF Init
<1>2. \A o \in Order : order[o].status = "PENDING" => o \in Guest
  BY DEF Init
<1>3. Fresh([NewRow(0) EXCEPT !.status = "ABSENT"])
  BY DEF Fresh, NewRow
<1>4. PendingFresh
  BY <1>1, <1>2, <1>3, NewRowFresh DEF PendingFresh
<1>5. StartsCooking
  BY IdleSent DEF Init, StartsCooking
<1> QED BY <1>4, <1>5, InitKeeps DEF GateInv

\* A step that leaves an order PENDING leaves its lines fresh.
LEMMA FreshStep ==
  ASSUME GateInv, [Next]_vars, NEW l \in Line, order'[LineOf[l]].status = "PENDING"
  PROVE  Fresh(item'[l])
<1>1. /\ LineOf[l] \in Order /\ order[LineOf[l]].status = "PENDING" /\ Fresh(item[l])
      /\ item \in [Line -> ItemRow] /\ \A m \in Line : Sound(item[m])
      /\ order \in [Order -> OrderRow]
  BY PendingWas DEF GateInv, PendingFresh, KitchenInv, TypeOK, LinesSound, OrderRow
<1>0. CASE item' = item
  BY <1>0, <1>1
<1>a. CASE OpenSection
  BY <1>a, <1>0 DEF OpenSection
<1>b. ASSUME NEW o \in Order, Pay(o) \/ Deliver(o) PROVE Fresh(item'[l])
  BY <1>b, <1>0 DEF Pay, Deliver
<1> SUFFICES ASSUME NEW r \in Request, NextOf(r) PROVE Fresh(item'[l])
  BY <1>0, <1>a, <1>b DEF Next, vars
<1>2. CASE UpdateWrite(r)
  <2> DEFINE call == req[r]
             target == Head(call.chain)
             cascade == Cascade(call, target)
  <2>1. call \in Walking /\ call.order \in Order /\ call.seen \in Status /\ At(r, "write")
    BY <1>2, Calls DEF UpdateWrite, At, Walking, GateInv, KitchenInv
  <2>2. target \in Status /\ target # "PENDING"
    BY <2>1, TableClimbs DEF GateInv, KitchenInv, CallsSent, Sent, At
  <2>3. /\ order' = Given(call.order, target)
        /\ item' = cascade \/ item' = routeOrderItems(call.order, cascade)
        \/ item' = item
    BY <1>2 DEF UpdateWrite
  <2> HIDE DEF target
  <2>4. order' = Given(call.order, target) => LineOf[l] # call.order
    BY <1>1, <2>1, <2>2 DEF Given, OrderRow
  <2>5. /\ cascade \in [Line -> ItemRow] /\ \A m \in Line : Sound(cascade[m])
        /\ LineOf[l] # call.order => cascade[l] = item[l]
    BY <1>1, CascadeSound
  <2> HIDE DEF cascade
  <2>6. LineOf[l] # call.order => routeOrderItems(call.order, cascade)[l] = cascade[l]
    BY <2>5, RoutingSound
  <2> QED BY <1>1, <2>3, <2>4, <2>5, <2>6
<1>3. CASE StartWrite(r)
  <2>1. /\ LineOf[req[r].line] = req[r].order
        /\ order[req[r].order].status # "PENDING"
    BY <1>3 DEF StartWrite, At, GateInv, StartsCooking, Started
  <2> QED BY <1>1, <1>3, <2>1 DEF StartWrite
<1>4. ASSUME NEW m, NEW row, item' = [item EXCEPT ![m] = row],
             row.status = "CANCELLED" \/ \E n : row = NewRow(n)
      PROVE  Fresh(item'[l])
  BY <1>1, <1>4, NewRowFresh DEF Fresh
<1>5. CASE VoidWrite(r)
  <2> DEFINE m == req[r].line
             row == [item[m] EXCEPT !.status = "CANCELLED"]
  <2>1. m \in Line
    BY <1>5, Calls DEF VoidWrite, At, AtLine, GateInv, KitchenInv
  <2>2. row.status = "CANCELLED"
    BY <1>1, <2>1 DEF ItemRow
  <2>3. item' = [item EXCEPT ![m] = row]
    BY <1>5 DEF VoidWrite
  <2> HIDE DEF row
  <2> QED BY <1>4, <2>2, <2>3
<1>6. CASE EditWrite(r)
  <2> DEFINE call == req[r]
             m == call.line
  <2>1. call \in Editing /\ m \in Line
    BY <1>6, Calls DEF EditWrite, At, Editing, GateInv, KitchenInv
  <2>2. \/ item' = [item EXCEPT ![m].status = "CANCELLED"]
        \/ item' = [item EXCEPT ![m].quantity = call.wanted]
        \/ \E extra \in Line : item' = [item EXCEPT ![extra] = NewRow(Extra(call))]
    BY <1>6 DEF EditWrite, LinesOf
  <2>3. CASE item' = [item EXCEPT ![m].status = "CANCELLED"]
    <3> DEFINE row == [item[m] EXCEPT !.status = "CANCELLED"]
    <3>1. row.status = "CANCELLED"
      BY <1>1, <2>1 DEF ItemRow
    <3>2. item' = [item EXCEPT ![m] = row]
      BY <2>3
    <3> HIDE DEF row
    <3> QED BY <1>4, <3>1, <3>2
  <2>4. CASE item' = [item EXCEPT ![m].quantity = call.wanted]
    <3>1. m # l => item'[l] = item[l]
      BY <1>1, <2>4
    <3>2. m = l => item'[l] = [item[l] EXCEPT !.quantity = call.wanted]
      BY <1>1, <2>1, <2>4
    <3>3. Fresh([item[l] EXCEPT !.quantity = call.wanted])
      <4> DEFINE row == [item[l] EXCEPT !.quantity = call.wanted]
      <4>1. row.status = item[l].status /\ row.quantity = call.wanted
        BY <1>1 DEF ItemRow
      <4>2. \A q : item[l] = NewRow(q) => row = NewRow(call.wanted)
        BY <1>1, Resized
      <4> HIDE DEF row
      <4>3. Fresh(row)
        BY <1>1, <4>1, <4>2 DEF Fresh
      <4> QED BY <4>3 DEF row
    <3> QED BY <1>1, <3>1, <3>2, <3>3
  <2> QED BY <1>4, <2>2, <2>3, <2>4
<1>7. CASE CancelWrite(r)
  <2>1. item'[l] = item[l] \/ item'[l] = [item[l] EXCEPT !.status = "CANCELLED"]
    BY <1>7 DEF CancelWrite
  <2>2. Fresh([item[l] EXCEPT !.status = "CANCELLED"])
    BY <1>1 DEF Fresh, ItemRow
  <2> QED BY <1>1, <2>1, <2>2
<1>8. ASSUME NEW o \in Order, NEW updates \in Updates(o), Progress(r, o, updates)
      PROVE  Fresh(item'[l])
  <2>1. l \notin DOMAIN updates
    BY <1>1, <1>8 DEF Progress, Cooking, Live, LinesOf
  <2>2. item'[l] = item[l]
    BY <1>8, <2>1 DEF Progress
  <2> QED BY <1>1, <2>2
<1>9. ASSUME NEW m \in Line, NEW n \in 1..MaxQuantity, AddItem(r, m, n)
      PROVE  Fresh(item'[l])
  <2> DEFINE rows == [item EXCEPT ![m] = NewRow(n)]
             o == LineOf[m]
  <2>1. rows \in [Line -> ItemRow] /\ \A k \in Line : Sound(rows[k])
    BY <1>1, NewRowSound DEF Sound
  <2>2. Fresh(rows[l])
    BY <1>1, NewRowFresh
  <2>3. \/ item' = rows
        \/ item' = routeOrderItems(o, rows) /\ order[o].status # "PENDING"
    BY <1>9 DEF AddItem, JoinKitchen
  <2> HIDE DEF rows
  <2>4. o # LineOf[l] => routeOrderItems(o, rows)[l] = rows[l]
    BY <2>1, RoutingSound
  <2> QED BY <1>1, <2>2, <2>3, <2>4
<1> QED
  BY <1>0, <1>2, <1>3, <1>5, <1>6, <1>7, <1>8, <1>9
  DEF NextOf, Continue, Fail, UpdateRead, Derive, Tap, Accept, ServeWhole, CancelRead,
      RejectRead, StartRead, VoidRead, EditRead

LEMMA GateStep == GateInv /\ [Next]_vars => GateInv'
<1> SUFFICES ASSUME GateInv, [Next]_vars PROVE GateInv'
  OBVIOUS
<1>1. KitchenInv'
  BY StepKeeps DEF GateInv
<1>2. PendingFresh'
  BY FreshStep DEF PendingFresh
<1>3. ASSUME NEW r \in Request PROVE Started(req[r])'
  <2> SUFFICES ASSUME req'[r].step = "start"
               PROVE  /\ LineOf[req'[r].line] = req'[r].order
                      /\ order'[req'[r].order].status # "PENDING"
    BY DEF Started
  <2>1. Started(req'[r])
    BY CallsStep DEF GateInv, KitchenInv, CallsKept, StartsCooking
  <2>2. req'[r] \in AtLine
    BY <1>1 DEF KitchenInv, TypeOK, Walking, AtOrder, AtLine, Editing, Idle
  <2>3. req'[r].order \in Order
    BY <2>2 DEF AtLine
  <2> QED BY <2>1, <2>3, PendingWas DEF Started, GateInv
<1> QED BY <1>1, <1>2, <1>3 DEF GateInv, StartsCooking

\* No cook, section or cascade reaches a guest's order before the cashier does,
\* though lines are judged in one step and written in another.
THEOREM PendingUntouchedSafe == Spec => []PendingUntouched
<1>1. GateInv => PendingUntouched
  BY DEF GateInv, PendingFresh, Fresh, PendingUntouched, Live, LinesOf
<1> QED BY <1>1, GateInit, GateStep, PTL DEF Spec

\* A guest's order goes through the till before the kitchen touches it.
THEOREM TillFirstSafe == Spec => TillFirst
BY GuestWaitsSafe, PendingUntouchedSafe, PTL DEF TillFirst

------------------------------------------------------------------------------
(* All of an order is routed, or none of it *)

\* No guest's edit, whose line of its own no section receives, and no press that
\* starts a line which was voided meanwhile.
LinesStay == Ops \cap {"edit", "start"} = {}
NoneRevives == \A r \in Request : req[r].step \notin {"edit", "start"}

Alive(row) == row.status \notin {"ABSENT", "CANCELLED"}
Unrouted(rows, o) == \A l \in LinesOf(o) : ~ rows[l].routed
AllRouted(rows, o) == \A l \in LinesOf(o) : Alive(rows[l]) => rows[l].routed

\* Only a branch with sections routes, and it routes all of an order.
Even(open, rows, o) == Unrouted(rows, o) \/ (open /\ AllRouted(rows, o))

RoutedInv ==
  /\ KitchenInv /\ NoneRevives
  /\ \A o \in Order : Even(sections, item, o)
  /\ \A o \in Order : order[o].status = "PENDING" => Unrouted(item, o)

\* A row written over without being routed or brought back.
RowStays(old, new) == new.routed = old.routed /\ (Alive(new) => Alive(old))

LEMMA StaysEven ==
  ASSUME NEW open, NEW rows, NEW after, NEW o,
         \A l \in LinesOf(o) : RowStays(rows[l], after[l])
  PROVE  /\ Even(open, rows, o) => Even(open, after, o)
         /\ Unrouted(rows, o) => Unrouted(after, o)
BY DEF RowStays, Even, Unrouted, AllRouted

LEMMA CascadedStays ==
  ASSUME NEW target, NEW routed, NEW row \in ItemRow
  PROVE  RowStays(row, Cascaded(target, routed, row))
<1>1. \/ Cascaded(target, routed, row) = row
      \/ /\ row.status \notin {"ABSENT", "CANCELLED"}
         /\ \/ Cascaded(target, routed, row) = [row EXCEPT !.status = "PREPARING"]
            \/ Cascaded(target, routed, row)
                 = [row EXCEPT !.status = "READY", !.prepared = row.quantity]
            \/ Cascaded(target, routed, row)
                 = [row EXCEPT !.status = "SERVED", !.prepared = row.quantity,
                               !.served = row.quantity]
  BY DEF Cascaded
<1>2. Cascaded(target, routed, row).routed = row.routed
  BY <1>1 DEF ItemRow
<1> QED BY <1>1, <1>2 DEF RowStays, Alive

LEMMA CancelledStaysOff ==
  ASSUME NEW row \in ItemRow
  PROVE  RowStays(row, [row EXCEPT !.status = "CANCELLED"])
BY DEF RowStays, Alive, ItemRow

LEMMA CountedStays ==
  ASSUME NEW row \in ItemRow, Alive(row), NEW p, NEW s
  PROVE  RowStays(row, applyProgress(row, p, s))
<1> DEFINE counted == [row EXCEPT !.prepared = p, !.served = s]
           status == rowStatusFromCounters(counted)
<1>1. counted.routed = row.routed /\ DOMAIN counted = DOMAIN row /\ "status" \in DOMAIN counted
  BY DEF ItemRow
<1>2. applyProgress(row, p, s) = [counted EXCEPT !.status = status]
  BY DEF applyProgress
<1> HIDE DEF counted, status
<1>3. [counted EXCEPT !.status = status].routed = counted.routed
  OBVIOUS
<1> QED BY <1>1, <1>2, <1>3 DEF RowStays

\* Routing leaves no live line of the order behind, and no other order changed.
LEMMA RoutesAll ==
  ASSUME NEW o, NEW rows \in [Line -> ItemRow]
  PROVE  /\ sections => AllRouted(routeOrderItems(o, rows), o)
         /\ ~ sections => routeOrderItems(o, rows) = rows
         /\ \A l \in Line : LineOf[l] # o => routeOrderItems(o, rows)[l] = rows[l]
<1>1. \A l \in Line : Alive(RoutedRow(l, rows[l])) => RoutedRow(l, rows[l]).routed
  BY DEF RoutedRow, Alive, ItemRow
<1> QED BY <1>1 DEF routeOrderItems, AllRouted, LinesOf

LEMMA NoneRevivesStep == LinesStay /\ KitchenInv /\ NoneRevives /\ [Next]_vars => NoneRevives'
<1> SUFFICES ASSUME LinesStay, KitchenInv, NoneRevives, [Next]_vars PROVE NoneRevives'
  OBVIOUS
<1>t. req \in [Request -> Call \cup {Idle}]
  BY DEF KitchenInv, TypeOK, Call
<1>0. ASSUME req' = req PROVE NoneRevives'
  BY <1>0 DEF NoneRevives
<1>1. ASSUME NEW r \in Request, NEW call, req' = [req EXCEPT ![r] = call],
             call.step \notin {"edit", "start"}
      PROVE  NoneRevives'
  BY <1>t, <1>1 DEF NoneRevives
<1>2. \A o, chain, derived, gate :
        Walk(o, chain, derived, gate).step \notin {"edit", "start"}
  BY DEF Walk, Idle
<1>a. CASE OpenSection \/ UNCHANGED vars \/ \E o \in Order : Pay(o) \/ Deliver(o)
  BY <1>a, <1>0 DEF OpenSection, vars, Pay, Deliver
<1> SUFFICES ASSUME NEW r \in Request, NextOf(r) PROVE NoneRevives'
  BY <1>a DEF Next
<1>f. CASE Finish(r)
  BY <1>f, <1>1 DEF Finish, Idle
<1>w. ASSUME NEW o, NEW chain, NEW derived, NEW gate,
             req' = [req EXCEPT ![r] = Walk(o, chain, derived, gate)]
      PROVE  NoneRevives'
  BY <1>w, <1>1, <1>2
<1>d. ASSUME NEW o, req' = [req EXCEPT ![r] = [step |-> "derive", order |-> o]]
      PROVE  NoneRevives'
  BY <1>d, <1>1
<1>3. CASE UpdateRead(r)
  <2> DEFINE call == req[r]
             next == [call EXCEPT !.step = "write",
                                  !.seen = order[call.order].status]
  <2>1. call \in Walking
    BY <1>3, Calls DEF UpdateRead, At, KitchenInv
  <2>2. next.step = "write"
    BY <2>1 DEF Walking
  <2>3. \/ req' = [req EXCEPT ![r] = WalkOn(call)]
        \/ req' = [req EXCEPT ![r] = Idle]
        \/ req' = [req EXCEPT ![r] = next]
    BY <1>3 DEF UpdateRead
  <2> HIDE DEF next
  <2>4. CASE req' = [req EXCEPT ![r] = next]
    BY <1>1, <2>2, <2>4
  <2> QED BY <1>f, <1>w, <2>3, <2>4 DEF Finish, WalkOn
<1>4. CASE UpdateWrite(r)
  <2>1. \/ req' = [req EXCEPT ![r] = WalkOn(req[r])]
        \/ req' = [req EXCEPT ![r] = Idle]
        \/ req' = [req EXCEPT ![r] = Walk(req[r].order, <<"COMPLETED">>, FALSE, FALSE)]
    BY <1>4 DEF UpdateWrite
  <2> QED BY <1>f, <1>w, <2>1 DEF Finish, WalkOn
<1>5. CASE Derive(r)
  BY <1>5, <1>f, <1>w DEF Derive, Finish
<1>6. ASSUME NEW o \in Order, NEW s, Tap(r, o, s) PROVE NoneRevives'
  BY <1>6, <1>w DEF Tap
<1>7. ASSUME NEW o \in Order,
             Accept(r, o) \/ ServeWhole(r, o) \/ CancelRead(r, o) \/ RejectRead(r, o)
      PROVE  NoneRevives'
  <2>1. \A st \in {"cancel", "reject"} :
          [step |-> st, order |-> o].step \notin {"edit", "start"}
    OBVIOUS
  <2>2. CASE Accept(r, o) \/ ServeWhole(r, o)
    BY <2>2, <1>w DEF Accept, ServeWhole
  <2>3. CASE CancelRead(r, o) \/ RejectRead(r, o)
    BY <2>1, <2>3, <1>1 DEF CancelRead, RejectRead
  <2> QED BY <1>7, <2>2, <2>3
<1>8. ASSUME NEW o \in Order, NEW updates, Progress(r, o, updates) PROVE NoneRevives'
  BY <1>8, <1>d DEF Progress
<1>9. ASSUME NEW l \in Line, VoidRead(r, l) PROVE NoneRevives'
  BY <1>9, <1>1 DEF VoidRead
<1>10. ASSUME NEW l \in Line, NEW n, AddItem(r, l, n) PROVE NoneRevives'
  BY <1>10, <1>0 DEF AddItem
<1>11. ~ EditWrite(r) /\ ~ StartWrite(r)
  BY DEF EditWrite, StartWrite, At, NoneRevives
<1>12. \A l, n : ~ EditRead(r, l, n) /\ ~ StartRead(r, l)
  BY DEF EditRead, StartRead, LinesStay
<1> QED
  BY <1>f, <1>3, <1>4, <1>5, <1>6, <1>7, <1>8, <1>9, <1>10, <1>11, <1>12
  DEF NextOf, Continue, Fail, VoidWrite, CancelWrite

\* A step leaves an order routed as a whole, and a PENDING one not at all.
EvenAfter(o) ==
  /\ Even(sections', item', o)
  /\ order'[o].status = "PENDING" => Unrouted(item', o)

LEMMA EvenStep ==
  ASSUME RoutedInv, [Next]_vars, NEW o \in Order
  PROVE  EvenAfter(o)
<1>t. /\ item \in [Line -> ItemRow] /\ \A l \in Line : Sound(item[l])
      /\ order \in [Order -> OrderRow] /\ Even(sections, item, o) /\ TypeOK
      /\ order[o].status = "PENDING" => Unrouted(item, o)
      /\ order'[o].status = "PENDING" => order[o].status = "PENDING"
  BY PendingWas DEF RoutedInv, KitchenInv, TypeOK, LinesSound, OrderRow
<1>s. ASSUME sections' = sections, \A l \in LinesOf(o) : RowStays(item[l], item'[l])
      PROVE  EvenAfter(o)
  BY <1>t, <1>s, StaysEven DEF EvenAfter
<1>0. ASSUME item' = item, sections' = sections PROVE EvenAfter(o)
  BY <1>0, <1>s DEF RowStays
<1>a. CASE OpenSection
  BY <1>a, <1>t DEF OpenSection, EvenAfter, Even
<1>b. CASE UNCHANGED vars \/ \E u \in Order : Pay(u) \/ Deliver(u)
  BY <1>b, <1>0 DEF vars, Pay, Deliver
<1> SUFFICES ASSUME NEW r \in Request, NextOf(r) PROVE EvenAfter(o)
  BY <1>a, <1>b DEF Next
<1>1. ASSUME NEW u \in Order, NEW rows \in [Line -> ItemRow], sections' = sections,
             item' = routeOrderItems(u, rows),
             u = o => order'[o].status # "PENDING",
             u # o => \A l \in LinesOf(o) : RowStays(item[l], rows[l]),
             ~ sections => \A l \in LinesOf(o) :
                             ~ rows[l].routed \/ RowStays(item[l], rows[l])
      PROVE  EvenAfter(o)
  <2>1. CASE sections /\ u = o
    BY <1>1, <2>1, RoutesAll DEF EvenAfter, Even
  <2>2. CASE ~ (sections /\ u = o)
    <3>1. \A l \in LinesOf(o) : item'[l] = rows[l]
      BY <1>1, <2>2, RoutesAll DEF LinesOf
    <3>2. CASE Unrouted(item, o)
      <4>1. Unrouted(item', o)
        BY <1>1, <2>2, <3>1, <3>2 DEF Unrouted, RowStays
      <4> QED BY <1>t, <4>1 DEF EvenAfter, Even
    <3>3. CASE ~ Unrouted(item, o)
      <4>1. sections /\ u # o /\ AllRouted(item, o) /\ order'[o].status # "PENDING"
        BY <1>t, <2>2, <3>3 DEF Even
      <4> QED BY <1>1, <1>t, <3>1, <4>1 DEF EvenAfter, Even, AllRouted, RowStays
    <3> QED BY <3>2, <3>3
  <2> QED BY <2>1, <2>2
<1>2. CASE UpdateWrite(r)
  <2> DEFINE call == req[r]
             target == Head(call.chain)
             cascade == Cascade(call, target)
  <2>1. /\ call \in Walking /\ call.order \in Order /\ call.seen \in Status /\ At(r, "write")
        /\ sections' = sections
    BY <1>2, <1>t, Calls DEF UpdateWrite, At, Walking
  <2>2. target \in Status /\ target # "PENDING"
    BY <2>1, TableClimbs DEF RoutedInv, KitchenInv, CallsSent, Sent, At
  <2>3. \/ item' = item
        \/ /\ order' = Given(call.order, target)
           /\ item' = cascade \/ item' = routeOrderItems(call.order, cascade)
    BY <1>2 DEF UpdateWrite
  <2>4. cascade \in [Line -> ItemRow]
    BY <1>t, CascadeSound
  <2>5. \A l \in Line : RowStays(item[l], cascade[l])
    <3>1. \A l \in Line : RowStays(item[l], item[l])
      BY DEF RowStays
    <3>2. \A l \in Line : cascade[l] = item[l] \/ \E routed :
             cascade[l] = Cascaded(target, routed, item[l])
      BY DEF Cascade
    <3> HIDE DEF target, cascade
    <3> QED BY <1>t, <3>1, <3>2, CascadedStays
  <2> HIDE DEF target, cascade
  <2>6. CASE item' = cascade
    BY <1>s, <2>1, <2>5, <2>6 DEF LinesOf
  <2>7. CASE order' = Given(call.order, target) /\ item' = routeOrderItems(call.order, cascade)
    <3>1. call.order = o => order'[o].status # "PENDING"
      BY <1>t, <2>1, <2>2, <2>7 DEF Given, OrderRow
    <3> QED BY <1>1, <2>1, <2>4, <2>5, <2>7, <3>1 DEF LinesOf
  <2> QED BY <1>0, <2>1, <2>3, <2>6, <2>7
<1>3. CASE VoidWrite(r)
  <2> DEFINE m == req[r].line
             row == [item[m] EXCEPT !.status = "CANCELLED"]
  <2>1. m \in Line /\ sections' = sections /\ item' = [item EXCEPT ![m] = row]
    BY <1>3, <1>t, Calls DEF VoidWrite, At, AtLine
  <2>2. RowStays(item[m], row)
    BY <1>t, <2>1, CancelledStaysOff
  <2> HIDE DEF row
  <2> QED BY <1>s, <1>t, <2>1, <2>2 DEF RowStays, LinesOf
<1>4. CASE CancelWrite(r)
  <2>1. \A l \in Line : item'[l] = item[l] \/ item'[l] = [item[l] EXCEPT !.status = "CANCELLED"]
    BY <1>4 DEF CancelWrite
  <2>2. sections' = sections
    BY <1>4 DEF CancelWrite
  <2>3. ASSUME NEW l \in Line PROVE RowStays(item[l], item'[l])
    <3>1. RowStays(item[l], [item[l] EXCEPT !.status = "CANCELLED"])
      BY <1>t, CancelledStaysOff
    <3>2. RowStays(item[l], item[l])
      BY DEF RowStays
    <3> QED BY <2>1, <3>1, <3>2
  <2> QED BY <1>s, <2>2, <2>3 DEF LinesOf
<1>5. ASSUME NEW u \in Order, NEW updates \in Updates(u), Progress(r, u, updates)
      PROVE  EvenAfter(o)
  <2> DEFINE counted(l) == applyProgress(item[l], updates[l].prepared, updates[l].served)
  <2>1. /\ item' = [l \in Line |-> IF l \in DOMAIN updates THEN counted(l) ELSE item[l]]
        /\ sections' = sections /\ DOMAIN updates \subseteq Live(u)
    BY <1>5 DEF Progress
  <2>2. \A l \in Line : l \in DOMAIN updates => RowStays(item[l], counted(l))
    BY <1>t, <2>1, CountedStays DEF Live, LinesOf, Alive
  <2> HIDE DEF counted
  <2> QED BY <1>s, <2>1, <2>2 DEF RowStays, LinesOf
<1>6. ASSUME NEW m \in Line, NEW n \in 1..MaxQuantity, AddItem(r, m, n)
      PROVE  EvenAfter(o)
  <2> DEFINE rows == [item EXCEPT ![m] = NewRow(n)]
             u == LineOf[m]
  <2>1. NewRow(n) \in ItemRow /\ ~ NewRow(n).routed
    BY NewRowSound DEF Sound, NewRow
  <2>2. /\ rows \in [Line -> ItemRow] /\ sections' = sections /\ order' = order /\ u \in Order
        /\ \A l \in Line : ~ rows[l].routed \/ RowStays(item[l], rows[l])
    BY <1>6, <1>t, <2>1 DEF AddItem, RowStays
  <2>3. \/ item' = rows /\ order[u].status = "PENDING"
        \/ item' = routeOrderItems(u, rows) /\ order[u].status # "PENDING"
    BY <1>6 DEF AddItem, JoinKitchen
  <2>4. u # o => \A l \in LinesOf(o) : rows[l] = item[l]
    BY <1>t DEF LinesOf
  <2> HIDE DEF rows
  <2>5. CASE item' = routeOrderItems(u, rows) /\ order[u].status # "PENDING"
    BY <1>1, <2>2, <2>4, <2>5 DEF LinesOf, RowStays
  <2>6. CASE item' = rows /\ order[u].status = "PENDING" /\ u = o
    <3>1. Unrouted(item, o)
      BY <1>t, <2>6
    <3>2. Unrouted(item', o)
      BY <2>2, <2>6, <3>1 DEF Unrouted, RowStays, LinesOf
    <3> QED BY <3>2 DEF EvenAfter, Even
  <2>7. CASE item' = rows /\ u # o
    BY <1>s, <2>2, <2>4, <2>7 DEF RowStays
  <2> QED BY <2>3, <2>5, <2>6, <2>7
<1>7. ~ EditWrite(r) /\ ~ StartWrite(r)
  BY DEF EditWrite, StartWrite, At, RoutedInv, NoneRevives
<1> QED
  BY <1>0, <1>2, <1>3, <1>4, <1>5, <1>6, <1>7
  DEF NextOf, Continue, Fail, UpdateRead, Derive, Tap, Accept, ServeWhole, CancelRead,
      RejectRead, StartRead, VoidRead, EditRead

LEMMA RoutedInit == Init => RoutedInv
<1> SUFFICES ASSUME Init PROVE RoutedInv
  OBVIOUS
<1>1. PICK n \in [Placed -> 1..MaxQuantity] :
         item = [l \in Line |->
           IF l \notin Placed THEN [NewRow(0) EXCEPT !.status = "ABSENT"]
           ELSE IF sections /\ LineOf[l] \notin Guest THEN RoutedRow(l, NewRow(n[l]))
           ELSE NewRow(n[l])]
  BY DEF Init
<1>2. /\ [NewRow(0) EXCEPT !.status = "ABSENT"].status = "ABSENT"
      /\ ~ [NewRow(0) EXCEPT !.status = "ABSENT"].routed
  BY DEF NewRow
<1>3. \A q : ~ NewRow(q).routed /\ \A l \in Line : RoutedRow(l, NewRow(q)).routed
  BY DEF NewRow, RoutedRow
<1>4. \A o \in Order : order[o].status = "PENDING" <=> o \in Guest
  BY DEF Init
<1>5. ASSUME NEW o \in Order, o \in Guest \/ ~ sections PROVE Unrouted(item, o)
  BY <1>1, <1>2, <1>3, <1>5 DEF Unrouted, LinesOf
<1>6. ASSUME NEW o \in Order, sections, o \notin Guest PROVE AllRouted(item, o)
  BY <1>1, <1>2, <1>3, <1>6 DEF AllRouted, Alive, LinesOf
<1>7. NoneRevives
  BY DEF Init, NoneRevives, Idle
<1> QED BY <1>4, <1>5, <1>6, <1>7, InitKeeps DEF RoutedInv, Even

\* Wherever the kitchen has a line of an order, it has them all, as long as no
\* guest's edit adds a line and no cook starts one that is being voided: boards,
\* tills, additions, voids and a section opened in the middle come as they like.
THEOREM RoutedAsAWhole == ASSUME LinesStay PROVE Spec => []NeverHalfRouted
<1>1. RoutedInv /\ [Next]_vars => RoutedInv'
  BY StepKeeps, NoneRevivesStep, EvenStep DEF RoutedInv, EvenAfter
<1>2. RoutedInv => NeverHalfRouted
  BY DEF RoutedInv, Even, Unrouted, AllRouted, Alive, NeverHalfRouted, orderIsRouted, Live,
         LinesOf
<1> QED BY <1>1, <1>2, RoutedInit, PTL DEF Spec
==============================================================================
