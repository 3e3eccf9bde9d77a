------------------------------- MODULE Kitchen -------------------------------
(***************************************************************************)
(* An order's status and the progress of its lines: who may move which,    *)
(* how the order catches up with its lines, and how the lines are sent to  *)
(* kitchen sections.                                                       *)
(*                                                                         *)
(* The order's status moves in updateOrderStatus alone (payments, delivery *)
(* and cancellation aside), which reads it first and judges it again under *)
(* the row's lock: a read and a write, so two actions.  A request that     *)
(* walks the order up several rungs calls it once for each, and carries    *)
(* the rungs still to climb in "chain".                                    *)
(***************************************************************************)
EXTENDS Integers, Sequences, FiniteSets

CONSTANTS
  Order, Line, Request,
  LineOf,        \* LineOf[l]: the order a line belongs to
  Placed,        \* the lines that were on the orders when they were placed
  Guest,         \* orders from the QR menu or the website
  Delivery,      \* delivery orders, closed at the door with a PIN
  OffShelf,      \* lines whose dish needs no kitchen (noKitchenRequired)
  MaxQuantity,   \* bound on a line's quantity
  Ops            \* the handlers this instance exercises

ASSUME LineAssumption ==
  /\ LineOf \in [Line -> Order] /\ Placed \subseteq Line /\ OffShelf \subseteq Line
  /\ Guest \subseteq Order /\ Delivery \subseteq Order
ASSUME BoundAssumption == MaxQuantity \in Nat \ {0}

VARIABLES
  order,      \* orders: status, whether it is paid, and the statuses it was given
  item,       \* order_items: status, counters and whether it was routed
  sections,   \* the branch has active kitchen sections
  req         \* what each invocation has still to do

vars == <<order, item, sections, req>>

Status == {"PENDING", "ACCEPTED", "PREPARING", "READY", "SERVED",
           "COMPLETED", "CANCELLED"}
ItemStatus == {"QUEUED", "PREPARING", "READY", "SERVED", "CANCELLED"}

ItemRow == [status: ItemStatus \cup {"ABSENT"}, quantity: 0..MaxQuantity,
            prepared: 0..MaxQuantity, served: 0..MaxQuantity, routed: BOOLEAN]

\* What a request has still to do: rungs to climb, each to be read and then
\* written; a status to derive; an order to cancel; a line to write, as judged.
Walking == [step: {"read", "write"}, order: Order, chain: Seq(Status),
            derived: BOOLEAN, gate: BOOLEAN, seen: Status]
AtOrder == [step: {"derive", "cancel", "reject"}, order: Order]
AtLine  == [step: {"start", "void"}, order: Order, line: Line]
Editing == [step: {"edit"}, order: Order, line: Line, seen: ItemRow,
            wanted: 0..MaxQuantity]
Idle == [step |-> "idle"]
At(r, step) == req[r].step = step
Finish(r) == req' = [req EXCEPT ![r] = Idle]

LinesOf(o) == {l \in Line : LineOf[l] = o}
Live(o) == {l \in LinesOf(o) : item[l].status \notin {"ABSENT", "CANCELLED"}}

------------------------------------------------------------------------------
(* Item progress (features/orders/progress.ts) *)

\* A line's status is a readout of its counters.
rowStatusFromCounters(row) ==
  CASE row.status = "CANCELLED" -> "CANCELLED"
    [] row.status # "CANCELLED" /\ row.served >= row.quantity -> "SERVED"
    [] row.status # "CANCELLED" /\ row.served < row.quantity
         /\ row.prepared >= row.quantity -> "READY"
    [] row.status # "CANCELLED" /\ row.prepared < row.quantity
         /\ row.prepared > 0 -> "PREPARING"
    [] OTHER -> row.status

\* Backwards, over the quantity, or served before prepared: refused.
AppliesBackwards(row, p, s) == s <= p /\ p <= row.quantity         \* mutant
Applies(row, p, s) ==
  /\ p >= row.prepared /\ s >= row.served
  /\ p <= row.quantity /\ s <= row.quantity
  /\ s <= p

applyProgress(row, p, s) ==
  LET counted == [row EXCEPT !.prepared = p, !.served = s]
  IN  [counted EXCEPT !.status = rowStatusFromCounters(counted)]

------------------------------------------------------------------------------
(* Routing to kitchen sections (features/kitchen/routing.ts) *)

orderIsRouted(o) == \E l \in LinesOf(o) : item[l].routed

\* Every line not yet routed is, whatever else is on the order; one that needs
\* no kitchen is ready at once.
RoutedRow(l, row) ==
  IF row.routed \/ row.status \in {"ABSENT", "CANCELLED"} THEN row
  ELSE [row EXCEPT !.routed = TRUE,
          !.status = IF l \in OffShelf /\ @ = "QUEUED" THEN "READY" ELSE @]
routeOrderItems(o, rows) ==
  IF ~ sections THEN rows
  ELSE [l \in Line |-> IF LineOf[l] = o THEN RoutedRow(l, rows[l]) ELSE rows[l]]

\* The owner makes the branch's first section.
OpenSection ==
  /\ "section" \in Ops /\ ~ sections
  /\ sections' = TRUE
  /\ UNCHANGED <<order, item, req>>

------------------------------------------------------------------------------
(* updateOrderStatus (features/orders/service.ts) *)

ALLOWED_TRANSITIONS ==
  [PENDING   |-> {"ACCEPTED", "PREPARING", "CANCELLED"},
   ACCEPTED  |-> {"PREPARING", "READY", "CANCELLED"},
   PREPARING |-> {"READY", "CANCELLED"},
   READY     |-> {"SERVED", "COMPLETED", "CANCELLED"},
   SERVED    |-> {"COMPLETED", "CANCELLED"},
   COMPLETED |-> {},
   CANCELLED |-> {}]

\* A request that has these rungs still to climb.
Walk(o, chain, derived, gate) ==
  IF chain = <<>> THEN Idle
  ELSE [step |-> "read", order |-> o, chain |-> chain, derived |-> derived,
        gate |-> gate, seen |-> "PENDING"]
WalkOn(call) == Walk(call.order, Tail(call.chain), call.derived, call.gate)

\* A guest order waits for the cashier.
Ungated(call) == TRUE                                    \* mutant
Gated(call) ==
  \/ call.gate \/ call.order \notin Guest
  \/ order[call.order].status # "PENDING"
  \/ Head(call.chain) \notin {"ACCEPTED", "PREPARING"}

\* The read, outside any transaction.  What is refused is thrown, and with it
\* the rungs that were to follow.
UpdateRead(r) ==
  LET call    == req[r]
      current == order[call.order].status
  IN
  /\ At(r, "read")
  /\ req' = [req EXCEPT ![r] =
       IF current = Head(call.chain) THEN WalkOn(call)
       ELSE IF Gated(call) /\ Head(call.chain) \in ALLOWED_TRANSITIONS[current]
       THEN [call EXCEPT !.step = "write", !.seen = current]
       ELSE Idle]
  /\ UNCHANGED <<order, item, sections>>

\* What a move by hand writes onto the lines.
Cascaded(target, routed, row) ==
  CASE target = "PREPARING" /\ ~ routed /\ row.status = "QUEUED"
         -> [row EXCEPT !.status = "PREPARING"]
    [] target = "READY" /\ ~ routed /\ row.status \in {"QUEUED", "PREPARING"}
         -> [row EXCEPT !.status = "READY", !.prepared = row.quantity]
    [] target = "SERVED" /\ row.status \notin {"ABSENT", "CANCELLED"}
         -> [row EXCEPT !.status = "SERVED", !.prepared = row.quantity,
                        !.served = row.quantity]
    [] OTHER -> row

Cascade(call, target) ==
  [l \in Line |->
     IF LineOf[l] = call.order /\ ~ call.derived
     THEN Cascaded(target, orderIsRouted(call.order), item[l]) ELSE item[l]]

\* The order, given a status.
Given(o, s) == [order EXCEPT ![o].status = s, ![o].log = Append(@, s)]

\* mutant: judged again, but a cancellation is overlooked
AsReadOrCancelled(call) == order[call.order].status \in {call.seen, "CANCELLED"}
StillAsRead(call) == order[call.order].status = call.seen

UpdateWrite(r) ==
  LET call   == req[r]
      o      == call.order
      target == Head(call.chain)
  IN
  /\ At(r, "write")
  /\ IF StillAsRead(call)
     THEN /\ order' = Given(o, target)
          /\ item' = IF target \in {"ACCEPTED", "PREPARING"}     \* commitToKitchen
                     THEN routeOrderItems(o, Cascade(call, target))
                     ELSE Cascade(call, target)
          /\ req' = [req EXCEPT ![r] =
               IF target = "SERVED" /\ order[o].paid    \* served and paid: closed
               THEN Walk(o, <<"COMPLETED">>, FALSE, FALSE) ELSE WalkOn(call)]
     ELSE /\ req' = [req EXCEPT ![r] =                  \* moved there by another,
               IF order[o].status = target THEN WalkOn(call) ELSE Idle]  \* or a race
          /\ UNCHANGED <<order, item>>
  /\ UNCHANGED sections

\* The order board's button.
Tap(r, o, s) ==
  /\ "tap" \in Ops /\ req[r] = Idle /\ order[o].status # s
  /\ req' = [req EXCEPT ![r] = Walk(o, <<s>>, FALSE, FALSE)]
  /\ UNCHANGED <<order, item, sections>>

\* acceptGuestOrder, the till's yes.
Accept(r, o) ==
  /\ "accept" \in Ops /\ req[r] = Idle
  /\ o \in Guest /\ order[o].status = "PENDING"
  /\ req' = [req EXCEPT ![r] = Walk(o, <<"ACCEPTED">>, FALSE, TRUE)]
  /\ UNCHANGED <<order, item, sections>>

LADDER == <<"PENDING", "ACCEPTED", "PREPARING", "READY", "SERVED">>
Rung(s) == CHOOSE i \in 1..5 : LADDER[i] = s
OnLadder(s) == s \notin {"COMPLETED", "CANCELLED"}

\* serveWholeOrder: every rung up to served, by hand.
ServeWhole(r, o) ==
  LET s == order[o].status IN
  /\ "serve" \in Ops /\ req[r] = Idle
  /\ s \in {"ACCEPTED", "PREPARING", "READY"}
  /\ req' = [req EXCEPT ![r] =
               Walk(o, SubSeq(LADDER, Rung(s) + 1, 5), FALSE, FALSE)]
  /\ UNCHANGED <<order, item, sections>>

------------------------------------------------------------------------------
(* The order follows its lines (deriveOrderStatus) *)

\* The status the lines say, "NONE" when they say nothing.
Readout(o) ==
  LET all(S) == \A l \in Live(o) : item[l].status \in S
  IN  CASE all({"SERVED"}) -> "SERVED"
        [] ~ all({"SERVED"}) /\ all({"READY", "SERVED"}) -> "READY"
        [] ~ all({"READY", "SERVED"})
             /\ \E l \in Live(o) : item[l].status = "PREPARING" -> "PREPARING"
        [] OTHER -> "NONE"

\* The rungs between, each one applied; never down.
JustTheTarget(s, target) == <<target>>                              \* mutant
RungsTo(s, target) ==
  IF s = "PENDING" \/ ~ OnLadder(s) \/ target = "NONE" THEN <<>>
  ELSE SubSeq(LADDER, Rung(s) + 1, Rung(target))

Derive(r) ==
  LET o == req[r].order IN
  /\ At(r, "derive")
  /\ req' = [req EXCEPT ![r] =
       IF Live(o) = {} THEN Idle
       ELSE Walk(o, RungsTo(order[o].status, Readout(o)), TRUE, FALSE)]
  /\ UNCHANGED <<order, item, sections>>

------------------------------------------------------------------------------
(* Lines move (progressItems, startItem) *)

Cooking(o) == order[o].status \notin {"PENDING", "CANCELLED", "COMPLETED"}

\* progressItems, under the order's lock: every update of the call or none.
Progress(r, o, updates) ==
  LET lines == DOMAIN updates
      after == [l \in Line |->
                  IF l \in lines
                  THEN applyProgress(item[l], updates[l].prepared, updates[l].served)
                  ELSE item[l]]
  IN
  /\ "progress" \in Ops /\ req[r] = Idle /\ Cooking(o)
  /\ lines \subseteq Live(o)
  /\ \A l \in lines : Applies(item[l], updates[l].prepared, updates[l].served)
  /\ after # item
  /\ item' = after
  /\ req' = [req EXCEPT ![r] = [step |-> "derive", order |-> o]]
  /\ UNCHANGED <<order, sections>>

\* startItem: the line is read, judged, and written, with no lock between.
StartRead(r, l) ==
  /\ "start" \in Ops /\ req[r] = Idle
  /\ Cooking(LineOf[l]) /\ item[l].status = "QUEUED"
  /\ req' = [req EXCEPT ![r] = [step |-> "start", order |-> LineOf[l], line |-> l]]
  /\ UNCHANGED <<order, item, sections>>

StartWrite(r) ==
  /\ At(r, "start")
  /\ item' = [item EXCEPT ![req[r].line].status = "PREPARING"]
  /\ req' = [req EXCEPT ![r] = [step |-> "derive", order |-> req[r].order]]
  /\ UNCHANGED <<order, sections>>

------------------------------------------------------------------------------
(* Lines come and go *)

NewRow(n) == [status |-> "QUEUED", quantity |-> n, prepared |-> 0, served |-> 0,
              routed |-> FALSE]
Changeable(o) ==
  order[o].status \notin {"SERVED", "COMPLETED", "CANCELLED"} /\ ~ order[o].paid

\* addOrderItems: judged under the lock, and routed if the kitchen has it.
JoinUnrouted(o, rows) == rows                                       \* mutant
JoinKitchen(o, rows) ==
  IF order[o].status = "PENDING" THEN rows ELSE routeOrderItems(o, rows)

AddItem(r, l, n) ==
  LET o == LineOf[l] IN
  /\ "add" \in Ops /\ req[r] = Idle
  /\ item[l].status = "ABSENT" /\ Changeable(o)
  /\ item' = JoinKitchen(o, [item EXCEPT ![l] = NewRow(n)])
  /\ UNCHANGED <<order, sections, req>>

\* updateGuestOrderItems, one line of it changed: what is already with the
\* kitchen may not shrink, and something stays on the order.
EditRead(r, l, wanted) ==
  LET o == LineOf[l] IN
  /\ "edit" \in Ops /\ req[r] = Idle /\ o \in Guest
  /\ Changeable(o) /\ l \in Live(o)
  /\ wanted # item[l].quantity
  /\ wanted < item[l].quantity => item[l].status = "QUEUED"
  /\ wanted > 0 \/ Live(o) # {l}
  /\ req' = [req EXCEPT ![r] = [step |-> "edit", order |-> o, line |-> l,
                                seen |-> item[l], wanted |-> wanted]]
  /\ UNCHANGED <<order, item, sections>>

\* Written as it was judged.  More of a dish past QUEUED is a line of its own;
\* the table's own check (order_items_progress_check) refuses a quantity below
\* what is prepared.
Extra(call) == call.wanted - call.seen.quantity
Unchecked(l, n) == n >= 0                            \* mutant: no such check
ProgressCheck(l, n) == item[l].prepared <= n

EditWrite(r) ==
  LET call  == req[r]
      l     == call.line
      grown == call.seen.status # "QUEUED" /\ call.wanted > call.seen.quantity
  IN
  /\ At(r, "edit")
  /\ \/ /\ call.wanted = 0
        /\ item' = [item EXCEPT ![l].status = "CANCELLED"]
     \/ /\ call.wanted > 0 /\ ~ grown
        /\ ProgressCheck(l, call.wanted)
        /\ item' = [item EXCEPT ![l].quantity = call.wanted]
     \/ /\ grown
        /\ \E extra \in LinesOf(call.order) :
             /\ item[extra].status = "ABSENT"
             /\ extra \in OffShelf <=> l \in OffShelf
             /\ item' = [item EXCEPT ![extra] = NewRow(Extra(call))]
  /\ Finish(r)
  /\ UNCHANGED <<order, sections>>

\* voidOrderItem
VoidRead(r, l) ==
  LET o == LineOf[l] IN
  /\ "void" \in Ops /\ req[r] = Idle
  /\ order[o].status # "CANCELLED" /\ ~ order[o].paid
  /\ l \in Live(o) /\ Live(o) # {l}
  /\ req' = [req EXCEPT ![r] = [step |-> "void", order |-> o, line |-> l]]
  /\ UNCHANGED <<order, item, sections>>

VoidWrite(r) ==
  /\ At(r, "void")
  /\ item' = [item EXCEPT ![req[r].line].status = "CANCELLED"]
  /\ Finish(r)
  /\ UNCHANGED <<order, sections>>

\* cancelOrder, and rejectGuestOrder which calls it while the order is PENDING.
CancelRead(r, o) ==
  /\ "cancel" \in Ops /\ req[r] = Idle
  /\ order[o].status # "CANCELLED" /\ ~ order[o].paid
  /\ req' = [req EXCEPT ![r] = [step |-> "cancel", order |-> o]]
  /\ UNCHANGED <<order, item, sections>>

RejectRead(r, o) ==
  /\ "reject" \in Ops /\ req[r] = Idle
  /\ o \in Guest /\ order[o].status = "PENDING" /\ ~ order[o].paid
  /\ req' = [req EXCEPT ![r] = [step |-> "reject", order |-> o]]
  /\ UNCHANGED <<order, item, sections>>

CancelWrite(r) ==
  LET o == req[r].order IN
  /\ At(r, "cancel") \/ At(r, "reject")
  /\ order' = Given(o, "CANCELLED")
  /\ item' = [l \in Line |->
       IF LineOf[l] = o /\ item[l].status # "ABSENT"
       THEN [item[l] EXCEPT !.status = "CANCELLED"] ELSE item[l]]
  /\ Finish(r)
  /\ UNCHANGED sections

------------------------------------------------------------------------------
(* Payment and delivery *)

\* capturePayment of the whole bill.
Pay(o) ==
  /\ "pay" \in Ops /\ order[o].status # "CANCELLED" /\ ~ order[o].paid
  /\ order' = [(IF order[o].status \in {"SERVED", "READY"}
                THEN Given(o, "COMPLETED") ELSE order) EXCEPT ![o].paid = TRUE]
  /\ UNCHANGED <<item, sections, req>>

\* completeDeliveryWithPin, the PIN being right.
Deliver(o) ==
  /\ "deliver" \in Ops /\ o \in Delivery /\ order[o].status = "READY"
  /\ order' = Given(o, "SERVED")
  /\ UNCHANGED <<item, sections, req>>

------------------------------------------------------------------------------

\* The invocation dies, or its transaction is rolled back.
Fail(r) ==
  /\ "fail" \in Ops /\ req[r] # Idle
  /\ Finish(r)
  /\ UNCHANGED <<order, item, sections>>

\* Staff orders are accepted, and routed, by being typed in (placeOrder).
Init ==
  /\ sections \in BOOLEAN
  /\ order = [o \in Order |->
       IF o \in Guest THEN [status |-> "PENDING", paid |-> FALSE, log |-> <<>>]
       ELSE [status |-> "ACCEPTED", paid |-> FALSE, log |-> <<"ACCEPTED">>]]
  /\ \E n \in [Placed -> 1..MaxQuantity] :
       item = [l \in Line |->
         IF l \notin Placed THEN [NewRow(0) EXCEPT !.status = "ABSENT"]
         ELSE IF sections /\ LineOf[l] \notin Guest THEN RoutedRow(l, NewRow(n[l]))
         ELSE NewRow(n[l])]
  /\ req = [r \in Request |-> Idle]

Updates(o) ==
  UNION {[S -> [prepared: 0..MaxQuantity, served: 0..MaxQuantity]] :
           S \in SUBSET Live(o) \ {{}}}

Continue(r) ==
  \/ UpdateRead(r) \/ UpdateWrite(r) \/ Derive(r) \/ StartWrite(r)
  \/ EditWrite(r) \/ VoidWrite(r) \/ CancelWrite(r)

NextOf(r) ==
  \/ Continue(r) \/ Fail(r)
  \/ \E o \in Order, s \in {"ACCEPTED", "PREPARING", "READY", "SERVED", "COMPLETED"} :
       Tap(r, o, s)
  \/ \E o \in Order : \/ Accept(r, o) \/ ServeWhole(r, o) \/ CancelRead(r, o)
                      \/ RejectRead(r, o)
  \/ \E o \in Order : \E updates \in Updates(o) : Progress(r, o, updates)
  \/ \E l \in Line : StartRead(r, l) \/ VoidRead(r, l)
  \/ \E l \in Line, n \in 1..MaxQuantity : AddItem(r, l, n)
  \/ \E l \in Line, n \in 0..MaxQuantity : EditRead(r, l, n)

Next ==
  \/ OpenSection
  \/ \E o \in Order : Pay(o) \/ Deliver(o)
  \/ \E r \in Request : NextOf(r)

Spec == Init /\ [][Next]_vars

\* An invocation that is not killed runs to its end.
FairSpec == Spec /\ \A r \in Request : WF_vars(Continue(r))

------------------------------------------------------------------------------
(* What must hold *)

TypeOK ==
  /\ order \in [Order -> [status: Status, paid: BOOLEAN, log: Seq(Status)]]
  /\ item \in [Line -> ItemRow]
  /\ sections \in BOOLEAN
  /\ req \in [Request -> Walking \cup AtOrder \cup AtLine \cup Editing \cup {Idle}]

\* Nothing is served that was not prepared, nor prepared that was not ordered,
\* whatever edits and cascades come between (order_items_progress_check).
CountersInOrder ==
  \A l \in Line : item[l].served <= item[l].prepared
                    /\ item[l].prepared <= item[l].quantity

\* Counters only ever go up (applyProgress, the cascades).
CountersClimb ==
  [][\A l \in Line : item[l].status # "ABSENT" =>
       item'[l].prepared >= item[l].prepared /\ item'[l].served >= item[l].served]_vars

\* An order is given each status once, so no clock is ever rewritten and no
\* ticket announced twice (updateOrderStatus judges again under the lock).
EnteredOnce ==
  \A o \in Order : \A i, j \in DOMAIN order[o].log :
    order[o].log[i] = order[o].log[j] /\ order[o].log[i] # "CANCELLED" => i = j

\* Nothing is served that was not ready first: every cook time is measured
\* from that clock (the ladder of deriveOrderStatus and serveWholeOrder).
ReadyBeforeServed ==
  \A o \in Order : \A i \in DOMAIN order[o].log :
    order[o].log[i] = "SERVED" => \E j \in 1..i : order[o].log[j] = "READY"

\* A guest order leaves the till only by the cashier's accept, or cancelled.
GuestWaits ==
  [][\A o \in Guest :
       order[o].status = "PENDING" /\ order'[o].status # "PENDING"
         => \/ order'[o].status = "CANCELLED"
            \/ order'[o].status = "ACCEPTED" /\ \E r \in Request :
                 At(r, "write") /\ req[r].order = o /\ req[r].gate]_vars

\* Until then the kitchen has touched nothing of it.
PendingUntouched ==
  \A o \in Order : order[o].status = "PENDING" =>
    \A l \in Live(o) : item[l] = NewRow(item[l].quantity)

\* Together: a guest's order goes through the till before anybody cooks it, though
\* a cook's press judges the order in one step and writes its lines in another
\* (updateOrderStatus, progressItems, startItem).
TillFirst == GuestWaits /\ []PendingUntouched

\* A cancelled order never comes back (the re-check under the lock).
CancelledStays ==
  [][\A o \in Order : order[o].status = "CANCELLED"
                        => order'[o].status = "CANCELLED"]_vars

\* Together: the history the cook times and the reports are read from
\* (STATUS_TIMESTAMP) is one order's, whoever moved it and however many at once.
HistorySound == []EnteredOnce /\ []ReadyBeforeServed /\ CancelledStays

\* No order is half-routed: a line that no section was given would wait on no
\* screen (routeOrderItems, all of it or none of it).
NeverHalfRouted ==
  \A o \in Order : orderIsRouted(o) /\ order[o].status # "PENDING"
                     => \A l \in Live(o) : item[l].routed

AllServed(o) == Live(o) # {} /\ \A l \in Live(o) : item[l].status = "SERVED"

\* When the last plate is out, the order ends up served (deriveOrderStatus).
EventuallyServed ==
  \A o \in Order : AllServed(o) ~> order[o].status \in {"SERVED", "COMPLETED", "CANCELLED"}

------------------------------------------------------------------------------
(* What the code's own comments say of it, and it breaks *)

\* "a READY line dragged back to PREPARING would tell a guest their food had
\* un-cooked itself": a line's status moves forward only.
Forward(s, t) ==
  LET rank == [QUEUED |-> 1, PREPARING |-> 2, READY |-> 3, SERVED |-> 4, CANCELLED |-> 5]
  IN  rank[s] <= rank[t]
LinesMoveForward ==
  [][\A l \in Line : item[l].status # "ABSENT" =>
       Forward(item[l].status, item'[l].status)]_vars

\* "every item read SERVED while the order sat at PREPARING for ever": once
\* nothing is under way, an order whose lines are all out is out.
CaughtUp ==
  (\A r \in Request : req[r] = Idle) =>
    \A o \in Order : AllServed(o) =>
      order[o].status \in {"SERVED", "COMPLETED", "CANCELLED"}
==============================================================================
