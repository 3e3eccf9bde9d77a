------------------------------- MODULE Billing -------------------------------
(***************************************************************************)
(* The money on a bill: what is on it, what was taken, what went back, and *)
(* the loyalty points that move with it.                                   *)
(*                                                                         *)
(* Every handler runs in a serverless invocation (a Request).  A handler   *)
(* that locks the order row first (SELECT ... FOR UPDATE) and then reads   *)
(* is ONE action: nothing that takes the same lock can come between.  A    *)
(* handler that reads the order before its transaction and writes later is *)
(* TWO actions, Load and Commit, and carries the row it read in "seen":    *)
(* what it decides rests on that copy, however old it has become.          *)
(***************************************************************************)
EXTENDS Integers, FiniteSets, Functions

CONSTANTS
  Order, Line, Customer, Payment, Key, Request,
  None,           \* no customer, no client request id
  LineOf,         \* LineOf[l]: the order a line belongs to
  Placed,         \* the lines that were on the orders when they were placed
  Net,            \* Net[live][cut]: subtotal of the live lines less the
                  \* item discounts of those that are cut (computeTotals)
  Opening,        \* Opening[c]: a customer's points at the start
  EarnRate,       \* points per unit of a settled bill (pointsEarned)
  MaxAmount,      \* bound on one payment or refund
  MaxTip,         \* bound on one tip
  MaxPoints,      \* bound on the points asked for in one redemption
  MaxSpent,       \* bound on the points redeemed on one bill over its life
  MaxGiven,       \* bound on the points handed back on one bill
  Ops             \* the handlers this instance exercises

ASSUME LineAssumption  == LineOf \in [Line -> Order] /\ Placed \subseteq Line
ASSUME NetAssumption   == Net \in [SUBSET Line -> [SUBSET Line -> Nat]]
ASSUME PointAssumption == Opening \in [Customer -> Nat] /\ EarnRate \in Nat
ASSUME BoundAssumption == MaxAmount \in Nat /\ MaxTip \in Nat /\ MaxPoints \in Nat
                          /\ MaxSpent \in Nat /\ MaxGiven \in Nat
ASSUME NoneAssumption  == None \notin Customer \cup Key \cup Order \cup Payment

VARIABLES
  order,     \* orders: one row per order
  payment,   \* payments: one row per id, "NONE" until it is inserted
  refunds,   \* refunds by client request id: the payment repaid, or None
  received,  \* per order: SUM(amount) of its PAID and REFUNDED payments
  returned,  \* per order: SUM(amount) of its refund rows
  loyalty,   \* per order: its loyalty_entries, summed by kind
  balance,   \* customers.loyaltyPoints
  entries,   \* per customer: SUM(points) of the loyalty_entries naming them
  invoices,  \* the restaurant's invoice counter
  req        \* the handler each invocation is in the middle of

vars == <<order, payment, refunds, received, returned, loyalty, balance,
          entries, invoices, req>>
money == <<payment, refunds, received, returned>>
points == <<loyalty, balance, entries>>

Status == {"PENDING", "ACCEPTED", "PREPARING", "READY", "SERVED",
           "COMPLETED", "CANCELLED"}
PaymentStatus == {"UNPAID", "PARTIAL", "PAID", "REFUNDED"}

OrderRow ==
  [status: Status, live: SUBSET Line, void: SUBSET Line, cut: SUBSET Line,
   customer: Customer \cup {None}, loyaltyDiscount: Nat, grandTotal: Nat,
   tipAmount: Nat, paidTotal: Nat, paymentStatus: PaymentStatus, invoice: Nat]

PaymentRow ==
  [status: {"NONE", "UNPAID", "PAID", "REFUNDED"}, order: Order \cup {None},
   amount: Nat, refunded: Nat, key: Key \cup {None}]

LoyaltyRow ==
  [settled: BOOLEAN,    \* an EARNED entry exists
   earned: Nat,         \* its points
   spent: Nat,          \* points of the REDEEMED entries
   givenBack: Nat,      \* spent points handed back by RETURNED entries
   takenBack: Nat,      \* earned points taken by RETURNED entries
   reversed: BOOLEAN]   \* a RETURNED entry carries [loyalty-reversed]

Reducers == {"void", "discount", "clear"}
Call ==
  [op: Reducers \cup {"cancel", "attach", "edit", "settle", "intent",
                      "present", "close"},
   step: {"queued", "loaded", "intx"}, order: Order, seen: OrderRow,
   lines: SUBSET Line, who: Customer \cup {None}]
Idle == [op |-> "idle"]

------------------------------------------------------------------------------
(* Pricing (features/orders/pricing.ts) *)

AtMost(a, b) == IF a <= b THEN a ELSE b
Less(a, b) == IF a <= b THEN 0 ELSE a - b      \* Math.max(0, a - b)

billedOn(row) == row.grandTotal + row.tipAmount
outstandingOn(row) == Less(billedOn(row), row.paidTotal)

derivePaymentStatus(paid, billed, current) ==
  IF paid = 0 THEN IF current = "REFUNDED" THEN "REFUNDED" ELSE "UNPAID"
  ELSE IF paid >= billed THEN "PAID" ELSE "PARTIAL"

\* computeTotals: the loyalty discount is clamped to what is left of the bill.
Unclamped(live, cut, wanted) == wanted                              \* mutant
Loyal(live, cut, wanted) == AtMost(wanted, Net[live][cut])

\* recalculateOrderTotals: the money columns a row's own lines imply.
Repriced(row) ==
  LET discount == Loyal(row.live, row.cut, row.loyaltyDiscount)
      total    == Net[row.live][row.cut] - discount
  IN  [row EXCEPT !.loyaltyDiscount = discount, !.grandTotal = total,
                  !.paymentStatus = derivePaymentStatus(row.paidTotal,
                                       total + row.tipAmount, @)]

\* Points the clamp took off the bill, which the recalculation hands back.
Unabsorbed(row) ==
  IF row.customer = None THEN 0
  ELSE row.loyaltyDiscount - Loyal(row.live, row.cut, row.loyaltyDiscount)

\* customers.loyaltyPoints and the entry that explains the change.
Credit(o, c, n) ==
  IF c = None THEN UNCHANGED points
  ELSE /\ loyalty[o].givenBack + n <= MaxGiven
       /\ balance' = [balance EXCEPT ![c] = @ + n]
       /\ entries' = [entries EXCEPT ![c] = @ + n]
       /\ loyalty' = [loyalty EXCEPT ![o].givenBack = @ + n]

------------------------------------------------------------------------------
(* Requests and the order row's lock *)

\* What a request keeps of the row it read: the columns it will still use.
Nothing ==
  [status |-> "PENDING", live |-> {}, void |-> {}, cut |-> {},
   customer |-> None, loyaltyDiscount |-> 0, grandTotal |-> 0, tipAmount |-> 0,
   paidTotal |-> 0, paymentStatus |-> "UNPAID", invoice |-> 0]
SeenLines(o) == [Nothing EXCEPT !.live = order[o].live, !.cut = order[o].cut,
                                !.loyaltyDiscount = order[o].loyaltyDiscount]
SeenGuest(o) == [Nothing EXCEPT !.customer = order[o].customer,
                                !.loyaltyDiscount = order[o].loyaltyDiscount]
SeenTotal(o) == [Nothing EXCEPT !.customer = order[o].customer,
                                !.grandTotal = order[o].grandTotal]
SeenDue(o) == [Nothing EXCEPT !.grandTotal = outstandingOn(order[o])]

Start(r, op, step, o, seen, lines, who) ==
  req' = [req EXCEPT ![r] = [op |-> op, step |-> step, order |-> o,
                             seen |-> seen, lines |-> lines, who |-> who]]
Finish(r) == req' = [req EXCEPT ![r] = Idle]
At(r, ops, step) == req[r] # Idle /\ req[r].op \in ops /\ req[r].step = step

\* A void or a line discount has written an order_event, whose foreign key
\* holds the order row FOR KEY SHARE: every FOR UPDATE waits for it to end.
Free(o) == ~ \E r \in Request : At(r, Reducers, "intx") /\ req[r].order = o

\* The invocation dies, times out (guardLocks) or throws: its transaction, if
\* any, is rolled back and what it had still to do is never done.
Fail(r) ==
  /\ req[r] # Idle
  /\ Finish(r)
  /\ UNCHANGED <<order, money, points, invoices>>

------------------------------------------------------------------------------
(* Invoices (ensureInvoice, presentBill) *)

HasInvoice(o) == order[o].invoice # 0
NumberFor(o) == IF HasInvoice(o) THEN order[o].invoice ELSE invoices + 1
Uncounted(o) == invoices                       \* mutant: counter not saved
Counted(o) == IF HasInvoice(o) THEN invoices ELSE invoices + 1

PresentLoad(r, o) ==
  /\ "present" \in Ops /\ req[r] = Idle
  /\ order[o].status # "CANCELLED"
  /\ Start(r, "present", "loaded", o, Nothing, {}, None)
  /\ UNCHANGED <<order, money, points, invoices>>

PresentCommit(r) ==
  /\ At(r, {"present"}, "loaded")
  /\ LET o == req[r].order
     IN  /\ order' = [order EXCEPT ![o].invoice = NumberFor(o)]
         /\ invoices' = Counted(o)
  /\ Finish(r)
  /\ UNCHANGED <<money, points>>

------------------------------------------------------------------------------
(* Payments (features/payments/service.ts) *)

\* createPaymentIntent: the amount due is read before, and without a lock.
IntentLoad(r, o) ==
  /\ "intent" \in Ops /\ req[r] = Idle
  /\ order[o].paymentStatus # "PAID"
  /\ outstandingOn(order[o]) > 0
  /\ \A p \in Payment :       \* an open intent for the same amount is reused
        payment[p].status = "UNPAID" /\ payment[p].order = o
           => payment[p].amount # outstandingOn(order[o])
  /\ Start(r, "intent", "loaded", o, SeenDue(o), {}, None)
  /\ UNCHANGED <<order, money, points, invoices>>

IntentCommit(r) ==
  /\ At(r, {"intent"}, "loaded")
  /\ \E p \in Payment :
       /\ payment[p].status = "NONE"
       /\ payment' = [payment EXCEPT ![p] =
            [status |-> "UNPAID", order |-> req[r].order, refunded |-> 0,
             amount |-> req[r].seen.grandTotal, key |-> None]]
  /\ Finish(r)
  /\ UNCHANGED <<order, refunds, received, returned, points, invoices>>

OpenAnyway(o) == o \in Order                   \* mutant: no such refusal
Open(o) == order[o].status # "CANCELLED"       \* ORDER_CANCELLED, loadOpenBill

KeyTaken(k) == k # None /\ \E p \in Payment : payment[p].key = k

\* Exactly what is due, the tip included.
DueAndSlack(row, tip) == Less(billedOn(row) + tip, row.paidTotal) + 1 \* mutant
Due(row, tip) == Less(billedOn(row) + tip, row.paidTotal)

\* The bill as a capture of this much leaves it.
SettledUnadded(row, amount, tip, number) ==    \* mutant: earlier money lost
  [row EXCEPT !.paidTotal = amount]
Settled(row, amount, tip, number) ==
  LET owed == billedOn(row) + tip
      paid == row.paidTotal + amount
  IN  [row EXCEPT
        !.paidTotal = paid,
        !.tipAmount = @ + tip,
        !.paymentStatus = IF paid >= owed THEN "PAID" ELSE "PARTIAL",
        !.status = IF paid >= owed /\ @ \in {"SERVED", "READY"}
                   THEN "COMPLETED" ELSE @,
        !.invoice = IF paid >= owed THEN number ELSE @]

\* The row a capture writes: a new one, or the open intent it claims.
ClaimableTwice(p, o) ==                        \* mutant: claim by id alone
  payment[p].status = "NONE" \/ payment[p].order = o
Claimable(p, o) ==
  \/ payment[p].status = "NONE"
  \/ payment[p].status = "UNPAID" /\ payment[p].order = o

Capture(r, o, p, k, amount, tip) ==
  /\ "capture" \in Ops /\ req[r] = Idle /\ Free(o)
  /\ ~ KeyTaken(k)            \* a retry is answered with the first payment
  /\ Open(o)
  /\ amount <= Due(order[o], tip)
  /\ Claimable(p, o)
  /\ payment' = [payment EXCEPT ![p] =
       [status |-> "PAID", order |-> o, amount |-> amount, refunded |-> 0,
        key |-> k]]
  /\ received' = [received EXCEPT ![o] = @ + amount]
  /\ order' = [order EXCEPT ![o] = Settled(@, amount, tip, NumberFor(o))]
  /\ IF order'[o].paymentStatus = "PAID"
     THEN /\ invoices' = Counted(o)       \* then, after the commit:
          /\ Start(r, "settle", "queued", o, Nothing, {}, None)
     ELSE UNCHANGED <<invoices, req>>
  /\ UNCHANGED <<refunds, returned, points>>

\* refundPayment, everything under the order's lock.  The bill's loyalty is
\* unwound, once, when nothing of what was paid is left.
Unwinding(o, paid) ==
  paid = 0 /\ order[o].customer # None /\ ~ loyalty[o].reversed

TakeOwed(o, c) == loyalty[o].earned                                 \* mutant
Take(o, c) == AtMost(loyalty[o].earned, balance[c])

Unwind(o, paid) ==
  IF ~ Unwinding(o, paid) THEN UNCHANGED points
  ELSE LET c    == order[o].customer
           take == Take(o, c)
           net  == loyalty[o].spent - take
       IN  /\ balance' = [balance EXCEPT ![c] = @ + net]
           /\ entries' = [entries EXCEPT ![c] = @ + net]
           /\ loyalty' = [loyalty EXCEPT ![o].reversed = TRUE,
                                         ![o].takenBack = @ + take,
                                         ![o].givenBack = @ + loyalty[o].spent]

\* What is paid is what arrived minus what went back, summed afresh.
Left(o, amount) == Less(received[o], returned[o] + amount)

RefundableInFull(p) == payment[p].amount                            \* mutant
Refundable(p) == payment[p].amount - payment[p].refunded

Refund(r, p, k, amount) ==
  LET o    == payment[p].order
      paid == Left(o, amount)
  IN
  /\ "refund" \in Ops /\ req[r] = Idle /\ Free(o)
  /\ refunds[k] = None        \* a retry is answered with the first refund
  /\ payment[p].status \in {"PAID", "REFUNDED"}
  /\ amount <= Refundable(p)
  /\ refunds' = [refunds EXCEPT ![k] = p]
  /\ returned' = [returned EXCEPT ![o] = @ + amount]
  /\ payment' = [payment EXCEPT ![p].refunded = @ + amount,
       ![p].status = IF payment[p].refunded + amount >= payment[p].amount
                     THEN "REFUNDED" ELSE @]
  /\ order' = [order EXCEPT ![o].paidTotal = paid,
       ![o].paymentStatus = derivePaymentStatus(paid, billedOn(order[o]),
                              IF paid = 0 THEN "REFUNDED" ELSE @)]
  /\ Unwind(o, paid)
  /\ UNCHANGED <<received, invoices, req>>

\* settleLoyalty, after the capture committed: it reads the order, then
\* takes the lock and looks only for an EARNED entry.
SettleLoad(r) ==
  /\ At(r, {"settle"}, "queued")
  /\ IF order[req[r].order].customer = None
     THEN Finish(r)
     ELSE Start(r, "settle", "loaded", req[r].order,
                SeenTotal(req[r].order), {}, None)
  /\ UNCHANGED <<order, money, points, invoices>>

NeverSettled(o) == FALSE                       \* mutant: no EARNED guard
AlreadySettled(o) == loyalty[o].settled

SettleCommit(r) ==
  LET o == req[r].order
      c == req[r].seen.customer
      n == req[r].seen.grandTotal * EarnRate
  IN
  /\ At(r, {"settle"}, "loaded") /\ Free(o)
  /\ IF AlreadySettled(o) THEN UNCHANGED points
     ELSE /\ balance' = [balance EXCEPT ![c] = @ + n]
          /\ entries' = [entries EXCEPT ![c] = @ + n]
          /\ loyalty' = [loyalty EXCEPT ![o].settled = TRUE, ![o].earned = @ + n]
  /\ Finish(r)
  /\ UNCHANGED <<order, money, invoices>>

------------------------------------------------------------------------------
(* Changing the bill (features/cashier, features/orders, features/loyalty) *)

Unpaid(o) == order[o].paidTotal = 0

\* voidOrderItem and setItemDiscount: the bill is loaded and judged first.
VoidLoad(r, l) ==
  LET o == LineOf[l] IN
  /\ "void" \in Ops /\ req[r] = Idle /\ Open(o) /\ Unpaid(o)
  /\ l \in order[o].live /\ order[o].live # {l}
  /\ Start(r, "void", "loaded", o, Nothing, {l}, None)
  /\ UNCHANGED <<order, money, points, invoices>>

DiscountLoad(r, l) ==
  LET o == LineOf[l] IN
  /\ "discount" \in Ops /\ req[r] = Idle /\ Open(o) /\ Unpaid(o)
  /\ l \in order[o].live
  /\ \E op \in {"discount", "clear"} :
        Start(r, op, "loaded", o, Nothing, {l}, None)
  /\ UNCHANGED <<order, money, points, invoices>>

\* The line's row as the request writes it.
Reduced(call, row) ==
  CASE call.op = "void" -> [row EXCEPT !.live = @ \ call.lines,
                                       !.void = @ \cup call.lines]
    [] call.op = "discount" -> [row EXCEPT !.cut = @ \cup call.lines]
    [] call.op = "clear" -> [row EXCEPT !.cut = @ \ call.lines]

\* Inside the transaction recalculateOrderTotals reads the committed order
\* and lines (its own write included), and other voids do not wait for it.
RecalcRead(r) ==
  /\ At(r, Reducers, "loaded")
  /\ req' = [req EXCEPT ![r].step = "intx",
                        ![r].seen = Reduced(req[r], order[req[r].order])]
  /\ UNCHANGED <<order, money, points, invoices>>

RecalcCommit(r) ==
  LET o     == req[r].order
      seen  == req[r].seen
      fresh == Repriced(seen)
  IN
  /\ At(r, Reducers, "intx")
  /\ order' = [order EXCEPT ![o] = [Reduced(req[r], @) EXCEPT
                 !.loyaltyDiscount = fresh.loyaltyDiscount,
                 !.grandTotal = fresh.grandTotal,
                 !.paymentStatus = fresh.paymentStatus]]
  /\ Credit(o, seen.customer, Unabsorbed(seen))
  /\ Finish(r)
  /\ UNCHANGED <<money, invoices>>

\* A line the order has never had, and no edit under way is about to insert.
Fresh(l, o) ==
  /\ LineOf[l] = o /\ l \notin order[o].live \cup order[o].void
  /\ ~ \E r \in Request : At(r, {"edit"}, "loaded") /\ l \in req[r].lines

\* updateGuestOrderItems: read, judged and totalled before the transaction;
\* the totals and the loyalty discount are written as they were computed.
EditLoad(r, o) ==
  /\ "edit" \in Ops /\ req[r] = Idle
  /\ order[o].status \notin {"SERVED", "COMPLETED", "CANCELLED"}
  /\ order[o].paymentStatus = "UNPAID"
  /\ \E wanted \in SUBSET (order[o].live \cup {l \in Line : Fresh(l, o)}) :
       /\ wanted # {}
       /\ Start(r, "edit", "loaded", o, SeenLines(o), wanted, None)
  /\ UNCHANGED <<order, money, points, invoices>>

EditCommit(r) ==
  LET o     == req[r].order
      seen  == req[r].seen
      taken == seen.live \ req[r].lines
      extra == req[r].lines \ seen.live
  IN
  /\ At(r, {"edit"}, "loaded")
  /\ order' = [order EXCEPT
       ![o].live = (@ \ taken) \cup extra,
       ![o].void = @ \cup taken,
       ![o].loyaltyDiscount = seen.loyaltyDiscount,
       ![o].grandTotal = Net[req[r].lines][seen.cut]
                          - Loyal(req[r].lines, seen.cut, seen.loyaltyDiscount)]
  /\ Finish(r)
  /\ UNCHANGED <<money, points, invoices>>

\* addOrderItems: judged again under the lock.
AddItem(r, l) ==
  LET o == LineOf[l]
      row == [order[o] EXCEPT !.live = @ \cup {l}]
  IN
  /\ "add" \in Ops /\ req[r] = Idle /\ Free(o)
  /\ Fresh(l, o)
  /\ order[o].status \notin {"SERVED", "COMPLETED", "CANCELLED"}
  /\ order[o].paymentStatus = "UNPAID"
  /\ order' = [order EXCEPT ![o] = Repriced(row)]
  /\ Credit(o, row.customer, Unabsorbed(row))
  /\ UNCHANGED <<money, invoices, req>>

\* redeemPointsOnOrder, at one unit of money a point.
Redeem(r, o, wanted) ==
  LET c    == order[o].customer
      room == Less(Net[order[o].live][{}], order[o].loyaltyDiscount)
      n    == AtMost(wanted, room)
      row  == [order[o] EXCEPT !.loyaltyDiscount = @ + n]
      lost == Unabsorbed(row)
  IN
  /\ "redeem" \in Ops /\ req[r] = Idle /\ Free(o)
  /\ c # None /\ Open(o) /\ order[o].paymentStatus = "UNPAID"
  /\ room > 0 /\ balance[c] >= n /\ loyalty[o].spent + n <= MaxSpent
  /\ order' = [order EXCEPT ![o] = Repriced(row)]
  /\ balance' = [balance EXCEPT ![c] = @ - n + lost]
  /\ entries' = [entries EXCEPT ![c] = @ - n + lost]
  /\ loyalty' = [loyalty EXCEPT ![o].spent = @ + n, ![o].givenBack = @ + lost]
  /\ UNCHANGED <<money, invoices, req>>

\* attachCustomer: the money on the bill is read before the write.
AttachLoad(r, o, c) ==
  /\ "attach" \in Ops /\ req[r] = Idle /\ Open(o) /\ Unpaid(o)
  /\ Start(r, "attach", "loaded", o, Nothing, {}, c)
  /\ UNCHANGED <<order, money, points, invoices>>

AttachCommit(r) ==
  /\ At(r, {"attach"}, "loaded")
  /\ order' = [order EXCEPT ![req[r].order].customer = req[r].who]
  /\ Finish(r)
  /\ UNCHANGED <<money, points, invoices>>

------------------------------------------------------------------------------
(* The order's status (features/orders/service.ts) *)

ALLOWED_TRANSITIONS ==
  [PENDING   |-> {"ACCEPTED", "PREPARING", "CANCELLED"},
   ACCEPTED  |-> {"PREPARING", "READY", "CANCELLED"},
   PREPARING |-> {"READY", "CANCELLED"},
   READY     |-> {"SERVED", "COMPLETED", "CANCELLED"},
   SERVED    |-> {"COMPLETED", "CANCELLED"},
   COMPLETED |-> {},
   CANCELLED |-> {}]

\* updateOrderStatus reads the status, then insists under the lock that it is
\* still the same.  A bill already paid when it is served closes by itself.
MoveStatus(r, o, s) ==
  /\ "status" \in Ops /\ req[r] = Idle /\ Free(o)
  /\ s # "CANCELLED"           \* "Use cancelOrder to cancel an order"
  /\ s \in ALLOWED_TRANSITIONS[order[o].status]
  /\ order' = [order EXCEPT ![o].status = s]
  /\ IF s = "SERVED" /\ order[o].paymentStatus = "PAID"
     THEN Start(r, "close", "queued", o, Nothing, {}, None)
     ELSE UNCHANGED req
  /\ UNCHANGED <<money, points, invoices>>

\* The second call, which fails if the order has moved on to anything else.
CloseServed(r) ==
  /\ At(r, {"close"}, "queued") /\ Free(req[r].order)
  /\ order' = [order EXCEPT ![req[r].order].status =
                 IF @ = "SERVED" THEN "COMPLETED" ELSE @]
  /\ Finish(r)
  /\ UNCHANGED <<money, points, invoices>>

\* cancelOrder: what it gives back is what it read before its transaction.
CancelLoad(r, o) ==
  /\ "cancel" \in Ops /\ req[r] = Idle /\ Open(o) /\ Unpaid(o)
  /\ Start(r, "cancel", "loaded", o, SeenGuest(o), {}, None)
  /\ UNCHANGED <<order, money, points, invoices>>

CancelCommit(r) ==
  LET o == req[r].order IN
  /\ At(r, {"cancel"}, "loaded") /\ Free(o)
  /\ order' = [order EXCEPT ![o].status = "CANCELLED",
                            ![o].live = {}, ![o].void = @ \cup order[o].live]
  /\ Credit(o, req[r].seen.customer, req[r].seen.loyaltyDiscount)
  /\ Finish(r)
  /\ UNCHANGED <<money, invoices>>

------------------------------------------------------------------------------
(* Placement (features/orders/service.ts placeOrder): unpaid bills, with or
   without a customer, nothing taken off them yet. *)

NewOrder(o, s, c) ==
  LET mine == {l \in Placed : LineOf[l] = o} IN
  [status |-> s, live |-> mine, void |-> {}, cut |-> {}, customer |-> c,
   loyaltyDiscount |-> 0, grandTotal |-> Net[mine][{}], tipAmount |-> 0,
   paidTotal |-> 0, paymentStatus |-> "UNPAID", invoice |-> 0]

Init ==
  /\ \E s \in [Order -> {"PENDING", "ACCEPTED"}],
        c \in [Order -> Customer \cup {None}] :
       order = [o \in Order |-> NewOrder(o, s[o], c[o])]
  /\ payment = [p \in Payment |->
       [status |-> "NONE", order |-> None, amount |-> 0, refunded |-> 0,
        key |-> None]]
  /\ refunds = [k \in Key |-> None]
  /\ received = [o \in Order |-> 0]
  /\ returned = [o \in Order |-> 0]
  /\ loyalty = [o \in Order |->
       [settled |-> FALSE, earned |-> 0, spent |-> 0, givenBack |-> 0,
        takenBack |-> 0, reversed |-> FALSE]]
  /\ balance = Opening
  /\ entries = [c \in Customer |-> 0]
  /\ invoices = 0
  /\ req = [r \in Request |-> Idle]

NextOf(r) ==
  \/ Fail(r)
  \/ \E o \in Order : PresentLoad(r, o) \/ IntentLoad(r, o) \/ EditLoad(r, o)
                        \/ CancelLoad(r, o)
  \/ \E o \in Order, c \in Customer : AttachLoad(r, o, c)
  \/ \E l \in Line : VoidLoad(r, l) \/ DiscountLoad(r, l) \/ AddItem(r, l)
  \/ PresentCommit(r) \/ IntentCommit(r) \/ EditCommit(r) \/ CancelCommit(r)
  \/ AttachCommit(r) \/ RecalcRead(r) \/ RecalcCommit(r)
  \/ SettleLoad(r) \/ SettleCommit(r) \/ CloseServed(r)
  \/ \E o \in Order, s \in Status : MoveStatus(r, o, s)
  \/ \E o \in Order, n \in 1..MaxPoints : Redeem(r, o, n)
  \/ \E o \in Order, p \in Payment, k \in Key \cup {None},
        amount \in 1..MaxAmount, tip \in 0..MaxTip :
       Capture(r, o, p, k, amount, tip)
  \/ \E p \in Payment, k \in Key, amount \in 1..MaxAmount :
       Refund(r, p, k, amount)

Next == \E r \in Request : NextOf(r)
Spec == Init /\ [][Next]_vars

------------------------------------------------------------------------------
(* What must hold *)

TypeOK ==
  /\ order \in [Order -> OrderRow]
  /\ payment \in [Payment -> PaymentRow]
  /\ \A p \in Payment : payment[p].status # "NONE" => payment[p].order \in Order
  /\ refunds \in [Key -> Payment \cup {None}]
  /\ received \in [Order -> Nat] /\ returned \in [Order -> Nat]
  /\ loyalty \in [Order -> LoyaltyRow]
  /\ balance \in [Customer -> Int] /\ entries \in [Customer -> Int]
  /\ invoices \in Nat
  /\ req \in [Request -> Call \cup {Idle}]

\* A payment that has brought money in, and those of one order.
Banked(p) == payment[p].status \in {"PAID", "REFUNDED"}
RowsOf(o) == {p \in Payment : Banked(p) /\ payment[p].order = o}
Amounts == [p \in Payment |-> payment[p].amount]
Repaid == [p \in Payment |-> payment[p].refunded]

\* What the model keeps as running sums is what the payment and refund rows
\* add up to, as the aggregates of refundPayment would find it.
RowsAddUp ==
  \A o \in Order :
    /\ received[o] = SumFunctionOnSet(Amounts, RowsOf(o))
    /\ returned[o] = SumFunctionOnSet(Repaid, RowsOf(o))

\* The bill's running total of what was paid is what its payments brought in
\* less what its refunds took out, whatever raced what (capturePayment adds,
\* refundPayment sums afresh).
PaidMatchesLedger ==
  \A o \in Order : order[o].paidTotal = received[o] - returned[o]

\* No payment gives back more than it took, and it reads REFUNDED exactly when
\* its refunds cover it.
RefundsCovered ==
  \A p \in Payment :
    /\ payment[p].refunded <= payment[p].amount
    /\ payment[p].status = "REFUNDED" <=>
         payment[p].amount > 0 /\ payment[p].refunded = payment[p].amount

\* A client request id names at most one payment: a retried tender takes the
\* money once.
KeyOnce ==
  \A p, q \in Payment :
    payment[p].key # None /\ payment[p].key = payment[q].key => p = q

\* Two bills never share an invoice number, and the numbers have no gap.
InvoicesNumbered ==
  /\ \A o, u \in Order : HasInvoice(o) /\ order[o].invoice = order[u].invoice => o = u
  /\ \A n \in 1..invoices : \E o \in Order : order[o].invoice = n

\* The number a guest has been shown is the bill's number for good.
InvoiceKept ==
  [][\A o \in Order : HasInvoice(o) => order'[o].invoice = order[o].invoice]_vars

\* A settled bill has its invoice.
PaidHasInvoice ==
  \A o \in Order : order[o].paymentStatus = "PAID" => HasInvoice(o)

\* Nothing beyond the charge and the tips is ever collected.
NeverOverpaid == \A o \in Order : order[o].paidTotal <= billedOn(order[o])

\* Together: a bill that reads paid was billed, numbered and not charged twice
\* (capturePayment, ensureInvoice).
PaidAsBilled == PaidHasInvoice /\ NeverOverpaid

\* A cancelled order stays cancelled and takes no money.
CancelledIsFinal ==
  [][\A o \in Order : order[o].status = "CANCELLED" =>
       /\ order'[o].status = "CANCELLED"
       /\ received'[o] = received[o]]_vars

\* Together: what the till has done with a guest's money it does not do again or
\* take back: one payment for each request, no refund beyond it, one invoice
\* number, and nothing on a cancelled bill.
SettlementFinal == []KeyOnce /\ []RefundsCovered /\ InvoiceKept /\ CancelledIsFinal

\* A customer's balance is the sum of their entries and never negative.
BalanceExplained ==
  \A c \in Customer : balance[c] >= 0 /\ balance[c] = Opening[c] + entries[c]

\* A bill earns points once (settleLoyalty).
EarnedOnce ==
  [][\A o \in Order : loyalty[o].settled =>
       loyalty'[o].settled /\ loyalty'[o].earned = loyalty[o].earned]_vars
\* No more is taken back for a bill than it earned, refund by refund.
TakenOnce == \A o \in Order : loyalty[o].takenBack <= loyalty[o].earned

\* Together: a bill's points are given once and taken back once.
PointsOnce == EarnedOnce /\ []TakenOnce

------------------------------------------------------------------------------
(* What the code's own comments say of it, and interleavings break *)

\* "a PARTIAL bill could be cancelled with the half kept and no record of it
\* anywhere": cancelOrder refuses a bill with money on it, so a cancelled
\* order holds none.
CancelledHoldsNothing ==
  \A o \in Order : order[o].status = "CANCELLED" => order[o].paidTotal = 0

\* "Give back anything the guest spent": points a bill hands back are points
\* that were spent on it.
GivenBackWasSpent == \A o \in Order : loyalty[o].givenBack <= loyalty[o].spent

------------------------------------------------------------------------------
(* Refinement: seen as takings, every step above is one step of Takings or
   none. *)

Cancelled == {o \in Order : order[o].status = "CANCELLED"}

Ledger == INSTANCE Takings WITH
  owner  <- [p \in Payment |-> IF Banked(p) THEN payment[p].order ELSE None],
  taken  <- [p \in Payment |-> IF Banked(p) THEN payment[p].amount ELSE 0],
  given  <- [p \in Payment |-> payment[p].refunded],
  closed <- Cancelled

\* Whatever the handlers interleave, the money behaves as Takings says.
KeepsTakings == Ledger!Spec
==============================================================================
