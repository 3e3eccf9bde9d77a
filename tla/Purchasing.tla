----------------------------- MODULE Purchasing -----------------------------
(***************************************************************************)
(* A purchase order: requested, decided on its own page or at the approvals *)
(* desk, ordered, delivered in parts, closed.                               *)
(*                                                                          *)
(* Every change of status reads the row, judges, and writes by id alone;    *)
(* the desk's row is claimed by its status, and its consequence written in  *)
(* the same transaction; a delivery locks the order and reads again what    *)
(* was received.  Orders share no rows, so one is modelled; prices, batches *)
(* and where the goods go are left out, and a delivery is of one line.      *)
(***************************************************************************)
EXTENDS Integers, FiniteSets, Functions

CONSTANTS
  Item,         \* rows of purchase_items; an id is used once
  Approval,     \* rows of approval_requests about the order
  Delivery,     \* the screens' ids of submitted deliveries
  Errand,       \* calls in flight
  Buyer,        \* who raise and decide
  Unconfined,   \* owners, administrators, who override: they may sign their own
  Nobody,
  Load,         \* what each delivery brings
  MaxOrdered,   \* bound: units ordered on a line
  MaxItems      \* bound: lines of one version of the order

ASSUME BuyersArePeople == Unconfined \subseteq Buyer /\ Nobody \notin Buyer
ASSUME LoadsAreSomething ==
  Load \in [Delivery -> {b \in [accepted: Nat, rejected: Nat] : b.accepted + b.rejected > 0}]
ASSUME DeliveriesAreFinite == IsFiniteSet(Delivery)

VARIABLES purchase, item, approval, receipt, errand
purchaseVars == <<purchase, item, approval, receipt, errand>>

------------------------------------------------------------------------------
(* The rows *)

Status == {"NONE", "DRAFT", "PENDING_APPROVAL", "RETURNED", "REJECTED", "APPROVED",
           "ORDERED", "PARTIALLY_RECEIVED", "RECEIVED", "CLOSED", "CANCELLED"}
PurchaseRow == [status: Status, createdBy: Buyer \cup {Nobody}, approvedBy: Buyer \cup {Nobody}]

ItemRow == [state: {"unused", "live", "deleted"}, quantity: Nat, received: Nat, rejected: Nat]
Unordered == [state |-> "unused", quantity |-> 0, received |-> 0, rejected |-> 0]
Deleted == [Unordered EXCEPT !.state = "deleted"]
Live == {i \in Item : item[i].state = "live"}
Handled(i) == item[i].received + item[i].rejected

ApprovalRow == [status: {"NONE", "PENDING", "APPROVED", "REJECTED", "WITHDRAWN"},
                requestedBy: Buyer \cup {Nobody}, decidedBy: Buyer \cup {Nobody}]
Pending == {a \in Approval : approval[a].status = "PENDING"}

\* stocked is what the delivery put on the shelf, as the stock ledger has it.
ReceiptRow == [booked: BOOLEAN, stocked: Nat]

Decision == {"APPROVED", "REJECTED", "RETURNED"}
OwnMove == {"PENDING_APPROVAL", "DRAFT", "ORDERED", "CLOSED", "CANCELLED"}
NoErrand == [op |-> "none"]
Errands ==
  {NoErrand}
    \cup [op: {"edit"}]
    \cup [op: {"set"}, at: {"asked", "judged", "written", "unasked"},
          by: Buyer, to: Decision \cup OwnMove]
    \cup [op: {"decide"}, at: {"judged", "claimed"}, by: Buyer, to: Decision, on: Approval]
    \cup [op: {"receive"}, item: Item, delivery: Delivery]

PurchasingTypeOK ==
  /\ purchase \in PurchaseRow
  /\ item \in [Item -> ItemRow]
  /\ approval \in [Approval -> ApprovalRow]
  /\ receipt \in [Delivery -> ReceiptRow]
  /\ errand \in [Errand -> Errands]

------------------------------------------------------------------------------
(* The order's life *)

ALLOWED(from) ==
  CASE from = "DRAFT" -> {"PENDING_APPROVAL", "APPROVED", "CANCELLED"}
    [] from = "PENDING_APPROVAL" -> {"APPROVED", "REJECTED", "RETURNED", "DRAFT", "CANCELLED"}
    [] from = "RETURNED" -> {"PENDING_APPROVAL", "APPROVED", "CANCELLED"}
    [] from = "APPROVED" -> {"ORDERED", "CANCELLED"}
    [] from = "ORDERED" -> {"PARTIALLY_RECEIVED", "RECEIVED", "CANCELLED"}
    [] from = "PARTIALLY_RECEIVED" -> {"RECEIVED", "CLOSED", "CANCELLED"}
    [] from = "RECEIVED" -> {"CLOSED"}
    [] OTHER -> {}
AllowedUnapproved(from, to) ==                 \* mutant: a submitted order may be placed
  to \in ALLOWED(from) \/ (from = "PENDING_APPROVAL" /\ to = "ORDERED")
canTransition(from, to) == to \in ALLOWED(from)

Editable == {"DRAFT", "PENDING_APPROVAL", "RETURNED"}
Receivable == {"APPROVED", "ORDERED", "PARTIALLY_RECEIVED"}

SetOut(e, x) == errand[e] = NoErrand /\ errand' = [errand EXCEPT ![e] = x]
Finish(e) == errand' = [errand EXCEPT ![e] = NoErrand]
At(e, step) == errand' = [errand EXCEPT ![e].at = step]

------------------------------------------------------------------------------
(* Raising and editing *)

\* New lines take ids that were never used; the old ones go, with what their
\* receipts say of them.
Replace(quantity) ==
  item' = [i \in Item |->
             IF i \in DOMAIN quantity
             THEN [Unordered EXCEPT !.state = "live", !.quantity = quantity[i]]
             ELSE IF i \in Live THEN Deleted ELSE item[i]]
NewLines ==
  UNION {[I -> 1..MaxOrdered] :
           I \in {J \in SUBSET Item : /\ Cardinality(J) \in 1..MaxItems
                                      /\ \A i \in J : item[i].state = "unused"}}

createPurchaseOrder(u) ==
  /\ purchase.status = "NONE"
  /\ purchase' = [purchase EXCEPT !.status = "DRAFT", !.createdBy = u]
  /\ \E quantity \in NewLines : Replace(quantity)
  /\ UNCHANGED <<approval, receipt, errand>>

JudgeEdit(e) ==
  /\ purchase.status \in Editable
  /\ SetOut(e, [op |-> "edit"])
  /\ UNCHANGED <<purchase, item, approval, receipt>>

updatePurchaseOrder(e) ==
  /\ errand[e].op = "edit"
  /\ \E quantity \in NewLines : Replace(quantity)
  /\ Finish(e)
  /\ UNCHANGED <<purchase, approval, receipt>>

------------------------------------------------------------------------------
(* A change of status, from the order's own page *)

JudgeMove(e, u, to) ==
  /\ to \in OwnMove
  /\ canTransition(purchase.status, to)
  /\ SetOut(e, [op |-> "set", at |-> "judged", by |-> u, to |-> to])
  /\ UNCHANGED <<purchase, item, approval, receipt>>

\* Nobody asked the desk: the page decides by itself, but for one's own draft.
FindNone(e, u, to) ==
  /\ to \in Decision
  /\ purchase.status # "NONE" /\ Pending = {}
  /\ ~(to = "APPROVED" /\ purchase.createdBy = u /\ u \notin Unconfined)
  /\ SetOut(e, [op |-> "set", at |-> "asked", by |-> u, to |-> to])
  /\ UNCHANGED <<purchase, item, approval, receipt>>

JudgeDecision(e) ==
  /\ errand[e].op = "set" /\ errand[e].at = "asked"
  /\ IF canTransition(purchase.status, errand[e].to) THEN At(e, "judged") ELSE Finish(e)
  /\ UNCHANGED <<purchase, item, approval, receipt>>

Become(to, u) ==
  purchase' = [purchase EXCEPT !.status = to,
                               !.approvedBy = IF to = "APPROVED" THEN u ELSE @]

\* Written by id; submitting and withdrawing go on to the desk.
WriteStatus(e) ==
  /\ errand[e].op = "set" /\ errand[e].at = "judged"
  /\ Become(errand[e].to, errand[e].by)
  /\ IF errand[e].to \in {"PENDING_APPROVAL", "DRAFT", "CANCELLED"}
     THEN At(e, "written") ELSE Finish(e)
  /\ UNCHANGED <<item, approval, receipt>>

------------------------------------------------------------------------------
(* The approvals desk *)

Claimed(a) == \E e \in Errand : /\ errand[e].op = "decide"
                                /\ errand[e].at = "claimed" /\ errand[e].on = a

\* One open request per order, by a look before the insert.
LookForOpen(e) ==
  /\ errand[e].op = "set" /\ errand[e].at = "written" /\ errand[e].to = "PENDING_APPROVAL"
  /\ IF Pending = {} THEN At(e, "unasked") ELSE Finish(e)
  /\ UNCHANGED <<purchase, item, approval, receipt>>

requestApproval(e) ==
  /\ errand[e].op = "set" /\ errand[e].at = "unasked"
  /\ \E a \in Approval :
       /\ approval[a].status = "NONE"
       /\ approval' = [approval EXCEPT ![a].status = "PENDING",
                                       ![a].requestedBy = errand[e].by]
  /\ Finish(e)
  /\ UNCHANGED <<purchase, item, receipt>>

\* A request that is withdrawn or cancelled takes its rows from the desk.
WithdrawRequests(e) ==
  /\ errand[e].op = "set" /\ errand[e].at = "written"
  /\ errand[e].to \in {"DRAFT", "CANCELLED"}
  /\ \A a \in Pending : ~Claimed(a)
  /\ approval' = [a \in Approval |->
       IF a \in Pending THEN [approval[a] EXCEPT !.status = "WITHDRAWN"] ELSE approval[a]]
  /\ Finish(e)
  /\ UNCHANGED <<purchase, item, receipt>>

withdrawApproval(u, a) ==
  /\ a \in Pending /\ ~Claimed(a) /\ approval[a].requestedBy = u
  /\ approval' = [approval EXCEPT ![a].status = "WITHDRAWN"]
  /\ UNCHANGED <<purchase, item, receipt, errand>>

\* Nobody signs what they asked for, but the unconfined.
JudgeRequestAtDesk(e, u, a, to) ==
  /\ a \in Pending
  /\ approval[a].requestedBy = u => u \in Unconfined
  /\ SetOut(e, [op |-> "decide", at |-> "judged", by |-> u, to |-> to, on |-> a])
  /\ UNCHANGED <<purchase, item, approval, receipt>>

UndecidedOrNot(a) == ~Claimed(a)             \* mutant: the claim without its status
StillUndecided(a) == a \in Pending

\* The desk's row is written and held; the order is read and judged.
ClaimRequest(e) ==
  /\ errand[e].op = "decide" /\ errand[e].at = "judged"
  /\ ~Claimed(errand[e].on)
  /\ IF StillUndecided(errand[e].on) /\ canTransition(purchase.status, errand[e].to)
     THEN At(e, "claimed") ELSE Finish(e)
  /\ UNCHANGED <<purchase, item, approval, receipt>>

decideApproval(e) ==
  /\ errand[e].op = "decide" /\ errand[e].at = "claimed"
  /\ approval' = [approval EXCEPT
       ![errand[e].on].status = IF errand[e].to = "APPROVED" THEN "APPROVED" ELSE "REJECTED",
       ![errand[e].on].decidedBy = errand[e].by]
  /\ Become(errand[e].to, errand[e].by)
  /\ Finish(e)
  /\ UNCHANGED <<item, receipt>>

------------------------------------------------------------------------------
(* Goods in *)

\* A retry sends the same delivery again.
SameDelivery(d, i) ==
  \A e \in Errand : errand[e].op = "receive" /\ errand[e].delivery = d => errand[e].item = i

JudgeDelivery(e, d, i) ==
  /\ purchase.status \in Receivable \cup {"RECEIVED"}
  /\ ~receipt[d].booked /\ SameDelivery(d, i)
  /\ i \in Live
  /\ SetOut(e, [op |-> "receive", item |-> i, delivery |-> d])
  /\ UNCHANGED <<purchase, item, approval, receipt>>

FitsAccepted(i, load) ==                       \* mutant: what was refused is not counted
  i \in Live /\ item[i].received + load.accepted <= item[i].quantity
Fits(i, load) == i \in Live /\ Handled(i) + load.accepted + load.rejected <= item[i].quantity

Refused(sofar, more) == sofar + more

AlreadyBooked(d) == receipt[d].booked

\* Under the order's lock: a replay is answered, too much is refused, and the
\* order's status is what its lines say.
receiveGoods(e) ==
  /\ errand[e].op = "receive"
  /\ LET i == errand[e].item
         d == errand[e].delivery
         l == Load[d]
     IN  IF ~AlreadyBooked(d) /\ Fits(i, l)
         THEN /\ receipt' = [receipt EXCEPT
                   ![d] = [booked |-> TRUE, stocked |-> @.stocked + l.accepted]]
              /\ item' = [item EXCEPT ![i].received = @ + l.accepted,
                                      ![i].rejected = Refused(@, l.rejected)]
              /\ purchase' = [purchase EXCEPT !.status =
                   IF \A x \in Live : item'[x].received + item'[x].rejected >= item[x].quantity
                   THEN "RECEIVED" ELSE "PARTIALLY_RECEIVED"]
         ELSE UNCHANGED <<receipt, item, purchase>>
  /\ Finish(e)
  /\ UNCHANGED approval

------------------------------------------------------------------------------
(* Specification *)

PurchasingInit ==
  /\ purchase = [status |-> "NONE", createdBy |-> Nobody, approvedBy |-> Nobody]
  /\ item = [i \in Item |-> Unordered]
  /\ approval = [a \in Approval |->
                   [status |-> "NONE", requestedBy |-> Nobody, decidedBy |-> Nobody]]
  /\ receipt = [d \in Delivery |-> [booked |-> FALSE, stocked |-> 0]]
  /\ errand = [e \in Errand |-> NoErrand]

GoOn(e) ==
  \/ updatePurchaseOrder(e) \/ JudgeDecision(e) \/ WriteStatus(e)
  \/ LookForOpen(e) \/ requestApproval(e) \/ WithdrawRequests(e)
  \/ ClaimRequest(e) \/ decideApproval(e) \/ receiveGoods(e)

TakeUp(e) ==
  \/ JudgeEdit(e)
  \/ \E u \in Buyer, to \in OwnMove : JudgeMove(e, u, to)
  \/ \E u \in Buyer, to \in Decision : FindNone(e, u, to)
  \/ \E u \in Buyer, a \in Approval, to \in Decision : JudgeRequestAtDesk(e, u, a, to)
  \/ \E d \in Delivery, i \in Item : JudgeDelivery(e, d, i)

PurchasingNext ==
  \/ \E u \in Buyer : createPurchaseOrder(u)
  \/ \E u \in Buyer, a \in Approval : withdrawApproval(u, a)
  \/ \E e \in Errand : GoOn(e) \/ TakeUp(e)

PurchasingSpec == PurchasingInit /\ [][PurchasingNext]_purchaseVars

------------------------------------------------------------------------------
(* What must hold *)

\* However many deliveries of a line are booked at once, what came and what was
\* refused at the door is never more than what was ordered (the second look
\* under the lock in receiveGoods).
NeverOverReceived == \A i \in Item : Handled(i) <= item[i].quantity

\* A delivery that is submitted again, at once or after its answer was lost, is
\* on the shelf once (clientRequestId).
DeliveredOnce ==
  \A d \in Delivery :
    receipt[d].stocked = IF receipt[d].booked THEN Load[d].accepted ELSE 0

\* Together: what is on the shelf came once and was ordered.
ReceivedAsOrdered == NeverOverReceived /\ DeliveredOnce

\* Whatever moves judged on an older status are written over each other, an
\* order that is placed, and every unit on the shelf, has passed an approval
\* ("... would mean someone committed the restaurant's money unreviewed").
ReviewedBeforeStock ==
  \/ purchase.status \in {"APPROVED", "ORDERED", "PARTIALLY_RECEIVED", "RECEIVED", "CLOSED"}
  \/ \E d \in Delivery : receipt[d].stocked > 0
  => purchase.approvedBy # Nobody

\* A request is ruled on once, and the order follows in the same step: the desk
\* never says approved of an order that did not become so (decideApproval's
\* compare-and-swap, with the consequence in its transaction).
DecidedOnce ==
  [][\A a \in Approval : approval'[a].status # approval[a].status =>
       /\ approval[a].status \in {"NONE", "PENDING"}
       /\ approval'[a].status = "APPROVED" => purchase'.status = "APPROVED"
       /\ approval'[a].status = "REJECTED" => purchase'.status \in {"REJECTED", "RETURNED"}
    ]_purchaseVars

------------------------------------------------------------------------------
(* What a comment says, and the code breaks *)

\* "requestApproval keeps one open request per order, so a double click cannot
\* raise two".
OneOpenRequest == Cardinality(Pending) <= 1

\* "once anything has been received it is also a stock history".
StockIsOnOrder ==
  SumFunction([i \in Item |-> item[i].received]) =
    SumFunction([d \in Delivery |-> receipt[d].stocked])

\* A status that is over stays (REJECTED: "terminal on purpose").
OverIsOver ==
  [][purchase.status \in {"REJECTED", "CANCELLED", "CLOSED"} =>
       purchase'.status = purchase.status]_purchaseVars
==============================================================================
