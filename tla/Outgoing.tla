------------------------------ MODULE Outgoing ------------------------------
(***************************************************************************)
(* Money that leaves the business: a payment is drafted, submitted, decided *)
(* by somebody else, paid, and if need be undone by a payment of its own.   *)
(*                                                                          *)
(* A call loads the row, then writes it where its status is still the one   *)
(* it leaves; what is posted to the supplier's account is what the call     *)
(* loaded.  The drawer that cash leaves from is in the module Drawer; the   *)
(* sealing of accounting periods is left out.                               *)
(***************************************************************************)
EXTENDS Integers, FiniteSets

CONSTANTS
  Payment,      \* rows of outgoing_payments
  Supplier,
  Officer,      \* who may raise payments
  Approver,     \* who may decide them
  SelfApprover, \* the owner and administrators
  Task,         \* calls in flight
  NoOfficer, NoSupplier, NoPayment,
  Amounts       \* bound: what a payment may come to

ASSUME OfficersAreRanked ==
  SelfApprover \subseteq Approver /\ Approver \subseteq Officer /\ NoOfficer \notin Officer
ASSUME NonesAreNone == NoSupplier \notin Supplier /\ NoPayment \notin Payment
ASSUME AmountsArePositive == Amounts \subseteq Nat \ {0}
ASSUME PaymentsAreFinite == IsFiniteSet(Payment)

VARIABLES
  payment,
  entry,        \* what each payment put on its supplier's account
  task
outgoingVars == <<payment, entry, task>>

------------------------------------------------------------------------------
(* The rows *)

\* An expense has no supplier.
PaymentRow ==
  [status: {"NONE", "DRAFT", "SUBMITTED", "APPROVED", "REJECTED", "CANCELLED", "PAID", "REVERSED"},
   supplier: Supplier \cup {NoSupplier}, amount: Nat,
   createdBy: Officer \cup {NoOfficer}, submittedBy: Officer \cup {NoOfficer},
   decidedBy: Officer \cup {NoOfficer}, reversalOf: Payment \cup {NoPayment}]
Unwritten ==
  [status |-> "NONE", supplier |-> NoSupplier, amount |-> 0, createdBy |-> NoOfficer,
   submittedBy |-> NoOfficer, decidedBy |-> NoOfficer, reversalOf |-> NoPayment]

\* times is how often its money moved; a history the code does not keep.
EntryRow == [times: Nat, supplier: Supplier \cup {NoSupplier}, amount: Int]
NoEntry == [times |-> 0, supplier |-> NoSupplier, amount |-> 0]

NoTask == [op |-> "none"]
Tasks ==
  {NoTask}
    \cup [op: {"update", "pay"}, on: Payment,
          supplier: Supplier \cup {NoSupplier}, amount: Nat]
    \cup [op: {"reverse"}, on: Payment, by: Officer,
          supplier: Supplier \cup {NoSupplier}, amount: Nat]
    \cup [op: {"submit"}, on: Payment, by: Officer]
    \cup [op: {"cancel", "sendBack"}, on: Payment]
    \cup [op: {"decide"}, on: Payment, by: Officer, to: {"APPROVED", "REJECTED"}]

OutgoingTypeOK ==
  /\ payment \in [Payment -> PaymentRow]
  /\ entry \in [Payment -> EntryRow]
  /\ task \in [Task -> Tasks]

Loaded(k, x) == task[k] = NoTask /\ task' = [task EXCEPT ![k] = x]
EndTask(k) == task' = [task EXCEPT ![k] = NoTask]

------------------------------------------------------------------------------
(* Raising, changing, submitting, withdrawing *)

createDraft(u, p, s, amount) ==
  /\ payment[p].status = "NONE"
  /\ payment' = [payment EXCEPT ![p] = [Unwritten EXCEPT
       !.status = "DRAFT", !.supplier = s, !.amount = amount, !.createdBy = u]]
  /\ UNCHANGED <<entry, task>>

MayHandle(u, p) ==
  payment[p].status # "NONE" /\ (payment[p].createdBy = u \/ u \in Approver)

LoadToSubmit(k, u, p) ==
  /\ MayHandle(u, p)
  /\ Loaded(k, [op |-> "submit", on |-> p, by |-> u])
  /\ UNCHANGED <<payment, entry>>

LoadToCancel(k, u, p) ==
  /\ MayHandle(u, p)
  /\ Loaded(k, [op |-> "cancel", on |-> p])
  /\ UNCHANGED <<payment, entry>>

LoadToUpdate(k, u, p, s, amount) ==
  /\ MayHandle(u, p)
  /\ Loaded(k, [op |-> "update", on |-> p, supplier |-> s, amount |-> amount])
  /\ UNCHANGED <<payment, entry>>

\* The row changes if it is still in one of these, and the call ends.
WriteFrom(k, op, froms, after) ==
  /\ task[k].op = op
  /\ payment' = IF payment[task[k].on].status \in froms
                THEN [payment EXCEPT ![task[k].on] = after] ELSE payment
  /\ EndTask(k)

UpdatableLate == {"DRAFT", "SUBMITTED"}        \* mutant: a submitted payment takes an edit
UpdatableFrom == {"DRAFT"}
updateDraft(k) ==
  /\ WriteFrom(k, "update", UpdatableFrom,
            [payment[task[k].on] EXCEPT !.supplier = task[k].supplier, !.amount = task[k].amount])
  /\ UNCHANGED entry

\* The owner's own submission is approved as it is submitted.
submit(k) ==
  /\ WriteFrom(k, "submit", {"DRAFT"},
       LET u == task[k].by
           row == [payment[task[k].on] EXCEPT !.status = "SUBMITTED", !.submittedBy = u]
       IN  IF u \in SelfApprover
           THEN [row EXCEPT !.status = "APPROVED", !.decidedBy = u] ELSE row)
  /\ UNCHANGED entry

cancelOwn(k) ==
  /\ WriteFrom(k, "cancel", {"DRAFT", "SUBMITTED"},
            [payment[task[k].on] EXCEPT !.status = "CANCELLED"])
  /\ UNCHANGED entry

------------------------------------------------------------------------------
(* Deciding *)

Raised(u, p) == payment[p].submittedBy = u \/ payment[p].createdBy = u
MayRule(u, p) ==
  /\ payment[p].status # "NONE" /\ u \in Approver
  /\ u \notin SelfApprover => ~Raised(u, p)

LoadToDecide(k, u, p, to) ==
  /\ MayRule(u, p)
  /\ Loaded(k, [op |-> "decide", on |-> p, by |-> u, to |-> to])
  /\ UNCHANGED <<payment, entry>>

LoadToSendBack(k, u, p) ==
  /\ MayRule(u, p)
  /\ Loaded(k, [op |-> "sendBack", on |-> p])
  /\ UNCHANGED <<payment, entry>>

decide(k) ==
  /\ WriteFrom(k, "decide", {"SUBMITTED"},
            [payment[task[k].on] EXCEPT !.status = task[k].to, !.decidedBy = task[k].by])
  /\ UNCHANGED entry

sendBack(k) ==
  /\ WriteFrom(k, "sendBack", {"SUBMITTED"},
            [payment[task[k].on] EXCEPT !.status = "DRAFT", !.submittedBy = NoOfficer])
  /\ UNCHANGED entry

------------------------------------------------------------------------------
(* Paying, and undoing *)

\* What will be posted is taken from the row now, whatever its status.
LoadToPay(k, p) ==
  /\ payment[p].status # "NONE"
  /\ Loaded(k, [op |-> "pay", on |-> p,
                supplier |-> payment[p].supplier, amount |-> payment[p].amount])
  /\ UNCHANGED <<payment, entry>>

LoadToReverse(k, u, p) ==
  /\ payment[p].status # "NONE" /\ u \in Approver
  /\ Loaded(k, [op |-> "reverse", on |-> p, by |-> u,
                supplier |-> payment[p].supplier, amount |-> payment[p].amount])
  /\ UNCHANGED <<payment, entry>>

\* An entry for a supplier; an expense only moves money.
Post(p, s, amount) ==
  [entry EXCEPT ![p] = [times |-> @.times + 1, supplier |-> s,
                        amount |-> IF s = NoSupplier THEN 0 ELSE amount]]

Payable(p) == payment[p].status = "APPROVED"
markPaid(k) ==
  /\ task[k].op = "pay"
  /\ LET p == task[k].on
     IN  IF Payable(p)
         THEN /\ payment' = [payment EXCEPT ![p].status = "PAID"]
              /\ entry' = Post(p, task[k].supplier, task[k].amount)
         ELSE UNCHANGED <<payment, entry>>
  /\ EndTask(k)

ReversibleAgain(p) == payment[p].status \in {"PAID", "REVERSED"}  \* mutant: undone is undoable
Reversible(p) == payment[p].status = "PAID"
\* A payment of its own, for the same amount.
Reversal(x, u) ==
  [status |-> "PAID", supplier |-> x.supplier, amount |-> x.amount, createdBy |-> u,
   submittedBy |-> NoOfficer, decidedBy |-> u, reversalOf |-> x.on]
\* Paid at once, with the entry negated.
reverse(k) ==
  /\ task[k].op = "reverse"
  /\ LET p == task[k].on
         u == task[k].by
     IN  IF Reversible(p)
         THEN \E r \in Payment :
                /\ payment[r].status = "NONE"
                /\ payment' = [payment EXCEPT ![p].status = "REVERSED",
                                              ![r] = Reversal(task[k], u)]
                /\ entry' = Post(r, task[k].supplier, -task[k].amount)
         ELSE UNCHANGED <<payment, entry>>
  /\ EndTask(k)

------------------------------------------------------------------------------
(* Specification *)

OutgoingInit ==
  /\ payment = [p \in Payment |-> Unwritten]
  /\ entry = [p \in Payment |-> NoEntry]
  /\ task = [k \in Task |-> NoTask]

LoadRow(k, u, p) ==
  \/ LoadToSubmit(k, u, p) \/ LoadToCancel(k, u, p)
  \/ \E s \in Supplier \cup {NoSupplier}, amount \in Amounts : LoadToUpdate(k, u, p, s, amount)
  \/ \E to \in {"APPROVED", "REJECTED"} : LoadToDecide(k, u, p, to)
  \/ LoadToSendBack(k, u, p)
  \/ LoadToPay(k, p) \/ LoadToReverse(k, u, p)

WriteRow(k) ==
  \/ updateDraft(k) \/ submit(k) \/ cancelOwn(k) \/ decide(k) \/ sendBack(k)
  \/ markPaid(k) \/ reverse(k)

OutgoingNext ==
  \/ \E u \in Officer, p \in Payment, s \in Supplier \cup {NoSupplier}, amount \in Amounts :
       createDraft(u, p, s, amount)
  \/ \E k \in Task, u \in Officer, p \in Payment : LoadRow(k, u, p)
  \/ \E k \in Task : WriteRow(k)

OutgoingSpec == OutgoingInit /\ [][OutgoingNext]_outgoingVars

------------------------------------------------------------------------------
(* What must hold *)

\* "the person asking for money to leave is never the person who says yes",
\* the owner and administrators apart, whatever was loaded before it was sent
\* back and submitted again by others; an undoing is one person's act.
TwoPeople ==
  \A p \in Payment :
    payment[p].status \in {"APPROVED", "PAID", "REVERSED"} /\ payment[p].reversalOf = NoPayment
    => /\ payment[p].decidedBy # NoOfficer
       /\ payment[p].decidedBy = payment[p].createdBy => payment[p].decidedBy \in SelfApprover

\* The money of a payment moves once, and not before it was approved: a double
\* tap, or two officers, have one winner (markPaid's compare-and-swap).
MoneyMovesOnce ==
  \A p \in Payment :
    entry[p].times = IF payment[p].status \in {"PAID", "REVERSED"} THEN 1 ELSE 0

\* A payment is undone once: it is reversed exactly when one payment reverses it
\* (reverse, reversalOfId).
UndoneOnce ==
  \A p \in Payment :
    Cardinality({r \in Payment : payment[r].reversalOf = p}) =
      IF payment[p].status = "REVERSED" THEN 1 ELSE 0

\* Together: money goes out once and comes back once, whoever presses what at once.
OnceOutOnceBack == MoneyMovesOnce /\ UndoneOnce

\* What was submitted is what is decided and paid: amount and supplier change in
\* a draft alone ("never a submitted amount quietly rewritten").
LockedOnceSubmitted ==
  [][\A p \in Payment :
       payment[p].status \notin {"NONE", "DRAFT"} =>
         /\ payment'[p].amount = payment[p].amount
         /\ payment'[p].supplier = payment[p].supplier]_outgoingVars

\* Together: what two people agreed on is what was submitted.
ApprovedAsSubmitted == []TwoPeople /\ LockedOnceSubmitted

------------------------------------------------------------------------------
(* What a comment says, and the code breaks *)

\* "the approver is never the submitter", judged on the row as it was loaded.
ApproverNotSubmitter ==
  \A p \in Payment :
    payment[p].status = "APPROVED" /\ payment[p].decidedBy \notin SelfApprover
    => payment[p].decidedBy # payment[p].submittedBy

\* What a supplier's account shows of a payment is what was approved.
PostedAsApproved ==
  \A p \in Payment :
    payment[p].status = "PAID" /\ payment[p].reversalOf = NoPayment /\ payment[p].supplier # NoSupplier
    => entry[p].supplier = payment[p].supplier /\ entry[p].amount = payment[p].amount

\* A reversal undoes and is not undone: undone itself, it takes the amount off
\* the supplier's account once more.
ReversalsStand == \A p \in Payment : payment[p].status = "REVERSED" => payment[p].reversalOf = NoPayment
==============================================================================
