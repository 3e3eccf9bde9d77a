---------------------------- MODULE BuyingProofs -----------------------------
(***************************************************************************)
(* A purchase order, and payments that leave the business, for every number *)
(* of lines, deliveries, requests, payments, people and calls in flight.    *)
(***************************************************************************)
EXTENDS Purchasing, Outgoing, FiniteSetTheorems, TLAPS

USE BuyersArePeople, LoadsAreSomething, OfficersAreRanked, NonesAreNone, AmountsArePositive

------------------------------------------------------------------------------
(* Payments: the invariant *)

\* A ruling was judged on who raised the payment, and that never changes.
TaskSound(k) ==
  task[k].op # "none" =>
    /\ payment[task[k].on].status # "NONE"
    /\ task[k].op = "decide" /\ task[k].by \notin SelfApprover =>
         payment[task[k].on].createdBy # task[k].by

\* What one payment says of itself.
PaymentSound(p) ==
  /\ payment[p].status = "NONE" => payment[p] = Unwritten
  /\ payment[p].status \in {"APPROVED", "PAID", "REVERSED"} /\ payment[p].reversalOf = NoPayment
       => /\ payment[p].decidedBy # NoOfficer
          /\ payment[p].decidedBy = payment[p].createdBy => payment[p].decidedBy \in SelfApprover
  /\ entry[p].times = IF payment[p].status \in {"PAID", "REVERSED"} THEN 1 ELSE 0

\* Those that undo it: one, or none.
Undoers(p) == {r \in Payment : payment[r].reversalOf = p}
Undone(p) ==
  /\ payment[p].status = "REVERSED" => \E r \in Payment : Undoers(p) = {r}
  /\ payment[p].status # "REVERSED" => Undoers(p) = {}

OutgoingInv ==
  /\ OutgoingTypeOK
  /\ \A k \in Task : TaskSound(k)
  /\ \A p \in Payment : PaymentSound(p)
  /\ \A p \in Payment : Undone(p)

LEMMA PaymentsBegin == OutgoingInit => OutgoingInv
<1> SUFFICES ASSUME OutgoingInit PROVE OutgoingInv
  OBVIOUS
<1>1. OutgoingTypeOK
  BY DEF OutgoingInit, OutgoingTypeOK, PaymentRow, Unwritten, EntryRow, NoEntry, Tasks
<1>2. \A k \in Task : TaskSound(k)
  BY DEF OutgoingInit, TaskSound, NoTask
<1>3. \A p \in Payment : PaymentSound(p)
  BY DEF OutgoingInit, PaymentSound, Unwritten, NoEntry
<1>4. \A p \in Payment : Undone(p)
  BY DEF OutgoingInit, Undone, Undoers, Unwritten
<1> QED
  BY <1>1, <1>2, <1>3, <1>4 DEF OutgoingInv

------------------------------------------------------------------------------
(* Payments: loading the row *)

\* A call is only taken on, or let go, and the rows stay.
LEMMA LoadingKeeps ==
  ASSUME OutgoingInv, UNCHANGED <<payment, entry>>,
         NEW k \in Task, NEW x \in Tasks, task' = [task EXCEPT ![k] = x],
         x.op # "none" =>
           /\ payment[x.on].status # "NONE"
           /\ x.op = "decide" /\ x.by \notin SelfApprover => payment[x.on].createdBy # x.by
  PROVE  OutgoingInv'
<1>1. OutgoingTypeOK'
  BY DEF OutgoingInv, OutgoingTypeOK
<1>2. \A j \in Task : TaskSound(j)'
  <2> SUFFICES ASSUME NEW j \in Task PROVE TaskSound(j)'
    OBVIOUS
  <2>1. CASE j = k
    BY <2>1 DEF TaskSound, OutgoingInv, OutgoingTypeOK
  <2>2. CASE j # k
    BY <2>2 DEF TaskSound, OutgoingInv, OutgoingTypeOK
  <2> QED
    BY <2>1, <2>2
<1>3. \A p \in Payment : PaymentSound(p)'
  BY DEF OutgoingInv, PaymentSound
<1>4. \A p \in Payment : Undone(p)'
  BY DEF OutgoingInv, Undone, Undoers
<1> QED
  BY <1>1, <1>2, <1>3, <1>4 DEF OutgoingInv

LEMMA LoadRowKeeps ==
  ASSUME OutgoingInv, NEW k \in Task, NEW u \in Officer, NEW p \in Payment, LoadRow(k, u, p)
  PROVE  OutgoingInv'
<1> USE DEF OutgoingInv, OutgoingTypeOK, Loaded
<1>1. CASE LoadToSubmit(k, u, p)
  <2> DEFINE x == [op |-> "submit", on |-> p, by |-> u]
  <2> x \in Tasks
    BY DEF Tasks
  <2> QED
    BY <1>1, LoadingKeeps DEF LoadToSubmit, MayHandle
<1>2. CASE LoadToCancel(k, u, p)
  <2> DEFINE x == [op |-> "cancel", on |-> p]
  <2> x \in Tasks
    BY DEF Tasks
  <2> QED
    BY <1>2, LoadingKeeps DEF LoadToCancel, MayHandle
<1>3. CASE \E s \in Supplier \cup {NoSupplier}, amount \in Amounts :
             LoadToUpdate(k, u, p, s, amount)
  <2>1. PICK s \in Supplier \cup {NoSupplier}, amount \in Amounts :
               LoadToUpdate(k, u, p, s, amount)
    BY <1>3
  <2> DEFINE x == [op |-> "update", on |-> p, supplier |-> s, amount |-> amount]
  <2> x \in Tasks
    BY DEF Tasks
  <2> QED
    BY <2>1, LoadingKeeps DEF LoadToUpdate, MayHandle
<1>4. CASE \E to \in {"APPROVED", "REJECTED"} : LoadToDecide(k, u, p, to)
  <2>1. PICK to \in {"APPROVED", "REJECTED"} : LoadToDecide(k, u, p, to)
    BY <1>4
  <2> DEFINE x == [op |-> "decide", on |-> p, by |-> u, to |-> to]
  <2> x \in Tasks
    BY DEF Tasks
  <2> QED
    BY <2>1, LoadingKeeps DEF LoadToDecide, MayRule, Raised
<1>5. CASE LoadToSendBack(k, u, p)
  <2> DEFINE x == [op |-> "sendBack", on |-> p]
  <2> x \in Tasks
    BY DEF Tasks
  <2> QED
    BY <1>5, LoadingKeeps DEF LoadToSendBack, MayRule
<1>6. CASE LoadToPay(k, p)
  <2> DEFINE x == [op |-> "pay", on |-> p,
                   supplier |-> payment[p].supplier, amount |-> payment[p].amount]
  <2> x \in Tasks
    BY DEF Tasks, PaymentRow
  <2> QED
    BY <1>6, LoadingKeeps DEF LoadToPay
<1>7. CASE LoadToReverse(k, u, p)
  <2> DEFINE x == [op |-> "reverse", on |-> p, by |-> u,
                   supplier |-> payment[p].supplier, amount |-> payment[p].amount]
  <2> x \in Tasks
    BY DEF Tasks, PaymentRow
  <2> QED
    BY <1>7, LoadingKeeps DEF LoadToReverse
<1> QED
  BY <1>1, <1>2, <1>3, <1>4, <1>5, <1>6, <1>7 DEF LoadRow

------------------------------------------------------------------------------
(* Payments: writing the row *)

\* Most writes: one row changes its status, and neither moves money nor undoes.
Becomes(old, row) ==
  /\ row \in PaymentRow
  /\ row.status \notin {"NONE", "PAID", "REVERSED"}
  /\ old.status \notin {"PAID", "REVERSED"}
  /\ row.createdBy = old.createdBy \/ old.status = "NONE"
  /\ row.reversalOf = old.reversalOf
  /\ row.status = "APPROVED" =>
       /\ row.decidedBy # NoOfficer
       /\ row.decidedBy = row.createdBy => row.decidedBy \in SelfApprover
Moves(p, row) == Becomes(payment[p], row)

LEMMA MovingKeeps ==
  ASSUME OutgoingInv, UNCHANGED entry, NEW p \in Payment, NEW row, Moves(p, row),
         payment' = [payment EXCEPT ![p] = row],
         \/ task' = task
         \/ \E k \in Task : task' = [task EXCEPT ![k] = NoTask]
  PROVE  OutgoingInv'
<1> USE DEF OutgoingInv, OutgoingTypeOK, Moves, Becomes
<1>0. NoTask \in Tasks
  BY DEF Tasks
<1>1. OutgoingTypeOK'
  BY <1>0
<1>2. \A k \in Task : TaskSound(k)'
  <2> SUFFICES ASSUME NEW k \in Task PROVE TaskSound(k)'
    OBVIOUS
  <2>1. CASE task'[k] = task[k]
    <3>1. task[k].op # "none" => task[k].on \in Payment
      BY DEF Tasks, NoTask
    <3> QED
      BY <2>1, <3>1 DEF TaskSound
  <2>2. CASE task'[k] = NoTask
    BY <2>2 DEF TaskSound, NoTask
  <2> QED
    BY <2>1, <2>2
<1>3. \A q \in Payment : PaymentSound(q)'
  <2> SUFFICES ASSUME NEW q \in Payment PROVE PaymentSound(q)'
    OBVIOUS
  <2>1. CASE q = p
    BY <2>1 DEF PaymentSound
  <2>2. CASE q # p
    BY <2>2 DEF PaymentSound
  <2> QED
    BY <2>1, <2>2
<1>4. \A q \in Payment : Undone(q)'
  <2> SUFFICES ASSUME NEW q \in Payment PROVE Undone(q)'
    OBVIOUS
  <2>1. Undoers(q)' = Undoers(q)
    BY DEF Undoers
  <2>2. payment'[q].status = "REVERSED" <=> payment[q].status = "REVERSED"
    OBVIOUS
  <2>3. Undone(q)
    OBVIOUS
  <2> QED
    BY <2>1, <2>2, <2>3 DEF Undone
<1> QED
  BY <1>1, <1>2, <1>3, <1>4

\* A call whose row has moved on ends without a trace.
LEMMA EndingKeeps ==
  ASSUME OutgoingInv, UNCHANGED <<payment, entry>>, NEW k \in Task, EndTask(k)
  PROVE  OutgoingInv'
<1>1. NoTask \in Tasks /\ NoTask.op = "none"
  BY DEF Tasks, NoTask
<1> QED
  BY <1>1, LoadingKeeps DEF EndTask

\* A write by status, of a row that moves.
LEMMA WritingKeeps ==
  ASSUME OutgoingInv, UNCHANGED entry, NEW k \in Task, NEW op, NEW froms, NEW row,
         op # "none", task[k].op = op, WriteFrom(k, op, froms, row),
         task[k].on \in Payment /\ payment[task[k].on].status \in froms => Moves(task[k].on, row)
  PROVE  OutgoingInv'
<1>1. task[k].on \in Payment
  BY DEF OutgoingInv, OutgoingTypeOK, Tasks, NoTask
<1>2. CASE payment[task[k].on].status \in froms
  BY <1>1, <1>2, MovingKeeps DEF WriteFrom, EndTask
<1>3. CASE payment[task[k].on].status \notin froms
  BY <1>3, EndingKeeps DEF WriteFrom
<1> QED
  BY <1>2, <1>3

\* What each write makes of the row it finds.
LEMMA Edited ==
  ASSUME NEW r \in PaymentRow, r.status = "DRAFT",
         NEW s \in Supplier \cup {NoSupplier}, NEW amount \in Nat
  PROVE  Becomes(r, [r EXCEPT !.supplier = s, !.amount = amount])
BY DEF Becomes, PaymentRow

LEMMA Sent ==
  ASSUME NEW r \in PaymentRow, r.status = "DRAFT", NEW u \in Officer
  PROVE  Becomes(r, [r EXCEPT !.status = "SUBMITTED", !.submittedBy = u])
BY DEF Becomes, PaymentRow

LEMMA SelfApproved ==
  ASSUME NEW r \in PaymentRow, r.status = "DRAFT", NEW u \in SelfApprover
  PROVE  Becomes(r, [[r EXCEPT !.status = "SUBMITTED", !.submittedBy = u]
                        EXCEPT !.status = "APPROVED", !.decidedBy = u])
<1>1. u \in Officer
  OBVIOUS
<1>2. [r EXCEPT !.status = "SUBMITTED", !.submittedBy = u] \in PaymentRow
  BY <1>1 DEF PaymentRow
<1> QED
  BY <1>1, <1>2 DEF Becomes, PaymentRow

LEMMA Cancelled ==
  ASSUME NEW r \in PaymentRow, r.status \in {"DRAFT", "SUBMITTED"}
  PROVE  Becomes(r, [r EXCEPT !.status = "CANCELLED"])
BY DEF Becomes, PaymentRow

LEMMA Decided ==
  ASSUME NEW r \in PaymentRow, r.status = "SUBMITTED", NEW u \in Officer,
         NEW to \in {"APPROVED", "REJECTED"}, u \notin SelfApprover => r.createdBy # u
  PROVE  Becomes(r, [r EXCEPT !.status = to, !.decidedBy = u])
BY DEF Becomes, PaymentRow

LEMMA SentBack ==
  ASSUME NEW r \in PaymentRow, r.status = "SUBMITTED"
  PROVE  Becomes(r, [r EXCEPT !.status = "DRAFT", !.submittedBy = NoOfficer])
BY DEF Becomes, PaymentRow

LEMMA Drafted ==
  ASSUME NEW s \in Supplier \cup {NoSupplier}, NEW amount \in Nat, NEW u \in Officer
  PROVE  Becomes(Unwritten, [Unwritten EXCEPT !.status = "DRAFT", !.supplier = s,
                                              !.amount = amount, !.createdBy = u])
BY DEF Becomes, PaymentRow, Unwritten

LEMMA WritesByStatusKeep ==
  ASSUME OutgoingInv, NEW k \in Task,
         updateDraft(k) \/ submit(k) \/ cancelOwn(k) \/ decide(k) \/ sendBack(k)
  PROVE  OutgoingInv'
<1> DEFINE p == task[k].on
<1>0. /\ task[k] \in Tasks
      /\ TaskSound(k)
      /\ \A q \in Payment : payment[q] \in PaymentRow
  BY DEF OutgoingInv, OutgoingTypeOK
<1>1. CASE updateDraft(k)
  <2> DEFINE row == [payment[p] EXCEPT !.supplier = task[k].supplier, !.amount = task[k].amount]
  <2>1. task[k].supplier \in Supplier \cup {NoSupplier} /\ task[k].amount \in Nat
    BY <1>0, <1>1 DEF updateDraft, WriteFrom, Tasks, NoTask
  <2>2. p \in Payment /\ payment[p].status \in {"DRAFT"} => Moves(p, row)
    BY <1>0, <2>1, Edited DEF Moves
  <2> QED
    BY <1>1, <2>2, WritingKeeps DEF updateDraft, WriteFrom, UpdatableFrom
<1>2. CASE submit(k)
  <2> DEFINE u == task[k].by
             sent == [payment[p] EXCEPT !.status = "SUBMITTED", !.submittedBy = u]
             row == IF u \in SelfApprover
                    THEN [sent EXCEPT !.status = "APPROVED", !.decidedBy = u] ELSE sent
  <2>1. u \in Officer
    BY <1>0, <1>2 DEF submit, WriteFrom, Tasks, NoTask
  <2>2. p \in Payment /\ payment[p].status \in {"DRAFT"} => Moves(p, row)
    BY <1>0, <2>1, Sent, SelfApproved DEF Moves
  <2> QED
    BY <1>2, <2>2, WritingKeeps DEF submit, WriteFrom
<1>3. CASE cancelOwn(k)
  <2> DEFINE row == [payment[p] EXCEPT !.status = "CANCELLED"]
  <2>1. p \in Payment /\ payment[p].status \in {"DRAFT", "SUBMITTED"} => Moves(p, row)
    BY <1>0, Cancelled DEF Moves
  <2> QED
    BY <1>3, <2>1, WritingKeeps DEF cancelOwn, WriteFrom
<1>4. CASE decide(k)
  <2> DEFINE row == [payment[p] EXCEPT !.status = task[k].to, !.decidedBy = task[k].by]
  <2>1. task[k].by \in Officer /\ task[k].to \in {"APPROVED", "REJECTED"}
    BY <1>0, <1>4 DEF decide, WriteFrom, Tasks, NoTask
  <2>2. task[k].by \notin SelfApprover => payment[p].createdBy # task[k].by
    BY <1>0, <1>4 DEF decide, WriteFrom, TaskSound
  <2>3. p \in Payment /\ payment[p].status \in {"SUBMITTED"} => Moves(p, row)
    BY <1>0, <2>1, <2>2, Decided DEF Moves
  <2> QED
    BY <1>4, <2>3, WritingKeeps DEF decide, WriteFrom
<1>5. CASE sendBack(k)
  <2> DEFINE row == [payment[p] EXCEPT !.status = "DRAFT", !.submittedBy = NoOfficer]
  <2>1. p \in Payment /\ payment[p].status \in {"SUBMITTED"} => Moves(p, row)
    BY <1>0, SentBack DEF Moves
  <2> QED
    BY <1>5, <2>1, WritingKeeps DEF sendBack, WriteFrom
<1> QED
  BY <1>1, <1>2, <1>3, <1>4, <1>5

LEMMA DraftKeeps ==
  ASSUME OutgoingInv, NEW u \in Officer, NEW p \in Payment,
         NEW s \in Supplier \cup {NoSupplier}, NEW amount \in Amounts, createDraft(u, p, s, amount)
  PROVE  OutgoingInv'
<1> DEFINE row == [Unwritten EXCEPT !.status = "DRAFT", !.supplier = s,
                                    !.amount = amount, !.createdBy = u]
<1>1. payment[p] = Unwritten
  BY DEF OutgoingInv, PaymentSound, createDraft
<1>2. Moves(p, row)
  BY <1>1, Drafted DEF Moves
<1> QED
  BY <1>2, MovingKeeps DEF createDraft

\* The one payment that pays: its status and its entry, in one step.
LEMMA PayingKeeps ==
  ASSUME OutgoingInv, NEW k \in Task, markPaid(k)
  PROVE  OutgoingInv'
<1> DEFINE p == task[k].on
<1>0. /\ task[k] \in Tasks
      /\ p \in Payment
      /\ task[k].supplier \in Supplier \cup {NoSupplier}
      /\ task[k].amount \in Nat
  BY DEF OutgoingInv, OutgoingTypeOK, markPaid, Tasks, NoTask
<1>1. CASE ~Payable(p)
  BY <1>1, EndingKeeps DEF markPaid
<1>2. CASE Payable(p)
  <2>0. /\ payment' = [payment EXCEPT ![p].status = "PAID"]
        /\ entry' = Post(p, task[k].supplier, task[k].amount)
        /\ task' = [task EXCEPT ![k] = NoTask]
        /\ payment[p].status = "APPROVED"
    BY <1>2 DEF markPaid, EndTask, Payable
  <2> USE DEF OutgoingInv, OutgoingTypeOK
  <2>1. OutgoingTypeOK'
    <3>1. [payment[p] EXCEPT !.status = "PAID"] \in PaymentRow
      BY <1>0 DEF PaymentRow
    <3>2. NoTask \in Tasks
      BY DEF Tasks
    <3>3. entry' \in [Payment -> EntryRow]
      BY <1>0, <2>0 DEF Post, EntryRow
    <3> QED
      BY <1>0, <2>0, <3>1, <3>2, <3>3
  <2>2. \A j \in Task : TaskSound(j)'
    <3> SUFFICES ASSUME NEW j \in Task PROVE TaskSound(j)'
      OBVIOUS
    <3>1. TaskSound(j) /\ task[j] \in Tasks
      OBVIOUS
    <3>2. task[j].op # "none" => task[j].on \in Payment
      BY <3>1 DEF Tasks, NoTask
    <3>3. \A q \in Payment : /\ payment'[q].createdBy = payment[q].createdBy
                             /\ payment[q].status # "NONE" => payment'[q].status # "NONE"
      BY <1>0, <2>0 DEF PaymentRow
    <3>4. task'[j] = task[j] \/ task'[j] = NoTask
      BY <2>0
    <3> QED
      BY <3>1, <3>2, <3>3, <3>4 DEF TaskSound, NoTask
  <2>3. \A q \in Payment : PaymentSound(q)'
    <3> SUFFICES ASSUME NEW q \in Payment PROVE PaymentSound(q)'
      OBVIOUS
    <3>1. PaymentSound(q) /\ payment[q] \in PaymentRow /\ entry[q] \in EntryRow
      OBVIOUS
    <3>2. CASE q = p
      BY <2>0, <3>1, <3>2 DEF PaymentSound, PaymentRow, EntryRow, Post
    <3>3. CASE q # p
      <4>1. payment'[q] = payment[q] /\ entry'[q] = entry[q]
        BY <2>0, <3>3 DEF Post
      <4> QED
        BY <3>1, <4>1 DEF PaymentSound
    <3> QED
      BY <3>2, <3>3
  <2>4. \A q \in Payment : Undone(q)'
    <3> SUFFICES ASSUME NEW q \in Payment PROVE Undone(q)'
      OBVIOUS
    <3>1. \A r \in Payment : payment'[r].reversalOf = payment[r].reversalOf
      BY <1>0, <2>0 DEF PaymentRow
    <3>2. Undoers(q)' = Undoers(q)
      BY <3>1 DEF Undoers
    <3>3. payment'[q].status = "REVERSED" <=> payment[q].status = "REVERSED"
      BY <1>0, <2>0 DEF PaymentRow
    <3>4. Undone(q)
      OBVIOUS
    <3> QED
      BY <3>2, <3>3, <3>4 DEF Undone
  <2> QED
    BY <2>1, <2>2, <2>3, <2>4
<1> QED
  BY <1>1, <1>2

\* Of the payment that undoes, and the one it undoes.
LEMMA UndoingKeeps ==
  ASSUME OutgoingInv, NEW k \in Task, reverse(k)
  PROVE  OutgoingInv'
<1> DEFINE p == task[k].on
           u == task[k].by
<1>0. /\ p \in Payment /\ u \in Officer
      /\ task[k].supplier \in Supplier \cup {NoSupplier}
      /\ task[k].amount \in Nat
  <2>1. task[k] \in Tasks /\ task[k].op = "reverse"
    BY DEF OutgoingInv, OutgoingTypeOK, reverse
  <2> QED
    BY <2>1 DEF Tasks, NoTask
<1>1. CASE ~Reversible(p)
  BY <1>1, EndingKeeps DEF reverse
<1>2. CASE Reversible(p)
  <2>1. PICK r \in Payment :
          /\ payment[r].status = "NONE"
          /\ payment' = [payment EXCEPT ![p].status = "REVERSED", ![r] = Reversal(task[k], u)]
          /\ entry' = Post(r, task[k].supplier, -task[k].amount)
    BY <1>2 DEF reverse
  <2> DEFINE new == Reversal(task[k], u)
  <2>2. /\ new \in PaymentRow
        /\ new.status = "PAID" /\ new.reversalOf = p
    BY <1>0 DEF Reversal, PaymentRow
  <2>3. /\ payment[p].status = "PAID" /\ p # r
        /\ task' = [task EXCEPT ![k] = NoTask]
    BY <1>2, <2>1 DEF reverse, EndTask, Reversible
  <2>0. /\ payment \in [Payment -> PaymentRow] /\ entry \in [Payment -> EntryRow]
        /\ task \in [Task -> Tasks]
        /\ \A j \in Task : TaskSound(j)
        /\ \A q \in Payment : PaymentSound(q) /\ Undone(q)
    BY DEF OutgoingInv, OutgoingTypeOK
  <2> HIDE DEF new
  <2>4. /\ payment'[r] = new
        /\ payment'[p] = [payment[p] EXCEPT !.status = "REVERSED"]
        /\ \A q \in Payment : q # p /\ q # r => payment'[q] = payment[q]
    BY <1>0, <2>0, <2>1, <2>3 DEF new
  <2>5. payment[r].reversalOf = NoPayment /\ entry[r].times = 0
    BY <2>0, <2>1 DEF PaymentSound, Unwritten
  <2>6. OutgoingTypeOK'
    <3>1. payment' \in [Payment -> PaymentRow]
      <4>1. [payment[p] EXCEPT !.status = "REVERSED"] \in PaymentRow
        BY <1>0, <2>0 DEF PaymentRow
      <4> QED
        BY <1>0, <2>0, <2>1, <2>2, <4>1 DEF new
    <3>2. NoTask \in Tasks
      BY DEF Tasks
    <3>3. entry' \in [Payment -> EntryRow]
      BY <1>0, <2>0, <2>1 DEF Post, EntryRow
    <3> QED
      BY <2>0, <2>3, <3>1, <3>2, <3>3 DEF OutgoingTypeOK
  <2>7. \A j \in Task : TaskSound(j)'
    <3> SUFFICES ASSUME NEW j \in Task PROVE TaskSound(j)'
      OBVIOUS
    <3>1. TaskSound(j) /\ task[j] \in Tasks
      BY <2>0
    <3>2. task[j].op # "none" => task[j].on \in Payment
      BY <3>1 DEF Tasks, NoTask
    <3>3. \A q \in Payment : payment[q].status # "NONE" =>
             payment'[q].createdBy = payment[q].createdBy /\ payment'[q].status # "NONE"
      BY <1>0, <2>0, <2>1, <2>4 DEF PaymentRow
    <3>4. task'[j] = task[j] \/ task'[j] = NoTask
      BY <2>0, <2>3
    <3> QED
      BY <3>1, <3>2, <3>3, <3>4 DEF TaskSound, NoTask
  <2>8. \A q \in Payment : PaymentSound(q)'
    <3> SUFFICES ASSUME NEW q \in Payment PROVE PaymentSound(q)'
      OBVIOUS
    <3>1. PaymentSound(q) /\ payment[q] \in PaymentRow /\ entry[q] \in EntryRow
      BY <2>0
    <3>2. CASE q = r
      <4>1. entry'[r].times = 1
        BY <2>0, <2>1, <2>5 DEF Post, EntryRow
      <4> QED
        BY <1>0, <2>2, <2>4, <3>2, <4>1 DEF PaymentSound
    <3>3. CASE q = p
      <4>1. entry'[q] = entry[q]
        BY <2>0, <2>1, <2>3, <3>3 DEF Post
      <4> QED
        BY <2>3, <2>4, <3>1, <3>3, <4>1 DEF PaymentSound, PaymentRow
    <3>4. CASE q # r /\ q # p
      <4>1. entry'[q] = entry[q]
        BY <2>0, <2>1, <3>4 DEF Post
      <4> QED
        BY <2>4, <3>1, <3>4, <4>1 DEF PaymentSound
    <3> QED
      BY <3>2, <3>3, <3>4
  <2>9. \A q \in Payment : Undone(q)'
    <3> SUFFICES ASSUME NEW q \in Payment PROVE Undone(q)'
      OBVIOUS
    <3>1. Undone(q)
      BY <2>0
    <3>2. payment'[p].reversalOf = payment[p].reversalOf
      BY <1>0, <2>0, <2>4 DEF PaymentRow
    <3>3. Undoers(q)' = IF q = p THEN Undoers(p) \cup {r} ELSE Undoers(q)
      BY <1>0, <2>2, <2>3, <2>4, <2>5, <3>2 DEF Undoers
    <3>4. CASE q = p
      <4>1. Undoers(p) = {}
        BY <2>3, <3>1, <3>4 DEF Undone
      <4>2. payment'[p].status = "REVERSED"
        BY <1>0, <2>0, <2>4 DEF PaymentRow
      <4> QED
        BY <3>3, <3>4, <4>1, <4>2 DEF Undone
    <3>5. CASE q # p
      <4>1. payment'[q].status = "REVERSED" <=> payment[q].status = "REVERSED"
        BY <2>1, <2>2, <2>4, <3>5
      <4> QED
        BY <3>1, <3>3, <3>5, <4>1 DEF Undone
    <3> QED
      BY <3>4, <3>5
  <2> QED
    BY <2>6, <2>7, <2>8, <2>9 DEF OutgoingInv
<1> QED
  BY <1>1, <1>2

LEMMA PaymentsKeep == OutgoingInv /\ [OutgoingNext]_outgoingVars => OutgoingInv'
<1> SUFFICES ASSUME OutgoingInv, [OutgoingNext]_outgoingVars PROVE OutgoingInv'
  OBVIOUS
<1>1. ASSUME NEW u \in Officer, NEW p \in Payment, NEW s \in Supplier \cup {NoSupplier},
             NEW amount \in Amounts, createDraft(u, p, s, amount)
      PROVE  OutgoingInv'
  BY <1>1, DraftKeeps
<1>2. ASSUME NEW k \in Task, NEW u \in Officer, NEW p \in Payment, LoadRow(k, u, p)
      PROVE  OutgoingInv'
  BY <1>2, LoadRowKeeps
<1>3. ASSUME NEW k \in Task, WriteRow(k)
      PROVE  OutgoingInv'
  BY <1>3, WritesByStatusKeep, PayingKeeps, UndoingKeeps DEF WriteRow
<1>4. CASE UNCHANGED outgoingVars
  BY <1>4 DEF outgoingVars, OutgoingInv, OutgoingTypeOK, TaskSound, PaymentSound, Undone, Undoers
<1> QED
  BY <1>1, <1>2, <1>3, <1>4 DEF OutgoingNext

------------------------------------------------------------------------------
(* Payments: the theorems *)

\* The invariant of the payments: types, what a call relies on, and who undoes whom.
THEOREM OutgoingInvariant == OutgoingSpec => []OutgoingInv
BY PaymentsBegin, PaymentsKeep, PTL DEF OutgoingSpec

\* Every payment, entry and call stays of its type.
THEOREM OutgoingTyped == OutgoingSpec => []OutgoingTypeOK
<1>1. OutgoingInv => OutgoingTypeOK
  BY DEF OutgoingInv
<1> QED
  BY OutgoingInvariant, <1>1, PTL

\* Nobody but the owner and administrators approves what they raised.
THEOREM NeverOnesOwn == OutgoingSpec => []TwoPeople
<1>1. OutgoingInv => TwoPeople
  BY DEF OutgoingInv, PaymentSound, TwoPeople
<1> QED
  BY OutgoingInvariant, <1>1, PTL

\* The money of a payment moves once, however many mark it paid or undo it.
THEOREM PaidOnceOnly == OutgoingSpec => []MoneyMovesOnce
<1>1. OutgoingInv => MoneyMovesOnce
  BY DEF OutgoingInv, PaymentSound, MoneyMovesOnce
<1> QED
  BY OutgoingInvariant, <1>1, PTL

\* A payment is undone by one payment, and by one only.
THEOREM UndoneByOne == OutgoingSpec => []UndoneOnce
<1>1. OutgoingInv => UndoneOnce
  <2> SUFFICES ASSUME OutgoingInv, NEW p \in Payment
               PROVE  Cardinality(Undoers(p)) = IF payment[p].status = "REVERSED" THEN 1 ELSE 0
    BY DEF UndoneOnce, Undoers
  <2>1. Undone(p)
    BY DEF OutgoingInv
  <2>2. CASE payment[p].status = "REVERSED"
    BY <2>1, <2>2, FS_Singleton DEF Undone
  <2>3. CASE payment[p].status # "REVERSED"
    BY <2>1, <2>3, FS_EmptySet DEF Undone
  <2> QED
    BY <2>2, <2>3
<1> QED
  BY OutgoingInvariant, <1>1, PTL

\* Money goes out once and comes back once.
THEOREM OutAndBackOnce == OutgoingSpec => []OnceOutOnceBack
<1>1. MoneyMovesOnce /\ UndoneOnce => OnceOutOnceBack
  BY DEF OnceOutOnceBack
<1> QED
  BY <1>1, PaidOnceOnly, UndoneByOne, PTL

\* What was submitted keeps its amount and its supplier.
THEOREM SubmittedIsLocked == OutgoingSpec => LockedOnceSubmitted
<1> DEFINE Locked == \A p \in Payment :
             payment[p].status \notin {"NONE", "DRAFT"} =>
               /\ payment'[p].amount = payment[p].amount
               /\ payment'[p].supplier = payment[p].supplier
<1>1. OutgoingInv /\ [OutgoingNext]_outgoingVars => [Locked]_outgoingVars
  <2> SUFFICES ASSUME OutgoingInv, [OutgoingNext]_outgoingVars,
                      NEW p \in Payment, payment[p].status \notin {"NONE", "DRAFT"}
               PROVE  /\ payment'[p].amount = payment[p].amount
                      /\ payment'[p].supplier = payment[p].supplier
    OBVIOUS
  <2>0. payment \in [Payment -> PaymentRow]
    BY DEF OutgoingInv, OutgoingTypeOK
  <2>1. CASE payment' = payment
    BY <2>1
  <2>2. ASSUME NEW u \in Officer, NEW q \in Payment, NEW s \in Supplier \cup {NoSupplier},
               NEW amount \in Amounts, createDraft(u, q, s, amount)
        PROVE  payment'[p] = payment[p]
    BY <2>0, <2>2 DEF createDraft
  <2>3. ASSUME NEW k \in Task, updateDraft(k)
        PROVE  payment'[p] = payment[p]
    BY <2>0, <2>3 DEF updateDraft, UpdatableFrom, WriteFrom
  <2>4. ASSUME NEW k \in Task, submit(k)
        PROVE  payment'[p] = payment[p]
    BY <2>0, <2>4 DEF submit, WriteFrom
  <2>5. ASSUME NEW k \in Task, cancelOwn(k) \/ decide(k) \/ sendBack(k) \/ markPaid(k)
        PROVE  /\ payment'[p].amount = payment[p].amount
               /\ payment'[p].supplier = payment[p].supplier
    <3>1. CASE cancelOwn(k)
      BY <2>0, <3>1 DEF cancelOwn, WriteFrom, PaymentRow
    <3>2. CASE decide(k)
      BY <2>0, <3>2 DEF decide, WriteFrom, PaymentRow
    <3>3. CASE sendBack(k)
      BY <2>0, <3>3 DEF sendBack, WriteFrom, PaymentRow
    <3>4. CASE markPaid(k)
      BY <2>0, <3>4 DEF markPaid, PaymentRow
    <3> QED
      BY <2>5, <3>1, <3>2, <3>3, <3>4
  <2>6. ASSUME NEW k \in Task, reverse(k)
        PROVE  /\ payment'[p].amount = payment[p].amount
               /\ payment'[p].supplier = payment[p].supplier
    BY <2>0, <2>6 DEF reverse, PaymentRow
  <2>7. ASSUME NEW k \in Task, NEW u \in Officer, NEW q \in Payment, LoadRow(k, u, q)
        PROVE  payment' = payment
    BY <2>7 DEF LoadRow, LoadToSubmit, LoadToCancel, LoadToUpdate, LoadToDecide,
                LoadToSendBack, LoadToPay, LoadToReverse
  <2> QED
    BY <2>1, <2>2, <2>3, <2>4, <2>5, <2>6, <2>7 DEF OutgoingNext, WriteRow, outgoingVars
<1> QED
  BY OutgoingInvariant, <1>1, PTL DEF OutgoingSpec, LockedOnceSubmitted

\* What two people agreed on is what was submitted.
THEOREM AgreedAsSubmitted == OutgoingSpec => ApprovedAsSubmitted
BY NeverOnesOwn, SubmittedIsLocked, PTL DEF ApprovedAsSubmitted

------------------------------------------------------------------------------
(* Orders: the invariant *)

\* A claimed request is still open, and claimed by one.
Holds(e) == errand[e].op = "decide" /\ errand[e].at = "claimed"

\* What a call was judged on, and relies on: an order that can be placed, closed
\* or delivered has been approved, and stays so.
ErrandSound(e) ==
  /\ \/ errand[e].op = "receive"
     \/ errand[e].op = "set" /\ errand[e].at = "judged" /\ errand[e].to \in {"ORDERED", "CLOSED"}
     => purchase.approvedBy # Nobody
  /\ Holds(e) => approval[errand[e].on].status = "PENDING"

OneHolder == \A e, f \in Errand : Holds(e) /\ Holds(f) /\ e # f => errand[e].on # errand[f].on

Reviewed(status) ==
  status \in {"APPROVED", "ORDERED", "PARTIALLY_RECEIVED", "RECEIVED", "CLOSED"}

\* The order and its lines; the deliveries.
OrderSound ==
  /\ Reviewed(purchase.status) => purchase.approvedBy # Nobody
  /\ \A d \in Delivery : receipt[d].booked => purchase.approvedBy # Nobody
  /\ DeliveredOnce
  /\ NeverOverReceived

PurchasingInv ==
  /\ PurchasingTypeOK
  /\ OrderSound
  /\ \A e \in Errand : ErrandSound(e)
  /\ OneHolder

LEMMA OrdersBegin == PurchasingInit => PurchasingInv
<1> SUFFICES ASSUME PurchasingInit PROVE PurchasingInv
  OBVIOUS
<1>1. PurchasingTypeOK
  BY DEF PurchasingInit, PurchasingTypeOK, PurchaseRow, Status, ItemRow, Unordered,
         ApprovalRow, ReceiptRow, Errands
<1>2. OrderSound
  BY DEF PurchasingInit, OrderSound, Reviewed, DeliveredOnce, NeverOverReceived, Handled, Unordered
<1>3. (\A e \in Errand : ErrandSound(e)) /\ OneHolder
  BY DEF PurchasingInit, ErrandSound, OneHolder, Holds, NoErrand
<1> QED
  BY <1>1, <1>2, <1>3 DEF PurchasingInv

------------------------------------------------------------------------------
(* Orders: the lines *)

LEMMA LinesReplaced ==
  ASSUME PurchasingInv, NEW quantity \in NewLines, Replace(quantity)
  PROVE  /\ item' \in [Item -> ItemRow]
         /\ NeverOverReceived'
<1>1. PICK I \in SUBSET Item : quantity \in [I -> 1..MaxOrdered]
  BY DEF NewLines
<1>2. item \in [Item -> ItemRow] /\ NeverOverReceived
  BY DEF PurchasingInv, PurchasingTypeOK, OrderSound
<1> SUFFICES ASSUME NEW i \in Item
             PROVE  /\ item'[i] \in ItemRow
                    /\ item'[i].received + item'[i].rejected <= item'[i].quantity
                    /\ item' = [j \in Item |-> item'[j]]
  BY DEF Replace, NeverOverReceived, Handled
<1>3. item' = [j \in Item |-> item'[j]]
  BY DEF Replace
<1>4. CASE i \in I
  <2>1. quantity[i] \in Nat
    BY <1>1, <1>4
  <2>2. item'[i] = [state |-> "live", quantity |-> quantity[i], received |-> 0, rejected |-> 0]
    BY <1>1, <1>4 DEF Replace, Unordered
  <2> QED
    BY <1>3, <2>1, <2>2 DEF ItemRow
<1>5. CASE i \notin I /\ i \in Live
  <2>1. item'[i] = [state |-> "deleted", quantity |-> 0, received |-> 0, rejected |-> 0]
    BY <1>1, <1>5 DEF Replace, Deleted, Unordered
  <2> QED
    BY <1>3, <2>1 DEF ItemRow
<1>6. CASE i \notin I /\ i \notin Live
  <2>1. item'[i] = item[i]
    BY <1>1, <1>6 DEF Replace
  <2> QED
    BY <1>2, <1>3, <2>1 DEF NeverOverReceived, Handled
<1> QED
  BY <1>4, <1>5, <1>6

------------------------------------------------------------------------------
(* Orders: each step *)

\* A call goes on, or one is taken up, and no row changes.
LEMMA JudgingKeeps ==
  ASSUME PurchasingInv, UNCHANGED <<purchase, item, approval, receipt>>,
         NEW e \in Errand, NEW x \in Errands, errand' = [errand EXCEPT ![e] = x],
         \/ x.op = "receive"
         \/ x.op = "set" /\ x.at = "judged" /\ x.to \in {"ORDERED", "CLOSED"}
         => purchase.approvedBy # Nobody,
         x.op = "decide" /\ x.at = "claimed" =>
           approval[x.on].status = "PENDING" /\ ~Claimed(x.on)
  PROVE  PurchasingInv'
<1>1. PurchasingTypeOK'
  BY DEF PurchasingInv, PurchasingTypeOK
<1>2. OrderSound'
  BY DEF PurchasingInv, OrderSound, DeliveredOnce, NeverOverReceived, Handled
<1>3. errand \in [Errand -> Errands]
  BY DEF PurchasingInv, PurchasingTypeOK
<1>4. \A f \in Errand : ErrandSound(f)'
  <2> SUFFICES ASSUME NEW f \in Errand PROVE ErrandSound(f)'
    OBVIOUS
  <2>1. CASE f = e
    BY <1>3, <2>1 DEF ErrandSound, Holds
  <2>2. CASE f # e
    BY <1>3, <2>2 DEF ErrandSound, Holds, PurchasingInv
  <2> QED
    BY <2>1, <2>2
<1>5. OneHolder'
  BY <1>3 DEF PurchasingInv, OneHolder, Holds, Claimed
<1> QED
  BY <1>1, <1>2, <1>4, <1>5 DEF PurchasingInv

\* A call that asks nothing more of the order.
Quiet(x) ==
  /\ x.op \notin {"receive", "decide"}
  /\ ~(x.op = "set" /\ x.at = "judged")

\* Rows change, and the call that changed them goes on quietly: an approval is
\* not taken back, and a request is closed by who holds it, or nobody holds it.
LEMMA ChangingKeeps ==
  ASSUME PurchasingInv, UNCHANGED receipt,
         purchase' \in PurchaseRow, item' \in [Item -> ItemRow], NeverOverReceived',
         approval' \in [Approval -> ApprovalRow],
         purchase.approvedBy # Nobody => purchase'.approvedBy # Nobody,
         Reviewed(purchase'.status) => purchase'.approvedBy # Nobody,
         errand' \in [Errand -> Errands],
         \A f \in Errand : errand'[f] = errand[f] \/ Quiet(errand'[f]),
         \A a \in Approval : approval[a].status = "PENDING" =>
           \/ approval'[a].status = "PENDING"
           \/ \A f \in Errand : Holds(f) /\ errand[f].on = a => Quiet(errand'[f])
  PROVE  PurchasingInv'
<1>1. PurchasingTypeOK'
  BY DEF PurchasingInv, PurchasingTypeOK
<1>2. OrderSound'
  BY DEF PurchasingInv, OrderSound, DeliveredOnce, Reviewed
<1>3. errand \in [Errand -> Errands]
  BY DEF PurchasingInv, PurchasingTypeOK
<1>4. \A f \in Errand : ErrandSound(f)'
  <2> SUFFICES ASSUME NEW f \in Errand PROVE ErrandSound(f)'
    OBVIOUS
  <2>1. CASE Quiet(errand'[f])
    BY <2>1 DEF Quiet, ErrandSound, Holds
  <2>2. CASE errand'[f] = errand[f] /\ ~Quiet(errand'[f])
    <3>1. Holds(f) => errand[f].on \in Approval
      BY <1>3 DEF Holds, Errands, NoErrand
    <3>2. ErrandSound(f)
      BY DEF PurchasingInv
    <3> QED
      BY <2>2, <3>1, <3>2 DEF ErrandSound, Holds
  <2> QED
    BY <2>1, <2>2
<1>5. OneHolder'
  BY DEF PurchasingInv, OneHolder, Holds, Quiet
<1> QED
  BY <1>1, <1>2, <1>4, <1>5 DEF PurchasingInv

LEMMA RaisingKeeps ==
  ASSUME PurchasingInv, NEW u \in Buyer, createPurchaseOrder(u)
  PROVE  PurchasingInv'
<1>0. PurchasingTypeOK /\ OrderSound
  BY DEF PurchasingInv
<1>1. purchase' \in PurchaseRow /\ purchase'.status = "DRAFT"
      /\ purchase'.approvedBy = purchase.approvedBy
  BY <1>0 DEF PurchasingTypeOK, PurchaseRow, Status, createPurchaseOrder
<1>2. item' \in [Item -> ItemRow] /\ NeverOverReceived'
  BY LinesReplaced DEF createPurchaseOrder
<1>3. UNCHANGED <<approval, receipt, errand>>
  BY DEF createPurchaseOrder
<1> QED
  BY <1>0, <1>1, <1>2, <1>3, ChangingKeeps DEF PurchasingTypeOK, Reviewed

LEMMA EditingKeeps ==
  ASSUME PurchasingInv, NEW e \in Errand, updatePurchaseOrder(e)
  PROVE  PurchasingInv'
<1>0. PurchasingTypeOK /\ OrderSound
  BY DEF PurchasingInv
<1>1. item' \in [Item -> ItemRow] /\ NeverOverReceived'
  BY LinesReplaced DEF updatePurchaseOrder
<1>2. UNCHANGED <<purchase, approval, receipt>>
  BY DEF updatePurchaseOrder
<1>3. /\ errand' \in [Errand -> Errands]
      /\ \A f \in Errand : errand'[f] = errand[f] \/ errand'[f] = NoErrand
  BY <1>0 DEF updatePurchaseOrder, Finish, PurchasingTypeOK, Errands
<1>4. Quiet(NoErrand)
  BY DEF Quiet, NoErrand
<1> QED
  BY <1>0, <1>1, <1>2, <1>3, <1>4, ChangingKeeps DEF PurchasingTypeOK, OrderSound

\* A status written is one that was judged to be allowed.
LEMMA WritingStatusKeeps ==
  ASSUME PurchasingInv, NEW e \in Errand, WriteStatus(e)
  PROVE  PurchasingInv'
<1>0. PurchasingTypeOK /\ OrderSound /\ ErrandSound(e)
  BY DEF PurchasingInv
<1> DEFINE x == errand[e]
<1>1. /\ x \in Errands /\ x.op = "set" /\ x.at = "judged"
      /\ x.by \in Buyer /\ x.to \in Decision \cup OwnMove
  BY <1>0 DEF WriteStatus, PurchasingTypeOK, Errands, NoErrand
<1>2. /\ purchase' \in PurchaseRow /\ purchase'.status = x.to
      /\ purchase'.approvedBy = IF x.to = "APPROVED" THEN x.by ELSE purchase.approvedBy
  BY <1>0, <1>1 DEF WriteStatus, Become, PurchasingTypeOK, PurchaseRow, Status, Decision, OwnMove
<1>3. x.by # Nobody
  BY <1>1
<1>4. Reviewed(x.to) => purchase'.approvedBy # Nobody
  BY <1>0, <1>1, <1>2, <1>3 DEF Reviewed, ErrandSound, Decision, OwnMove
<1>5. /\ errand' \in [Errand -> Errands]
      /\ \A f \in Errand : errand'[f] = errand[f] \/ Quiet(errand'[f])
  <2>1. [x EXCEPT !.at = "written"] \in Errands /\ NoErrand \in Errands
    BY <1>1 DEF Errands, NoErrand
  <2>2. Quiet([x EXCEPT !.at = "written"]) /\ Quiet(NoErrand)
    BY <1>1 DEF Quiet, NoErrand, Errands
  <2>3. errand' = [errand EXCEPT ![e] = [x EXCEPT !.at = "written"]]
        \/ errand' = [errand EXCEPT ![e] = NoErrand]
    BY <1>0 DEF WriteStatus, At, Finish, PurchasingTypeOK
  <2> QED
    BY <1>0, <2>1, <2>2, <2>3 DEF PurchasingTypeOK
<1>6. UNCHANGED <<item, approval, receipt>> /\ NeverOverReceived'
  BY <1>0 DEF WriteStatus, OrderSound, NeverOverReceived, Handled
<1> QED
  BY <1>0, <1>2, <1>3, <1>4, <1>5, <1>6, ChangingKeeps DEF PurchasingTypeOK

LEMMA AskingKeeps ==
  ASSUME PurchasingInv, NEW e \in Errand, requestApproval(e) \/ WithdrawRequests(e)
  PROVE  PurchasingInv'
<1>0. PurchasingTypeOK /\ OrderSound
  BY DEF PurchasingInv
<1>1. /\ errand' \in [Errand -> Errands]
      /\ \A f \in Errand : errand'[f] = errand[f] \/ errand'[f] = NoErrand
  BY <1>0 DEF requestApproval, WithdrawRequests, Finish, PurchasingTypeOK, Errands
<1>2. Quiet(NoErrand)
  BY DEF Quiet, NoErrand
<1>3. UNCHANGED <<purchase, item, receipt>> /\ NeverOverReceived'
  BY <1>0 DEF requestApproval, WithdrawRequests, OrderSound, NeverOverReceived, Handled
<1>4. CASE requestApproval(e)
  <2>1. errand[e].by \in Buyer
    BY <1>0, <1>4 DEF requestApproval, PurchasingTypeOK, Errands, NoErrand
  <2>2. /\ approval' \in [Approval -> ApprovalRow]
        /\ \A a \in Approval : approval[a].status = "PENDING" => approval'[a].status = "PENDING"
    BY <1>0, <1>4, <2>1 DEF requestApproval, PurchasingTypeOK, ApprovalRow
  <2> QED
    BY <1>0, <1>1, <1>2, <1>3, <2>2, ChangingKeeps DEF PurchasingTypeOK, OrderSound
<1>5. CASE WithdrawRequests(e)
  <2>1. approval' \in [Approval -> ApprovalRow]
    <3>1. \A a \in Approval : [approval[a] EXCEPT !.status = "WITHDRAWN"] \in ApprovalRow
      BY <1>0 DEF PurchasingTypeOK, ApprovalRow
    <3>2. approval \in [Approval -> ApprovalRow]
      BY <1>0 DEF PurchasingTypeOK
    <3> QED
      BY <1>5, <3>1, <3>2 DEF WithdrawRequests
  <2>2. \A a \in Approval : approval[a].status = "PENDING" =>
          \A f \in Errand : ~(Holds(f) /\ errand[f].on = a)
    BY <1>5 DEF WithdrawRequests, Pending, Claimed, Holds
  <2> QED
    BY <1>0, <1>1, <1>2, <1>3, <2>1, <2>2, ChangingKeeps DEF PurchasingTypeOK, OrderSound
<1> QED
  BY <1>4, <1>5

LEMMA WithdrawingKeeps ==
  ASSUME PurchasingInv, NEW u \in Buyer, NEW a \in Approval, withdrawApproval(u, a)
  PROVE  PurchasingInv'
<1>0. PurchasingTypeOK /\ OrderSound
  BY DEF PurchasingInv
<1>1. /\ approval' \in [Approval -> ApprovalRow]
      /\ \A b \in Approval : b # a => approval'[b] = approval[b]
  BY <1>0 DEF withdrawApproval, PurchasingTypeOK, ApprovalRow
<1>2. \A f \in Errand : ~(Holds(f) /\ errand[f].on = a)
  BY DEF withdrawApproval, Claimed, Holds
<1>3. UNCHANGED <<purchase, item, receipt, errand>> /\ NeverOverReceived'
  BY <1>0 DEF withdrawApproval, OrderSound, NeverOverReceived, Handled
<1> QED
  BY <1>0, <1>1, <1>2, <1>3, ChangingKeeps DEF PurchasingTypeOK, OrderSound

\* A ruling, and what becomes of the order.
LEMMA RulingKeeps ==
  ASSUME PurchasingInv, NEW e \in Errand, decideApproval(e)
  PROVE  PurchasingInv'
<1>0. PurchasingTypeOK /\ OrderSound /\ OneHolder
  BY DEF PurchasingInv
<1> DEFINE x == errand[e]
<1>1. /\ x \in Errands /\ x.op = "decide" /\ x.at = "claimed"
      /\ x.by \in Buyer /\ x.to \in Decision /\ x.on \in Approval
  BY <1>0 DEF decideApproval, PurchasingTypeOK, Errands, NoErrand
<1>2. /\ purchase' \in PurchaseRow /\ purchase'.status = x.to
      /\ purchase'.approvedBy = IF x.to = "APPROVED" THEN x.by ELSE purchase.approvedBy
  BY <1>0, <1>1 DEF decideApproval, Become, PurchasingTypeOK, PurchaseRow, Status, Decision
<1>3. x.by # Nobody
  BY <1>1
<1>4. Reviewed(x.to) => purchase'.approvedBy # Nobody
  BY <1>1, <1>2, <1>3 DEF Reviewed, Decision
<1>5. /\ errand' = [errand EXCEPT ![e] = NoErrand]
      /\ errand' \in [Errand -> Errands]
  BY <1>0 DEF decideApproval, Finish, PurchasingTypeOK, Errands
<1>6. Quiet(NoErrand)
  BY DEF Quiet, NoErrand
<1>7. /\ approval' \in [Approval -> ApprovalRow]
      /\ \A a \in Approval : a # x.on => approval'[a] = approval[a]
  BY <1>0, <1>1 DEF decideApproval, PurchasingTypeOK, ApprovalRow
<1>8. \A f \in Errand : Holds(f) /\ errand[f].on = x.on => f = e
  BY <1>0, <1>1 DEF OneHolder, Holds
<1>9. UNCHANGED <<item, receipt>> /\ NeverOverReceived'
  BY <1>0 DEF decideApproval, OrderSound, NeverOverReceived, Handled
<1>10. \A f \in Errand : errand'[f] = errand[f] \/ Quiet(errand'[f])
  BY <1>0, <1>5, <1>6 DEF PurchasingTypeOK
<1>11. Quiet(errand'[e])
  BY <1>0, <1>5, <1>6 DEF PurchasingTypeOK
<1> QED
  BY <1>0, <1>2, <1>3, <1>4, <1>5, <1>7, <1>8, <1>9, <1>10, <1>11, ChangingKeeps
  DEF PurchasingTypeOK

LEMMA MoreOnTheLine ==
  ASSUME NEW r \in ItemRow, NEW a \in Nat, NEW b \in Nat
  PROVE  [r EXCEPT !.received = @ + a, !.rejected = @ + b] \in ItemRow
<1>1. /\ r.state \in {"unused", "live", "deleted"} /\ r.quantity \in Nat
      /\ r.received + a \in Nat /\ r.rejected + b \in Nat
      /\ r = [state |-> r.state, quantity |-> r.quantity,
              received |-> r.received, rejected |-> r.rejected]
  BY DEF ItemRow
<1> QED
  BY <1>1 DEF ItemRow

\* Goods come in under the order's lock, once for each delivery, and fit.
LEMMA ReceivingKeeps ==
  ASSUME PurchasingInv, NEW e \in Errand, receiveGoods(e)
  PROVE  PurchasingInv'
<1> DEFINE i == errand[e].item
           d == errand[e].delivery
           l == Load[d]
           status == IF \A x \in Live : item'[x].received + item'[x].rejected >= item[x].quantity
                     THEN "RECEIVED" ELSE "PARTIALLY_RECEIVED"
<1>0. /\ purchase \in PurchaseRow /\ item \in [Item -> ItemRow]
      /\ approval \in [Approval -> ApprovalRow]
      /\ receipt \in [Delivery -> ReceiptRow] /\ errand \in [Errand -> Errands]
      /\ OrderSound /\ OneHolder
      /\ \A f \in Errand : ErrandSound(f)
  BY DEF PurchasingInv, PurchasingTypeOK
<1>1. i \in Item /\ d \in Delivery /\ errand[e].op = "receive"
  BY <1>0 DEF receiveGoods, Errands, NoErrand
<1>2. l.accepted \in Nat /\ l.rejected \in Nat
  BY <1>1
<1>3. purchase.approvedBy # Nobody
  BY <1>0, <1>1 DEF ErrandSound
<1>4. /\ errand' = [errand EXCEPT ![e] = NoErrand]
      /\ NoErrand \in Errands /\ Quiet(NoErrand)
      /\ UNCHANGED approval
  BY DEF receiveGoods, Finish, Errands, Quiet, NoErrand
<1>5. CASE ~AlreadyBooked(d) /\ Fits(i, l)
  <2>0. /\ receipt' = [receipt EXCEPT
             ![d] = [booked |-> TRUE, stocked |-> @.stocked + l.accepted]]
        /\ item' = [item EXCEPT ![i].received = @ + l.accepted,
                                ![i].rejected = Refused(@, l.rejected)]
        /\ purchase' = [purchase EXCEPT !.status = status]
    BY <1>5 DEF receiveGoods
  <2>1. /\ item[i].received + item[i].rejected + l.accepted + l.rejected <= item[i].quantity
        /\ receipt[d].booked = FALSE
    BY <1>0, <1>1, <1>5 DEF Fits, Handled, AlreadyBooked, ReceiptRow
  <2>2. /\ item'[i].received = item[i].received + l.accepted
        /\ item'[i].rejected = item[i].rejected + l.rejected
        /\ item'[i].quantity = item[i].quantity
        /\ item'[i].state = item[i].state
    BY <1>0, <1>1, <2>0 DEF ItemRow, Refused
  <2>3. item' \in [Item -> ItemRow]
    <3> DEFINE row == [item[i] EXCEPT !.received = @ + l.accepted,
                                      !.rejected = Refused(@, l.rejected)]
    <3>1. row \in ItemRow
      <4>1. item[i] \in ItemRow
        BY <1>0, <1>1
      <4> QED
        BY <1>2, <4>1, MoreOnTheLine DEF Refused
    <3>2. item' = [item EXCEPT ![i] = row]
      BY <1>0, <1>1, <2>0
    <3> HIDE DEF row
    <3> QED
      BY <1>0, <3>1, <3>2
  <2>4. NeverOverReceived'
    <3> SUFFICES ASSUME NEW j \in Item
                 PROVE  item'[j].received + item'[j].rejected <= item'[j].quantity
      BY DEF NeverOverReceived, Handled
    <3>1. CASE j = i
      BY <1>0, <1>1, <1>2, <2>1, <2>2, <3>1 DEF ItemRow
    <3>2. CASE j # i
      BY <1>0, <2>0, <3>2 DEF OrderSound, NeverOverReceived, Handled
    <3> QED
      BY <3>1, <3>2
  <2>5. /\ receipt' \in [Delivery -> ReceiptRow]
        /\ receipt'[d].booked = TRUE /\ receipt'[d].stocked = receipt[d].stocked + l.accepted
        /\ \A c \in Delivery : c # d => receipt'[c] = receipt[c]
    <3> DEFINE row == [booked |-> TRUE, stocked |-> receipt[d].stocked + l.accepted]
    <3>1. /\ row \in ReceiptRow
          /\ row.booked = TRUE /\ row.stocked = receipt[d].stocked + l.accepted
      <4>1. receipt[d] \in ReceiptRow
        BY <1>0, <1>1
      <4> QED
        BY <1>2, <4>1 DEF ReceiptRow
    <3>2. receipt' = [receipt EXCEPT ![d] = row]
      BY <1>0, <1>1, <2>0
    <3> HIDE DEF row
    <3> QED
      BY <1>0, <1>1, <3>1, <3>2
  <2>6. DeliveredOnce'
    <3> SUFFICES ASSUME NEW c \in Delivery
                 PROVE  receipt'[c].stocked = IF receipt'[c].booked THEN Load[c].accepted ELSE 0
      BY DEF DeliveredOnce
    <3>1. receipt[c].stocked = IF receipt[c].booked THEN Load[c].accepted ELSE 0
      BY <1>0 DEF OrderSound, DeliveredOnce
    <3>2. CASE c = d
      BY <1>2, <2>1, <2>5, <3>1, <3>2
    <3>3. CASE c # d
      BY <2>5, <3>1, <3>3
    <3> QED
      BY <3>2, <3>3
  <2>7. /\ purchase' \in PurchaseRow
        /\ purchase'.approvedBy = purchase.approvedBy
    BY <1>0, <2>0 DEF PurchaseRow, Status
  <2>8. PurchasingTypeOK'
    BY <1>0, <1>4, <2>3, <2>5, <2>7 DEF PurchasingTypeOK
  <2>9. OrderSound'
    BY <1>3, <2>4, <2>6, <2>7 DEF OrderSound
  <2>10. \A f \in Errand : ErrandSound(f)'
    BY <1>0, <1>3, <1>4, <2>7 DEF ErrandSound, Holds, NoErrand
  <2>11. OneHolder'
    BY <1>0, <1>4 DEF OneHolder, Holds, NoErrand
  <2> QED
    BY <2>8, <2>9, <2>10, <2>11 DEF PurchasingInv
<1>6. CASE ~(~AlreadyBooked(d) /\ Fits(i, l))
  <2>1. UNCHANGED <<receipt, item, purchase>>
    BY <1>6 DEF receiveGoods
  <2> QED
    BY <1>4, <2>1, JudgingKeeps DEF NoErrand
<1> QED
  BY <1>5, <1>6

\* Judged on the row as it is: what may be placed, closed or delivered is approved.
LEMMA GoingOnKeeps ==
  ASSUME PurchasingInv, NEW e \in Errand,
         JudgeDecision(e) \/ LookForOpen(e) \/ ClaimRequest(e)
  PROVE  PurchasingInv'
<1> DEFINE x == errand[e]
<1>0. /\ errand \in [Errand -> Errands] /\ x \in Errands
      /\ NoErrand \in Errands /\ NoErrand.op = "none"
      /\ UNCHANGED <<purchase, item, approval, receipt>>
  BY DEF PurchasingInv, PurchasingTypeOK, JudgeDecision, LookForOpen, ClaimRequest, Errands, NoErrand
<1>1. CASE errand' = [errand EXCEPT ![e] = NoErrand]
  BY <1>0, <1>1, JudgingKeeps
<1>2. CASE JudgeDecision(e) /\ At(e, "judged")
  <2> DEFINE y == [x EXCEPT !.at = "judged"]
  <2>1. x.op = "set" /\ x.at = "asked" /\ x.by \in Buyer /\ x.to \in Decision \cup OwnMove
    BY <1>0, <1>2 DEF JudgeDecision, Errands, NoErrand
  <2>2. y \in Errands /\ y.op = "set" /\ y.to = x.to
    BY <1>0, <2>1 DEF Errands, NoErrand
  <2>3. canTransition(purchase.status, x.to) \/ errand' = [errand EXCEPT ![e] = NoErrand]
    BY <1>2 DEF JudgeDecision, Finish
  <2>4. x.to \in {"ORDERED", "CLOSED"} /\ canTransition(purchase.status, x.to)
          => Reviewed(purchase.status)
    BY DEF canTransition, ALLOWED, Reviewed
  <2>5. Reviewed(purchase.status) => purchase.approvedBy # Nobody
    BY DEF PurchasingInv, OrderSound
  <2>6. errand' = [errand EXCEPT ![e] = y]
    BY <1>0, <1>2 DEF At
  <2> QED
    BY <1>0, <1>1, <2>2, <2>3, <2>4, <2>5, <2>6, JudgingKeeps
<1>3. CASE LookForOpen(e) /\ At(e, "unasked")
  <2> DEFINE y == [x EXCEPT !.at = "unasked"]
  <2>1. x.op = "set" /\ x.by \in Buyer /\ x.to \in Decision \cup OwnMove
    BY <1>0, <1>3 DEF LookForOpen, Errands, NoErrand
  <2>2. y \in Errands /\ y.op = "set" /\ y.at = "unasked"
    BY <1>0, <2>1 DEF Errands, NoErrand
  <2>3. errand' = [errand EXCEPT ![e] = y]
    BY <1>0, <1>3 DEF At
  <2> QED
    BY <1>0, <2>2, <2>3, JudgingKeeps
<1>4. CASE ClaimRequest(e) /\ At(e, "claimed") /\ StillUndecided(x.on)
  <2> DEFINE y == [x EXCEPT !.at = "claimed"]
  <2>1. x.op = "decide" /\ x.by \in Buyer /\ x.to \in Decision /\ x.on \in Approval
    BY <1>0, <1>4 DEF ClaimRequest, Errands, NoErrand
  <2>2. y \in Errands /\ y.op = "decide" /\ y.on = x.on
    BY <1>0, <2>1 DEF Errands, NoErrand
  <2>3. errand' = [errand EXCEPT ![e] = y]
    BY <1>0, <1>4 DEF At
  <2>4. approval[x.on].status = "PENDING" /\ ~Claimed(x.on)
    BY <1>4 DEF ClaimRequest, StillUndecided, Pending
  <2> QED
    BY <1>0, <2>2, <2>3, <2>4, JudgingKeeps
<1> QED
  BY <1>0, <1>1, <1>2, <1>3, <1>4 DEF JudgeDecision, LookForOpen, ClaimRequest, Finish

LEMMA TakingUpKeeps ==
  ASSUME PurchasingInv, NEW e \in Errand, TakeUp(e)
  PROVE  PurchasingInv'
<1>0. /\ Reviewed(purchase.status) => purchase.approvedBy # Nobody
      /\ errand \in [Errand -> Errands]
  BY DEF PurchasingInv, OrderSound, PurchasingTypeOK
<1>1. CASE JudgeEdit(e)
  <2>1. [op |-> "edit"] \in Errands
    BY DEF Errands
  <2> QED
    BY <1>1, <2>1, JudgingKeeps DEF JudgeEdit, SetOut
<1>2. ASSUME NEW u \in Buyer, NEW to \in OwnMove, JudgeMove(e, u, to)
      PROVE  PurchasingInv'
  <2> DEFINE x == [op |-> "set", at |-> "judged", by |-> u, to |-> to]
  <2>1. x \in Errands
    BY DEF Errands
  <2>2. to \in {"ORDERED", "CLOSED"} => Reviewed(purchase.status)
    BY <1>2 DEF JudgeMove, canTransition, ALLOWED, Reviewed
  <2> QED
    BY <1>0, <1>2, <2>1, <2>2, JudgingKeeps DEF JudgeMove, SetOut
<1>3. ASSUME NEW u \in Buyer, NEW to \in Decision, FindNone(e, u, to)
      PROVE  PurchasingInv'
  <2> DEFINE x == [op |-> "set", at |-> "asked", by |-> u, to |-> to]
  <2>1. x \in Errands
    BY DEF Errands
  <2> QED
    BY <1>3, <2>1, JudgingKeeps DEF FindNone, SetOut
<1>4. ASSUME NEW u \in Buyer, NEW a \in Approval, NEW to \in Decision,
             JudgeRequestAtDesk(e, u, a, to)
      PROVE  PurchasingInv'
  <2> DEFINE x == [op |-> "decide", at |-> "judged", by |-> u, to |-> to, on |-> a]
  <2>1. x \in Errands
    BY DEF Errands
  <2> QED
    BY <1>4, <2>1, JudgingKeeps DEF JudgeRequestAtDesk, SetOut
<1>5. ASSUME NEW d \in Delivery, NEW i \in Item, JudgeDelivery(e, d, i)
      PROVE  PurchasingInv'
  <2> DEFINE x == [op |-> "receive", item |-> i, delivery |-> d]
  <2>1. x \in Errands
    BY DEF Errands
  <2>2. Reviewed(purchase.status)
    BY <1>5 DEF JudgeDelivery, Receivable, Reviewed
  <2> QED
    BY <1>0, <1>5, <2>1, <2>2, JudgingKeeps DEF JudgeDelivery, SetOut
<1> QED
  BY <1>1, <1>2, <1>3, <1>4, <1>5 DEF TakeUp

LEMMA OrdersKeep == PurchasingInv /\ [PurchasingNext]_purchaseVars => PurchasingInv'
<1> SUFFICES ASSUME PurchasingInv, [PurchasingNext]_purchaseVars PROVE PurchasingInv'
  OBVIOUS
<1>1. ASSUME NEW u \in Buyer, createPurchaseOrder(u) PROVE PurchasingInv'
  BY <1>1, RaisingKeeps
<1>2. ASSUME NEW u \in Buyer, NEW a \in Approval, withdrawApproval(u, a) PROVE PurchasingInv'
  BY <1>2, WithdrawingKeeps
<1>3. ASSUME NEW e \in Errand, GoOn(e) PROVE PurchasingInv'
  BY <1>3, EditingKeeps, WritingStatusKeeps, AskingKeeps, GoingOnKeeps, RulingKeeps, ReceivingKeeps
  DEF GoOn
<1>4. ASSUME NEW e \in Errand, TakeUp(e) PROVE PurchasingInv'
  BY <1>4, TakingUpKeeps
<1>5. CASE UNCHANGED purchaseVars
  BY <1>5 DEF purchaseVars, PurchasingInv, PurchasingTypeOK, OrderSound, DeliveredOnce,
              NeverOverReceived, Handled, ErrandSound, OneHolder, Holds
<1> QED
  BY <1>1, <1>2, <1>3, <1>4, <1>5 DEF PurchasingNext

------------------------------------------------------------------------------
(* Orders: the theorems *)

\* The invariant of an order: types, approvals that are not taken back, and the
\* claim on a request.
THEOREM PurchasingInvariant == PurchasingSpec => []PurchasingInv
BY OrdersBegin, OrdersKeep, PTL DEF PurchasingSpec

\* The order, its lines, requests, deliveries and calls stay of their types.
THEOREM PurchasingTyped == PurchasingSpec => []PurchasingTypeOK
<1>1. PurchasingInv => PurchasingTypeOK
  BY DEF PurchasingInv
<1> QED
  BY PurchasingInvariant, <1>1, PTL

\* No line takes more than was ordered, however many deliveries are booked at once.
THEOREM NeverMoreThanOrdered == PurchasingSpec => []NeverOverReceived
<1>1. PurchasingInv => NeverOverReceived
  BY DEF PurchasingInv, OrderSound
<1> QED
  BY PurchasingInvariant, <1>1, PTL

\* A delivery that is submitted again is on the shelf once.
THEOREM OnTheShelfOnce == PurchasingSpec => []DeliveredOnce
<1>1. PurchasingInv => DeliveredOnce
  BY DEF PurchasingInv, OrderSound
<1> QED
  BY PurchasingInvariant, <1>1, PTL

\* What is on the shelf came once and was ordered.
THEOREM OrderedAndOnce == PurchasingSpec => []ReceivedAsOrdered
<1>1. NeverOverReceived /\ DeliveredOnce => ReceivedAsOrdered
  BY DEF ReceivedAsOrdered
<1> QED
  BY <1>1, NeverMoreThanOrdered, OnTheShelfOnce, PTL

\* Nothing is placed, and nothing reaches the shelf, unreviewed.
THEOREM ReviewedFirst == PurchasingSpec => []ReviewedBeforeStock
<1>1. PurchasingInv => ReviewedBeforeStock
  <2> SUFFICES ASSUME PurchasingInv PROVE ReviewedBeforeStock
    OBVIOUS
  <2>1. ASSUME NEW d \in Delivery, receipt[d].stocked > 0 PROVE purchase.approvedBy # Nobody
    BY <2>1 DEF PurchasingInv, OrderSound, DeliveredOnce
  <2> QED
    BY <2>1 DEF PurchasingInv, OrderSound, Reviewed, ReviewedBeforeStock
<1> QED
  BY PurchasingInvariant, <1>1, PTL

\* A request is ruled on once, and the order follows in the same step.
THEOREM RuledOnce == PurchasingSpec => DecidedOnce
<1> DEFINE Once == \A a \in Approval : approval'[a].status # approval[a].status =>
             /\ approval[a].status \in {"NONE", "PENDING"}
             /\ approval'[a].status = "APPROVED" => purchase'.status = "APPROVED"
             /\ approval'[a].status = "REJECTED" => purchase'.status \in {"REJECTED", "RETURNED"}
<1>1. PurchasingInv /\ [PurchasingNext]_purchaseVars => [Once]_purchaseVars
  <2> SUFFICES ASSUME PurchasingInv, [PurchasingNext]_purchaseVars,
                      NEW a \in Approval, approval'[a].status # approval[a].status
               PROVE  /\ approval[a].status \in {"NONE", "PENDING"}
                      /\ approval'[a].status = "APPROVED" => purchase'.status = "APPROVED"
                      /\ approval'[a].status = "REJECTED" =>
                           purchase'.status \in {"REJECTED", "RETURNED"}
    OBVIOUS
  <2>0. /\ approval \in [Approval -> ApprovalRow] /\ purchase \in PurchaseRow
        /\ errand \in [Errand -> Errands]
        /\ \A e \in Errand : ErrandSound(e)
    BY DEF PurchasingInv, PurchasingTypeOK
  <2>1. ASSUME NEW e \in Errand, requestApproval(e)
        PROVE  approval[a].status = "NONE" /\ approval'[a].status = "PENDING"
    BY <2>0, <2>1 DEF requestApproval, ApprovalRow
  <2>2. ASSUME NEW e \in Errand, WithdrawRequests(e)
        PROVE  approval[a].status = "PENDING" /\ approval'[a].status = "WITHDRAWN"
    BY <2>0, <2>2 DEF WithdrawRequests, Pending, ApprovalRow
  <2>3. ASSUME NEW u \in Buyer, NEW b \in Approval, withdrawApproval(u, b)
        PROVE  approval[a].status = "PENDING" /\ approval'[a].status = "WITHDRAWN"
    BY <2>0, <2>3 DEF withdrawApproval, Pending, ApprovalRow
  <2>4. ASSUME NEW e \in Errand, decideApproval(e)
        PROVE  /\ approval[a].status = "PENDING"
               /\ approval'[a].status = "APPROVED" => purchase'.status = "APPROVED"
               /\ approval'[a].status = "REJECTED" =>
                    purchase'.status \in {"REJECTED", "RETURNED"}
    <3> DEFINE x == errand[e]
    <3>1. /\ x.to \in Decision /\ x.on \in Approval
          /\ approval[x.on].status = "PENDING"
      BY <2>0, <2>4 DEF decideApproval, Errands, NoErrand, ErrandSound, Holds
    <3>2. a = x.on
      BY <2>0, <2>4, <3>1 DEF decideApproval
    <3>3. approval'[a].status = IF x.to = "APPROVED" THEN "APPROVED" ELSE "REJECTED"
      BY <2>0, <2>4, <3>2 DEF decideApproval, ApprovalRow
    <3>4. purchase'.status = x.to
      BY <2>0, <2>4 DEF decideApproval, Become, PurchaseRow
    <3> QED
      BY <3>1, <3>2, <3>3, <3>4 DEF Decision
  <2>5. ASSUME NEW e \in Errand,
               \/ updatePurchaseOrder(e) \/ JudgeDecision(e) \/ WriteStatus(e)
               \/ LookForOpen(e) \/ ClaimRequest(e) \/ receiveGoods(e)
        PROVE  FALSE
    BY <2>5 DEF updatePurchaseOrder, JudgeDecision, WriteStatus, LookForOpen, ClaimRequest,
                receiveGoods
  <2>6. ASSUME NEW e \in Errand, TakeUp(e) PROVE FALSE
    BY <2>6 DEF TakeUp, JudgeEdit, JudgeMove, FindNone, JudgeRequestAtDesk, JudgeDelivery
  <2>7. ASSUME NEW u \in Buyer, createPurchaseOrder(u) PROVE FALSE
    BY <2>7 DEF createPurchaseOrder
  <2>8. CASE UNCHANGED purchaseVars
    BY <2>8 DEF purchaseVars
  <2> QED
    BY <2>1, <2>2, <2>3, <2>4, <2>5, <2>6, <2>7, <2>8 DEF PurchasingNext, GoOn
<1> QED
  BY PurchasingInvariant, <1>1, PTL DEF PurchasingSpec, DecidedOnce
==============================================================================
