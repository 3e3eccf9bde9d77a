----------------------------- MODULE Depletion ------------------------------
(***************************************************************************)
(* Bills and the stock they take.  What a bill should have taken is what    *)
(* its live lines need; what it has taken is recorded, with the layers it   *)
(* came off; reconciling posts the difference.  Voids, guests' edits,       *)
(* cancellations, splits and merges judge the bill before their             *)
(* transaction begins, so another may have changed it meanwhile.            *)
(*                                                                          *)
(* A line is one portion, so a split moves whole lines; a dish with a       *)
(* recipe needs one unit of the one item, a plain one none.                 *)
(***************************************************************************)
EXTENDS Ledger

CONSTANTS
  Order, Line, Caller,
  Plain,         \* the lines whose dish has no recipe
  NoOrder,
  Site,          \* the branch of every bill
  MaxDeliveries  \* bound: deliveries

ASSUME SiteIsABranch == Site \in Branch /\ NoOrder \notin Order /\ Plain \subseteq Line
ASSUME BillsAreFinite == IsFiniteSet(Order) /\ IsFiniteSet(Line) /\ MaxDeliveries \in Nat

VARIABLES order, line, taken, call, delivered
depletionVars == <<books, order, line, taken, call, delivered>>

\* depleted is whether there is a row for what was taken; behind is a history:
\* whether a call changed its lines and reconciled another bill, or none, and it
\* has not been accepted since.
OrderRow == [status: {"none", "pending", "accepted", "cancelled"}, behind: BOOLEAN]

\* rows is, per layer (0: none), what is still out, in the turn it last changed.
TakenRow == [depleted: BOOLEAN, applied: Nat,
             rows: [0..MaxLayers -> [qty: Nat, value: Nat, turn: Nat]]]
NothingTaken == [depleted |-> FALSE, applied |-> 0,
                 rows |-> [l \in 0..MaxLayers |-> [qty |-> 0, value |-> 0, turn |-> 0]]]

NoCall == [op |-> "none"]
Calls ==
  {NoCall}
    \cup [op: {"void"}, order: Order, line: Line]
    \cup [op: {"more", "cancel"}, order: Order]
    \cup [op: {"split"}, order: Order, lines: SUBSET Line, status: {"pending", "accepted"}]
    \cup [op: {"merge"}, order: Order, into: Order]

DepletionTypeOK ==
  /\ BooksType(books)
  /\ order \in [Order -> OrderRow]
  /\ line \in [Line -> [order: Order \cup {NoOrder}, live: BOOLEAN]]
  /\ taken \in [Order -> TakenRow]
  /\ call \in [Caller -> Calls]
  /\ delivered \in 0..MaxDeliveries

Of(ln, o) == {l \in Line : ln[l].order = o /\ ln[l].live}
Needed(ln, o) == Cardinality(Of(ln, o) \ Plain)
Spare(ln) == {l \in Line : ln[l].order = NoOrder}
Standing(o) == order[o].status \in {"pending", "accepted"}

------------------------------------------------------------------------------
(* Reconciling *)

\* The last to change is the first to be given back; of those that changed at one
\* instant the database says which.
Later(rows, up, k, l) ==
  rows[k].turn > rows[l].turn
    \/ (rows[k].turn = rows[l].turn /\ (IF up THEN k < l ELSE k > l))
GivenBack(rows, n, up) ==
  LET held == {l \in DOMAIN rows : rows[l].qty > 0}
  IN  Walk([l \in held |-> rows[l].qty], [l \in held |-> {k \in held : Later(rows, up, k, l)}], n)

\* What goes back has no layer where the bill's rows name none.
restoreToLayers(s, rows, n, up) ==
  LET part == GivenBack(rows, n, up)
      left == n - Total(LAMBDA l : part[l], DOMAIN part)
      put(l) == IF l \in DOMAIN part THEN part[l] ELSE 0
  IN  [l \in 0..Len(s.layers) |->
        IF l = 0 THEN [qty |-> put(0) + left, value |-> 0]
        ELSE [qty |-> put(l), value |-> IF put(l) = 0 THEN 0 ELSE Worth(rows[l], put(l))]]

Traced(rows, new, sign) ==
  LET turn == 1 + Max({rows[l].turn : l \in DOMAIN rows})
  IN  [l \in DOMAIN rows |->
        IF l \in DOMAIN new /\ new[l].qty > 0
        THEN [qty |-> rows[l].qty + sign * new[l].qty,
              value |-> rows[l].value + sign * new[l].value, turn |-> turn]
        ELSE rows[l]]

Posted(st, o, want, rows, sign) ==
  [books |-> Tally(Book(st.books, Site, rows, sign)),
   taken |-> [st.taken EXCEPT ![o] =
     [depleted |-> TRUE, applied |-> want, rows |-> Traced(@.rows, rows, sign)]]]

\* What an order wants over what it has, either way; none if it is refused.
Reconciled(st, o, want) ==
  LET have == st.taken[o].applied
  IN  IF want = have THEN {st}
      ELSE IF want > have
      THEN {Posted(st, o, want, allocateAndConsume(st.books, Site, want - have), 1) :
              x \in {y \in {1} : MayIssue(st.books, Site, want - have)}}
      ELSE {Posted(st, o, want,
                   restoreToLayers(st.books, st.taken[o].rows, have - want, up), -1) :
              up \in {y \in BOOLEAN : MayArrive(st.books, have - want)}}

Here == [books |-> books, taken |-> taken]
reconcileOrderDepletion(ln, o) == Reconciled(Here, o, Needed(ln, o))

\* Only of a bill that has taken stock before.
reconcileIfDepleted(ln, o) ==
  IF taken[o].depleted THEN reconcileOrderDepletion(ln, o) ELSE {Here}

\* Both bills, one after the other, if either has taken any.
RebalancedFirst(ln, o, p) ==                   \* mutant: the other bill is left
  IF taken[o].depleted \/ taken[p].depleted THEN reconcileOrderDepletion(ln, o) ELSE {Here}
rebalanceDepletion(ln, o, p) ==
  IF taken[o].depleted \/ taken[p].depleted
  THEN UNION {UNION {Reconciled(st, q[2], Needed(ln, q[2])) :
                       st \in Reconciled(Here, q[1], Needed(ln, q[1]))} :
                q \in {<<o, p>>, <<p, o>>}}
  ELSE {Here}

Write(results) == \E st \in results : books' = st.books /\ taken' = st.taken

\* A bill a call changed without reconciling it, or that had been closed.
Behind(rows, touched, reconciled) ==
  [o \in Order |-> [rows[o] EXCEPT !.behind =
     @ \/ (o \in touched /\ (o \notin reconciled \/ order[o].status = "cancelled"))]]
Depleted(S) == IF \E o \in S : taken[o].depleted THEN S ELSE {}

------------------------------------------------------------------------------
(* Bills *)

\* Typed in by staff, it is accepted as it is placed.
Place(o, L, status) ==
  /\ order[o].status = "none" /\ L # {} /\ L \subseteq Spare(line)
  /\ order' = [order EXCEPT ![o].status = status]
  /\ line' = [l \in Line |-> IF l \in L THEN [order |-> o, live |-> TRUE] ELSE line[l]]
  /\ IF status = "accepted" THEN Write(reconcileOrderDepletion(line', o))
     ELSE UNCHANGED <<books, taken>>
  /\ UNCHANGED <<call, delivered>>

Accept(o) ==
  /\ order[o].status = "pending"
  /\ order' = [order EXCEPT ![o] = [status |-> "accepted", behind |-> FALSE]]
  /\ Write(reconcileOrderDepletion(line, o))
  /\ UNCHANGED <<line, call, delivered>>

\* Judged again under the bill's lock.
addOrderItems(o, l) ==
  /\ Standing(o) /\ l \in Spare(line)
  /\ line' = [line EXCEPT ![l] = [order |-> o, live |-> TRUE]]
  /\ IF order[o].status = "pending" THEN UNCHANGED <<books, taken>>
     ELSE Write(reconcileIfDepleted(line', o))
  /\ order' = Behind(order, {o}, Depleted({o}))
  /\ UNCHANGED <<call, delivered>>

------------------------------------------------------------------------------
(* Calls that judge first *)

BeginCall(c, q) ==
  /\ call[c] = NoCall
  /\ call' = [call EXCEPT ![c] = q]
  /\ UNCHANGED <<books, order, line, taken, delivered>>
EndCall(c) == call' = [call EXCEPT ![c] = NoCall] /\ UNCHANGED delivered

\* A line that staff void or a guest takes off, never the last.
JudgeVoid(c, o, l) ==
  /\ Standing(o) /\ l \in Of(line, o) /\ Cardinality(Of(line, o)) > 1
  /\ BeginCall(c, [op |-> "void", order |-> o, line |-> l])

\* A guest asks for more of a dish the kitchen has begun.
JudgeMore(c, o) ==
  /\ order[o].status = "accepted" /\ Of(line, o) # {}
  /\ BeginCall(c, [op |-> "more", order |-> o])
JudgeCancel(c, o) == Standing(o) /\ BeginCall(c, [op |-> "cancel", order |-> o])

JudgeSplit(c, o, L) ==
  /\ Standing(o) /\ L # {} /\ L \subseteq Of(line, o) /\ L # Of(line, o)
  /\ BeginCall(c, [op |-> "split", order |-> o, lines |-> L, status |-> order[o].status])
JudgeMerge(c, o, p) ==
  /\ o # p /\ Standing(o) /\ Standing(p)
  /\ BeginCall(c, [op |-> "merge", order |-> o, into |-> p])

\* By the line's id, wherever the line is now.
voidOrderItem(c) ==
  /\ call[c].op = "void"
  /\ LET o == call[c].order
         l == call[c].line
     IN  /\ line' = [line EXCEPT ![l].live = FALSE]
         /\ order' = Behind(order, {line[l].order, o}, Depleted({o}))
         /\ Write(reconcileIfDepleted(line', o))
  /\ EndCall(c)

\* A fresh line, whatever the bill has become.
updateOrder(c, l) ==
  /\ call[c].op = "more" /\ l \in Spare(line)
  /\ LET o == call[c].order
     IN  /\ line' = [line EXCEPT ![l] = [order |-> o, live |-> TRUE]]
         /\ order' = Behind(order, {o}, Depleted({o}))
         /\ Write(reconcileIfDepleted(line', o))
  /\ EndCall(c)

Struck(ln, o) == [l \in Line |-> IF ln[l].order = o THEN [ln[l] EXCEPT !.live = FALSE] ELSE ln[l]]

\* Everything it took goes back.
ReleaseAll(o) == Reconciled(Here, o, 0)
cancelOrder(c) ==
  /\ call[c].op = "cancel"
  /\ LET o == call[c].order
     IN  /\ line' = Struck(line, o)
         /\ order' = [order EXCEPT ![o].status = "cancelled", ![o].behind = FALSE]
         /\ Write(ReleaseAll(o))
  /\ EndCall(c)

\* Lines go by their ids, to a new bill with the status the old one was read with.
splitBill(c, t) ==
  /\ call[c].op = "split" /\ order[t].status = "none"
  /\ LET o == call[c].order
         L == call[c].lines
     IN  /\ line' = [l \in Line |-> IF l \in L THEN [line[l] EXCEPT !.order = t] ELSE line[l]]
         /\ order' = Behind([order EXCEPT ![t].status = call[c].status],
                            {line[l].order : l \in L} \cup {o, t}, Depleted({o, t}))
         /\ Write(rebalanceDepletion(line', o, t))
  /\ EndCall(c)

\* A bill absorbed is closed without its stock being released; what its lines took
\* is moved with them.
mergeBills(c) ==
  /\ call[c].op = "merge"
  /\ LET o == call[c].order
         p == call[c].into
     IN  /\ line' = [l \in Line |-> IF line[l].order = o THEN [line[l] EXCEPT !.order = p]
                                    ELSE line[l]]
         /\ order' = Behind([order EXCEPT ![o].status = "cancelled", ![o].behind = FALSE],
                            {p}, Depleted({o, p}))
         /\ Write(rebalanceDepletion(line', p, o))
  /\ EndCall(c)

\* What the ledger refuses, or what has no room, is rolled back.
RolledBack(c) ==
  /\ call[c] # NoCall
  /\ call' = [call EXCEPT ![c] = NoCall]
  /\ UNCHANGED <<books, order, line, taken, delivered>>

------------------------------------------------------------------------------
(* Other movements *)

Delivery(b, n, value) ==
  /\ delivered < MaxDeliveries /\ Fits(books, 1) /\ MayArrive(books, n)
  /\ books' = Receive(books, b, n, Priced(books, n, value))
  /\ delivered' = delivered + 1
  /\ UNCHANGED <<order, line, taken, call>>

------------------------------------------------------------------------------
(* Specification *)

DepletionInit ==
  /\ \E negative \in BOOLEAN : books = OpeningBooks(negative)
  /\ order = [o \in Order |-> [status |-> "none", behind |-> FALSE]]
  /\ line = [l \in Line |-> [order |-> NoOrder, live |-> FALSE]]
  /\ taken = [o \in Order |-> NothingTaken]
  /\ call = [c \in Caller |-> NoCall]
  /\ delivered = 0

DepletionNext ==
  \/ \E o \in Order : \/ \E L \in SUBSET Line, status \in {"pending", "accepted"} :
                           Place(o, L, status)
                      \/ Accept(o)
                      \/ \E l \in Line : addOrderItems(o, l)
  \/ \E c \in Caller, o \in Order :
       \/ \E l \in Line : JudgeVoid(c, o, l)
       \/ JudgeMore(c, o) \/ JudgeCancel(c, o)
       \/ \E L \in SUBSET Of(line, o) : JudgeSplit(c, o, L)
       \/ \E p \in Order : JudgeMerge(c, o, p)
       \/ splitBill(c, o)
  \/ \E c \in Caller :
       \/ voidOrderItem(c) \/ \E l \in Line : updateOrder(c, l)
       \/ cancelOrder(c) \/ mergeBills(c) \/ RolledBack(c)
  \/ \E b \in Branch : Delivery(b, 1, 2)

DepletionSpec == DepletionInit /\ [][DepletionNext]_depletionVars

------------------------------------------------------------------------------
(* What must hold *)

\* What a bill is recorded to have taken is what its rows say is still out, so that
\* giving it back never runs out of rows (reconcileOrderDepletion, restoreToLayers).
AppliedIsOut ==
  \A o \in Order : taken[o].applied = Total(LAMBDA l : taken[o].rows[l].qty, 0..MaxLayers)

\* A layer's value is never lost or made: what is left, what is out on bills and
\* what is spent is what was paid, to the last unit, however often parts of it went
\* out and came back (walkFifo, restoreToLayers).
ValueKept ==
  \A l \in DOMAIN books.layers :
    /\ books.layers[l].received = books.layers[l].value + books.layers[l].spent
                                    + Total(LAMBDA o : taken[o].rows[l].value, Order)
    /\ books.layers[l].qty = 0 => books.layers[l].value = 0

\* Together: bills and books account for every unit and for what it cost.
StockAccounted == DepletionTypeOK /\ BooksTie /\ AppliedIsOut /\ ValueKept

\* An accepted or cancelled bill that no stale call has touched has taken what its
\* live lines need, nothing if it is cancelled: however its lines came to it and
\* left it, nothing is deducted twice and nothing forgotten.
InStep ==
  \A o \in Order : order[o].status \in {"accepted", "cancelled"} /\ ~order[o].behind =>
    taken[o].applied = Needed(line, o)

------------------------------------------------------------------------------
(* What a comment says, and the code breaks *)

\* "Everything goes back": a cancelled order holds no stock.
CancelledHoldsNothing ==
  \A o \in Order : order[o].status = "cancelled" => taken[o].applied = 0
==============================================================================
