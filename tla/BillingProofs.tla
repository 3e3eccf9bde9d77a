---------------------------- MODULE BillingProofs ----------------------------
(***************************************************************************)
(* Theorems about Billing, for every set of orders, lines, customers,      *)
(* payments, request ids and invocations.                                  *)
(***************************************************************************)
EXTENDS Billing, Sums

USE LineAssumption, NetAssumption, PointAssumption, BoundAssumption, NoneAssumption

------------------------------------------------------------------------------
(* The operators the actions are built from *)

\* Subtraction that stops at zero stays a natural.
LEMMA LessType == ASSUME NEW a \in Nat, NEW b \in Nat
                  PROVE  Less(a, b) \in Nat
BY DEF Less

\* The loyalty clamp never exceeds the subtotal or what was asked for.
LEMMA LoyalType ==
  ASSUME NEW live \in SUBSET Line, NEW cut \in SUBSET Line, NEW w \in Nat
  PROVE  /\ Loyal(live, cut, w) \in Nat
         /\ Loyal(live, cut, w) <= Net[live][cut]
         /\ Loyal(live, cut, w) <= w
         /\ Net[live][cut] \in Nat
<1>1. Net[live][cut] \in Nat
  OBVIOUS
<1> QED BY <1>1 DEF Loyal, AtMost

\* The status derived from the money is one of the four.
LEMMA DeriveType ==
  ASSUME NEW paid, NEW billed, NEW current
  PROVE  derivePaymentStatus(paid, billed, current) \in PaymentStatus
BY DEF derivePaymentStatus, PaymentStatus

\* Repricing an order keeps it an order, and gives back a natural number.
LEMMA RepricedType ==
  ASSUME NEW row \in OrderRow
  PROVE  Repriced(row) \in OrderRow /\ Unabsorbed(row) \in Nat
<1>1. row.live \in SUBSET Line /\ row.cut \in SUBSET Line
      /\ row.loyaltyDiscount \in Nat
  BY DEF OrderRow
<1> DEFINE d == Loyal(row.live, row.cut, row.loyaltyDiscount)
           t == Net[row.live][row.cut] - d
<1>2. d \in Nat /\ d <= row.loyaltyDiscount /\ t \in Nat
  <2>1. /\ d \in Nat /\ d <= Net[row.live][row.cut] /\ d <= row.loyaltyDiscount
        /\ Net[row.live][row.cut] \in Nat
    BY <1>1, LoyalType
  <2> HIDE DEF d
  <2> QED BY <2>1, <1>1
<1>3. derivePaymentStatus(row.paidTotal, t + row.tipAmount, row.paymentStatus)
        \in PaymentStatus
  BY DeriveType
<1>4. Repriced(row) = [row EXCEPT !.loyaltyDiscount = d, !.grandTotal = t,
        !.paymentStatus = derivePaymentStatus(row.paidTotal,
                            t + row.tipAmount, row.paymentStatus)]
  BY DEF Repriced
<1>5. Repriced(row) \in OrderRow
  <2> HIDE DEF d, t
  <2> QED BY <1>2, <1>3, <1>4 DEF OrderRow
<1>6. Unabsorbed(row) \in Nat
  BY <1>1, <1>2 DEF Unabsorbed
<1> QED BY <1>5, <1>6

\* The line a reducing request writes leaves the row an order.
LEMMA ReducedType ==
  ASSUME NEW row \in OrderRow, NEW call \in Call, call.op \in Reducers
  PROVE  Reduced(call, row) \in OrderRow
<1>1. call.lines \in SUBSET Line
  BY DEF Call
<1>2. CASE call.op = "void"
  BY <1>1, <1>2 DEF Reduced, OrderRow
<1>3. CASE call.op = "discount"
  BY <1>1, <1>3 DEF Reduced, OrderRow
<1>4. CASE call.op = "clear"
  BY <1>1, <1>4 DEF Reduced, OrderRow
<1> QED BY <1>2, <1>3, <1>4 DEF Reducers

\* What a request keeps of an order it read is itself a row.
LEMMA SeenType ==
  ASSUME TypeOK, NEW o \in Order
  PROVE  /\ Nothing \in OrderRow /\ SeenLines(o) \in OrderRow
         /\ SeenGuest(o) \in OrderRow /\ SeenTotal(o) \in OrderRow
         /\ SeenDue(o) \in OrderRow
<1>1. order[o] \in OrderRow
  BY DEF TypeOK
<1>2. Nothing \in OrderRow
  BY DEF Nothing, OrderRow, Status, PaymentStatus
<1>3. outstandingOn(order[o]) \in Nat
  <2>1. /\ order[o].grandTotal \in Nat /\ order[o].tipAmount \in Nat
        /\ order[o].paidTotal \in Nat
    BY <1>1 DEF OrderRow
  <2> QED BY <2>1 DEF outstandingOn, billedOn, Less
<1>4. SeenLines(o) \in OrderRow
  BY <1>1, <1>2 DEF SeenLines, OrderRow
<1>5. SeenGuest(o) \in OrderRow
  BY <1>1, <1>2 DEF SeenGuest, OrderRow
<1>6. SeenTotal(o) \in OrderRow
  BY <1>1, <1>2 DEF SeenTotal, OrderRow
<1>7. SeenDue(o) \in OrderRow
  <2> DEFINE n == outstandingOn(order[o])
  <2>1. n \in Nat /\ SeenDue(o) = [Nothing EXCEPT !.grandTotal = n]
    BY <1>3 DEF SeenDue
  <2> HIDE DEF n
  <2> QED BY <2>1, <1>2 DEF OrderRow
<1> QED BY <1>2, <1>4, <1>5, <1>6, <1>7

\* Starting a request keeps the requests typed.
LEMMA StartType ==
  ASSUME TypeOK, NEW r \in Request, NEW o \in Order,
         NEW op \in Reducers \cup {"cancel", "attach", "edit", "settle",
                                   "intent", "present", "close"},
         NEW step \in {"queued", "loaded", "intx"}, NEW seen \in OrderRow,
         NEW lines \in SUBSET Line, NEW who \in Customer \cup {None},
         Start(r, op, step, o, seen, lines, who)
  PROVE  req' \in [Request -> Call \cup {Idle}]
<1> DEFINE call == [op |-> op, step |-> step, order |-> o, seen |-> seen,
                    lines |-> lines, who |-> who]
<1>1. call \in Call
  BY DEF Call
<1>2. req \in [Request -> Call \cup {Idle}] /\ req' = [req EXCEPT ![r] = call]
  BY DEF TypeOK, Start
<1> QED BY <1>1, <1>2

LEMMA FinishType ==
  ASSUME TypeOK, NEW r \in Request, Finish(r)
  PROVE  req' \in [Request -> Call \cup {Idle}]
BY DEF TypeOK, Finish

\* A request that is at a step is one of the calls.
LEMMA AtCall ==
  ASSUME TypeOK, NEW r \in Request, NEW ops, NEW step, At(r, ops, step)
  PROVE  /\ req[r] \in Call /\ req[r].op \in ops /\ req[r].order \in Order
         /\ req[r].seen \in OrderRow /\ req[r].lines \in SUBSET Line
         /\ req[r].who \in Customer \cup {None}
BY DEF TypeOK, At, Call

\* The parts of the invariant: money, points, requests.  The balance cannot
\* go negative, or the points a refund takes back could be.
MoneyOK ==
  /\ payment \in [Payment -> PaymentRow]
  /\ \A p \in Payment : payment[p].status # "NONE" => payment[p].order \in Order
  /\ refunds \in [Key -> Payment \cup {None}]
  /\ received \in [Order -> Nat] /\ returned \in [Order -> Nat]
PointsOK ==
  /\ loyalty \in [Order -> LoyaltyRow]
  /\ balance \in [Customer -> Int] /\ entries \in [Customer -> Int]
  /\ BalanceExplained
OrderOK == order \in [Order -> OrderRow]
ReqOK == req \in [Request -> Call \cup {Idle}]
Inv == TypeOK /\ BalanceExplained

LEMMA Parts == Inv <=> OrderOK /\ MoneyOK /\ PointsOK /\ invoices \in Nat /\ ReqOK
BY DEF Inv, TypeOK, OrderOK, MoneyOK, PointsOK, ReqOK

LEMMA PartsNext ==
  Inv' <=> OrderOK' /\ MoneyOK' /\ PointsOK' /\ invoices' \in Nat /\ ReqOK'
BY DEF Inv, TypeOK, OrderOK, MoneyOK, PointsOK, ReqOK

LEMMA MoneySame == ASSUME MoneyOK, UNCHANGED money PROVE MoneyOK'
BY DEF MoneyOK, money

LEMMA PointsSame == ASSUME PointsOK, UNCHANGED points PROVE PointsOK'
BY DEF PointsOK, points, BalanceExplained

\* Moving a customer's balance and the entries by the same number of points,
\* never below zero, keeps every balance explained.
LEMMA Moved ==
  ASSUME PointsOK, NEW c \in Customer, NEW n \in Int, balance[c] + n >= 0,
         balance' = [balance EXCEPT ![c] = @ + n],
         entries' = [entries EXCEPT ![c] = @ + n],
         loyalty' \in [Order -> LoyaltyRow]
  PROVE  PointsOK'
<1>1. balance' \in [Customer -> Int] /\ entries' \in [Customer -> Int]
  BY DEF PointsOK
<1>2. ASSUME NEW d \in Customer
      PROVE  balance'[d] >= 0 /\ balance'[d] = Opening[d] + entries'[d]
  <2>1. /\ balance[d] \in Int /\ entries[d] \in Int /\ Opening[d] \in Nat
        /\ balance[d] >= 0 /\ balance[d] = Opening[d] + entries[d]
    BY DEF PointsOK, BalanceExplained
  <2>2. CASE d = c
    <3>1. balance'[d] = balance[d] + n /\ entries'[d] = entries[d] + n
      BY <2>2 DEF PointsOK
    <3> QED BY <2>1, <2>2, <3>1
  <2>3. CASE d # c
    <3>1. balance'[d] = balance[d] /\ entries'[d] = entries[d]
      BY <2>3 DEF PointsOK
    <3> QED BY <2>1, <3>1
  <2> QED BY <2>2, <2>3
<1> QED BY <1>1, <1>2 DEF PointsOK, BalanceExplained

LEMMA CreditType ==
  ASSUME Inv, NEW o \in Order, NEW c \in Customer \cup {None}, NEW n \in Nat,
         Credit(o, c, n)
  PROVE  PointsOK'
<1>1. PointsOK
  BY Parts
<1>2. CASE c = None
  BY <1>1, <1>2, PointsSame DEF Credit
<1>3. CASE c # None
  <2>1. loyalty' = [loyalty EXCEPT ![o].givenBack = @ + n]
    BY <1>3 DEF Credit
  <2>2. loyalty' \in [Order -> LoyaltyRow]
    BY <2>1, <1>1 DEF PointsOK, LoyaltyRow
  <2>3. /\ balance' = [balance EXCEPT ![c] = @ + n]
        /\ entries' = [entries EXCEPT ![c] = @ + n]
    BY <1>3 DEF Credit
  <2>4. c \in Customer /\ n \in Int /\ balance[c] + n >= 0
    BY <1>1, <1>3 DEF PointsOK, BalanceExplained
  <2> QED BY <1>1, <2>2, <2>3, <2>4, Moved, Zenon
<1> QED BY <1>2, <1>3

------------------------------------------------------------------------------
(* The actions that only begin, advance or abandon a request *)

LEMMA OnlyReq ==
  ASSUME Inv, UNCHANGED <<order, money, points, invoices>>, ReqOK'
  PROVE  Inv'
<1>1. OrderOK /\ MoneyOK /\ PointsOK /\ invoices \in Nat
  BY Parts
<1>2. OrderOK' /\ invoices' \in Nat
  BY <1>1 DEF OrderOK
<1> QED BY <1>1, <1>2, MoneySame, PointsSame, PartsNext

LEMMA LoadType ==
  ASSUME Inv, NEW r \in Request, NEW o \in Order,
         PresentLoad(r, o) \/ IntentLoad(r, o) \/ EditLoad(r, o) \/ CancelLoad(r, o)
  PROVE  Inv'
<1>1. TypeOK /\ {} \in SUBSET Line
  BY DEF Inv
<1>2. CASE PresentLoad(r, o)
  <2>1. Start(r, "present", "loaded", o, Nothing, {}, None)
    BY <1>2 DEF PresentLoad
  <2>2. ReqOK'
    BY <1>1, <2>1, SeenType, StartType DEF ReqOK
  <2> QED BY <1>2, <2>2, OnlyReq DEF PresentLoad
<1>3. CASE IntentLoad(r, o)
  <2>1. Start(r, "intent", "loaded", o, SeenDue(o), {}, None)
    BY <1>3 DEF IntentLoad
  <2>2. ReqOK'
    BY <1>1, <2>1, SeenType, StartType DEF ReqOK
  <2> QED BY <1>3, <2>2, OnlyReq DEF IntentLoad
<1>4. CASE EditLoad(r, o)
  <2>1. PICK wanted \in SUBSET (order[o].live \cup {l \in Line : Fresh(l, o)}) :
          Start(r, "edit", "loaded", o, SeenLines(o), wanted, None)
    BY <1>4 DEF EditLoad
  <2>2. wanted \in SUBSET Line
    BY <1>1 DEF TypeOK, OrderRow
  <2>3. ReqOK'
    BY <1>1, <2>1, <2>2, SeenType, StartType DEF ReqOK
  <2> QED BY <1>4, <2>3, OnlyReq DEF EditLoad
<1>5. CASE CancelLoad(r, o)
  <2>1. Start(r, "cancel", "loaded", o, SeenGuest(o), {}, None)
    BY <1>5 DEF CancelLoad
  <2>2. ReqOK'
    BY <1>1, <2>1, SeenType, StartType DEF ReqOK
  <2> QED BY <1>5, <2>2, OnlyReq DEF CancelLoad
<1> QED BY <1>2, <1>3, <1>4, <1>5

LEMMA LineLoadType ==
  ASSUME Inv, NEW r \in Request, NEW l \in Line, VoidLoad(r, l) \/ DiscountLoad(r, l)
  PROVE  Inv'
<1>1. TypeOK /\ {l} \in SUBSET Line /\ LineOf[l] \in Order
  BY DEF Inv
<1>2. \E op \in Reducers : Start(r, op, "loaded", LineOf[l], Nothing, {l}, None)
  BY DEF VoidLoad, DiscountLoad, Reducers
<1>3. ReqOK'
  BY <1>1, <1>2, SeenType, StartType DEF ReqOK
<1> QED BY <1>3, OnlyReq DEF VoidLoad, DiscountLoad

LEMMA AttachLoadType ==
  ASSUME Inv, NEW r \in Request, NEW o \in Order, NEW c \in Customer,
         AttachLoad(r, o, c)
  PROVE  Inv'
<1>1. TypeOK /\ {} \in SUBSET Line
  BY DEF Inv
<1>2. Start(r, "attach", "loaded", o, Nothing, {}, c)
  BY DEF AttachLoad
<1>3. ReqOK'
  BY <1>1, <1>2, SeenType, StartType DEF ReqOK
<1> QED BY <1>3, OnlyReq DEF AttachLoad

LEMMA AdvanceType ==
  ASSUME Inv, NEW r \in Request, Fail(r) \/ SettleLoad(r) \/ RecalcRead(r)
  PROVE  Inv'
<1>1. TypeOK /\ {} \in SUBSET Line
  BY DEF Inv
<1>2. CASE Fail(r)
  BY <1>1, <1>2, FinishType, OnlyReq DEF Fail, ReqOK
<1>3. CASE SettleLoad(r)
  <2>1. req[r].order \in Order
    BY <1>1, <1>3, AtCall DEF SettleLoad
  <2>2. CASE Finish(r)
    BY <1>1, <1>3, <2>2, FinishType, OnlyReq DEF SettleLoad, ReqOK
  <2>3. CASE Start(r, "settle", "loaded", req[r].order,
                   SeenTotal(req[r].order), {}, None)
    <3>1. ReqOK'
      BY <1>1, <2>1, <2>3, SeenType, StartType DEF ReqOK
    <3> QED BY <1>3, <3>1, OnlyReq DEF SettleLoad
  <2> QED BY <1>3, <2>2, <2>3 DEF SettleLoad
<1>4. CASE RecalcRead(r)
  <2>1. /\ req[r] \in Call /\ req[r].op \in Reducers /\ req[r].order \in Order
    BY <1>1, <1>4, AtCall DEF RecalcRead
  <2>2. Reduced(req[r], order[req[r].order]) \in OrderRow
    BY <1>1, <2>1, ReducedType DEF TypeOK
  <2>3. ReqOK'
    <3> DEFINE new == Reduced(req[r], order[req[r].order])
    <3>1. req' = [req EXCEPT ![r] = [req[r] EXCEPT !.step = "intx", !.seen = new]]
      BY <1>1, <1>4 DEF RecalcRead, TypeOK
    <3>2. new \in OrderRow
      BY <2>2
    <3> HIDE DEF new
    <3>3. [req[r] EXCEPT !.step = "intx", !.seen = new] \in Call
      BY <2>1, <3>2 DEF Call
    <3> QED BY <1>1, <3>1, <3>3 DEF TypeOK, ReqOK
  <2> QED BY <1>4, <2>3, OnlyReq DEF RecalcRead
<1> QED BY <1>2, <1>3, <1>4

------------------------------------------------------------------------------
(* The actions that write *)

\* An order row that is replaced by an order row.
LEMMA OrderOKNext ==
  ASSUME OrderOK, NEW o \in Order, NEW row \in OrderRow,
         order' = [order EXCEPT ![o] = row]
  PROVE  OrderOK'
BY DEF OrderOK

LEMMA NumberType ==
  ASSUME Inv, NEW o \in Order
  PROVE  NumberFor(o) \in Nat /\ Counted(o) \in Nat
BY DEF Inv, TypeOK, OrderRow, NumberFor, Counted

LEMMA PresentType ==
  ASSUME Inv, NEW r \in Request, PresentCommit(r)
  PROVE  Inv'
<1> DEFINE o == req[r].order
<1>1. TypeOK /\ OrderOK /\ MoneyOK /\ PointsOK
  BY Parts DEF Inv
<1>2. o \in Order
  BY <1>1, AtCall DEF PresentCommit
<1>3. NumberFor(o) \in Nat /\ Counted(o) \in Nat
  BY <1>2, NumberType
<1>4. order' = [order EXCEPT ![o].invoice = NumberFor(o)] /\ invoices' = Counted(o)
  BY DEF PresentCommit
<1>5. OrderOK'
  <2> DEFINE n == NumberFor(o)
             row == [order[o] EXCEPT !.invoice = n]
  <2>1. order' = [order EXCEPT ![o] = row]
    BY <1>4
  <2>2. n \in Nat /\ order[o] \in OrderRow
    BY <1>1, <1>2, <1>3 DEF OrderOK
  <2> HIDE DEF n, o
  <2>3. row \in OrderRow
    BY <2>2 DEF OrderRow
  <2> HIDE DEF row
  <2> QED BY <1>1, <1>2, <2>1, <2>3, OrderOKNext
<1>6. ReqOK'
  BY <1>1, FinishType DEF PresentCommit, ReqOK
<1>7. MoneyOK' /\ PointsOK'
  BY <1>1, MoneySame, PointsSame DEF PresentCommit
<1> QED BY <1>3, <1>4, <1>5, <1>6, <1>7, PartsNext

LEMMA IntentType ==
  ASSUME Inv, NEW r \in Request, IntentCommit(r)
  PROVE  Inv'
<1>1. TypeOK /\ OrderOK /\ MoneyOK /\ PointsOK /\ invoices \in Nat
  BY Parts DEF Inv
<1>2. req[r].order \in Order /\ req[r].seen.grandTotal \in Nat
  <2>1. req[r].order \in Order /\ req[r].seen \in OrderRow
    BY <1>1, AtCall DEF IntentCommit
  <2> QED BY <2>1 DEF OrderRow
<1>3. PICK p \in Payment :
        payment' = [payment EXCEPT ![p] =
            [status |-> "UNPAID", order |-> req[r].order, refunded |-> 0,
             amount |-> req[r].seen.grandTotal, key |-> None]]
  BY DEF IntentCommit
<1>4. MoneyOK'
  BY <1>1, <1>2, <1>3 DEF MoneyOK, PaymentRow, IntentCommit
<1>5. ReqOK'
  BY <1>1, FinishType DEF IntentCommit, ReqOK
<1>6. PointsOK' /\ OrderOK' /\ invoices' \in Nat
  BY <1>1, PointsSame DEF IntentCommit, OrderOK
<1> QED BY <1>4, <1>5, <1>6, PartsNext

\* A capture writes a bill that is still an order.
LEMMA SettledType ==
  ASSUME NEW row \in OrderRow, NEW amount \in Nat, NEW tip \in Nat, NEW number \in Nat
  PROVE  Settled(row, amount, tip, number) \in OrderRow
<1> DEFINE owed == billedOn(row) + tip
           paid == row.paidTotal + amount
           tips == row.tipAmount + tip
           status == IF paid >= owed /\ row.status \in {"SERVED", "READY"}
                     THEN "COMPLETED" ELSE row.status
           state == IF paid >= owed THEN "PAID" ELSE "PARTIAL"
           inv == IF paid >= owed THEN number ELSE row.invoice
<1>1. paid \in Nat /\ tips \in Nat
  BY DEF OrderRow
<1>2. status \in Status
  BY DEF Status, OrderRow
<1>3. state \in PaymentStatus
  BY DEF PaymentStatus
<1>4. inv \in Nat
  BY DEF OrderRow
<1>5. Settled(row, amount, tip, number) =
        [row EXCEPT !.paidTotal = paid, !.tipAmount = tips,
                    !.paymentStatus = state, !.status = status, !.invoice = inv]
  BY DEF Settled
<1> HIDE DEF paid, tips, state, status, inv
<1> QED BY <1>1, <1>2, <1>3, <1>4, <1>5, ZenonT(40) DEF OrderRow

LEMMA CaptureType ==
  ASSUME Inv, NEW r \in Request, NEW o \in Order, NEW p \in Payment,
         NEW k \in Key \cup {None}, NEW amount \in 1..MaxAmount,
         NEW tip \in 0..MaxTip, Capture(r, o, p, k, amount, tip)
  PROVE  Inv'
<1>1. TypeOK /\ OrderOK /\ MoneyOK /\ PointsOK /\ invoices \in Nat
  BY Parts DEF Inv
<1>2. amount \in Nat /\ tip \in Nat /\ NumberFor(o) \in Nat /\ Counted(o) \in Nat
  BY NumberType
<1>3. OrderOK'
  <2> DEFINE row == Settled(order[o], amount, tip, NumberFor(o))
  <2>1. row \in OrderRow
    BY <1>1, <1>2, SettledType DEF OrderOK
  <2>2. order' = [order EXCEPT ![o] = row]
    BY DEF Capture
  <2> HIDE DEF row
  <2> QED BY <1>1, <2>1, <2>2, OrderOKNext
<1>4. MoneyOK'
  BY <1>1, <1>2 DEF MoneyOK, PaymentRow, Capture
<1>5. PointsOK'
  BY <1>1, PointsSame DEF Capture, points
<1>6. invoices' \in Nat /\ ReqOK'
  <2>1. CASE order'[o].paymentStatus = "PAID"
    <3>1. invoices' = Counted(o) /\ Start(r, "settle", "queued", o, Nothing, {}, None)
      BY <2>1 DEF Capture
    <3>2. {} \in SUBSET Line
      OBVIOUS
    <3> QED BY <1>1, <1>2, <3>1, <3>2, SeenType, StartType DEF ReqOK
  <2>2. CASE order'[o].paymentStatus # "PAID"
    BY <1>1, <2>2 DEF Capture, TypeOK, ReqOK
  <2> QED BY <2>1, <2>2
<1> QED BY <1>3, <1>4, <1>5, <1>6, PartsNext

\* The two ways a bill's loyalty entries change other than by a credit.
LEMMA EntryType ==
  ASSUME NEW row \in LoyaltyRow, NEW a \in Nat, NEW b \in Nat
  PROVE  /\ [row EXCEPT !.settled = TRUE, !.earned = a] \in LoyaltyRow
         /\ [row EXCEPT !.reversed = TRUE, !.takenBack = a, !.givenBack = b]
              \in LoyaltyRow
         /\ [row EXCEPT !.spent = a, !.givenBack = b] \in LoyaltyRow
<1>1. [row EXCEPT !.settled = TRUE, !.earned = a] \in LoyaltyRow
  BY DEF LoyaltyRow
<1>2. [row EXCEPT !.reversed = TRUE, !.takenBack = a, !.givenBack = b] \in LoyaltyRow
  BY DEF LoyaltyRow
<1>3. [row EXCEPT !.spent = a, !.givenBack = b] \in LoyaltyRow
  BY DEF LoyaltyRow
<1> QED BY <1>1, <1>2, <1>3

\* What a refund leaves paid, and what it unwinds.
LEMMA UnwindType ==
  ASSUME Inv, NEW o \in Order, NEW paid, Unwind(o, paid)
  PROVE  PointsOK'
<1>1. PointsOK /\ OrderOK
  BY Parts
<1>2. CASE ~ Unwinding(o, paid)
  BY <1>1, <1>2, PointsSame DEF Unwind
<1>3. CASE Unwinding(o, paid)
  <2> DEFINE c    == order[o].customer
             take == Take(o, c)
             back == loyalty[o].spent
             net  == back - take
  <2>1. c \in Customer
    BY <1>1, <1>3 DEF Unwinding, OrderOK, OrderRow
  <2>2. balance[c] \in Nat /\ loyalty[o] \in LoyaltyRow
    BY <1>1, <2>1 DEF PointsOK, BalanceExplained
  <2>3. back \in Nat /\ loyalty[o].earned \in Nat
    BY <2>2 DEF LoyaltyRow
  <2>4. take \in Nat /\ take <= balance[c]
    BY <2>2, <2>3 DEF Take, AtMost
  <2>5. /\ balance' = [balance EXCEPT ![c] = @ + net]
        /\ entries' = [entries EXCEPT ![c] = @ + net]
        /\ loyalty' = [loyalty EXCEPT ![o].reversed = TRUE,
                                      ![o].takenBack = @ + take,
                                      ![o].givenBack = @ + back]
    BY <1>3 DEF Unwind
  <2> HIDE DEF c, take, back
  <2>6. net \in Int /\ balance[c] + net >= 0
    BY <2>2, <2>3, <2>4
  <2>7. loyalty' \in [Order -> LoyaltyRow]
    <3> DEFINE a == loyalty[o].takenBack + take
               b == loyalty[o].givenBack + back
               row == [loyalty[o] EXCEPT !.reversed = TRUE,
                         !.takenBack = a, !.givenBack = b]
    <3>1. a \in Nat /\ b \in Nat
      BY <2>2, <2>3, <2>4 DEF LoyaltyRow
    <3>2. loyalty' = [loyalty EXCEPT ![o] = row]
      BY <2>5
    <3> HIDE DEF a, b
    <3>3. row \in LoyaltyRow
      BY <2>2, <3>1, EntryType
    <3> HIDE DEF row
    <3> QED BY <1>1, <3>2, <3>3 DEF PointsOK
  <2> QED BY <1>1, <2>1, <2>5, <2>6, <2>7, Moved
<1> QED BY <1>2, <1>3

LEMMA RefundType ==
  ASSUME Inv, NEW r \in Request, NEW p \in Payment, NEW k \in Key,
         NEW amount \in 1..MaxAmount, Refund(r, p, k, amount)
  PROVE  Inv'
<1> DEFINE o == payment[p].order
           paid == Left(o, amount)
<1>1. TypeOK /\ OrderOK /\ MoneyOK /\ PointsOK /\ invoices \in Nat
  BY Parts DEF Inv
<1>2. o \in Order /\ amount \in Nat
  BY <1>1 DEF MoneyOK, Refund
<1>3. paid \in Nat
  BY <1>1, <1>2 DEF MoneyOK, Left, Less
<1>4. OrderOK'
  <2> DEFINE state == derivePaymentStatus(paid, billedOn(order[o]),
                        IF paid = 0 THEN "REFUNDED" ELSE order[o].paymentStatus)
             row == [order[o] EXCEPT !.paidTotal = paid, !.paymentStatus = state]
  <2>1. order' = [order EXCEPT ![o] = row]
    BY DEF Refund
  <2>2. state \in PaymentStatus /\ order[o] \in OrderRow
    BY <1>1, <1>2, DeriveType DEF OrderOK
  <2> HIDE DEF state, paid, o
  <2>3. row \in OrderRow
    BY <1>3, <2>2 DEF OrderRow
  <2> HIDE DEF row
  <2> QED BY <1>1, <1>2, <2>1, <2>3, OrderOKNext
<1>5. MoneyOK'
  <2> DEFINE back == payment[p].refunded + amount
             state == IF payment[p].refunded + amount >= payment[p].amount
                      THEN "REFUNDED" ELSE payment[p].status
             row == [payment[p] EXCEPT !.refunded = back, !.status = state]
  <2>1. payment' = [payment EXCEPT ![p] = row]
    BY DEF Refund
  <2>2. payment[p] \in PaymentRow
    BY <1>1 DEF MoneyOK
  <2>3. back \in Nat /\ state \in {"NONE", "UNPAID", "PAID", "REFUNDED"}
    BY <1>2, <2>2 DEF PaymentRow
  <2> HIDE DEF back, state
  <2>4. row \in PaymentRow /\ row.order = o
    BY <2>2, <2>3 DEF PaymentRow
  <2> HIDE DEF row
  <2>5. /\ payment' \in [Payment -> PaymentRow]
        /\ \A q \in Payment : payment'[q].status # "NONE" => payment'[q].order \in Order
    BY <1>1, <1>2, <2>1, <2>4 DEF MoneyOK
  <2>6. refunds' \in [Key -> Payment \cup {None}]
    BY <1>1 DEF MoneyOK, Refund
  <2>7. returned' \in [Order -> Nat] /\ received' \in [Order -> Nat]
    BY <1>1, <1>2 DEF MoneyOK, Refund
  <2> QED BY <2>5, <2>6, <2>7 DEF MoneyOK
<1>6. PointsOK'
  BY <1>2, UnwindType DEF Refund
<1>7. invoices' \in Nat /\ ReqOK'
  BY <1>1 DEF Refund, TypeOK, ReqOK
<1> QED BY <1>4, <1>5, <1>6, <1>7, PartsNext

LEMMA SettleType ==
  ASSUME Inv, NEW r \in Request, SettleCommit(r)
  PROVE  Inv'
<1> DEFINE o == req[r].order
           c == req[r].seen.customer
           t == req[r].seen.grandTotal
           n == t * EarnRate
<1>1. TypeOK /\ OrderOK /\ MoneyOK /\ PointsOK /\ invoices \in Nat
  BY Parts DEF Inv
<1>2. o \in Order /\ c \in Customer \cup {None} /\ t \in Nat
  <2>1. o \in Order /\ req[r].seen \in OrderRow
    BY <1>1, AtCall DEF SettleCommit
  <2> QED BY <2>1 DEF OrderRow
<1>3. n \in Nat
  BY <1>2
<1>4. CASE AlreadySettled(o)
  BY <1>1, <1>4, PointsSame, FinishType, MoneySame, PartsNext
     DEF SettleCommit, OrderOK, ReqOK
<1>5. CASE ~ AlreadySettled(o)
  <2>1. /\ balance' = [balance EXCEPT ![c] = @ + n]
        /\ entries' = [entries EXCEPT ![c] = @ + n]
        /\ loyalty' = [loyalty EXCEPT ![o].settled = TRUE, ![o].earned = @ + n]
    BY <1>5 DEF SettleCommit
  <2>2. PointsOK'
    <3> HIDE DEF n, c, o
    <3>1. loyalty' \in [Order -> LoyaltyRow]
      <4> DEFINE e   == loyalty[o].earned + n
                 row == [loyalty[o] EXCEPT !.settled = TRUE, !.earned = e]
      <4>1. loyalty' = [loyalty EXCEPT ![o] = row]
        BY <2>1
      <4>2. e \in Nat
        BY <1>1, <1>2, <1>3 DEF PointsOK, LoyaltyRow
      <4> HIDE DEF e
      <4>3. row \in LoyaltyRow
        BY <1>1, <1>2, <4>2, EntryType DEF PointsOK
      <4> HIDE DEF row
      <4> QED BY <1>1, <4>1, <4>3 DEF PointsOK
    <3>2. CASE c \in Customer
      <4>1. n \in Int /\ balance[c] + n >= 0
        BY <1>1, <1>3, <3>2 DEF PointsOK, BalanceExplained
      <4> QED BY <1>1, <2>1, <3>1, <3>2, <4>1, Moved, Zenon
    <3>3. CASE c = None
      <4>1. balance' = balance /\ entries' = entries
        BY <1>1, <2>1, <3>3 DEF PointsOK
      <4> QED BY <1>1, <3>1, <4>1 DEF PointsOK, BalanceExplained
    <3> QED BY <1>2, <3>2, <3>3
  <2> QED BY <1>1, <2>2, FinishType, MoneySame, PartsNext
       DEF SettleCommit, OrderOK, ReqOK
<1> QED BY <1>4, <1>5

\* What the reducing, editing and adding handlers write is an order.
LEMMA RecalcType ==
  ASSUME Inv, NEW r \in Request, RecalcCommit(r)
  PROVE  Inv'
<1> DEFINE o     == req[r].order
           seen  == req[r].seen
           fresh == Repriced(seen)
           base  == Reduced(req[r], order[o])
<1>1. TypeOK /\ OrderOK /\ MoneyOK /\ PointsOK /\ invoices \in Nat
  BY Parts DEF Inv
<1>2. /\ req[r] \in Call /\ req[r].op \in Reducers
      /\ o \in Order /\ seen \in OrderRow
  BY <1>1, AtCall DEF RecalcCommit
<1>3. fresh \in OrderRow /\ Unabsorbed(seen) \in Nat /\ base \in OrderRow
  BY <1>1, <1>2, RepricedType, ReducedType DEF OrderOK
<1>4. OrderOK'
  <2> DEFINE row == [base EXCEPT !.loyaltyDiscount = fresh.loyaltyDiscount,
                       !.grandTotal = fresh.grandTotal,
                       !.paymentStatus = fresh.paymentStatus]
  <2>1. order' = [order EXCEPT ![o] = row]
    BY DEF RecalcCommit
  <2> HIDE DEF base, fresh, o
  <2>2. row \in OrderRow
    BY <1>3 DEF OrderRow
  <2> HIDE DEF row
  <2> QED BY <1>1, <1>2, <2>1, <2>2, OrderOKNext
<1>5. PointsOK'
  <2>1. seen.customer \in Customer \cup {None}
    BY <1>2 DEF OrderRow
  <2>2. Credit(o, seen.customer, Unabsorbed(seen))
    BY DEF RecalcCommit
  <2> HIDE DEF o, seen
  <2> QED BY <1>2, <1>3, <2>1, <2>2, CreditType
<1>6. ReqOK' /\ MoneyOK' /\ invoices' \in Nat
  BY <1>1, FinishType, MoneySame DEF RecalcCommit, ReqOK
<1> QED BY <1>4, <1>5, <1>6, PartsNext

LEMMA EditType ==
  ASSUME Inv, NEW r \in Request, EditCommit(r)
  PROVE  Inv'
<1> DEFINE o     == req[r].order
           seen  == req[r].seen
           want  == req[r].lines
           live  == (order[o].live \ (seen.live \ want)) \cup (want \ seen.live)
           void  == order[o].void \cup (seen.live \ want)
           disc  == seen.loyaltyDiscount
           total == Net[want][seen.cut] - Loyal(want, seen.cut, disc)
           row   == [order[o] EXCEPT !.live = live, !.void = void,
                       !.loyaltyDiscount = disc, !.grandTotal = total]
<1>1. TypeOK /\ OrderOK /\ MoneyOK /\ PointsOK /\ invoices \in Nat
  BY Parts DEF Inv
<1>2. o \in Order /\ seen \in OrderRow /\ want \in SUBSET Line /\ order[o] \in OrderRow
  BY <1>1, AtCall DEF EditCommit, OrderOK
<1>3. /\ live \in SUBSET Line /\ void \in SUBSET Line
      /\ disc \in Nat /\ seen.cut \in SUBSET Line
  BY <1>2 DEF OrderRow
<1>4. total \in Nat
  <2> DEFINE a == Net[want][seen.cut]
             b == Loyal(want, seen.cut, disc)
  <2>1. a \in Nat /\ b \in Nat /\ b <= a
    BY <1>2, <1>3, LoyalType
  <2> HIDE DEF a, b
  <2>2. a - b \in Nat
    BY <2>1
  <2> QED BY <2>2 DEF a, b
<1>5. order' = [order EXCEPT ![o] = row]
  BY DEF EditCommit
<1>6. row \in OrderRow
  <2> HIDE DEF live, void, disc, total, o
  <2> QED BY <1>2, <1>3, <1>4 DEF OrderRow
<1>7. OrderOK'
  <2> HIDE DEF row, o
  <2> QED BY <1>1, <1>2, <1>5, <1>6, OrderOKNext
<1>8. ReqOK' /\ MoneyOK' /\ PointsOK' /\ invoices' \in Nat
  BY <1>1, FinishType, MoneySame, PointsSame DEF EditCommit, ReqOK
<1> QED BY <1>7, <1>8, PartsNext

LEMMA AddType ==
  ASSUME Inv, NEW r \in Request, NEW l \in Line, AddItem(r, l)
  PROVE  Inv'
<1> DEFINE o   == LineOf[l]
           row == [order[o] EXCEPT !.live = @ \cup {l}]
<1>1. TypeOK /\ OrderOK /\ MoneyOK /\ PointsOK /\ invoices \in Nat
  BY Parts DEF Inv
<1>2. o \in Order /\ order[o] \in OrderRow
  BY <1>1 DEF OrderOK
<1>3. row \in OrderRow /\ row.customer \in Customer \cup {None}
  <2> HIDE DEF o
  <2> QED BY <1>2 DEF OrderRow
<1>4. order' = [order EXCEPT ![o] = Repriced(row)] /\ Credit(o, row.customer, Unabsorbed(row))
  BY DEF AddItem
<1>5. OrderOK' /\ PointsOK'
  <2> HIDE DEF row, o
  <2>1. Repriced(row) \in OrderRow /\ Unabsorbed(row) \in Nat
    BY <1>3, RepricedType
  <2> QED BY <1>1, <1>2, <1>3, <1>4, <2>1, OrderOKNext, CreditType
<1>6. ReqOK' /\ MoneyOK' /\ invoices' \in Nat
  BY <1>1, MoneySame DEF AddItem, ReqOK, TypeOK
<1> QED BY <1>5, <1>6, PartsNext

LEMMA RedeemType ==
  ASSUME Inv, NEW r \in Request, NEW o \in Order, NEW wanted \in 1..MaxPoints,
         Redeem(r, o, wanted)
  PROVE  Inv'
<1> DEFINE c    == order[o].customer
           old  == order[o].loyaltyDiscount
           room == Less(Net[order[o].live][{}], old)
           n    == AtMost(wanted, room)
           d    == old + n
           row  == [order[o] EXCEPT !.loyaltyDiscount = d]
           lost == Unabsorbed(row)
<1>1. TypeOK /\ OrderOK /\ MoneyOK /\ PointsOK /\ invoices \in Nat
  BY Parts DEF Inv
<1>2. /\ order[o] \in OrderRow /\ old \in Nat /\ order[o].live \in SUBSET Line
      /\ c \in Customer
  BY <1>1 DEF OrderOK, OrderRow, Redeem
<1>3. n \in Nat /\ d \in Nat
  <2> DEFINE a == Net[order[o].live][{}]
  <2>1. a \in Nat /\ wanted \in Nat
    BY <1>2
  <2> HIDE DEF a, old
  <2>2. n \in Nat
    BY <1>2, <2>1 DEF AtMost, Less
  <2> HIDE DEF n
  <2> QED BY <1>2, <2>2
<1>4. row \in OrderRow
  <2> HIDE DEF d
  <2> QED BY <1>2, <1>3 DEF OrderRow
<1>5. Repriced(row) \in OrderRow /\ lost \in Nat
  <2> HIDE DEF row
  <2> QED BY <1>4, RepricedType
<1>6. /\ order' = [order EXCEPT ![o] = Repriced(row)]
      /\ balance[c] >= n
      /\ balance' = [balance EXCEPT ![c] = @ - n + lost]
      /\ entries' = [entries EXCEPT ![c] = @ - n + lost]
      /\ loyalty' = [loyalty EXCEPT ![o].spent = @ + n, ![o].givenBack = @ + lost]
  BY DEF Redeem
<1> HIDE DEF c, n, lost, row
<1>7. OrderOK'
  BY <1>1, <1>5, <1>6, OrderOKNext
<1>8. PointsOK'
  <2> DEFINE net == lost - n
  <2>1. net \in Int /\ balance[c] + net >= 0
    BY <1>1, <1>2, <1>3, <1>5, <1>6 DEF PointsOK
  <2>2. loyalty' \in [Order -> LoyaltyRow]
    <3> DEFINE a == loyalty[o].spent + n
               b == loyalty[o].givenBack + lost
               entry == [loyalty[o] EXCEPT !.spent = a, !.givenBack = b]
    <3>1. loyalty[o] \in LoyaltyRow /\ a \in Nat /\ b \in Nat
      BY <1>1, <1>3, <1>5 DEF PointsOK, LoyaltyRow
    <3>2. loyalty' = [loyalty EXCEPT ![o] = entry]
      BY <1>6
    <3> HIDE DEF a, b
    <3>3. entry \in LoyaltyRow
      BY <3>1, EntryType
    <3> HIDE DEF entry
    <3> QED BY <1>1, <3>2, <3>3 DEF PointsOK
  <2>3. balance[c] - n + lost = balance[c] + net /\ entries[c] - n + lost = entries[c] + net
    BY <1>1, <1>2, <1>3, <1>5 DEF PointsOK
  <2>4. /\ balance' = [balance EXCEPT ![c] = @ + net]
        /\ entries' = [entries EXCEPT ![c] = @ + net]
    BY <1>6, <2>3
  <2> HIDE DEF net
  <2> QED BY <1>1, <1>2, <2>1, <2>2, <2>4, Moved
<1>9. ReqOK' /\ MoneyOK' /\ invoices' \in Nat
  BY <1>1, MoneySame DEF Redeem, ReqOK, TypeOK
<1> QED BY <1>7, <1>8, <1>9, PartsNext

LEMMA AttachType ==
  ASSUME Inv, NEW r \in Request, AttachCommit(r)
  PROVE  Inv'
<1> DEFINE o   == req[r].order
           who == req[r].who
           row == [order[o] EXCEPT !.customer = who]
<1>1. TypeOK /\ OrderOK /\ MoneyOK /\ PointsOK /\ invoices \in Nat
  BY Parts DEF Inv
<1>2. o \in Order /\ who \in Customer \cup {None} /\ order[o] \in OrderRow
  BY <1>1, AtCall DEF AttachCommit, OrderOK
<1>3. order' = [order EXCEPT ![o] = row]
  BY DEF AttachCommit
<1>4. row \in OrderRow
  <2> HIDE DEF who, o
  <2> QED BY <1>2 DEF OrderRow
<1>5. OrderOK'
  <2> HIDE DEF row, o
  <2> QED BY <1>1, <1>2, <1>3, <1>4, OrderOKNext
<1>6. ReqOK' /\ MoneyOK' /\ PointsOK' /\ invoices' \in Nat
  BY <1>1, FinishType, MoneySame, PointsSame DEF AttachCommit, ReqOK
<1> QED BY <1>5, <1>6, PartsNext

LEMMA MoveType ==
  ASSUME Inv, NEW r \in Request, NEW o \in Order, NEW s \in Status, MoveStatus(r, o, s)
  PROVE  Inv'
<1> DEFINE row == [order[o] EXCEPT !.status = s]
<1>1. TypeOK /\ OrderOK /\ MoneyOK /\ PointsOK /\ invoices \in Nat
  BY Parts DEF Inv
<1>2. row \in OrderRow
  <2>1. order[o] \in OrderRow
    BY <1>1 DEF OrderOK
  <2> QED BY ONLY <2>1, s \in Status DEF OrderRow
<1>3. order' = [order EXCEPT ![o] = row]
  BY DEF MoveStatus
<1>4. OrderOK'
  <2> HIDE DEF row
  <2> QED BY <1>1, <1>2, <1>3, OrderOKNext
<1>5. ReqOK'
  <2>1. CASE Start(r, "close", "queued", o, Nothing, {}, None)
    <3>1. {} \in SUBSET Line
      OBVIOUS
    <3> QED BY <1>1, <2>1, <3>1, SeenType, StartType DEF ReqOK
  <2>2. CASE UNCHANGED req
    BY <1>1, <2>2 DEF TypeOK, ReqOK
  <2> QED BY <2>1, <2>2 DEF MoveStatus
<1>6. MoneyOK' /\ PointsOK' /\ invoices' \in Nat
  BY <1>1, MoneySame, PointsSame DEF MoveStatus
<1> QED BY <1>4, <1>5, <1>6, PartsNext

LEMMA CloseType ==
  ASSUME Inv, NEW r \in Request, CloseServed(r)
  PROVE  Inv'
<1> DEFINE o   == req[r].order
           s   == IF order[o].status = "SERVED" THEN "COMPLETED" ELSE order[o].status
           row == [order[o] EXCEPT !.status = s]
<1>1. TypeOK /\ OrderOK /\ MoneyOK /\ PointsOK /\ invoices \in Nat
  BY Parts DEF Inv
<1>2. o \in Order /\ order[o] \in OrderRow
  BY <1>1, AtCall DEF CloseServed, OrderOK
<1>3. order' = [order EXCEPT ![o] = row]
  BY DEF CloseServed
<1>4. row \in OrderRow
  <2>1. s \in Status
    BY <1>2 DEF OrderRow, Status
  <2> HIDE DEF s, o
  <2> QED BY <1>2, <2>1 DEF OrderRow
<1>5. OrderOK'
  <2> HIDE DEF row, o
  <2> QED BY <1>1, <1>2, <1>3, <1>4, OrderOKNext
<1>6. ReqOK' /\ MoneyOK' /\ PointsOK' /\ invoices' \in Nat
  BY <1>1, FinishType, MoneySame, PointsSame DEF CloseServed, ReqOK
<1> QED BY <1>5, <1>6, PartsNext

LEMMA CancelType ==
  ASSUME Inv, NEW r \in Request, CancelCommit(r)
  PROVE  Inv'
<1> DEFINE o    == req[r].order
           seen == req[r].seen
           void == order[o].void \cup order[o].live
           row  == [order[o] EXCEPT !.status = "CANCELLED", !.live = {}, !.void = void]
<1>1. TypeOK /\ OrderOK /\ MoneyOK /\ PointsOK /\ invoices \in Nat
  BY Parts DEF Inv
<1>2. o \in Order /\ seen \in OrderRow /\ order[o] \in OrderRow
  BY <1>1, AtCall DEF CancelCommit, OrderOK
<1>3. order' = [order EXCEPT ![o] = row] /\ Credit(o, seen.customer, seen.loyaltyDiscount)
  BY DEF CancelCommit
<1>4. row \in OrderRow
  <2>1. void \in SUBSET Line /\ "CANCELLED" \in Status /\ {} \in SUBSET Line
    BY <1>2 DEF OrderRow, Status
  <2> HIDE DEF void, o
  <2> QED BY <1>2, <2>1 DEF OrderRow
<1>5. OrderOK'
  <2> HIDE DEF row, o
  <2> QED BY <1>1, <1>2, <1>3, <1>4, OrderOKNext
<1>6. PointsOK'
  <2>1. seen.customer \in Customer \cup {None} /\ seen.loyaltyDiscount \in Nat
    BY <1>2 DEF OrderRow
  <2> HIDE DEF seen, o
  <2> QED BY <1>2, <1>3, <2>1, CreditType
<1>7. ReqOK' /\ MoneyOK' /\ invoices' \in Nat
  BY <1>1, FinishType, MoneySame DEF CancelCommit, ReqOK
<1> QED BY <1>5, <1>6, <1>7, PartsNext

------------------------------------------------------------------------------
(* The invariant *)

LEMMA InitType == Init => Inv
<1> SUFFICES ASSUME Init PROVE Inv
  OBVIOUS
<1>1. OrderOK
  <2>1. PICK s \in [Order -> {"PENDING", "ACCEPTED"}],
             c \in [Order -> Customer \cup {None}] :
           order = [o \in Order |-> NewOrder(o, s[o], c[o])]
    BY DEF Init
  <2>2. ASSUME NEW o \in Order PROVE NewOrder(o, s[o], c[o]) \in OrderRow
    <3> DEFINE mine  == {l \in Placed : LineOf[l] = o}
               total == Net[mine][{}]
    <3>1. mine \in SUBSET Line /\ {} \in SUBSET Line
      OBVIOUS
    <3>2. total \in Nat
      BY <3>1
    <3>3. NewOrder(o, s[o], c[o]) =
            [status |-> s[o], live |-> mine, void |-> {}, cut |-> {},
             customer |-> c[o], loyaltyDiscount |-> 0, grandTotal |-> total,
             tipAmount |-> 0, paidTotal |-> 0, paymentStatus |-> "UNPAID",
             invoice |-> 0]
      BY DEF NewOrder
    <3>4. s[o] \in Status /\ "UNPAID" \in PaymentStatus
      BY DEF Status, PaymentStatus
    <3> HIDE DEF total, mine
    <3> QED BY <3>1, <3>2, <3>3, <3>4 DEF OrderRow
  <2> QED BY <2>1, <2>2 DEF OrderOK
<1>2. MoneyOK
  BY DEF Init, MoneyOK, PaymentRow
<1>3. PointsOK
  BY DEF Init, PointsOK, LoyaltyRow, BalanceExplained
<1>4. invoices \in Nat /\ ReqOK
  BY DEF Init, ReqOK
<1> QED BY <1>1, <1>2, <1>3, <1>4, Parts

LEMMA StepType == Inv /\ [Next]_vars => Inv'
<1> SUFFICES ASSUME Inv, [Next]_vars PROVE Inv'
  OBVIOUS
<1>1. CASE UNCHANGED vars
  <2>1. UNCHANGED <<order, money, points, invoices>> /\ ReqOK'
    BY <1>1, Parts DEF vars, money, points, ReqOK
  <2> QED BY <2>1, OnlyReq
<1>2. CASE Next
  <2>1. PICK r \in Request : NextOf(r)
    BY <1>2 DEF Next
  <2>2. CASE Fail(r) \/ SettleLoad(r) \/ RecalcRead(r)
    BY <2>2, AdvanceType
  <2>3. CASE \E o \in Order : PresentLoad(r, o) \/ IntentLoad(r, o)
                                \/ EditLoad(r, o) \/ CancelLoad(r, o)
    BY <2>3, LoadType
  <2>4. CASE \E o \in Order, c \in Customer : AttachLoad(r, o, c)
    BY <2>4, AttachLoadType
  <2>5. CASE \E l \in Line : VoidLoad(r, l) \/ DiscountLoad(r, l) \/ AddItem(r, l)
    BY <2>5, LineLoadType, AddType
  <2>6. CASE \/ PresentCommit(r) \/ IntentCommit(r) \/ EditCommit(r)
             \/ CancelCommit(r) \/ AttachCommit(r) \/ RecalcCommit(r)
             \/ SettleCommit(r) \/ CloseServed(r)
    BY <2>6, PresentType, IntentType, EditType, CancelType, AttachType,
       RecalcType, SettleType, CloseType
  <2>7. CASE \E o \in Order, s \in Status : MoveStatus(r, o, s)
    BY <2>7, MoveType
  <2>8. CASE \E o \in Order, n \in 1..MaxPoints : Redeem(r, o, n)
    BY <2>8, RedeemType
  <2>9. CASE \E o \in Order, p \in Payment, k \in Key \cup {None},
                amount \in 1..MaxAmount, tip \in 0..MaxTip :
               Capture(r, o, p, k, amount, tip)
    BY <2>9, CaptureType
  <2>10. CASE \E p \in Payment, k \in Key, amount \in 1..MaxAmount :
                Refund(r, p, k, amount)
    BY <2>10, RefundType
  <2> QED BY <2>1, <2>2, <2>3, <2>4, <2>5, <2>6, <2>7, <2>8, <2>9, <2>10 DEF NextOf
<1> QED BY <1>1, <1>2

\* Every column keeps its type in every reachable state: in particular no
\* total, discount or amount of points taken back is ever negative
\* (recalculateOrderTotals, updateGuestOrderItems, refundPayment).
THEOREM TypeCorrect == Spec => []TypeOK
<1>1. Inv => TypeOK
  BY DEF Inv
<1> QED BY <1>1, InitType, StepType, PTL DEF Spec

\* A customer's balance is always what their entries add up to, and never
\* below zero, whichever handlers race over it.
THEOREM BalanceCorrect == Spec => []BalanceExplained
<1>1. Inv => BalanceExplained
  BY DEF Inv
<1> QED BY <1>1, InitType, StepType, PTL DEF Spec

LEMMA InvCorrect == Spec => []Inv
BY InitType, StepType, PTL DEF Spec

------------------------------------------------------------------------------
(* What a step can touch *)

ACapture == \E r \in Request, o \in Order, p \in Payment, k \in Key \cup {None},
               amount \in 1..MaxAmount, tip \in 0..MaxTip :
              Capture(r, o, p, k, amount, tip)
ARefund == \E r \in Request, p \in Payment, k \in Key, amount \in 1..MaxAmount :
             Refund(r, p, k, amount)
AnIntent == \E r \in Request : IntentCommit(r)
ASettling == \E r \in Request : SettleCommit(r)
ARedemption == \E r \in Request, o \in Order, n \in 1..MaxPoints : Redeem(r, o, n)
ACredit == \E o \in Order, c \in Customer \cup {None}, n \in Nat : Credit(o, c, n)
ACancel == \E r \in Request : CancelCommit(r)

\* Money rows move only when a payment is captured or refunded, or an intent
\* is opened; points only when a bill is settled, redeemed on, refunded, or
\* handed a credit.
LEMMA Frame ==
  ASSUME Inv, Next
  PROVE  \/ ACapture /\ UNCHANGED points
         \/ ARefund
         \/ AnIntent /\ UNCHANGED points
         \/ UNCHANGED money /\ (ASettling \/ ARedemption \/ ACredit \/ UNCHANGED points)
<1>1. PICK r \in Request : NextOf(r)
  BY DEF Next
<1>2. TypeOK
  BY DEF Inv
<1>3. CASE Fail(r) \/ SettleLoad(r) \/ RecalcRead(r)
  BY <1>3 DEF Fail, SettleLoad, RecalcRead
<1>4. CASE \E o \in Order : PresentLoad(r, o) \/ IntentLoad(r, o)
                              \/ EditLoad(r, o) \/ CancelLoad(r, o)
  BY <1>4 DEF PresentLoad, IntentLoad, EditLoad, CancelLoad
<1>5. CASE \E o \in Order, c \in Customer : AttachLoad(r, o, c)
  BY <1>5 DEF AttachLoad
<1>6. CASE \E l \in Line : VoidLoad(r, l) \/ DiscountLoad(r, l)
  BY <1>6 DEF VoidLoad, DiscountLoad
<1>7. CASE PresentCommit(r) \/ EditCommit(r) \/ AttachCommit(r) \/ CloseServed(r)
  BY <1>7 DEF PresentCommit, EditCommit, AttachCommit, CloseServed
<1>8. CASE \E o \in Order, s \in Status : MoveStatus(r, o, s)
  BY <1>8 DEF MoveStatus
<1>9. CASE IntentCommit(r)
  BY <1>9 DEF IntentCommit, AnIntent
<1>10. CASE SettleCommit(r)
  BY <1>10 DEF SettleCommit, ASettling
<1>11. CASE \E o \in Order, n \in 1..MaxPoints : Redeem(r, o, n)
  BY <1>11, ZenonT(40) DEF Redeem, ARedemption
<1>12. CASE \E o \in Order, p \in Payment, k \in Key \cup {None},
               amount \in 1..MaxAmount, tip \in 0..MaxTip :
              Capture(r, o, p, k, amount, tip)
  BY <1>12, ZenonT(40) DEF Capture, ACapture
<1>13. CASE \E p \in Payment, k \in Key, amount \in 1..MaxAmount :
              Refund(r, p, k, amount)
  BY <1>13 DEF ARefund
<1>14. CASE CancelCommit(r)
  <2>1. req[r].order \in Order /\ req[r].seen \in OrderRow
    BY <1>2, <1>14, AtCall DEF CancelCommit
  <2>2. req[r].seen.customer \in Customer \cup {None}
        /\ req[r].seen.loyaltyDiscount \in Nat
    BY <2>1 DEF OrderRow
  <2>3. Credit(req[r].order, req[r].seen.customer, req[r].seen.loyaltyDiscount)
        /\ UNCHANGED money
    BY <1>14 DEF CancelCommit
  <2> QED BY <2>1, <2>2, <2>3 DEF ACredit
<1>15. CASE RecalcCommit(r)
  <2>1. req[r].order \in Order /\ req[r].seen \in OrderRow
    BY <1>2, <1>15, AtCall DEF RecalcCommit
  <2>2. req[r].seen.customer \in Customer \cup {None} /\ Unabsorbed(req[r].seen) \in Nat
    BY <2>1, RepricedType DEF OrderRow
  <2>3. Credit(req[r].order, req[r].seen.customer, Unabsorbed(req[r].seen))
        /\ UNCHANGED money
    BY <1>15 DEF RecalcCommit
  <2> QED BY <2>1, <2>2, <2>3 DEF ACredit
<1>16. CASE \E l \in Line : AddItem(r, l)
  <2>1. PICK l \in Line : AddItem(r, l)
    BY <1>16
  <2> DEFINE o   == LineOf[l]
             row == [order[o] EXCEPT !.live = @ \cup {l}]
  <2>2. o \in Order /\ order[o] \in OrderRow
    BY <1>2 DEF TypeOK
  <2>3. row \in OrderRow /\ row.customer \in Customer \cup {None}
    <3> HIDE DEF o
    <3> QED BY <2>2 DEF OrderRow
  <2>4. Credit(o, row.customer, Unabsorbed(row)) /\ UNCHANGED money
    BY <2>1 DEF AddItem
  <2> HIDE DEF row, o
  <2>5. Unabsorbed(row) \in Nat
    BY <2>3, RepricedType
  <2> QED BY <2>2, <2>3, <2>4, <2>5 DEF ACredit
<1> QED BY <1>1, <1>3, <1>4, <1>5, <1>6, <1>7, <1>8, <1>9, <1>10, <1>11, <1>12,
        <1>13, <1>14, <1>15, <1>16 DEF NextOf

------------------------------------------------------------------------------
(* Money rows *)

\* Beside RefundsCovered: what was never banked was never repaid.
NothingEarly == \A p \in Payment : ~ Banked(p) => payment[p].refunded = 0
MoneyInv == RefundsCovered /\ KeyOnce /\ NothingEarly

LEMMA MoneyInit == Init => MoneyInv
BY DEF Init, MoneyInv, RefundsCovered, KeyOnce, NothingEarly

LEMMA MoneyUnchanged ==
  ASSUME MoneyInv, UNCHANGED money
  PROVE  MoneyInv'
BY DEF money, MoneyInv, RefundsCovered, KeyOnce, NothingEarly, Banked

\* A payment row that takes the place of another.
LEMMA MoneyRow ==
  ASSUME Inv, MoneyInv, NEW p \in Payment, NEW row \in PaymentRow,
         payment' = [payment EXCEPT ![p] = row],
         row.refunded <= row.amount,
         row.status = "REFUNDED" <=> row.amount > 0 /\ row.refunded = row.amount,
         row.status \notin {"PAID", "REFUNDED"} => row.refunded = 0,
         row.key # None => \A q \in Payment \ {p} : payment[q].key # row.key
  PROVE  MoneyInv'
<1>1. payment \in [Payment -> PaymentRow]
  BY DEF Inv, TypeOK
<1>2. \A q \in Payment : payment'[q] = IF q = p THEN row ELSE payment[q]
  BY <1>1
<1>3. RefundsCovered'
  BY <1>2 DEF MoneyInv, RefundsCovered
<1>4. KeyOnce'
  BY <1>2 DEF MoneyInv, KeyOnce
<1>5. NothingEarly'
  BY <1>2 DEF MoneyInv, NothingEarly, Banked
<1> QED BY <1>3, <1>4, <1>5 DEF MoneyInv

LEMMA MoneyStep == Inv /\ MoneyInv /\ [Next]_vars => MoneyInv'
<1> SUFFICES ASSUME Inv, MoneyInv, [Next]_vars PROVE MoneyInv'
  OBVIOUS
<1>1. payment \in [Payment -> PaymentRow]
  BY DEF Inv, TypeOK
<1>2. CASE UNCHANGED money
  BY <1>2, MoneyUnchanged
<1>3. CASE AnIntent
  <2>1. PICK r \in Request : IntentCommit(r)
    BY <1>3 DEF AnIntent
  <2> DEFINE n == req[r].seen.grandTotal
             o == req[r].order
             row == [status |-> "UNPAID", order |-> o, refunded |-> 0,
                     amount |-> n, key |-> None]
  <2>2. PICK p \in Payment : payment' = [payment EXCEPT ![p] = row]
    BY <2>1 DEF IntentCommit
  <2>3. o \in Order /\ n \in Nat
    <3>1. o \in Order /\ req[r].seen \in OrderRow
      BY <2>1, AtCall DEF IntentCommit, Inv
    <3> QED BY <3>1 DEF OrderRow
  <2> HIDE DEF n, o
  <2>4. row \in PaymentRow
    BY <2>3 DEF PaymentRow
  <2>5. row.refunded = 0 /\ row.status = "UNPAID" /\ row.amount = n /\ row.key = None
    OBVIOUS
  <2> HIDE DEF row
  <2>6. /\ row.refunded <= row.amount
        /\ row.status = "REFUNDED" <=> row.amount > 0 /\ row.refunded = row.amount
        /\ row.status \notin {"PAID", "REFUNDED"} => row.refunded = 0
    BY <2>3, <2>5
  <2> QED BY <2>2, <2>4, <2>5, <2>6, MoneyRow
<1>4. CASE ACapture
  <2>1. PICK r \in Request, o \in Order, p \in Payment, k \in Key \cup {None},
             amount \in 1..MaxAmount, tip \in 0..MaxTip :
          Capture(r, o, p, k, amount, tip)
    BY <1>4 DEF ACapture
  <2> DEFINE row == [status |-> "PAID", order |-> o, amount |-> amount,
                     refunded |-> 0, key |-> k]
  <2>2. payment' = [payment EXCEPT ![p] = row] /\ ~ KeyTaken(k)
    BY <2>1 DEF Capture
  <2>3. row \in PaymentRow /\ amount > 0
    BY DEF PaymentRow
  <2>4. row.key # None => \A q \in Payment \ {p} : payment[q].key # row.key
    BY <2>2 DEF KeyTaken
  <2>5. row.refunded = 0 /\ row.status = "PAID" /\ row.amount = amount
    OBVIOUS
  <2> HIDE DEF row
  <2>6. /\ row.refunded <= row.amount
        /\ row.status = "REFUNDED" <=> row.amount > 0 /\ row.refunded = row.amount
        /\ row.status \notin {"PAID", "REFUNDED"} => row.refunded = 0
    BY <2>3, <2>5
  <2> QED BY <2>2, <2>3, <2>4, <2>6, MoneyRow
<1>5. CASE ARefund
  <2>1. PICK r \in Request, p \in Payment, k \in Key, amount \in 1..MaxAmount :
          Refund(r, p, k, amount)
    BY <1>5 DEF ARefund
  <2> DEFINE back  == payment[p].refunded + amount
             state == IF back >= payment[p].amount THEN "REFUNDED" ELSE payment[p].status
             row   == [payment[p] EXCEPT !.refunded = back, !.status = state]
  <2>2. /\ payment' = [payment EXCEPT ![p] = row]
        /\ payment[p].status \in {"PAID", "REFUNDED"}
        /\ amount <= payment[p].amount - payment[p].refunded
    BY <2>1, ZenonT(40) DEF Refund, Refundable
  <2>3. /\ payment[p] \in PaymentRow
        /\ payment[p].amount \in Nat /\ payment[p].refunded \in Nat
        /\ payment[p].refunded <= payment[p].amount
        /\ payment[p].status = "REFUNDED" <=>
             payment[p].amount > 0 /\ payment[p].refunded = payment[p].amount
    BY <1>1 DEF PaymentRow, MoneyInv, RefundsCovered
  <2>4. /\ back \in Nat /\ back <= payment[p].amount /\ payment[p].amount > 0
        /\ state \in {"PAID", "REFUNDED"}
        /\ state = "REFUNDED" <=> back = payment[p].amount
    BY <2>2, <2>3
  <2> HIDE DEF back, state
  <2>5. row \in PaymentRow
    BY <2>3, <2>4 DEF PaymentRow
  <2>6. /\ row.refunded = back /\ row.status = state
        /\ row.amount = payment[p].amount /\ row.key = payment[p].key
    BY <2>3 DEF PaymentRow
  <2>7. row.key # None => \A q \in Payment \ {p} : payment[q].key # row.key
    BY <2>6 DEF MoneyInv, KeyOnce
  <2> HIDE DEF row
  <2> QED BY <2>2, <2>4, <2>5, <2>6, <2>7, MoneyRow
<1>6. CASE UNCHANGED vars
  BY <1>2, <1>6 DEF vars, money
<1> QED BY <1>2, <1>3, <1>4, <1>5, <1>6, Frame

LEMMA MoneyAlways == Spec => [](Inv /\ MoneyInv)
BY InitType, StepType, MoneyInit, MoneyStep, PTL DEF Spec

\* No payment ever gives back more than it took, and it reads REFUNDED exactly
\* when its refunds cover it, however refunds are split, raced and retried.
THEOREM RefundsAreCovered == Spec => []RefundsCovered
<1>1. MoneyInv => RefundsCovered
  BY DEF MoneyInv
<1> QED BY <1>1, MoneyAlways, PTL

\* A retried tender never becomes a second payment.
THEOREM KeysAreOnce == Spec => []KeyOnce
<1>1. MoneyInv => KeyOnce
  BY DEF MoneyInv
<1> QED BY <1>1, MoneyAlways, PTL

------------------------------------------------------------------------------
(* Points *)

\* A bill that has not settled has earned nothing, and one not unwound has had
\* nothing taken back: what makes TakenOnce inductive.
PointInv ==
  \A o \in Order :
    /\ ~ loyalty[o].settled => loyalty[o].earned = 0
    /\ ~ loyalty[o].reversed => loyalty[o].takenBack = 0
    /\ loyalty[o].takenBack <= loyalty[o].earned

\* The only entry of a bill's loyalty that changes, and how.
EntryChange(o, new) ==
  \/ /\ ~ loyalty[o].settled
     /\ new.settled /\ new.reversed = loyalty[o].reversed
     /\ new.takenBack = loyalty[o].takenBack /\ new.earned \in Nat
  \/ /\ ~ loyalty[o].reversed
     /\ new.reversed /\ new.settled = loyalty[o].settled
     /\ new.earned = loyalty[o].earned
     /\ new.takenBack \in Nat
     /\ new.takenBack - loyalty[o].takenBack <= loyalty[o].earned
  \/ /\ new.settled = loyalty[o].settled /\ new.reversed = loyalty[o].reversed
     /\ new.earned = loyalty[o].earned /\ new.takenBack = loyalty[o].takenBack

LEMMA PointsFrame ==
  ASSUME Inv, [Next]_vars
  PROVE  \/ UNCHANGED loyalty
         \/ \E o \in Order : \E new \in LoyaltyRow :
              loyalty' = [loyalty EXCEPT ![o] = new] /\ EntryChange(o, new)
<1>1. loyalty \in [Order -> LoyaltyRow] /\ OrderOK /\ PointsOK /\ TypeOK
  BY Parts DEF Inv, TypeOK
<1>2. CASE UNCHANGED points
  BY <1>2 DEF points
<1>3. CASE ASettling
  <2>1. PICK r \in Request : SettleCommit(r)
    BY <1>3 DEF ASettling
  <2> DEFINE o == req[r].order
             n == req[r].seen.grandTotal * EarnRate
             e == loyalty[o].earned + n
             new == [loyalty[o] EXCEPT !.settled = TRUE, !.earned = e]
  <2>2. CASE AlreadySettled(o)
    BY <2>1, <2>2 DEF SettleCommit, points
  <2>3. CASE ~ AlreadySettled(o)
    <3>1. loyalty' = [loyalty EXCEPT ![o] = new]
      BY <2>1, <2>3 DEF SettleCommit
    <3>2. o \in Order /\ e \in Nat
      <4>1. o \in Order /\ req[r].seen \in OrderRow
        BY <1>1, <2>1, AtCall DEF SettleCommit
      <4>2. n \in Nat
        BY <4>1 DEF OrderRow
      <4> HIDE DEF n, o
      <4> QED BY <1>1, <4>1, <4>2 DEF LoyaltyRow
    <3>3. ~ loyalty[o].settled
      BY <2>3 DEF AlreadySettled
    <3> HIDE DEF e, o
    <3>4. new \in LoyaltyRow
      BY <1>1, <3>2, EntryType
    <3>5. /\ new.settled /\ new.reversed = loyalty[o].reversed
          /\ new.takenBack = loyalty[o].takenBack /\ new.earned = e
      BY <1>1, <3>2 DEF LoyaltyRow
    <3> HIDE DEF new
    <3> QED BY <3>1, <3>2, <3>3, <3>4, <3>5 DEF EntryChange
  <2> QED BY <2>2, <2>3
<1>4. CASE ARedemption
  <2>1. PICK r \in Request, o \in Order, w \in 1..MaxPoints : Redeem(r, o, w)
    BY <1>4 DEF ARedemption
  <2> DEFINE n   == AtMost(w, Less(Net[order[o].live][{}], order[o].loyaltyDiscount))
             row == [order[o] EXCEPT !.loyaltyDiscount = @ + n]
             a   == loyalty[o].spent + n
             b   == loyalty[o].givenBack + Unabsorbed(row)
             new == [loyalty[o] EXCEPT !.spent = a, !.givenBack = b]
  <2>2. loyalty' = [loyalty EXCEPT ![o] = new]
    BY <2>1 DEF Redeem
  <2> HIDE DEF a, b
  <2>3. /\ new.settled = loyalty[o].settled /\ new.reversed = loyalty[o].reversed
        /\ new.earned = loyalty[o].earned /\ new.takenBack = loyalty[o].takenBack
    BY <1>1 DEF LoyaltyRow
  <2>4. loyalty' \in [Order -> LoyaltyRow]
    <3>1. Inv'
      BY StepType
    <3> QED BY <3>1 DEF Inv, TypeOK
  <2> HIDE DEF new
  <2>5. loyalty' = [loyalty EXCEPT ![o] = new]
    BY <2>2 DEF new
  <2>6. new \in LoyaltyRow
    BY <1>1, <2>4, <2>5
  <2> QED BY <2>3, <2>5, <2>6 DEF EntryChange
<1>5. CASE ACredit
  <2>1. PICK o \in Order, c \in Customer \cup {None}, n \in Nat : Credit(o, c, n)
    BY <1>5 DEF ACredit
  <2> DEFINE b == loyalty[o].givenBack + n
             new == [loyalty[o] EXCEPT !.givenBack = b]
  <2>2. CASE UNCHANGED points
    BY <2>2 DEF points
  <2>3. CASE loyalty' = [loyalty EXCEPT ![o] = new]
    <3>1. b \in Nat
      BY <1>1 DEF LoyaltyRow
    <3>2. loyalty' = [loyalty EXCEPT ![o] = new]
      BY <2>3
    <3> HIDE DEF b
    <3>3. new \in LoyaltyRow
      BY <1>1, <3>1 DEF LoyaltyRow
    <3>4. /\ new.settled = loyalty[o].settled /\ new.reversed = loyalty[o].reversed
          /\ new.earned = loyalty[o].earned /\ new.takenBack = loyalty[o].takenBack
      BY <1>1 DEF LoyaltyRow
    <3> HIDE DEF new
    <3> QED BY <3>2, <3>3, <3>4 DEF EntryChange
  <2> QED BY <2>1, <2>2, <2>3 DEF Credit
<1>6. CASE ARefund
  <2>1. PICK r \in Request, p \in Payment, k \in Key, amount \in 1..MaxAmount :
          Refund(r, p, k, amount)
    BY <1>6 DEF ARefund
  <2> DEFINE o    == payment[p].order
             paid == Left(o, amount)
  <2>2. o \in Order /\ Unwind(o, paid)
    BY <1>1, <2>1 DEF Refund, TypeOK
  <2>3. CASE ~ Unwinding(o, paid)
    BY <2>2, <2>3 DEF Unwind, points
  <2>4. CASE Unwinding(o, paid)
    <3> DEFINE c    == order[o].customer
               take == Take(o, c)
               a    == loyalty[o].takenBack + take
               b    == loyalty[o].givenBack + loyalty[o].spent
               new  == [loyalty[o] EXCEPT !.reversed = TRUE, !.takenBack = a,
                                          !.givenBack = b]
    <3>1. loyalty' = [loyalty EXCEPT ![o] = new]
      BY <2>2, <2>4 DEF Unwind
    <3>2. c \in Customer /\ ~ loyalty[o].reversed
      BY <1>1, <2>2, <2>4 DEF Unwinding, OrderOK, OrderRow
    <3>3. /\ balance[c] \in Nat /\ loyalty[o].earned \in Nat /\ loyalty[o].spent \in Nat
          /\ loyalty[o].takenBack \in Nat /\ loyalty[o].givenBack \in Nat
          /\ loyalty[o] \in LoyaltyRow
      BY <1>1, <2>2, <3>2 DEF PointsOK, BalanceExplained, LoyaltyRow
    <3>4. take \in Nat /\ take <= loyalty[o].earned
      BY <3>3 DEF Take, AtMost
    <3> HIDE DEF take, c, o
    <3>5. a \in Nat /\ b \in Nat /\ a - loyalty[o].takenBack <= loyalty[o].earned
      BY <3>3, <3>4
    <3> HIDE DEF a, b
    <3>6. new \in LoyaltyRow
      BY <3>3, <3>5, EntryType
    <3>7. /\ new.reversed /\ new.settled = loyalty[o].settled
          /\ new.earned = loyalty[o].earned /\ new.takenBack = a
      BY <3>3 DEF LoyaltyRow
    <3> HIDE DEF new
    <3> QED BY <2>2, <3>1, <3>2, <3>5, <3>6, <3>7 DEF EntryChange
  <2> QED BY <2>3, <2>4
<1>7. CASE UNCHANGED vars
  BY <1>7 DEF vars
<1> QED BY <1>2, <1>3, <1>4, <1>5, <1>6, <1>7, Frame

LEMMA PointInit == Init => PointInv
BY DEF Init, PointInv

LEMMA PointStep == Inv /\ PointInv /\ [Next]_vars => PointInv'
<1> SUFFICES ASSUME Inv, PointInv, [Next]_vars PROVE PointInv'
  OBVIOUS
<1>1. loyalty \in [Order -> LoyaltyRow]
  BY DEF Inv, TypeOK
<1>2. CASE UNCHANGED loyalty
  BY <1>2 DEF PointInv
<1>3. CASE \E o \in Order : \E new \in LoyaltyRow :
              loyalty' = [loyalty EXCEPT ![o] = new] /\ EntryChange(o, new)
  <2>1. PICK o \in Order, new \in LoyaltyRow :
          loyalty' = [loyalty EXCEPT ![o] = new] /\ EntryChange(o, new)
    BY <1>3
  <2>2. \A u \in Order : loyalty'[u] = IF u = o THEN new ELSE loyalty[u]
    BY <1>1, <2>1
  <2>3. /\ loyalty[o].earned \in Nat /\ loyalty[o].takenBack \in Nat
        /\ new.earned \in Nat /\ new.takenBack \in Nat
    BY <1>1 DEF LoyaltyRow
  <2>4. /\ ~ new.settled => new.earned = 0
        /\ ~ new.reversed => new.takenBack = 0
        /\ new.takenBack <= new.earned
    BY <2>1, <2>3 DEF EntryChange, PointInv
  <2> QED BY <2>2, <2>4 DEF PointInv
<1> QED BY <1>2, <1>3, PointsFrame

\* However a full refund and a late settlement race, the points taken back are
\* never more than the bill earned.
THEOREM TakenIsOnce == Spec => []TakenOnce
<1>1. PointInv => TakenOnce
  BY DEF PointInv, TakenOnce
<1> QED BY <1>1, InitType, StepType, PointInit, PointStep, PTL DEF Spec

\* A bill earns once: no later step changes what it earned.
THEOREM EarnedIsOnce == Spec => EarnedOnce
<1> DEFINE Kept == \A o \in Order : loyalty[o].settled =>
             loyalty'[o].settled /\ loyalty'[o].earned = loyalty[o].earned
<1>1. Inv /\ [Next]_vars => [Kept]_vars
  <2> SUFFICES ASSUME Inv, [Next]_vars PROVE Kept
    OBVIOUS
  <2>1. loyalty \in [Order -> LoyaltyRow]
    BY DEF Inv, TypeOK
  <2> QED BY <2>1, PointsFrame DEF EntryChange
<1> QED BY <1>1, InvCorrect, PTL DEF Spec, EarnedOnce

\* A bill's points are given once and taken back once.
THEOREM PointsAreOnce == Spec => PointsOnce
BY EarnedIsOnce, TakenIsOnce, PTL DEF PointsOnce

------------------------------------------------------------------------------
(* Orders: status and invoice *)

\* A step rewrites at most one order.  It leaves whether that is cancelled
\* alone, unless it cancels it and moves no money; and it leaves its number
\* alone, or gives it the one ensureInvoice finds or mints.  What is paid on it
\* changes by a payment or a refund.
RowChange(o) ==
  /\ \A u \in Order \ {o} : order'[u] = order[u]
  /\ \/ order'[o].status = "CANCELLED" <=> order[o].status = "CANCELLED"
     \/ order'[o].status = "CANCELLED" /\ UNCHANGED money
  /\ \/ order'[o].invoice = order[o].invoice /\ invoices' = invoices
     \/ order'[o].invoice = NumberFor(o) /\ invoices' = Counted(o)
  /\ order'[o].paidTotal = order[o].paidTotal \/ ACapture \/ ARefund

\* A row that differs from the one it replaces in none of these respects.
LEMMA PlainRow ==
  ASSUME Inv, NEW o \in Order, NEW row, order' = [order EXCEPT ![o] = row],
         row.status = order[o].status, row.invoice = order[o].invoice,
         row.paidTotal = order[o].paidTotal \/ ARefund, invoices' = invoices
  PROVE  RowChange(o)
<1>1. order \in [Order -> OrderRow]
  BY DEF Inv, TypeOK
<1>2. order'[o] = row /\ \A u \in Order \ {o} : order'[u] = order[u]
  BY <1>1
<1> QED BY <1>2 DEF RowChange

LEMMA PresentRow ==
  ASSUME Inv, NEW r \in Request, PresentCommit(r)
  PROVE  \E o \in Order : RowChange(o)
<1> DEFINE o == req[r].order
<1>1. o \in Order /\ order \in [Order -> OrderRow]
  BY AtCall DEF PresentCommit, Inv, TypeOK
<1>2. order' = [order EXCEPT ![o].invoice = NumberFor(o)] /\ invoices' = Counted(o)
  BY DEF PresentCommit
<1>3. order'[o] = [order[o] EXCEPT !.invoice = NumberFor(o)]
      /\ \A u \in Order \ {o} : order'[u] = order[u]
  BY <1>1, <1>2
<1>4. /\ order'[o].status = order[o].status /\ order'[o].invoice = NumberFor(o)
      /\ order'[o].paidTotal = order[o].paidTotal
  BY <1>1, <1>3 DEF OrderRow
<1> QED BY <1>1, <1>2, <1>3, <1>4 DEF RowChange

LEMMA CaptureRow ==
  ASSUME Inv, ACapture
  PROVE  \E o \in Order : RowChange(o)
<1>1. PICK r \in Request, o \in Order, p \in Payment, k \in Key \cup {None},
           amount \in 1..MaxAmount, tip \in 0..MaxTip :
        Capture(r, o, p, k, amount, tip)
  BY DEF ACapture
<1> DEFINE n   == NumberFor(o)
           row == Settled(order[o], amount, tip, n)
<1>2. order \in [Order -> OrderRow] /\ order[o] \in OrderRow
  BY DEF Inv, TypeOK
<1>3. order' = [order EXCEPT ![o] = row]
  BY <1>1 DEF Capture
<1>4. order'[o] = row /\ \A u \in Order \ {o} : order'[u] = order[u]
  BY <1>2, <1>3
<1>5. order[o].status # "CANCELLED"
  BY <1>1 DEF Capture, Open
<1>6. /\ row.status = order[o].status \/ row.status = "COMPLETED"
      /\ \/ row.paymentStatus = "PAID" /\ row.invoice = n
         \/ row.paymentStatus = "PARTIAL" /\ row.invoice = order[o].invoice
  <2> DEFINE owed == billedOn(order[o]) + tip
             paid == order[o].paidTotal + amount
             tips == order[o].tipAmount + tip
             yes  == paid >= owed
             s    == IF yes /\ order[o].status \in {"SERVED", "READY"}
                     THEN "COMPLETED" ELSE order[o].status
             ps   == IF yes THEN "PAID" ELSE "PARTIAL"
             inv  == IF yes THEN n ELSE order[o].invoice
  <2>1. row = [order[o] EXCEPT !.paidTotal = paid, !.tipAmount = tips,
                 !.paymentStatus = ps, !.status = s, !.invoice = inv]
    BY DEF Settled
  <2>2. /\ s = order[o].status \/ s = "COMPLETED"
        /\ \/ ps = "PAID" /\ inv = n
           \/ ps = "PARTIAL" /\ inv = order[o].invoice
    OBVIOUS
  <2> HIDE DEF s, ps, inv, paid, tips, n, row
  <2> QED BY <1>2, <2>1, <2>2 DEF OrderRow
<1>7. IF row.paymentStatus = "PAID" THEN invoices' = Counted(o) ELSE invoices' = invoices
  BY <1>1, <1>4 DEF Capture
<1> HIDE DEF row
<1> QED BY <1>4, <1>5, <1>6, <1>7 DEF RowChange

LEMMA RefundRow ==
  ASSUME Inv, ARefund
  PROVE  \E o \in Order : RowChange(o)
<1>1. PICK r \in Request, p \in Payment, k \in Key, amount \in 1..MaxAmount :
        Refund(r, p, k, amount)
  BY DEF ARefund
<1> DEFINE o     == payment[p].order
           paid  == Left(o, amount)
           state == derivePaymentStatus(paid, billedOn(order[o]),
                      IF paid = 0 THEN "REFUNDED" ELSE order[o].paymentStatus)
           row   == [order[o] EXCEPT !.paidTotal = paid, !.paymentStatus = state]
<1>2. o \in Order /\ order[o] \in OrderRow
  BY <1>1 DEF Refund, Inv, TypeOK
<1>3. order' = [order EXCEPT ![o] = row] /\ invoices' = invoices
  BY <1>1, ZenonT(40) DEF Refund
<1> HIDE DEF o, paid, state
<1>4. row.status = order[o].status /\ row.invoice = order[o].invoice
  BY <1>2 DEF OrderRow
<1> HIDE DEF row
<1> QED BY <1>2, <1>3, <1>4, PlainRow

\* What repricing and reducing leave alone.
LEMMA RepricedKeeps ==
  ASSUME NEW row \in OrderRow
  PROVE  /\ Repriced(row).status = row.status /\ Repriced(row).invoice = row.invoice
         /\ Repriced(row).paidTotal = row.paidTotal
<1>1. PICK d, t, s : Repriced(row) = [row EXCEPT !.loyaltyDiscount = d,
                        !.grandTotal = t, !.paymentStatus = s]
  BY DEF Repriced
<1> QED BY <1>1 DEF OrderRow

LEMMA ReducedKeeps ==
  ASSUME NEW row \in OrderRow, NEW call \in Call, call.op \in Reducers
  PROVE  /\ Reduced(call, row).status = row.status
         /\ Reduced(call, row).invoice = row.invoice
         /\ Reduced(call, row).paidTotal = row.paidTotal
<1>1. CASE call.op = "void"
  BY <1>1 DEF Reduced, OrderRow
<1>2. CASE call.op = "discount"
  BY <1>2 DEF Reduced, OrderRow
<1>3. CASE call.op = "clear"
  BY <1>3 DEF Reduced, OrderRow
<1> QED BY <1>1, <1>2, <1>3 DEF Reducers

LEMMA BillRow ==
  ASSUME Inv, NEW r \in Request,
         \/ RecalcCommit(r) \/ EditCommit(r) \/ AttachCommit(r)
         \/ \E l \in Line : AddItem(r, l)
         \/ \E o \in Order, w \in 1..MaxPoints : Redeem(r, o, w)
  PROVE  \E o \in Order : RowChange(o)
<1>1. TypeOK /\ order \in [Order -> OrderRow]
  BY DEF Inv, TypeOK
<1>2. CASE RecalcCommit(r)
  <2> DEFINE o     == req[r].order
             base  == Reduced(req[r], order[o])
             fresh == Repriced(req[r].seen)
             row   == [base EXCEPT !.loyaltyDiscount = fresh.loyaltyDiscount,
                         !.grandTotal = fresh.grandTotal,
                         !.paymentStatus = fresh.paymentStatus]
  <2>1. req[r] \in Call /\ req[r].op \in Reducers /\ o \in Order
    BY <1>1, <1>2, AtCall DEF RecalcCommit
  <2>2. /\ base \in OrderRow /\ base.status = order[o].status
        /\ base.invoice = order[o].invoice /\ base.paidTotal = order[o].paidTotal
    BY <1>1, <2>1, ReducedType, ReducedKeeps
  <2>3. order' = [order EXCEPT ![o] = row] /\ invoices' = invoices
    BY <1>2 DEF RecalcCommit
  <2> HIDE DEF base, fresh, o
  <2>4. /\ row.status = order[o].status /\ row.invoice = order[o].invoice
        /\ row.paidTotal = order[o].paidTotal
    BY <2>2 DEF OrderRow
  <2> HIDE DEF row
  <2> QED BY <2>1, <2>3, <2>4, PlainRow
<1>3. CASE EditCommit(r)
  <2> DEFINE o     == req[r].order
             seen  == req[r].seen
             want  == req[r].lines
             live  == (order[o].live \ (seen.live \ want)) \cup (want \ seen.live)
             void  == order[o].void \cup (seen.live \ want)
             disc  == seen.loyaltyDiscount
             total == Net[want][seen.cut] - Loyal(want, seen.cut, disc)
             row   == [order[o] EXCEPT !.live = live, !.void = void,
                         !.loyaltyDiscount = disc, !.grandTotal = total]
  <2>1. o \in Order /\ order[o] \in OrderRow
    BY <1>1, <1>3, AtCall DEF EditCommit
  <2>2. order' = [order EXCEPT ![o] = row] /\ invoices' = invoices
    BY <1>3, ZenonT(40) DEF EditCommit
  <2> HIDE DEF o, live, void, disc, total
  <2>3. /\ row.status = order[o].status /\ row.invoice = order[o].invoice
        /\ row.paidTotal = order[o].paidTotal
    BY <2>1 DEF OrderRow
  <2> HIDE DEF row
  <2> QED BY <2>1, <2>2, <2>3, PlainRow
<1>4. CASE AttachCommit(r)
  <2> DEFINE o   == req[r].order
             row == [order[o] EXCEPT !.customer = req[r].who]
  <2>1. o \in Order /\ order[o] \in OrderRow
    BY <1>1, <1>4, AtCall DEF AttachCommit
  <2>2. order' = [order EXCEPT ![o] = row] /\ invoices' = invoices
    BY <1>4 DEF AttachCommit
  <2>3. /\ row.status = order[o].status /\ row.invoice = order[o].invoice
        /\ row.paidTotal = order[o].paidTotal
    BY <2>1 DEF OrderRow
  <2> HIDE DEF row, o
  <2> QED BY <2>1, <2>2, <2>3, PlainRow
<1>5. CASE \E l \in Line : AddItem(r, l)
  <2>1. PICK l \in Line : AddItem(r, l)
    BY <1>5
  <2> DEFINE o   == LineOf[l]
             row == [order[o] EXCEPT !.live = @ \cup {l}]
  <2>2. o \in Order /\ order[o] \in OrderRow
    BY <1>1
  <2>3. order' = [order EXCEPT ![o] = Repriced(row)] /\ invoices' = invoices
    BY <2>1 DEF AddItem
  <2> HIDE DEF o
  <2>4. /\ row \in OrderRow /\ row.status = order[o].status
        /\ row.invoice = order[o].invoice /\ row.paidTotal = order[o].paidTotal
    BY <2>2 DEF OrderRow
  <2> HIDE DEF row
  <2>5. /\ Repriced(row).status = order[o].status
        /\ Repriced(row).invoice = order[o].invoice
        /\ Repriced(row).paidTotal = order[o].paidTotal
    BY <2>4, RepricedKeeps
  <2> QED BY <2>2, <2>3, <2>5, PlainRow
<1>6. CASE \E o \in Order, w \in 1..MaxPoints : Redeem(r, o, w)
  <2>1. PICK o \in Order, w \in 1..MaxPoints : Redeem(r, o, w)
    BY <1>6
  <2> DEFINE n   == AtMost(w, Less(Net[order[o].live][{}], order[o].loyaltyDiscount))
             d   == order[o].loyaltyDiscount + n
             row == [order[o] EXCEPT !.loyaltyDiscount = d]
  <2>2. order' = [order EXCEPT ![o] = Repriced(row)] /\ invoices' = invoices
    BY <2>1 DEF Redeem
  <2>3. d \in Nat
    <3> DEFINE a == Net[order[o].live][{}]
               old == order[o].loyaltyDiscount
    <3>1. a \in Nat /\ old \in Nat /\ w \in Nat
      BY <1>1 DEF OrderRow
    <3> HIDE DEF a, old
    <3>2. AtMost(w, Less(a, old)) \in Nat
      BY <3>1 DEF AtMost, Less
    <3> QED BY <3>1, <3>2 DEF a, old
  <2> HIDE DEF d
  <2>4. /\ row \in OrderRow /\ row.status = order[o].status
        /\ row.invoice = order[o].invoice /\ row.paidTotal = order[o].paidTotal
    BY <1>1, <2>3 DEF OrderRow
  <2> HIDE DEF row
  <2>5. /\ Repriced(row).status = order[o].status
        /\ Repriced(row).invoice = order[o].invoice
        /\ Repriced(row).paidTotal = order[o].paidTotal
    BY <2>4, RepricedKeeps
  <2> QED BY <2>2, <2>5, PlainRow
<1> QED BY <1>2, <1>3, <1>4, <1>5, <1>6

LEMMA StatusRow ==
  ASSUME Inv, NEW r \in Request,
         CloseServed(r) \/ CancelCommit(r)
           \/ \E o \in Order, s \in Status : MoveStatus(r, o, s)
  PROVE  \E o \in Order : RowChange(o)
<1>1. TypeOK /\ order \in [Order -> OrderRow]
  BY DEF Inv, TypeOK
<1>2. CASE CloseServed(r)
  <2> DEFINE o   == req[r].order
             s   == IF order[o].status = "SERVED" THEN "COMPLETED" ELSE order[o].status
             row == [order[o] EXCEPT !.status = s]
  <2>1. o \in Order /\ order[o] \in OrderRow
    BY <1>1, <1>2, AtCall DEF CloseServed
  <2>2. order' = [order EXCEPT ![o] = row] /\ invoices' = invoices
    BY <1>2 DEF CloseServed
  <2>3. s = "CANCELLED" <=> order[o].status = "CANCELLED"
    OBVIOUS
  <2> HIDE DEF s, o
  <2>4. /\ row.status = s /\ row.invoice = order[o].invoice
        /\ row.paidTotal = order[o].paidTotal
    BY <2>1 DEF OrderRow
  <2> HIDE DEF row
  <2>5. order'[o] = row /\ \A u \in Order \ {o} : order'[u] = order[u]
    BY <1>1, <2>1, <2>2
  <2> QED BY <2>1, <2>2, <2>3, <2>4, <2>5 DEF RowChange
<1>3. CASE CancelCommit(r)
  <2> DEFINE o    == req[r].order
             void == order[o].void \cup order[o].live
             row  == [order[o] EXCEPT !.status = "CANCELLED", !.live = {}, !.void = void]
  <2>1. o \in Order /\ order[o] \in OrderRow
    BY <1>1, <1>3, AtCall DEF CancelCommit
  <2>2. order' = [order EXCEPT ![o] = row] /\ invoices' = invoices /\ UNCHANGED money
    BY <1>3 DEF CancelCommit
  <2> HIDE DEF void, o
  <2>3. /\ row.status = "CANCELLED" /\ row.invoice = order[o].invoice
        /\ row.paidTotal = order[o].paidTotal
    BY <2>1 DEF OrderRow
  <2> HIDE DEF row
  <2>4. order'[o] = row /\ \A u \in Order \ {o} : order'[u] = order[u]
    BY <1>1, <2>1, <2>2
  <2> QED BY <2>1, <2>2, <2>3, <2>4 DEF RowChange
<1>4. CASE \E o \in Order, s \in Status : MoveStatus(r, o, s)
  <2>1. PICK o \in Order, s \in Status : MoveStatus(r, o, s)
    BY <1>4
  <2> DEFINE row == [order[o] EXCEPT !.status = s]
  <2>2. /\ order' = [order EXCEPT ![o] = row] /\ invoices' = invoices
        /\ s # "CANCELLED" /\ s \in ALLOWED_TRANSITIONS[order[o].status]
    BY <2>1 DEF MoveStatus
  <2>3. s # "CANCELLED" /\ order[o].status # "CANCELLED"
    BY <1>1, <2>2 DEF ALLOWED_TRANSITIONS, OrderRow, Status
  <2>4. /\ row.status = s /\ row.invoice = order[o].invoice
        /\ row.paidTotal = order[o].paidTotal
    BY <1>1 DEF OrderRow
  <2> HIDE DEF row
  <2>5. order'[o] = row /\ \A u \in Order \ {o} : order'[u] = order[u]
    BY <1>1, <2>2
  <2> QED BY <2>2, <2>3, <2>4, <2>5 DEF RowChange
<1> QED BY <1>2, <1>3, <1>4

LEMMA OrderFrame ==
  ASSUME Inv, [Next]_vars
  PROVE  UNCHANGED <<order, invoices>> \/ \E o \in Order : RowChange(o)
<1>1. CASE UNCHANGED vars
  BY <1>1 DEF vars
<1>2. CASE Next
  <2>1. PICK r \in Request : NextOf(r)
    BY <1>2 DEF Next
  <2>2. CASE Fail(r) \/ SettleLoad(r) \/ RecalcRead(r)
    BY <2>2 DEF Fail, SettleLoad, RecalcRead
  <2>3. CASE \E o \in Order : PresentLoad(r, o) \/ IntentLoad(r, o)
                                \/ EditLoad(r, o) \/ CancelLoad(r, o)
    BY <2>3 DEF PresentLoad, IntentLoad, EditLoad, CancelLoad
  <2>4. CASE \E o \in Order, c \in Customer : AttachLoad(r, o, c)
    BY <2>4 DEF AttachLoad
  <2>5. CASE \E l \in Line : VoidLoad(r, l) \/ DiscountLoad(r, l)
    BY <2>5 DEF VoidLoad, DiscountLoad
  <2>6. CASE IntentCommit(r) \/ SettleCommit(r)
    BY <2>6 DEF IntentCommit, SettleCommit
  <2>7. CASE PresentCommit(r)
    BY <2>7, PresentRow
  <2>8. CASE \/ RecalcCommit(r) \/ EditCommit(r) \/ AttachCommit(r)
             \/ \E l \in Line : AddItem(r, l)
             \/ \E o \in Order, w \in 1..MaxPoints : Redeem(r, o, w)
    BY <2>8, BillRow
  <2>9. CASE CloseServed(r) \/ CancelCommit(r)
               \/ \E o \in Order, s \in Status : MoveStatus(r, o, s)
    BY <2>9, StatusRow
  <2>10. CASE \E o \in Order, p \in Payment, k \in Key \cup {None},
               amount \in 1..MaxAmount, tip \in 0..MaxTip :
              Capture(r, o, p, k, amount, tip)
    BY <2>10, CaptureRow DEF ACapture
  <2>11. CASE \E p \in Payment, k \in Key, amount \in 1..MaxAmount :
              Refund(r, p, k, amount)
    BY <2>11, RefundRow DEF ARefund
  <2> QED BY <2>1, <2>2, <2>3, <2>4, <2>5, <2>6, <2>7, <2>8, <2>9, <2>10, <2>11
          DEF NextOf
<1> QED BY <1>1, <1>2

\* A cancelled order stays cancelled, and no payment that was under way when
\* it was cancelled is recorded on it afterwards.
THEOREM CancelledStays == Spec => CancelledIsFinal
<1> DEFINE Final == \A o \in Order : order[o].status = "CANCELLED" =>
             /\ order'[o].status = "CANCELLED"
             /\ received'[o] = received[o]
<1>1. Inv /\ [Next]_vars => [Final]_vars
  <2> SUFFICES ASSUME Inv, [Next]_vars,
                      NEW o \in Order, order[o].status = "CANCELLED"
               PROVE  order'[o].status = "CANCELLED" /\ received'[o] = received[o]
    OBVIOUS
  <2>1. order'[o].status = "CANCELLED"
    BY OrderFrame DEF RowChange
  <2>2. received'[o] = received[o]
    <3>1. CASE UNCHANGED vars \/ UNCHANGED money
      BY <3>1 DEF vars, money
    <3>2. CASE ACapture
      <4>1. PICK r \in Request, u \in Order, p \in Payment, k \in Key \cup {None},
                 amount \in 1..MaxAmount, tip \in 0..MaxTip :
              Capture(r, u, p, k, amount, tip)
        BY <3>2 DEF ACapture
      <4>2. u # o /\ received' = [received EXCEPT ![u] = @ + amount]
        BY <4>1 DEF Capture, Open
      <4>3. received \in [Order -> Nat]
        BY DEF Inv, TypeOK
      <4> QED BY <4>2, <4>3
    <3>3. CASE ARefund
      BY <3>3 DEF ARefund, Refund
    <3>4. CASE AnIntent
      BY <3>4 DEF AnIntent, IntentCommit
    <3> QED BY <3>1, <3>2, <3>3, <3>4, Frame
  <2> QED BY <2>1, <2>2
<1> QED BY <1>1, InvCorrect, PTL DEF Spec, CancelledIsFinal

\* The counter has not been passed by any bill: what makes the numbering
\* inductive.
NumberInv == InvoicesNumbered /\ \A o \in Order : order[o].invoice <= invoices

LEMMA NumberInit == Init => NumberInv
<1> SUFFICES ASSUME Init PROVE NumberInv
  OBVIOUS
<1>1. invoices = 0 /\ \A o \in Order : order[o].invoice = 0
  BY DEF Init, NewOrder
<1> QED BY <1>1 DEF NumberInv, InvoicesNumbered, HasInvoice

\* Numbering one more bill, or finding the number it has.
LEMMA NumberStep == Inv /\ NumberInv /\ [Next]_vars => NumberInv'
<1> SUFFICES ASSUME Inv, NumberInv, [Next]_vars PROVE NumberInv'
  OBVIOUS
<1>1. invoices \in Nat /\ \A u \in Order : order[u].invoice \in Nat
  BY DEF Inv, TypeOK, OrderRow
<1>2. CASE UNCHANGED <<order, invoices>>
  BY <1>2 DEF NumberInv, InvoicesNumbered, HasInvoice
<1>3. CASE \E o \in Order : RowChange(o)
  <2>1. PICK o \in Order : RowChange(o)
    BY <1>3
  <2>2. CASE order'[o].invoice = order[o].invoice /\ invoices' = invoices
    <3>1. \A u \in Order : order'[u].invoice = order[u].invoice
      BY <2>1, <2>2 DEF RowChange
    <3> QED BY <2>2, <3>1 DEF NumberInv, InvoicesNumbered, HasInvoice
  <2>3. CASE order'[o].invoice = NumberFor(o) /\ invoices' = Counted(o)
    <3>1. \A u \in Order \ {o} : order'[u].invoice = order[u].invoice
      BY <2>1 DEF RowChange
    <3>2. CASE HasInvoice(o)
      <4>1. \A u \in Order : order'[u].invoice = order[u].invoice
        BY <2>3, <3>1, <3>2 DEF NumberFor
      <4>2. invoices' = invoices
        BY <2>3, <3>2 DEF Counted
      <4> QED BY <4>1, <4>2 DEF NumberInv, InvoicesNumbered, HasInvoice
    <3>3. CASE ~ HasInvoice(o)
      <4>1. order'[o].invoice = invoices + 1 /\ invoices' = invoices + 1
        BY <2>3, <3>3 DEF NumberFor, Counted
      <4>2. order[o].invoice = 0
        BY <3>3 DEF HasInvoice
      <4>3. \A u \in Order : order'[u].invoice <= invoices'
        BY <1>1, <3>1, <4>1 DEF NumberInv
      <4>4. \A u, v \in Order :
              order'[u].invoice # 0 /\ order'[u].invoice = order'[v].invoice => u = v
        BY <1>1, <3>1, <4>1 DEF NumberInv, InvoicesNumbered, HasInvoice
      <4>5. ASSUME NEW n \in 1..invoices'
            PROVE  \E u \in Order : order'[u].invoice = n
        <5>1. CASE n = invoices + 1
          BY <4>1, <5>1
        <5>2. CASE n \in 1..invoices
          <6>1. PICK u \in Order : order[u].invoice = n
            BY <5>2 DEF NumberInv, InvoicesNumbered
          <6>2. u # o
            BY <4>2, <5>2, <6>1
          <6> QED BY <3>1, <6>1, <6>2
        <5> QED BY <1>1, <4>1, <5>1, <5>2
      <4> QED BY <4>3, <4>4, <4>5 DEF NumberInv, InvoicesNumbered, HasInvoice
    <3> QED BY <3>2, <3>3
  <2> QED BY <2>1, <2>2, <2>3 DEF RowChange
<1> QED BY <1>2, <1>3, OrderFrame

\* No two bills share an invoice number and none is skipped, whether the
\* number was minted by printing the bill or by settling it.
THEOREM InvoicesAreNumbered == Spec => []InvoicesNumbered
<1>1. NumberInv => InvoicesNumbered
  BY DEF NumberInv
<1> QED BY <1>1, InitType, StepType, NumberInit, NumberStep, PTL DEF Spec

\* A number that has been shown to a guest never changes.
THEOREM InvoicesAreKept == Spec => InvoiceKept
<1> DEFINE Kept == \A o \in Order : HasInvoice(o) => order'[o].invoice = order[o].invoice
<1>1. Inv /\ [Next]_vars => [Kept]_vars
  <2> SUFFICES ASSUME Inv, [Next]_vars, NEW o \in Order, HasInvoice(o)
               PROVE  order'[o].invoice = order[o].invoice
    OBVIOUS
  <2> QED BY OrderFrame DEF RowChange, NumberFor
<1> QED BY <1>1, InvCorrect, PTL DEF Spec, InvoiceKept

\* One payment for each request, no refund beyond it, one invoice number, and
\* nothing on a cancelled bill.
THEOREM SettlementIsFinal == Spec => SettlementFinal
BY KeysAreOnce, RefundsAreCovered, InvoicesAreKept, CancelledStays, PTL DEF SettlementFinal

------------------------------------------------------------------------------
(* The ledger *)

\* Beside what the runs check: payment ids come one at a time, so there are
\* only so many rows to add up.
Used == {p \in Payment : payment[p].status # "NONE"}
LedgerInv == RowsAddUp /\ PaidMatchesLedger /\ IsFiniteSet(Used)

LEMMA LedgerInit == Init => LedgerInv
<1> SUFFICES ASSUME Init PROVE LedgerInv
  OBVIOUS
<1>1. \A o \in Order : received[o] = 0 /\ returned[o] = 0 /\ order[o].paidTotal = 0
  BY DEF Init, NewOrder
<1>2. Used = {} /\ \A o \in Order : RowsOf(o) = {}
  BY DEF Init, Used, RowsOf, Banked
<1>3. RowsAddUp
  BY <1>1, <1>2, SumOfNone DEF RowsAddUp
<1> QED BY <1>1, <1>2, <1>3, FS_EmptySet DEF LedgerInv, PaidMatchesLedger

\* The rows that are added up, and the money in them.
LEMMA RowsTyped ==
  ASSUME Inv, LedgerInv, NEW o \in Order
  PROVE  /\ IsFiniteSet(RowsOf(o))
         /\ \A p \in RowsOf(o) : Amounts[p] \in Int /\ Repaid[p] \in Int
<1>1. RowsOf(o) \subseteq Used
  BY DEF RowsOf, Used, Banked
<1>2. IsFiniteSet(RowsOf(o))
  BY <1>1, FS_Subset DEF LedgerInv
<1>3. payment \in [Payment -> PaymentRow]
  BY DEF Inv, TypeOK
<1>4. \A p \in Payment : payment[p].amount \in Nat /\ payment[p].refunded \in Nat
  BY <1>3 DEF PaymentRow
<1> QED BY <1>2, <1>4 DEF RowsOf, Amounts, Repaid

LEMMA PaidFrame ==
  ASSUME Inv, [Next]_vars
  PROVE  ACapture \/ ARefund \/ \A o \in Order : order'[o].paidTotal = order[o].paidTotal
<1>1. CASE UNCHANGED <<order, invoices>>
  BY <1>1
<1>2. CASE \E o \in Order : RowChange(o)
  BY <1>2 DEF RowChange
<1> QED BY <1>1, <1>2, OrderFrame

\* Neither a payment nor a refund: what is added up stays what it was.
LEMMA LedgerSame ==
  ASSUME Inv, LedgerInv, [Next]_vars, ~ ACapture, ~ ARefund
  PROVE  LedgerInv'
<1>1. \A o \in Order : order'[o].paidTotal = order[o].paidTotal
  BY PaidFrame
<1>2. UNCHANGED <<received, returned>>
  <2>1. CASE UNCHANGED money \/ UNCHANGED vars
    BY <2>1 DEF money, vars
  <2>2. CASE AnIntent
    BY <2>2 DEF AnIntent, IntentCommit
  <2> QED BY <2>1, <2>2, Frame
<1>3. \/ payment' = payment
      \/ \E p \in Payment : /\ Used' \subseteq Used \cup {p}
                            /\ \A q \in Payment \ {p} : payment'[q] = payment[q]
                            /\ ~ Banked(p)
                            /\ ~ Banked(p)'
  <2>1. CASE UNCHANGED money \/ UNCHANGED vars
    BY <2>1 DEF money, vars
  <2>2. CASE AnIntent
    <3>1. PICK r \in Request : IntentCommit(r)
      BY <2>2 DEF AnIntent
    <3> DEFINE row == [status |-> "UNPAID", order |-> req[r].order, refunded |-> 0,
                       amount |-> req[r].seen.grandTotal, key |-> None]
    <3>2. PICK p \in Payment : payment[p].status = "NONE"
                               /\ payment' = [payment EXCEPT ![p] = row]
      BY <3>1 DEF IntentCommit
    <3>3. row.status = "UNPAID"
      OBVIOUS
    <3> HIDE DEF row
    <3>4. \A q \in Payment : payment'[q] = IF q = p THEN row ELSE payment[q]
      BY <3>2 DEF Inv, TypeOK
    <3>5. ~ Banked(p) /\ ~ Banked(p)'
      BY <3>2, <3>3, <3>4 DEF Banked
    <3>6. Used' \subseteq Used \cup {p}
      BY <3>4 DEF Used
    <3> QED BY <3>4, <3>5, <3>6
  <2> QED BY <2>1, <2>2, Frame
<1>4. IsFiniteSet(Used)'
  BY <1>3, FS_AddElement, FS_Subset DEF Used, LedgerInv
<1>5. ASSUME NEW o \in Order
      PROVE  /\ RowsOf(o)' = RowsOf(o)
             /\ \A q \in RowsOf(o) : Amounts'[q] = Amounts[q] /\ Repaid'[q] = Repaid[q]
  <2>1. CASE payment' = payment
    BY <2>1 DEF RowsOf, Banked, Amounts, Repaid
  <2>2. CASE payment' # payment
    <3>1. PICK p \in Payment : /\ \A q \in Payment \ {p} : payment'[q] = payment[q]
                              /\ ~ Banked(p)
                              /\ ~ Banked(p)'
      BY ONLY <1>3, <2>2
    <3>2. \A q \in Payment : Banked(q)' /\ payment'[q].order = o <=>
                             Banked(q) /\ payment[q].order = o
      BY <3>1 DEF Banked
    <3>3. RowsOf(o)' = RowsOf(o)
      BY <3>2 DEF RowsOf
    <3>4. \A q \in RowsOf(o) : q \in Payment /\ payment'[q] = payment[q]
      BY <3>1 DEF RowsOf
    <3> QED BY <3>3, <3>4 DEF Amounts, Repaid
  <2> QED BY <2>1, <2>2
<1>6. RowsAddUp'
  <2> SUFFICES ASSUME NEW o \in Order
               PROVE  /\ received'[o] = SumFunctionOnSet(Amounts', RowsOf(o)')
                      /\ returned'[o] = SumFunctionOnSet(Repaid', RowsOf(o)')
    BY DEF RowsAddUp
  <2>1. /\ SumFunctionOnSet(Amounts', RowsOf(o)) = SumFunctionOnSet(Amounts, RowsOf(o))
        /\ SumFunctionOnSet(Repaid', RowsOf(o)) = SumFunctionOnSet(Repaid, RowsOf(o))
    BY <1>5, RowsTyped, SumSame
  <2> QED BY <1>2, <1>5, <2>1 DEF RowsAddUp, LedgerInv
<1>7. PaidMatchesLedger'
  BY <1>1, <1>2 DEF PaidMatchesLedger, LedgerInv
<1> QED BY <1>4, <1>6, <1>7 DEF LedgerInv

LEMMA LedgerCapture ==
  ASSUME Inv, LedgerInv, MoneyInv, ACapture
  PROVE  LedgerInv'
<1>1. PICK r \in Request, o \in Order, p \in Payment, k \in Key \cup {None},
           amount \in 1..MaxAmount, tip \in 0..MaxTip :
        Capture(r, o, p, k, amount, tip)
  BY DEF ACapture
<1> DEFINE row == [status |-> "PAID", order |-> o, amount |-> amount,
                   refunded |-> 0, key |-> k]
<1>2. /\ payment \in [Payment -> PaymentRow] /\ order \in [Order -> OrderRow]
      /\ received \in [Order -> Nat] /\ returned \in [Order -> Nat]
  BY DEF Inv, TypeOK
<1>3. payment' = [payment EXCEPT ![p] = row] /\ Claimable(p, o)
  BY <1>1 DEF Capture
<1>4. \A q \in Payment : payment'[q] = IF q = p THEN row ELSE payment[q]
  BY <1>2, <1>3
<1>5. row.status = "PAID" /\ row.order = o /\ row.amount = amount /\ row.refunded = 0
  OBVIOUS
<1> HIDE DEF row
<1>6. ~ Banked(p)
  BY <1>3 DEF Claimable, Banked
<1>7. IsFiniteSet(Used)'
  <2>1. Used' = Used \cup {p}
    BY <1>4, <1>5 DEF Used
  <2> QED BY <2>1, FS_AddElement DEF LedgerInv
<1>8. /\ RowsOf(o)' = RowsOf(o) \cup {p} /\ p \notin RowsOf(o)
      /\ \A u \in Order \ {o} : RowsOf(u)' = RowsOf(u) /\ p \notin RowsOf(u)
  BY <1>4, <1>5, <1>6 DEF RowsOf, Banked
<1>9. /\ Amounts'[p] = amount /\ Repaid'[p] = 0
      /\ \A q \in Payment \ {p} : Amounts'[q] = Amounts[q] /\ Repaid'[q] = Repaid[q]
  BY <1>4, <1>5 DEF Amounts, Repaid
<1>10. received' = [received EXCEPT ![o] = @ + amount] /\ returned' = returned
  BY <1>1 DEF Capture
<1>11. ASSUME NEW u \in Order
       PROVE  /\ SumFunctionOnSet(Amounts', RowsOf(u)) = received[u]
              /\ SumFunctionOnSet(Repaid', RowsOf(u)) = returned[u]
  <2>1. \A q \in RowsOf(u) : Amounts'[q] = Amounts[q] /\ Repaid'[q] = Repaid[q]
    BY <1>8, <1>9 DEF RowsOf
  <2>2. /\ SumFunctionOnSet(Amounts', RowsOf(u)) = SumFunctionOnSet(Amounts, RowsOf(u))
        /\ SumFunctionOnSet(Repaid', RowsOf(u)) = SumFunctionOnSet(Repaid, RowsOf(u))
    BY <2>1, RowsTyped, SumSame
  <2> QED BY <2>2 DEF LedgerInv, RowsAddUp
<1>12. /\ SumFunctionOnSet(Amounts', RowsOf(o) \cup {p}) = amount + received[o]
       /\ SumFunctionOnSet(Repaid', RowsOf(o) \cup {p}) = 0 + returned[o]
  <2>1. /\ IsFiniteSet(RowsOf(o)) /\ amount \in Int
        /\ \A q \in RowsOf(o) : Amounts'[q] \in Int /\ Repaid'[q] \in Int
    <3>1. /\ IsFiniteSet(RowsOf(o)) /\ amount \in Int
          /\ \A q \in RowsOf(o) : Amounts[q] \in Int /\ Repaid[q] \in Int
      BY RowsTyped
    <3>2. \A q \in RowsOf(o) : Amounts'[q] = Amounts[q] /\ Repaid'[q] = Repaid[q]
      BY <1>8, <1>9 DEF RowsOf
    <3> QED BY <3>1, <3>2
  <2>2. SumFunctionOnSet(Amounts', RowsOf(o) \cup {p})
          = Amounts'[p] + SumFunctionOnSet(Amounts', RowsOf(o))
    BY <1>8, <1>9, <2>1, SumWith
  <2>3. SumFunctionOnSet(Repaid', RowsOf(o) \cup {p})
          = Repaid'[p] + SumFunctionOnSet(Repaid', RowsOf(o))
    BY <1>8, <1>9, <2>1, SumWith
  <2> QED BY <1>9, <1>11, <2>2, <2>3
<1>13. RowsAddUp'
  <2> SUFFICES ASSUME NEW u \in Order
               PROVE  /\ received'[u] = SumFunctionOnSet(Amounts', RowsOf(u)')
                      /\ returned'[u] = SumFunctionOnSet(Repaid', RowsOf(u)')
    BY DEF RowsAddUp
  <2>1. CASE u = o
    <3>1. received'[o] = amount + received[o] /\ returned'[o] = 0 + returned[o]
      BY <1>2, <1>10
    <3> QED BY <1>8, <1>12, <2>1, <3>1
  <2>2. CASE u # o
    <3>1. received'[u] = received[u] /\ returned'[u] = returned[u]
      BY <1>2, <1>10, <2>2
    <3>2. RowsOf(u)' = RowsOf(u)
      BY <1>8, <2>2
    <3> QED BY <1>11, <3>1, <3>2
  <2> QED BY <2>1, <2>2
<1>14. PaidMatchesLedger'
  <2> DEFINE to == Settled(order[o], amount, tip, NumberFor(o))
  <2>1. order' = [order EXCEPT ![o] = to]
    BY <1>1 DEF Capture
  <2>2. to.paidTotal = order[o].paidTotal + amount
    <3> DEFINE owed == billedOn(order[o]) + tip
               paid == order[o].paidTotal + amount
               tips == order[o].tipAmount + tip
               yes  == paid >= owed
               s    == IF yes /\ order[o].status \in {"SERVED", "READY"}
                       THEN "COMPLETED" ELSE order[o].status
               ps   == IF yes THEN "PAID" ELSE "PARTIAL"
               inv  == IF yes THEN NumberFor(o) ELSE order[o].invoice
    <3>1. to = [order[o] EXCEPT !.paidTotal = paid, !.tipAmount = tips,
                 !.paymentStatus = ps, !.status = s, !.invoice = inv]
      BY DEF Settled
    <3>2. order[o] \in OrderRow
      BY <1>2
    <3> HIDE DEF s, ps, inv, tips, to, paid
    <3>3. to.paidTotal = paid
      BY <3>1, <3>2 DEF OrderRow
    <3> QED BY <3>3 DEF paid
  <2> HIDE DEF to
  <2>3. \A u \in Order : order[u].paidTotal = received[u] - returned[u]
    BY DEF LedgerInv, PaidMatchesLedger
  <2> QED BY <1>2, <1>10, <2>1, <2>2, <2>3 DEF PaidMatchesLedger
<1> QED BY <1>7, <1>13, <1>14 DEF LedgerInv

LEMMA LedgerRefund ==
  ASSUME Inv, LedgerInv, MoneyInv, ARefund, MoneyInv'
  PROVE  LedgerInv'
<1>1. PICK r \in Request, p \in Payment, k \in Key, amount \in 1..MaxAmount :
        Refund(r, p, k, amount)
  BY DEF ARefund
<1> DEFINE o     == payment[p].order
           back  == payment[p].refunded + amount
           state == IF back >= payment[p].amount THEN "REFUNDED" ELSE payment[p].status
           row   == [payment[p] EXCEPT !.refunded = back, !.status = state]
<1>2. /\ payment \in [Payment -> PaymentRow] /\ order \in [Order -> OrderRow]
      /\ received \in [Order -> Nat] /\ returned \in [Order -> Nat]
      /\ payment[p].status # "NONE" => o \in Order
  BY DEF Inv, TypeOK
<1>3. /\ payment' = [payment EXCEPT ![p] = row]
      /\ payment[p].status \in {"PAID", "REFUNDED"}
      /\ returned' = [returned EXCEPT ![o] = @ + amount] /\ received' = received
  BY <1>1, ZenonT(40) DEF Refund
<1>4. o \in Order /\ state \in {"PAID", "REFUNDED"}
  BY <1>2, <1>3
<1>5. /\ row.status = state /\ row.refunded = back
      /\ row.order = o /\ row.amount = payment[p].amount
  <2> HIDE DEF back, state
  <2> QED BY <1>2 DEF PaymentRow
<1> HIDE DEF row
<1>6. \A q \in Payment : payment'[q] = IF q = p THEN row ELSE payment[q]
  BY <1>2, <1>3
<1>7. Used' = Used
  BY <1>3, <1>4, <1>5, <1>6 DEF Used
<1>8. \A u \in Order : RowsOf(u)' = RowsOf(u)
  BY <1>3, <1>4, <1>5, <1>6 DEF RowsOf, Banked
<1>9. p \in RowsOf(o) /\ \A u \in Order \ {o} : p \notin RowsOf(u)
  BY <1>3 DEF RowsOf, Banked
<1>10. Amounts' = Amounts
  BY <1>5, <1>6 DEF Amounts
<1>11. Repaid'[p] = Repaid[p] + amount /\ \A q \in Payment \ {p} : Repaid'[q] = Repaid[q]
  BY <1>5, <1>6 DEF Repaid
<1>12. \A u \in Order : /\ received[u] = SumFunctionOnSet(Amounts, RowsOf(u))
                        /\ returned[u] = SumFunctionOnSet(Repaid, RowsOf(u))
                        /\ order[u].paidTotal = received[u] - returned[u]
  BY DEF LedgerInv, RowsAddUp, PaidMatchesLedger
<1> HIDE DEF o, back, state
<1>13. returned'[o] = SumFunctionOnSet(Repaid', RowsOf(o))
  <2>1. /\ IsFiniteSet(RowsOf(o)) /\ \A q \in RowsOf(o) : Repaid[q] \in Int
        /\ Repaid[p] \in Int
    BY <1>4, <1>9, RowsTyped
  <2>2. \A q \in RowsOf(o) \ {p} : Repaid'[q] = Repaid[q]
    BY <1>11 DEF RowsOf
  <2>3. Repaid'[p] \in Int /\ Repaid'[p] - Repaid[p] = amount
    BY <1>11, <2>1
  <2>4. SumFunctionOnSet(Repaid', RowsOf(o))
          = SumFunctionOnSet(Repaid, RowsOf(o)) + (Repaid'[p] - Repaid[p])
    BY <1>9, <2>1, <2>2, <2>3, SumMoved
  <2> QED BY <1>2, <1>3, <1>4, <1>12, <2>3, <2>4
<1>14. \A u \in Order \ {o} : returned'[u] = SumFunctionOnSet(Repaid', RowsOf(u))
  <2> SUFFICES ASSUME NEW u \in Order \ {o}
               PROVE  returned'[u] = SumFunctionOnSet(Repaid', RowsOf(u))
    OBVIOUS
  <2>1. \A q \in RowsOf(u) : Repaid'[q] = Repaid[q]
    BY <1>9, <1>11 DEF RowsOf
  <2>2. SumFunctionOnSet(Repaid', RowsOf(u)) = SumFunctionOnSet(Repaid, RowsOf(u))
    BY <2>1, RowsTyped, SumSame
  <2> QED BY <1>2, <1>3, <1>12, <2>2
<1>15. RowsAddUp'
  BY <1>3, <1>8, <1>10, <1>12, <1>13, <1>14 DEF RowsAddUp
<1>16. returned[o] + amount <= received[o]
  <2>1. IsFiniteSet(RowsOf(o))
        /\ \A q \in RowsOf(o) : Amounts[q] \in Int /\ Repaid[q] \in Int
    BY <1>4, RowsTyped
  <2>2. \A q \in RowsOf(o) : Repaid'[q] \in Int
    BY <1>11, <2>1 DEF RowsOf
  <2>3. \A q \in Payment : payment'[q].refunded <= payment'[q].amount
    BY DEF MoneyInv, RefundsCovered
  <2>4. \A q \in Payment : Repaid'[q] <= Amounts[q]
    BY <1>10, <2>3 DEF Repaid, Amounts
  <2>5. \A q \in RowsOf(o) : Repaid'[q] <= Amounts[q]
    BY <2>4 DEF RowsOf
  <2>6. SumFunctionOnSet(Repaid', RowsOf(o)) <= SumFunctionOnSet(Amounts, RowsOf(o))
    BY <2>1, <2>2, <2>5, SumAtMost
  <2> QED BY <1>2, <1>3, <1>4, <1>12, <1>13, <2>6
<1>17. PaidMatchesLedger'
  <2> DEFINE paid == Left(o, amount)
             ps   == derivePaymentStatus(paid, billedOn(order[o]),
                       IF paid = 0 THEN "REFUNDED" ELSE order[o].paymentStatus)
             to   == [order[o] EXCEPT !.paidTotal = paid, !.paymentStatus = ps]
  <2>1. order' = [order EXCEPT ![o] = to]
    BY <1>1, ZenonT(40) DEF Refund, o
  <2>2. paid = received[o] - (returned[o] + amount)
    BY <1>2, <1>4, <1>16 DEF Left, Less
  <2> HIDE DEF paid, ps
  <2>3. to.paidTotal = paid
    BY <1>2, <1>4 DEF OrderRow
  <2> HIDE DEF to
  <2>4. \A u \in Order \ {o} : order'[u] = order[u] /\ returned'[u] = returned[u]
    BY <1>2, <1>3, <2>1
  <2>5. order'[o].paidTotal = paid /\ returned'[o] = returned[o] + amount
    BY <1>2, <1>3, <1>4, <2>1, <2>3
  <2> QED BY <1>2, <1>3, <1>4, <1>12, <2>2, <2>4, <2>5 DEF PaidMatchesLedger
<1> QED BY <1>7, <1>15, <1>17 DEF LedgerInv

LEMMA LedgerStep == Inv /\ MoneyInv /\ LedgerInv /\ [Next]_vars /\ MoneyInv' => LedgerInv'
BY LedgerSame, LedgerCapture, LedgerRefund

LEMMA LedgerAlways == Spec => []LedgerInv
BY InitType, StepType, MoneyInit, MoneyStep, LedgerInit, LedgerStep, PTL DEF Spec

\* The running sums of a bill are its payment and refund rows, added up: a
\* payment is counted once, under its own order, and so is what it gave back.
THEOREM RowsAlwaysAddUp == Spec => []RowsAddUp
<1>1. LedgerInv => RowsAddUp
  BY DEF LedgerInv
<1> QED BY <1>1, LedgerAlways, PTL

\* What a bill says was paid is what its payments brought in less what its
\* refunds took out: capturePayment adds to the column and refundPayment
\* recomputes it, and the two never part.
THEOREM PaidIsLedger == Spec => []PaidMatchesLedger
<1>1. LedgerInv => PaidMatchesLedger
  BY DEF LedgerInv
<1> QED BY <1>1, LedgerAlways, PTL

------------------------------------------------------------------------------
(* Billed as paid, while nothing rewrites the bill *)

\* The handlers that write a bill they judged or read before: with one of them
\* at work PaidAsBilled can fail (the README says how), without them it cannot.
Rewriting == Reducers \cup {"edit"}
BillsStand == Ops \cap {"void", "discount", "edit"} = {}

NoneRewrites == \A r \in Request : req[r].op \notin Rewriting

\* A row that is billed as it is paid, and reads unpaid only with nothing on it.
Billed(row) ==
  /\ row.paymentStatus = "PAID" => row.invoice # 0
  /\ row.paidTotal <= billedOn(row)
  /\ row.paymentStatus = "UNPAID" => row.paidTotal = 0
PaidInv == NoneRewrites /\ \A o \in Order : Billed(order[o])

LEMMA PaidInit == Init => PaidInv
<1> SUFFICES ASSUME Init PROVE PaidInv
  OBVIOUS
<1>1. NoneRewrites
  BY DEF Init, NoneRewrites, Idle, Rewriting, Reducers
<1>2. Inv
  BY InitType
<1>3. ASSUME NEW o \in Order PROVE Billed(order[o])
  <2>1. order[o].paymentStatus = "UNPAID" /\ order[o].paidTotal = 0
    BY DEF Init, NewOrder
  <2>2. billedOn(order[o]) \in Nat
    BY <1>2 DEF billedOn, Inv, TypeOK, OrderRow
  <2> QED BY <2>1, <2>2 DEF Billed
<1> QED BY <1>1, <1>3 DEF PaidInv

LEMMA StartQuiet ==
  ASSUME NoneRewrites, NEW r \in Request, NEW op, NEW step, NEW o, NEW seen, NEW lines,
         NEW who, op \notin Rewriting, Start(r, op, step, o, seen, lines, who), Inv
  PROVE  NoneRewrites'
<1> DEFINE call == [op |-> op, step |-> step, order |-> o, seen |-> seen,
                    lines |-> lines, who |-> who]
<1>1. req' = [req EXCEPT ![r] = call] /\ req \in [Request -> Call \cup {Idle}]
  BY DEF Start, Inv, TypeOK
<1>2. call.op = op
  OBVIOUS
<1> HIDE DEF call
<1> QED BY <1>1, <1>2 DEF NoneRewrites

LEMMA FinishQuiet ==
  ASSUME NoneRewrites, NEW r \in Request, Finish(r), Inv
  PROVE  NoneRewrites'
<1>1. req' = [req EXCEPT ![r] = Idle] /\ req \in [Request -> Call \cup {Idle}]
  BY DEF Finish, Inv, TypeOK
<1>2. Idle.op \notin Rewriting
  BY DEF Idle, Rewriting, Reducers
<1> QED BY <1>1, <1>2 DEF NoneRewrites

LEMMA QuietStep ==
  ASSUME BillsStand, NoneRewrites, Inv, [Next]_vars
  PROVE  NoneRewrites'
<1>1. CASE UNCHANGED req
  BY <1>1 DEF NoneRewrites
<1>2. CASE UNCHANGED vars
  BY <1>1, <1>2 DEF vars
<1>3. CASE Next
  <2>1. PICK r \in Request : NextOf(r)
    BY <1>3 DEF Next
  <2>2. \A op \in {"cancel", "attach", "settle", "intent", "present", "close"} :
          op \notin Rewriting
    BY DEF Rewriting, Reducers
  <2>3. CASE Fail(r) \/ SettleCommit(r) \/ PresentCommit(r) \/ IntentCommit(r)
             \/ EditCommit(r) \/ CancelCommit(r) \/ AttachCommit(r) \/ RecalcCommit(r)
             \/ CloseServed(r)
    BY <2>3, FinishQuiet DEF Fail, SettleCommit, PresentCommit, IntentCommit, EditCommit,
       CancelCommit, AttachCommit, RecalcCommit, CloseServed
  <2>4. CASE SettleLoad(r)
    BY <2>2, <2>4, FinishQuiet, StartQuiet DEF SettleLoad
  <2>5. CASE RecalcRead(r)
    BY <2>5 DEF RecalcRead, At, NoneRewrites, Rewriting
  <2>6. CASE \E o \in Order : PresentLoad(r, o) \/ IntentLoad(r, o) \/ CancelLoad(r, o)
    BY <2>2, <2>6, StartQuiet DEF PresentLoad, IntentLoad, CancelLoad
  <2>7. CASE \E o \in Order, c \in Customer : AttachLoad(r, o, c)
    BY <2>2, <2>7, StartQuiet DEF AttachLoad
  <2>8. CASE \/ \E o \in Order : EditLoad(r, o)
             \/ \E l \in Line : VoidLoad(r, l) \/ DiscountLoad(r, l)
    BY <2>8 DEF EditLoad, VoidLoad, DiscountLoad, BillsStand
  <2>9. CASE \/ \E l \in Line : AddItem(r, l)
             \/ \E o \in Order, n \in 1..MaxPoints : Redeem(r, o, n)
             \/ \E p \in Payment, k \in Key, amount \in 1..MaxAmount :
                  Refund(r, p, k, amount)
    BY <1>1, <2>9 DEF AddItem, Redeem, Refund
  <2>10. CASE \E o \in Order, s \in Status : MoveStatus(r, o, s)
    BY <1>1, <2>2, <2>10, StartQuiet DEF MoveStatus
  <2>11. CASE \E o \in Order, p \in Payment, k \in Key \cup {None},
               amount \in 1..MaxAmount, tip \in 0..MaxTip :
              Capture(r, o, p, k, amount, tip)
    <3>1. PICK o \in Order, p \in Payment, k \in Key \cup {None},
               amount \in 1..MaxAmount, tip \in 0..MaxTip :
              Capture(r, o, p, k, amount, tip)
      BY <2>11
    <3>2. Start(r, "settle", "queued", o, Nothing, {}, None) \/ UNCHANGED req
      BY <3>1 DEF Capture
    <3> QED BY <1>1, <2>2, <3>2, StartQuiet
  <2> QED BY <2>1, <2>3, <2>4, <2>5, <2>6, <2>7, <2>8, <2>9, <2>10, <2>11 DEF NextOf
<1> QED BY <1>2, <1>3

\* A bill that takes the place of another.
LEMMA BilledRow ==
  ASSUME Inv, NEW o \in Order, NEW row, order' = [order EXCEPT ![o] = row], Billed(row),
         \A u \in Order : Billed(order[u])
  PROVE  \A u \in Order : Billed(order'[u])
<1>1. order \in [Order -> OrderRow]
  BY DEF Inv, TypeOK
<1> QED BY <1>1

\* One whose money columns stay, and whose number, if it changes, is one.
LEMMA BilledSame ==
  ASSUME NEW row, NEW to, Billed(row),
         to.paymentStatus = row.paymentStatus, to.paidTotal = row.paidTotal,
         to.grandTotal = row.grandTotal, to.tipAmount = row.tipAmount,
         to.invoice = row.invoice \/ to.invoice # 0
  PROVE  Billed(to)
BY DEF Billed, billedOn

LEMMA PaidPlain ==
  ASSUME Inv, PaidInv, NEW r \in Request,
         \/ PresentCommit(r) \/ CancelCommit(r) \/ AttachCommit(r) \/ CloseServed(r)
         \/ \E o \in Order, s \in Status : MoveStatus(r, o, s)
  PROVE  \A u \in Order : Billed(order'[u])
<1>1. TypeOK /\ order \in [Order -> OrderRow] /\ \A u \in Order : Billed(order[u])
  BY DEF Inv, TypeOK, PaidInv
<1>2. CASE PresentCommit(r)
  <2> DEFINE o == req[r].order
             n == NumberFor(o)
             row == [order[o] EXCEPT !.invoice = n]
  <2>1. o \in Order /\ order' = [order EXCEPT ![o] = row]
    BY <1>1, <1>2, AtCall DEF PresentCommit
  <2>2. n # 0
    BY DEF NumberFor, HasInvoice, Inv, TypeOK
  <2> HIDE DEF n, o
  <2>3. /\ row.paymentStatus = order[o].paymentStatus /\ row.paidTotal = order[o].paidTotal
        /\ row.grandTotal = order[o].grandTotal /\ row.tipAmount = order[o].tipAmount
        /\ row.invoice # 0
    BY <1>1, <2>1, <2>2 DEF OrderRow
  <2> HIDE DEF row
  <2> QED BY <1>1, <2>1, <2>3, BilledSame, BilledRow
<1>3. CASE CancelCommit(r)
  <2> DEFINE o == req[r].order
             void == order[o].void \cup order[o].live
             row == [order[o] EXCEPT !.status = "CANCELLED", !.live = {}, !.void = void]
  <2>1. o \in Order /\ order' = [order EXCEPT ![o] = row]
    BY <1>1, <1>3, AtCall DEF CancelCommit
  <2> HIDE DEF void, o
  <2>3. /\ row.paymentStatus = order[o].paymentStatus /\ row.paidTotal = order[o].paidTotal
        /\ row.grandTotal = order[o].grandTotal /\ row.tipAmount = order[o].tipAmount
        /\ row.invoice = order[o].invoice
    BY <1>1, <2>1 DEF OrderRow
  <2> HIDE DEF row
  <2> QED BY <1>1, <2>1, <2>3, BilledSame, BilledRow
<1>4. CASE AttachCommit(r)
  <2> DEFINE o == req[r].order
             row == [order[o] EXCEPT !.customer = req[r].who]
  <2>1. o \in Order /\ order' = [order EXCEPT ![o] = row]
    BY <1>1, <1>4, AtCall DEF AttachCommit
  <2> HIDE DEF o
  <2>3. /\ row.paymentStatus = order[o].paymentStatus /\ row.paidTotal = order[o].paidTotal
        /\ row.grandTotal = order[o].grandTotal /\ row.tipAmount = order[o].tipAmount
        /\ row.invoice = order[o].invoice
    BY <1>1, <2>1 DEF OrderRow
  <2> HIDE DEF row
  <2> QED BY <1>1, <2>1, <2>3, BilledSame, BilledRow
<1>5. ASSUME NEW o \in Order, NEW s,
             order' = [order EXCEPT ![o] = [order[o] EXCEPT !.status = s]]
      PROVE  \A u \in Order : Billed(order'[u])
  <2> DEFINE row == [order[o] EXCEPT !.status = s]
  <2>3. /\ row.paymentStatus = order[o].paymentStatus /\ row.paidTotal = order[o].paidTotal
        /\ row.grandTotal = order[o].grandTotal /\ row.tipAmount = order[o].tipAmount
        /\ row.invoice = order[o].invoice
    BY <1>1 DEF OrderRow
  <2>4. order' = [order EXCEPT ![o] = row]
    BY <1>5
  <2> HIDE DEF row
  <2> QED BY <1>1, <2>3, <2>4, BilledSame, BilledRow
<1>6. CASE CloseServed(r)
  <2> DEFINE o == req[r].order
             s == IF order[o].status = "SERVED" THEN "COMPLETED" ELSE order[o].status
  <2>1. o \in Order /\ order' = [order EXCEPT ![o] = [order[o] EXCEPT !.status = s]]
    BY <1>1, <1>6, AtCall DEF CloseServed
  <2> HIDE DEF s, o
  <2> QED BY <1>5, <2>1
<1>7. CASE \E o \in Order, s \in Status : MoveStatus(r, o, s)
  <2>1. PICK o \in Order, s \in Status : MoveStatus(r, o, s)
    BY <1>7
  <2>2. order' = [order EXCEPT ![o] = [order[o] EXCEPT !.status = s]]
    BY <2>1 DEF MoveStatus
  <2> QED BY <1>5, <2>2
<1> QED BY <1>2, <1>3, <1>4, <1>6, <1>7

\* What is added to an unpaid bill, or redeemed on it, leaves it unpaid.
LEMMA BilledUnpaid ==
  ASSUME NEW row \in OrderRow, row.paymentStatus = "UNPAID", row.paidTotal = 0
  PROVE  Billed(Repriced(row))
<1> DEFINE discount == Loyal(row.live, row.cut, row.loyaltyDiscount)
           total == Net[row.live][row.cut] - discount
           ps == derivePaymentStatus(row.paidTotal, total + row.tipAmount, row.paymentStatus)
           to == [row EXCEPT !.loyaltyDiscount = discount, !.grandTotal = total,
                             !.paymentStatus = ps]
<1>1. Repriced(row) = to
  BY DEF Repriced
<1>2. Repriced(row) \in OrderRow
  BY RepricedType
<1>3. ps = "UNPAID"
  BY DEF derivePaymentStatus
<1> HIDE DEF discount, total, ps
<1>4. to.paymentStatus = "UNPAID" /\ to.paidTotal = 0
  BY <1>3 DEF OrderRow
<1> HIDE DEF to
<1>5. billedOn(to) \in Nat
  BY <1>1, <1>2 DEF billedOn, OrderRow
<1> QED BY <1>1, <1>4, <1>5 DEF Billed

LEMMA PaidAdded ==
  ASSUME Inv, PaidInv, NEW r \in Request,
         \/ \E l \in Line : AddItem(r, l)
         \/ \E o \in Order, w \in 1..MaxPoints : Redeem(r, o, w)
  PROVE  \A u \in Order : Billed(order'[u])
<1>1. order \in [Order -> OrderRow] /\ \A u \in Order : Billed(order[u])
  BY DEF Inv, TypeOK, PaidInv
<1>2. CASE \E l \in Line : AddItem(r, l)
  <2>1. PICK l \in Line : AddItem(r, l)
    BY <1>2
  <2> DEFINE o   == LineOf[l]
             row == [order[o] EXCEPT !.live = @ \cup {l}]
  <2>2. o \in Order /\ order[o].paymentStatus = "UNPAID"
        /\ order' = [order EXCEPT ![o] = Repriced(row)]
    BY <2>1 DEF AddItem
  <2>3. order[o].paidTotal = 0 /\ order[o] \in OrderRow
    BY <1>1, <2>2 DEF Billed
  <2> HIDE DEF o
  <2>4. row \in OrderRow /\ row.paymentStatus = "UNPAID" /\ row.paidTotal = 0
    BY <2>2, <2>3 DEF OrderRow
  <2> HIDE DEF row
  <2> QED BY <1>1, <2>2, <2>4, BilledUnpaid, BilledRow
<1>3. CASE \E o \in Order, w \in 1..MaxPoints : Redeem(r, o, w)
  <2>1. PICK o \in Order, w \in 1..MaxPoints : Redeem(r, o, w)
    BY <1>3
  <2> DEFINE n   == AtMost(w, Less(Net[order[o].live][{}], order[o].loyaltyDiscount))
             d   == order[o].loyaltyDiscount + n
             row == [order[o] EXCEPT !.loyaltyDiscount = d]
  <2>2. order' = [order EXCEPT ![o] = Repriced(row)] /\ order[o].paymentStatus = "UNPAID"
    BY <2>1 DEF Redeem
  <2>3. d \in Nat
    <3> DEFINE a == Net[order[o].live][{}]
               old == order[o].loyaltyDiscount
    <3>1. a \in Nat /\ old \in Nat /\ w \in Nat
      BY <1>1 DEF OrderRow
    <3> HIDE DEF a, old
    <3>2. AtMost(w, Less(a, old)) \in Nat
      BY <3>1 DEF AtMost, Less
    <3> QED BY <3>1, <3>2 DEF a, old
  <2> HIDE DEF d
  <2>4. order[o].paidTotal = 0 /\ order[o] \in OrderRow
    BY <1>1, <2>2 DEF Billed
  <2>5. row \in OrderRow /\ row.paymentStatus = "UNPAID" /\ row.paidTotal = 0
    BY <2>2, <2>3, <2>4 DEF OrderRow
  <2> HIDE DEF row
  <2> QED BY <1>1, <2>2, <2>5, BilledUnpaid, BilledRow
<1> QED BY <1>2, <1>3

\* A payment is no more than what is due with its own tip.
LEMMA PaidCapture ==
  ASSUME Inv, PaidInv, ACapture
  PROVE  \A u \in Order : Billed(order'[u])
<1>1. PICK r \in Request, o \in Order, p \in Payment, k \in Key \cup {None},
           amount \in 1..MaxAmount, tip \in 0..MaxTip :
        Capture(r, o, p, k, amount, tip)
  BY DEF ACapture
<1> DEFINE n    == NumberFor(o)
           owed == billedOn(order[o]) + tip
           paid == order[o].paidTotal + amount
           tips == order[o].tipAmount + tip
           yes  == paid >= owed
           s    == IF yes /\ order[o].status \in {"SERVED", "READY"}
                   THEN "COMPLETED" ELSE order[o].status
           ps   == IF yes THEN "PAID" ELSE "PARTIAL"
           inv  == IF yes THEN n ELSE order[o].invoice
           row  == [order[o] EXCEPT !.paidTotal = paid, !.tipAmount = tips,
                      !.paymentStatus = ps, !.status = s, !.invoice = inv]
<1>2. order \in [Order -> OrderRow] /\ \A u \in Order : Billed(order[u])
  BY DEF Inv, TypeOK, PaidInv
<1>3. order' = [order EXCEPT ![o] = row]
  BY <1>1 DEF Capture, Settled
<1>4. /\ order[o].grandTotal \in Nat /\ order[o].tipAmount \in Nat
      /\ order[o].paidTotal \in Nat
  BY <1>2 DEF OrderRow
<1>5. n # 0
  BY DEF NumberFor, HasInvoice, Inv, TypeOK
<1>6. paid <= owed
  BY <1>1, <1>4 DEF Capture, Due, Less, billedOn
<1>7. owed = order[o].grandTotal + tips
  BY <1>4 DEF billedOn
<1>8. /\ ps = "PAID" => inv # 0
      /\ ps # "UNPAID"
  BY <1>5
<1> HIDE DEF n, owed, paid, tips, s, ps, inv
<1>9. /\ row.paymentStatus = ps /\ row.invoice = inv /\ row.paidTotal = paid
      /\ row.grandTotal = order[o].grandTotal /\ row.tipAmount = tips
  BY <1>2 DEF OrderRow
<1> HIDE DEF row
<1>10. Billed(row)
  BY <1>6, <1>7, <1>8, <1>9 DEF Billed, billedOn
<1> QED BY <1>2, <1>3, <1>10, BilledRow

\* What is left after a refund is less than what was paid, so less than the bill.
LEMMA PaidRefund ==
  ASSUME Inv, PaidInv, LedgerInv, LedgerInv', ARefund
  PROVE  \A u \in Order : Billed(order'[u])
<1>1. PICK r \in Request, p \in Payment, k \in Key, amount \in 1..MaxAmount :
        Refund(r, p, k, amount)
  BY DEF ARefund
<1> DEFINE o    == payment[p].order
           paid == Left(o, amount)
           ps   == derivePaymentStatus(paid, billedOn(order[o]),
                     IF paid = 0 THEN "REFUNDED" ELSE order[o].paymentStatus)
           row  == [order[o] EXCEPT !.paidTotal = paid, !.paymentStatus = ps]
<1>2. order \in [Order -> OrderRow] /\ \A u \in Order : Billed(order[u])
  BY DEF Inv, TypeOK, PaidInv
<1>3. /\ order' = [order EXCEPT ![o] = row] /\ o \in Order
      /\ returned' = [returned EXCEPT ![o] = @ + amount] /\ received' = received
  BY <1>1, ZenonT(40) DEF Refund, Inv, TypeOK
<1>4. /\ order[o].grandTotal \in Nat /\ order[o].tipAmount \in Nat
      /\ order[o].paidTotal \in Nat /\ received[o] \in Nat /\ returned[o] \in Nat
  BY <1>2, <1>3 DEF Inv, TypeOK, OrderRow
<1>5. order[o].paidTotal = received[o] - returned[o]
  BY <1>3 DEF LedgerInv, PaidMatchesLedger
<1>6. paid \in Nat /\ (paid < order[o].paidTotal \/ paid = 0)
  BY <1>4, <1>5 DEF Left, Less
<1>7. order[o].paidTotal <= billedOn(order[o]) /\ billedOn(order[o]) \in Nat
  BY <1>2, <1>3, <1>4 DEF Billed, billedOn
<1>8. ps \in {"PARTIAL", "REFUNDED"} /\ paid <= billedOn(order[o])
  BY <1>4, <1>6, <1>7 DEF derivePaymentStatus
<1> HIDE DEF o, paid, ps
<1>9. /\ row.paymentStatus = ps /\ row.paidTotal = paid
      /\ row.grandTotal = order[o].grandTotal /\ row.tipAmount = order[o].tipAmount
  BY <1>2, <1>3 DEF OrderRow
<1> HIDE DEF row
<1>10. Billed(row)
  BY <1>8, <1>9 DEF Billed, billedOn
<1> QED BY <1>2, <1>3, <1>10, BilledRow

LEMMA PaidStep ==
  BillsStand /\ Inv /\ LedgerInv /\ PaidInv /\ [Next]_vars /\ LedgerInv' => PaidInv'
<1> SUFFICES ASSUME BillsStand, Inv, LedgerInv, PaidInv, [Next]_vars, LedgerInv'
             PROVE  \A u \in Order : Billed(order'[u])
  BY QuietStep DEF PaidInv
<1>1. CASE UNCHANGED order
  BY <1>1 DEF PaidInv
<1>2. CASE UNCHANGED vars
  BY <1>1, <1>2 DEF vars
<1>3. CASE Next
  <2>1. PICK r \in Request : NextOf(r)
    BY <1>3 DEF Next
  <2>2. CASE Fail(r) \/ SettleLoad(r) \/ RecalcRead(r) \/ IntentCommit(r) \/ SettleCommit(r)
    BY <1>1, <2>2 DEF Fail, SettleLoad, RecalcRead, IntentCommit, SettleCommit
  <2>3. CASE \E o \in Order : PresentLoad(r, o) \/ IntentLoad(r, o)
                                \/ EditLoad(r, o) \/ CancelLoad(r, o)
    BY <1>1, <2>3 DEF PresentLoad, IntentLoad, EditLoad, CancelLoad
  <2>4. CASE \/ \E o \in Order, c \in Customer : AttachLoad(r, o, c)
             \/ \E l \in Line : VoidLoad(r, l) \/ DiscountLoad(r, l)
    BY <1>1, <2>4 DEF AttachLoad, VoidLoad, DiscountLoad
  <2>5. CASE RecalcCommit(r) \/ EditCommit(r)
    BY <2>5 DEF RecalcCommit, EditCommit, At, PaidInv, NoneRewrites, Rewriting
  <2>6. CASE \/ PresentCommit(r) \/ CancelCommit(r) \/ AttachCommit(r) \/ CloseServed(r)
             \/ \E o \in Order, s \in Status : MoveStatus(r, o, s)
    BY <2>6, PaidPlain
  <2>7. CASE \/ \E l \in Line : AddItem(r, l)
             \/ \E o \in Order, w \in 1..MaxPoints : Redeem(r, o, w)
    BY <2>7, PaidAdded
  <2>8. CASE \E o \in Order, p \in Payment, k \in Key \cup {None},
               amount \in 1..MaxAmount, tip \in 0..MaxTip :
              Capture(r, o, p, k, amount, tip)
    BY <2>8, PaidCapture DEF ACapture
  <2>9. CASE \E p \in Payment, k \in Key, amount \in 1..MaxAmount :
              Refund(r, p, k, amount)
    BY <2>9, PaidRefund DEF ARefund
  <2> QED BY <2>1, <2>2, <2>3, <2>4, <2>5, <2>6, <2>7, <2>8, <2>9 DEF NextOf
<1> QED BY <1>2, <1>3

\* While no line of it is voided, discounted or edited by the guest, whatever
\* else is done to a bill (payments, refunds, presenting, additions, points, a
\* customer, its status, its cancellation), it reads paid only with its invoice
\* number, and no more is taken than the charge and the tips.
THEOREM PaidAsItStands == ASSUME BillsStand PROVE Spec => []PaidAsBilled
<1>1. BillsStand
  OBVIOUS
<1>2. PaidInv => PaidAsBilled
  BY DEF PaidInv, Billed, PaidAsBilled, PaidHasInvoice, NeverOverpaid, HasInvoice
<1>3. Inv /\ LedgerInv /\ PaidInv /\ [Next]_vars /\ LedgerInv' => PaidInv'
  BY <1>1, PaidStep
<1> QED BY <1>2, <1>3, InvCorrect, LedgerAlways, PaidInit, PTL DEF Spec

------------------------------------------------------------------------------
(* Billing implements Takings *)

\* The state Takings sees.
Owner == [p \in Payment |-> IF Banked(p) THEN payment[p].order ELSE None]
Taken == [p \in Payment |-> IF Banked(p) THEN payment[p].amount ELSE 0]
Given == [p \in Payment |-> payment[p].refunded]

\* A step that leaves all of it alone is a stutter of Takings.
LEMMA Stutter ==
  ASSUME Owner' = Owner, Taken' = Taken, Given' = Given, Cancelled' = Cancelled
  PROVE  UNCHANGED Ledger!vars
BY DEF Owner, Taken, Given, Ledger!vars

LEMMA MoneySeen ==
  ASSUME UNCHANGED money
  PROVE  Owner' = Owner /\ Taken' = Taken /\ Given' = Given
BY DEF money, Owner, Taken, Given, Banked

\* A step that moves money cancels nothing.
LEMMA CancelledSeen ==
  ASSUME Inv, [Next]_vars
  PROVE  \/ Cancelled' = Cancelled
         \/ UNCHANGED money /\ \E o \in Order : Cancelled' = Cancelled \cup {o}
<1>1. CASE UNCHANGED <<order, invoices>>
  BY <1>1 DEF Cancelled
<1>2. CASE \E o \in Order : RowChange(o)
  <2>1. PICK o \in Order : RowChange(o)
    BY <1>2
  <2>2. CASE order'[o].status = "CANCELLED" <=> order[o].status = "CANCELLED"
    BY <2>1, <2>2 DEF RowChange, Cancelled
  <2>3. CASE order'[o].status = "CANCELLED" /\ UNCHANGED money
    <3>1. Cancelled' = Cancelled \cup {o}
      BY <2>1, <2>3 DEF RowChange, Cancelled
    <3> QED BY <2>3, <3>1
  <2> QED BY <2>1, <2>2, <2>3 DEF RowChange
<1> QED BY <1>1, <1>2, OrderFrame

LEMMA TakeSeen ==
  ASSUME Inv, MoneyInv, ACapture, Cancelled' = Cancelled
  PROVE  Ledger!Next
<1>1. PICK r \in Request, o \in Order, p \in Payment, k \in Key \cup {None},
           amount \in 1..MaxAmount, tip \in 0..MaxTip :
        Capture(r, o, p, k, amount, tip)
  BY DEF ACapture
<1> DEFINE row == [status |-> "PAID", order |-> o, amount |-> amount,
                   refunded |-> 0, key |-> k]
<1>2. payment \in [Payment -> PaymentRow]
  BY DEF Inv, TypeOK
<1>3. payment' = [payment EXCEPT ![p] = row] /\ Claimable(p, o) /\ Open(o)
  BY <1>1 DEF Capture
<1>4. ~ Banked(p) /\ payment[p].refunded = 0
  BY <1>3 DEF Claimable, Banked, MoneyInv, NothingEarly
<1>5. \A q \in Payment : payment'[q] = IF q = p THEN row ELSE payment[q]
  BY <1>2, <1>3
<1>6. Owner[p] = None /\ o \notin Cancelled
  BY <1>3, <1>4 DEF Owner, Open, Cancelled
<1>7. /\ row.status = "PAID" /\ row.order = o /\ row.amount = amount
      /\ row.refunded = 0
  OBVIOUS
<1> HIDE DEF row
<1>8. Owner' = [Owner EXCEPT ![p] = o]
  BY <1>5, <1>7 DEF Owner, Banked
<1>9. Taken'[p] \in Nat /\ Taken' = [Taken EXCEPT ![p] = Taken'[p]]
  <2>1. \A q \in Payment : Banked(q)' <=> q = p \/ Banked(q)
    BY <1>5, <1>7 DEF Banked
  <2>2. Taken' = [Taken EXCEPT ![p] = amount]
    BY <1>5, <1>7, <2>1 DEF Taken
  <2>3. Taken'[p] = amount /\ amount \in Nat
    BY <2>2 DEF Taken
  <2> QED BY <2>2, <2>3
<1>10. Given' = Given
  BY <1>4, <1>5, <1>7 DEF Given
<1>11. Ledger!Take(p, o)
  BY <1>6, <1>8, <1>9, <1>10 DEF Ledger!Take, Owner, Taken, Given
<1> QED BY <1>11 DEF Ledger!Next

LEMMA GiveBackSeen ==
  ASSUME Inv, MoneyInv, ARefund, Cancelled' = Cancelled
  PROVE  Ledger!Next
<1>1. PICK r \in Request, p \in Payment, k \in Key, amount \in 1..MaxAmount :
        Refund(r, p, k, amount)
  BY DEF ARefund
<1> DEFINE back  == payment[p].refunded + amount
           state == IF back >= payment[p].amount THEN "REFUNDED" ELSE payment[p].status
           row   == [payment[p] EXCEPT !.refunded = back, !.status = state]
<1>2. /\ payment \in [Payment -> PaymentRow]
      /\ payment[p].status # "NONE" => payment[p].order \in Order
  BY DEF Inv, TypeOK
<1>3. /\ payment' = [payment EXCEPT ![p] = row]
      /\ payment[p].status \in {"PAID", "REFUNDED"}
      /\ amount <= payment[p].amount - payment[p].refunded
  BY <1>1, ZenonT(40) DEF Refund, Refundable
<1>4. /\ payment[p].amount \in Nat /\ payment[p].refunded \in Nat
      /\ payment[p].order \in Order
  BY <1>2, <1>3 DEF PaymentRow
<1>5. /\ back \in payment[p].refunded..payment[p].amount
      /\ state \in {"PAID", "REFUNDED"}
  BY <1>3, <1>4
<1> HIDE DEF back, state
<1>6. /\ row.status = state /\ row.refunded = back
      /\ row.order = payment[p].order /\ row.amount = payment[p].amount
  BY <1>2 DEF PaymentRow
<1> HIDE DEF row
<1>7. \A q \in Payment : payment'[q] = IF q = p THEN row ELSE payment[q]
  BY <1>2, <1>3
<1>8. Owner[p] # None
  BY <1>3, <1>4 DEF Owner, Banked
<1>9. Owner' = Owner /\ Taken' = Taken
  BY <1>3, <1>5, <1>6, <1>7 DEF Owner, Taken, Banked
<1>10. Given' = [Given EXCEPT ![p] = Given'[p]]
  BY <1>7 DEF Given
<1>11. Given'[p] \in Given[p]..Taken[p]
  BY <1>3, <1>5, <1>6, <1>7 DEF Given, Taken, Banked
<1>12. Ledger!GiveBack(p)
  BY <1>8, <1>9, <1>10, <1>11 DEF Ledger!GiveBack, Owner, Taken, Given
<1> QED BY <1>12 DEF Ledger!Next

LEMMA IntentSeen ==
  ASSUME Inv, MoneyInv, AnIntent
  PROVE  Owner' = Owner /\ Taken' = Taken /\ Given' = Given
<1>1. PICK r \in Request : IntentCommit(r)
  BY DEF AnIntent
<1> DEFINE row == [status |-> "UNPAID", order |-> req[r].order, refunded |-> 0,
                   amount |-> req[r].seen.grandTotal, key |-> None]
<1>2. PICK p \in Payment : payment[p].status = "NONE"
                           /\ payment' = [payment EXCEPT ![p] = row]
  BY <1>1 DEF IntentCommit
<1>3. payment \in [Payment -> PaymentRow]
  BY DEF Inv, TypeOK
<1>4. \A q \in Payment : payment'[q] = IF q = p THEN row ELSE payment[q]
  BY <1>2, <1>3
<1>5. row.status = "UNPAID" /\ row.refunded = 0
  OBVIOUS
<1> HIDE DEF row
<1>6. ~ Banked(p) /\ ~ Banked(p)' /\ payment[p].refunded = 0
  BY <1>2, <1>4, <1>5 DEF Banked, MoneyInv, NothingEarly
<1>7. \A q \in Payment \ {p} : payment'[q] = payment[q]
  BY <1>4
<1> QED BY <1>4, <1>5, <1>6, <1>7 DEF Owner, Taken, Given, Banked

\* Whatever the handlers interleave, money is taken once for one order, never
\* for a cancelled one, and no more of it goes back than was taken.
THEOREM BillingKeepsTakings == Spec => KeepsTakings
<1>1. Init => Ledger!Init
  <2> SUFFICES ASSUME Init PROVE Ledger!Init
    OBVIOUS
  <2>1. \A p \in Payment : ~ Banked(p) /\ payment[p].refunded = 0
    BY DEF Init, Banked
  <2>2. Cancelled = {}
    <3>1. \A o \in Order : order[o].status \in {"PENDING", "ACCEPTED"}
      BY DEF Init, NewOrder
    <3> QED BY <3>1 DEF Cancelled
  <2> QED BY <2>1, <2>2 DEF Ledger!Init
<1>2. Inv /\ MoneyInv /\ [Next]_vars => [Ledger!Next]_(Ledger!vars)
  <2> SUFFICES ASSUME Inv, MoneyInv, [Next]_vars
               PROVE  Ledger!Next \/ UNCHANGED Ledger!vars
    OBVIOUS
  <2>1. CASE UNCHANGED money
    <3>1. Owner' = Owner /\ Taken' = Taken /\ Given' = Given
      BY <2>1, MoneySeen
    <3>2. CASE Cancelled' = Cancelled
      BY <3>1, <3>2, Stutter
    <3>3. CASE \E o \in Order : Cancelled' = Cancelled \cup {o}
      BY <3>1, <3>3 DEF Ledger!Next, Ledger!Close, Owner, Taken, Given
    <3> QED BY <3>2, <3>3, CancelledSeen
  <2>2. CASE Cancelled' = Cancelled
    <3>1. CASE AnIntent
      BY <2>2, <3>1, IntentSeen, Stutter
    <3>2. CASE ACapture
      BY <2>2, <3>2, TakeSeen
    <3>3. CASE ARefund
      BY <2>2, <3>3, GiveBackSeen
    <3>4. CASE UNCHANGED vars
      BY <2>1, <3>4 DEF vars, money
    <3> QED BY <2>1, <3>1, <3>2, <3>3, <3>4, Frame
  <2> QED BY <2>1, <2>2, CancelledSeen
<1> QED BY <1>1, <1>2, MoneyAlways, PTL DEF Spec, KeepsTakings, Ledger!Spec
==============================================================================
