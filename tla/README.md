# Verification of the restaurant billing system

TLA+ models of the server side of this repository (`src/src/features`, `src/src/server`): what
its handlers do to the database, in every order in which the database lets them interleave, with
the invariants that must survive it, model-checked by TLC and, for most of them, proved by TLAPS
for every value of the constants.

The application is a Next.js program. A request runs in a serverless invocation of its own;
invocations share nothing but one Postgres database, reached through Prisma. So the state of the
system is rows, its concurrency is transactions (READ COMMITTED, with `SELECT ... FOR UPDATE`
where the code asks for it), its failures are invocations that die, time out (`guardLocks`) or are
sent again by the browser, and almost every hard bug it could have is a row that was read, judged
and written too late. That is what these modules model.

Paths below are relative to `src/src/features/` unless they say otherwise.

## 1. Inventory

What is modelled:

| Component | State | Operations | What is hard | What makes it correct |
|---|---|---|---|---|
| Payments and refunds (`payments/service.ts`) | payments, refunds, `orders.paidTotal/tipAmount/paymentStatus/invoice`, invoice counter | createPaymentIntent, capturePayment, ensureInvoice, presentBill, refundPayment | retries with the same client request id; two tills; an intent claimed twice; loyalty settled after the commit | what was paid is what the rows say; no more goes back than came in; one invoice number for each bill, no gaps; nothing is taken twice |
| The till's changes to a bill (`cashier/service.ts`) | lines, item discounts, totals | voidOrderItem, setItemDiscount, recalculateOrderTotals, attachCustomer | judged before the transaction, written in it | a bill with money on it does not change shape |
| Loyalty (`loyalty/service.ts`, settleLoyalty and cancelOrder in `orders/service.ts`) | `customers.loyaltyPoints`, loyalty_entries | redeemPointsOnOrder, settleLoyalty, the unwinding of a refund | points of one customer moved by several bills at once | the balance is the sum of the entries and not negative; a bill earns once |
| Guest edits and additions (`orders/actions.ts`, `orders/guest-additions.ts`) | lines and totals | updateGuestOrderItems, addOrderItems | totals computed from a copy read before the transaction | no total goes negative; nothing is routed by half |
| Order status and line progress (`orders/service.ts`, `orders/progress.ts`) | `orders.status` and its clocks; order_items' status, prepared, served | updateOrderStatus, deriveOrderStatus, serveWholeOrder, progressItems, startItem, cancelOrder | boards, tills and waiters move one order at once; a walk of several transactions may be overtaken or killed | counters only climb; each status is entered once; served after ready; a guest order waits for the cashier; the order catches up with its lines |
| Kitchen sections (`kitchen/routing.ts`) | each line's section | routeOrderItems, commitToKitchen | a line that joins while the order is being routed | all lines of an order are routed or none is |
| Delivery handover (`orders/delivery-handover.ts`) | status, PIN attempts | completeDeliveryWithPin | a second writer of SERVED | as for the status |
| Placement (`orders/service.ts` placeOrder, `orders/table-availability.ts`) | orders, numbers, idempotency keys | placeOrder with its 24 attempts | a cart sent twice; two first orders at one table; two readers of one highest number | one order for each cart; numbers 1, 2, 3 ...; one open sitting at a table |
| Floor (`floor/service.ts`, `floor/actions.ts`) | restaurant_tables, table_sessions | freeTable, swapTable, statuses by hand | the last two orders closed at once; a sitting moved under a placement | occupied exactly while an order is open; each order in the sitting at its own table; strangers apart |
| Cash drawer, petty cash, handover of a till (`cashdrawer/`, `pettycash/`, `handover/cash-service.ts`) | sessions with their unique register and cashier keys, movements, counted closes, the tin, requests | open, capture, move, refund, close, close for another, review; request, decide, pay; hand over, accept, decline, withdraw | a movement checked against an open drawer while another closes it; a request decided twice; a till accepted while it is withdrawn | one open drawer for each till and cashier; a count is final; the tin is never below zero and is carried over once |
| Shifts (`shifts/service.ts`, `attendance/service.ts`, `handover/shift-service.ts`) | staff_shifts with their unique key, rota entries, shift handovers | sign in, sign out, start, cancel, sweep; hand over, accept, reject, withdraw | starts, cancellations, sign-ins at another site and handovers race for one person's session; two statements that belong together | an entry is worked by one session; a till follows its shift |
| Purchasing and approvals (`purchasing/`, `approvals/service.ts`) | an order, its lines, its desk row, deliveries | create, edit, submit, decide at the page or the desk, order, receive, return, close | status written by id after a read; two places to decide; a delivery sent twice | received as ordered, once; nothing on the shelf unreviewed; a request is decided once |
| Outgoing payments (`outgoing-payments/`, `suppliers/`) | payments, postings on a supplier's account | draft, submit, decide, send back, pay, reverse | paid twice, undone twice; what is posted was loaded before | money moves once each way; nobody approves their own; submitted is locked |
| Stock ledger, FIFO layers, depletion of bills (`inventory/ledger.ts`, `fifo.ts`, `fifo-walk.ts`, `depletion.ts`, `location-stock.ts`; split and merge in `cashier/service.ts`) | balances, layers, shelves, what each bill has taken | postMovement, allocateAndConsume, restoreToLayers, reconcileOrderDepletion; place, accept, void, edit, cancel, split, merge | a bill's stock reconciled by every event that touches it, from a copy judged earlier; layers given back after others were drawn | the layers add up to the shelf and to the value; a bill has taken what its lines need |
| Transfers, counts, receipts, wastage (`transfers/service.ts`, `inventory/stock-count.ts`, `wastage.ts`, `stock-actions.ts`) | reserved, in transit, manifests; counts and variances | request, approve, dispatch, receive, complete, reject, cancel, recall; open, record, submit, approve, cancel | a shelf promised twice; three ways to end a shipment; a submit written after an approval | what is promised or on its way is what standing transfers say; a variance is posted once |
| Sessions, password reset (`../server/auth/session.ts`, `auth/password-reset.ts`) | refresh tokens and their successors | sign in, refresh, sign out, end the others, reset | two tabs refresh at once; a refresh against a reset; an answer that comes late or never | one live session for each sign-in; nothing survives a reset; only the late are refused |
| Jobs (`../server/jobs/runner.ts`) | the queue | enqueue, reclaim, claim, run, fail, retry | a runner that dies with its batch; a reclaim of a job that is still running | handed out once for each time it is queued; given up only when exhausted; every job ends |
| Outbox and live updates (`../server/realtime/outbox.ts`, `api/pulse`, `hooks/use-pulse.ts`) | stamps, numbered events; a screen's token and cursor | write, commit, roll back; poll, answer, reload, hide | a number taken before a commit that comes after a read; lost answers; pages | a screen misses only what moved no token; a cursor passes only what committed late; every change is shown in the end |

They interact through rows. A capture completes an order that is out (status), frees its table
(floor), mints an invoice, books its cash on the drawer (held with a shared lock) and then settles
points (loyalty). A cancellation takes the lines, gives the points back, frees the table and gives
back stock. A derivation after each counted dish climbs the order's status, and a served order that
is paid is closed by a second call. Accepting an order takes stock; voids, edits, splits and merges
reconcile what it took. A delivery against a purchase order, a transfer, a count and a waste are
movements of the same ledger. A shift handed over settles its till on the way.

What is not modelled is listed with its reason in section 7 and in `PROJECT.json` "components".
`PROJECT.json` "hazards" lists, line by line, what can go wrong in the modelled parts and a test
would hardly reach, with the properties that watch it.

## 2. Modules

| Module | What it is |
|---|---|
| `Billing` | the money on a bill: payments, refunds, invoices, totals, points |
| `Takings` | the abstract specification of the money alone: taken once, for an order that is not closed; given back never beyond it |
| `Kitchen` | an order's status, its lines' counters, and sections |
| `Seating` | placement, sittings, tables, numbers |
| `Drawer` | cash drawers, petty cash and the handing over of a till |
| `Shifts` | sessions of work, the rota, the handing over of a shift with its till |
| `Purchasing` | a purchase order, the desk that decides it, its deliveries |
| `Outgoing` | payments that leave the business and their reversals |
| `Ledger` | the stock of one item: shelves, FIFO layers, what posting a movement does (no actions of its own) |
| `Depletion` | bills and the stock they take, over `Ledger` |
| `Storeroom` | transfers, counts, receipts and waste, over `Ledger` |
| `Stock` | `Depletion` and `Storeroom` on the same books |
| `Sessions` | one person's sign-ins, refreshes and resets |
| `Jobs`, `Pulse` | the queue of background jobs; the outbox and a polling screen |
| `MCBilling`, `MCKitchen`, `MCSeating`, `MCOffice`, `MCServer`, `MCStock` | the instances for TLC: prices, carts, rosters, layers, symmetry. The last three put components that share no rows side by side: a variable `part`, chosen at first and never changed, says which of them moves in a behaviour |
| `Sums` | lemmas about sums over finite sets |
| `BillingProofs`, `KitchenProofs`, `SeatingProofs`, `DrawerProofs` (Drawer, Shifts), `BuyingProofs` (Purchasing, Outgoing), `ServerProofs` (Jobs, Pulse, Sessions), `StockProofs` (Depletion, Storeroom, Stock) | theorems |

**How code becomes actions.** An invocation is a member of a set of requests (`Request`, `Call`,
`Errand`, `Task`, `Visit`, `Caller`, `Clerk`), and what it has still to do is a record in a variable
over that set. A handler that takes `FOR UPDATE` first and then reads and writes is one action:
nobody who takes the same lock can come between. A handler that reads before its transaction is two,
and carries the copy it judged; the second writes what the first decided, however old. `Fail(r)`,
`Abandon`, `RolledBack` or `Die` is the invocation that dies, is refused, is timed out by `guardLocks`
or is killed as a deadlock victim: its open transaction leaves nothing, and whatever it had to do
afterwards is never done. A retry is a new request with the same client request id or idempotency key.

**Billing.** `order[o]` has the money columns of `orders`, and its lines as three sets (live, void,
cut, the last those with an item discount); `Net[live][cut]` stands for the pricing arithmetic, so
prices are a constant function and the clamping of the loyalty discount (`computeTotals`) is kept.
`received`, `returned` and the fields of `loyalty` are the sums the code gets from aggregates;
`RowsAddUp` ties the first two to the rows. `Capture`, `Refund`, `Redeem`,
`AddItem`, `MoveStatus` and `SettleCommit` hold the order's lock and are atomic;
`VoidLoad/DiscountLoad`, `RecalcRead`, `RecalcCommit` are three steps because `voidOrderItem` and
`setItemDiscount` judge before the transaction and the recalculation in it reads without a lock;
`Cancel`, `Edit`, `Attach`, `Present` and `Intent` are a load and a commit. `Free(o)` is a lock the
code does not ask for: a void or a line discount inserts an order event, whose foreign key holds the
order row FOR KEY SHARE until the commit, and every `FOR UPDATE` of that order waits. A redemption
made at placement is reached as a placement followed by `Redeem`. Left out: coupons, the books'
period, attribution to an account, tables (Seating), stock, the outbox and notices.

**Kitchen.** A request walks the order up a `chain` of statuses, each one an `UpdateRead` (the check
outside the transaction) and an `UpdateWrite` (the check again under the lock). `derived` moves leave
the lines alone, the others cascade onto them; `gate` marks the till's accept. `progressItems` is one
action under the lock, then `Derive` reads the lines and starts a walk; `startItem` is a read and a
write with no lock. An item's timestamps are not kept; `order[o].log`, the statuses given, stands for
the order's. A guest edit changes one line at a time. Every dish that needs a kitchen is taken to have
a section once the branch has any.

**Seating.** The statements of the placement transaction are steps, since each reads what is committed
when it starts. The sitting it has inserted and not committed stays in its request (`Inserted`,
`Opening`): only the unique `activeTableKey` feels it. `Keyed`, `NumberTaken` and `Replay` are the
three unique indexes. `Close`/`Count`/`CommitClose` are updateOrderStatus to COMPLETED and
cancelOrder, which remember the table they read before; `PayClosing` is a capture in full.  Rows are
taken from a pool by `CHOOSE` (which one is immaterial, and there is no symmetry on them). One day of
numbers is modelled. Bookings leave no state on a table: RESERVED is one of the statuses set by hand.

**Drawer.** A call judges, then locks the session's row if the code does, then acts. Closing, handing
over and paying petty cash hold the row alone; a capture holds it shared while it books its cash; a
movement reads without a lock, and its insert waits only through the foreign key. `keyed` is the pair
of unique keys that an open session holds. `frozen` is the expected figure written by the close.

**Shifts.** Every statement is a step unless a transaction holds several: closing a session and
completing its rota entry are two, and so are the till and the shift of a handover. The till's own
money is in `Drawer`; of it only the handover's status is here.

**Purchasing and Outgoing.** Statuses are written by id after a read, so most handlers are a read
(`Judge...`) and a write. The desk's row is claimed by its status, with its consequence in the same
transaction. A delivery locks the order and reads again what was received; its id is unique. An
outgoing payment is written where its status is still the one it leaves, and posts what was loaded.

**Ledger, Depletion, Storeroom.** A movement is posted under the item's lock, so posting is a function
of the books before it (`Issue`, `Receive`, `Book`), and a transaction that posts several composes
them. One item is modelled, with its layers in a sequence; a draw (`allocateAndConsume`) walks them
oldest first, and `Worth` is the rounding of a part of a layer's value. In `Depletion` a line is one
portion; `Reconciled` is the difference between what a bill's lines need and what it has, posted
either way, or nothing where the ledger refuses. Voids, edits, cancellations, splits and merges judge
in one step and write in another. In `Storeroom` a transfer is locked while it is decided, except that
approving looks at the shelf before it locks the item; a count's calls, but for its approval, judge
outside any transaction. `Stock` takes a step of either on the same books, since each is a transaction
of its own. Histories the code does not keep: `behind`, `spent`, `received`,
`uncovered`, `posted`, `late`.

**Sessions, Jobs, Pulse.** A browser's cookies name a row each for its refresh and its access token;
an answer that is late or lost is a step that comes later or never (`Deliver`, `Lose`). A rotation and
a reset take the person's advisory lock, the rest does not. A runner claims a batch in one transaction
(SKIP LOCKED) and writes each result by the job's id alone. A write takes its number and stamp before
it commits, and a poll reads the token and the events in two statements.

## 3. Runs

Every property has a mutant in `PROJECT.json`: a plausible bug of the mapped code under which TLC
finds it violated in the same configuration. Most are conjunctions of named parts, so that one run
asks one question.

| Run | Instance | Shows |
|---|---|---|
| `billing_settle` | one bill, two lines, two payments, two ids, two invocations that capture, refund, present, claim an intent, move the status and cancel | `RowsAddUp`: the order's columns are the sums of its rows. `PaidAsBilled` (`PaidHasInvoice`, `NeverOverpaid`). `SettlementFinal` (`KeyOnce`, `RefundsCovered`, `InvoiceKept`, `CancelledIsFinal`). `KeepsTakings`: the refinement of `Takings` |
| `billing_loyalty` | two bills of one customer: capture, refund, redeem | `BalanceExplained`: every balance is what its entries add up to. `InvoicesNumbered`: unique and without gaps. `PointsOnce` (`EarnedOnce`, `TakenOnce`) |
| `billing_edits` | one bill, everything that changes its shape against a capture and a cancellation | `TypeOK` (no total goes negative), `PaidMatchesLedger` |
| `kitchen_staff` | a delivery order typed in by the staff, with a line to come, two invocations that may die; no "edit" or "start", which break `NeverHalfRouted` | `NeverHalfRouted`; `CountersClimb`; `HistorySound` (`EnteredOnce`, `ReadyBeforeServed`, `CancelledStays`) |
| `kitchen_guest` | a guest order, edited while the till answers and boards tap | `CountersInOrder`; `TillFirst` (`GuestWaits`, `PendingUntouched`) |
| `kitchen_follows` | one invocation at a time, under fairness | `EventuallyServed` |
| `seating_races` | two tables, two invocations, carts sent twice, tables set by hand, deaths | `OneSitting`; `PlacedInSequence` (`PlacedOnce`, `NumbersInSequence`) |
| `seating_quiet` | one invocation at a time, two tables, three orders, two guests and the staff | `FloorAgrees` (`OccupiedWhileOpen`, `SitsAtItsTable`); `StrangersApart` |
| `office` | one of: drawers, an order at the desk, its goods, an order with one call at a time, a payment and its reversals, the rota, a shift handed over, two tills handed over | `DrawersApart` (`OneDrawerEach`, `KeysMeanOpen`); `CashAccounted` (`FundNeverNegative`, `CashCarriedOnce`); `CountedTakesNoMore`; `ReceivedAsOrdered` (`NeverOverReceived`, `DeliveredOnce`); `ReviewedBeforeStock`; `DecidedOnce`; `OnceOutOnceBack` (`MoneyMovesOnce`, `UndoneOnce`); `ApprovedAsSubmitted` (`TwoPeople`, `LockedOnceSubmitted`); `RotaWorkedOnce`; `TillFollowsShift` |
| `server` | two jobs and two runners, one of which may die; or three writes and a screen that may lose an answer | `QueueSound` (`HandedOutOnce`, `GivesUpExhausted`); `ScreensSound` (`MissedOnlyUnmoved`, `SkippedOnlyLate`); `EventuallySettled`; `EventuallyShown` |
| `stock` | one of: two bills with four lines; two transfers between two branches; a count; a bill and a transfer; one person's sessions | `StockAccounted` (`BooksTie`, `AppliedIsOut`, `ValueKept`); `InStep`; `TransfersTie` (`PromisesTie`, `ManifestCovers`); `PostedOnce`; `OneLiveEach` (`OneHeadEach`, `ResetEndsAll`); `RefusedOnlyLate` |
| `race_cancel_capture` | one bill, one payment, a cancellation | the violation of `CancelledHoldsNothing` that `PROJECT.json` "findings" describes |

**Bounds.** Two invocations are enough for every race between a stale read and one write in between,
which is the shape of all the handlers here; each carries at most one copy. Two payments with amounts
of one and two on a bill of two give partial, full and over-asked tenders, and refunds in parts;
`MaxTip` 1 adds a tip once. Loyalty runs with one customer and two bills, the smallest in which one
bill spends what another earned. `MaxSpent`, `MaxGiven`, `MaxPoints` bound counters that otherwise
only grow. In Kitchen a quantity of two is the smallest that can be half prepared (`kitchen_guest`,
`kitchen_follows`); `kitchen_staff` takes one, to afford all operations at once. In Seating two
attempts of the code's 24 show a lost race and its retry, and giving up. `Ops` chooses the handlers
of an instance; a run lists every handler its properties are claimed under.

In `office` the rosters of `Drawer` (`EachDuty`) say which operations a behaviour is made of, and the
predicates `DrawersWithin`, `DeskWithin`, `GoodsWithin`, `AloneWithin`, `PaymentsWithin`, `RotaWithin`,
`TakeoverWithin`, `TillsWithin` cut each part to an instance in which its races are complete: two
calls on one order, one payment that other payments undo, a person with three rota entries at two
sites. Predicates such as `DrawersInOrder` take rows by their ids, since they are alike. In `stock` the opening layer is two
units that cost three, which one unit cannot be an exact third of, so that rounding happens;
`MaxLayers` 2 leaves room for one more layer, made by a delivery, a receipt, a transfer or a recall;
`BillsWithin` drops combinations that only refuse more and, of two calls, wants one that closes, splits
or merges; `TransfersWithin` and `CountsWithin` choose what moves, and `SharedWithin` leaves one bill of
two lines, one transfer, one call and one clerk at a time on the same books. In `server` `Page` 1 makes a page overflow with two events,
`MaxDeaths` and `MaxLost` 1 kill a runner and lose an answer once, `MaxClock` 2 gives two writes one
stamp. `MaxResets` 1 in `Sessions` is one reset against everything in flight.

Deadlock checking is off because an instance legitimately ends: bills are settled, pools of rows
used up.

**Fairness.** All but three properties are safety and assume none: nothing in the code retries what
an invocation left undone. `kitchen_follows` assumes `WF(Continue(r))`: an invocation that has
begun and is not killed runs to its end, which is what a runtime does with it. It has no `Fail`,
because with it `EventuallyServed` is false: no later event need bring the order along. `server`
assumes that time passes (a job comes due, a lock grows stale), that the scheduler goes on calling
the runner and a runner that is alive goes on with its batch (`WF(Proceed(r))`, which is not fair to
any death), and that a visible screen's timer fires and its page reloads (`Poll`, `Reload`); answers
are lost at most `MaxLost` times.

**Which properties hold only one invocation at a time.** `OccupiedWhileOpen`, `SitsAtItsTable`,
`StrangersApart` and `EventuallyServed` say that the handlers are right as a sequence. Two concurrent
ones break each of them; section 5 says how.

## 4. Proofs

All theorems hold for every choice of the constants that satisfies the ASSUMEs of the module, any
number of invocations, orders, tables, payments, drawers or layers, and all handlers together, unless
the theorem's own hypothesis says otherwise.

*Sums.* Several invariants say that a column is the sum of rows. `Sums` has what those proofs need:
`SetInduction` (induction over a finite set, stated with a set in place of the predicate so that the
provers can use it), that a sum does not depend on the order in which it is taken (`WalksAgree`,
`SumWalks`), that it is a number (`SumTyped`), and what becomes of it when one row changes, joins or
leaves, or when one sum is set beside another (`SumWith`, `SumTake`, `SumUnion`, `SumZero`,
`SumWithin`, `SumPlus`, `SumNat`, `SumPart`, `SumAlong`, `SumMoved`, `SumSame`, `SumAtMost`).

*Billing.* `BillingProofs` proves `Inv == TypeOK /\ BalanceExplained` inductive. They need each
other: that a balance never goes below zero uses the types of the copies a request carries, and the
type of a total (no subtraction below zero) uses the clamp of the discount. From it `TypeCorrect`
and `BalanceCorrect`. `MoneyInv` (`RefundsCovered`, `KeyOnce`, and that a payment not yet inserted
has no amount, refund or key) gives `RefundsAreCovered` and `KeysAreOnce`; `PointInv` (points are
earned only by a settlement, taken back only by an unwinding, and no more taken than were earned)
gives `TakenIsOnce`, `EarnedIsOnce` and `PointsAreOnce`; `NumberInv` (numbers are at most the counter
and none is skipped) gives `InvoicesAreNumbered` and `InvoicesAreKept`; `SettlementIsFinal` joins
these. `LedgerInv` (`RowsAddUp`, `PaidMatchesLedger`, and that only finitely many payments are used,
so that sums over them are sums) gives `RowsAlwaysAddUp` and `PaidIsLedger`: every action that
touches a payment is shown to change one row by what it adds to the order's column.
`PaidAsItStands` proves `PaidAsBilled` from `PaidInv` (a bill marked paid has an invoice and no more
paid than billed) under the hypothesis `BillsStand`: no void, item discount or guest edit is among
the handlers. Without it the property is false, not only unproved: a recalculation over a stale row
can mark a bill PAID without an invoice, and an edit judged before a capture undercuts what was
paid. `BillingKeepsTakings` proves that Billing implements `Takings` under the mapping at the end of
the module: a capture is `Take`, a refund `GiveBack`, a cancellation `Close`, everything else a
stutter.

*Kitchen.* `KitchenProofs` proves `KitchenInv == TypeOK /\ LinesSound /\ CallsSent /\ History`
inductive by asking of a step three things apart: what may become of a line (`LinesStep`: it stays
sound and its counters grow), of an order (`OrdersStep`: it keeps its status or is given a higher
`Rank`, served only from ready, or cancelled) and of a call (`CallsStep`). Orders need calls: a
write is trusted only because its rung was in the transition table of the status it saw
(`CallsSent`), and the re-check under the lock makes that the status it overwrites. `History` says
that a log climbs, so a status is entered once, and that SERVED has READY before it. From these
`HistorySoundSafe` and its parts, `CountersSafe`, `CountersOnlyClimb`, and `GuestWaitsSafe` (a call
that takes a guest's order off PENDING carries the gate, which only the till's accept sets).
`PendingUntouchedSafe` needs `StartsCooking` besides: a line judged in one step and written in the
next is on an order that had left PENDING at the first, and no order goes back. `TillFirstSafe`
joins the two. `RoutedAsAWhole` proves `NeverHalfRouted` from `RoutedInv`: of every order either no line
is routed, or the branch has sections and every live line is (`Even`), and of a PENDING order none is.
Its hypothesis `LinesStay` leaves out the two handlers that break it, seen with TLC: a guest's edit adds
a line that nothing routes, and a cook's press brings back a line that was voided before the others
were routed.

*Seating.* `SeatingProofs` proves `TypeOK`, and `OneSitting` with the strengthening
`InsertedApart`: what a request has inserted and not committed is a row nobody else holds, at a
table where no sitting is open and no other is being inserted, so its commit collides with nothing.
`PlacedInv` gives `PlacedOnce` and `NumbersInSequence` with `NumberRead` (the number a request
holds is at most one above the count of orders, which only grows), `ClosesPlaced` and the
finiteness of the set of orders placed; cardinalities come from `FiniteSetTheorems`. Two theorems
have the hypothesis `OneAtATime` (of any two invocations, they are one), without which they are false.
`StrangersStayApart` uses `Admitted`: who was let order at a table finds nobody there or an order of
their own. `FloorAlwaysAgrees`, where nobody sets a table by hand, uses `ReadsStand`: what an invocation
read of the table, the sitting and the other orders is still so when it writes.

*Drawer and Shifts.* `DrawerInv` (in `DrawerProofs`) is the types, what every call in flight may rely
on (`CallSound`), that a lock has one holder (`Exclusive`), that keys are those of open sessions and
of no two (`KeysMeanOpen`, `KeyedApart`), that what is not yet opened is empty (`Untouched`), that the
tin holds (`FundNeverNegative`) and that a handover is sound and carries its cash once
(`HandoverSound`, `Carried`). It gives `ApartAlways`, `AccountedFor` and, as an action property,
`CountIsFinal`. For shifts, `HandoverInv` follows the two halves of a handover: a call that has
settled the till and not yet the shift holds the shift in the state it will settle
(`TillGoesWithShift`). `RotaInv` follows an entry from PLANNED to its session: a call that has judged
a start may write only while the entry is still free (`EntriesWorkedOnce`).

*Purchasing and Outgoing.* `PurchasingInv == PurchasingTypeOK /\ OrderSound /\ (every errand sound) /\
OneHolder` in `BuyingProofs`: a delivery's rows are within what is ordered, a claim on the desk's row
has one holder, and what an errand has judged bounds what it may write. It gives `OrderedAndOnce`,
`ReviewedFirst` and `RuledOnce`. `OutgoingInv == OutgoingTypeOK /\ TaskSound /\ PaymentSound /\ Undone`
gives `OutAndBackOnce` (a payment leaves once and is undone by one other) and `AgreedAsSubmitted`.

*Jobs, Pulse, Sessions* (`ServerProofs`). `QueueInv == JobsTypeOK /\ Held /\ Remembered /\
GivesUpExhausted`: the runners that hold a job are no more than its requeueings and one
(`Held`, a cardinality), and a runner's copy of the attempts is no higher than the row's
(`Remembered`). It gives `QueueIsSound`. `PulseInv` says of each screen what its token, cursor and
pages mean, against the changes that are done (`Sound`), and gives `ScreensAreSound`; the next
number of an event is a maximum of a finite set. `SessionsInv` is the types, `RowsSound` (`Rooted`,
`OneHeadEach`, `Over`, `Young`, `ResetEndsAll`: a row descends from one sign-in, what replaced it is
not older, a sign-in has one head) and `DueAsked`. It gives `OneLiveAlways` and, as an action
property, `NobodyRacedOut`.


*Stock.* `StockProofs` has four arguments and their composition. `CountsInv` (each count's row is `Shaped`: posted no more
often than it was submitted late and once; each clerk is `Pointed` at a count) gives
`VariancePostedOnce`. `BillsInv` (types of orders and lines, what a call in flight was `Aimed` at,
what a bill has on record, `InStep`) gives `BillsKeepInStep`: every step that changes a bill's lines
reconciles the bill it changed, or is the stale one that `behind` remembers. `BillsAccountInv` adds
`Accounted`: the books are `Sound` (the layers add up to the shelves, the shelves to the balance, the
layers' value to the item's), each bill's rows are `OnRecord` (they sum to what it has taken, and
are of layers there are), and what a layer has received is what it is still worth, what was spent of
it for good and what the bills hold of it. Its core is the ledger's algorithms: a walk over layers
oldest first takes from each no more than it has and in all exactly what was asked (`LastOfLine`,
`FirstOfLine`, `WalkTakes`), so an issue keeps the books sound (`Drawn`, `IssueIs`), a receipt does
(`LayersAdded`, `Received`), giving back latest first undoes what was taken (`LatestFirst`,
`Restored`), and a posting moves the same quantity and value between the books and the bill
(`PostedAccounted`). It gives `BillsAndBooksAccount`. `StoreInv` says of the transfers that what is
reserved and what is in transit at a branch are the sums over the standing transfers (`HeldAll`,
`SentAll`), that a manifest covers what was sent (`Covered`), and of the clerks that a transfer that
is being approved is still REQUESTED and in one clerk's hands (`Deciding`). It gives
`TransfersAlwaysTie` and `StoreBooksTie`. That the manifest is what was drawn needs that a finite set
with a strict order on it can be put into a sequence (`LineUp`, `ManifestIs`). Bills and clerks then
move the same books in `StockSpec`, and `StockInv` is the conjunction of the invariants: what a bill's
step leaves (`Rebooked`) touches nothing promised or on its way (`Besides`), and what a clerk's step
leaves (`Restocked`) keeps every layer with what it was received for and only adds to what is spent
(`Grown`), so that what bills have out stays on record (`StaysAccounted`). It gives
`SharedBooksHold`. These theorems assume
`BranchesAreFinite`, `BillsAreFinite`, `StoreIsFinite` (sums over infinite sets are not sums) and
`OpeningIsWhole` (what an opening layer received is there or was spent, and an empty one is worth nothing).

*Only model-checked.*
- `FloorAgrees`, `StrangersApart`, `NeverHalfRouted` and `PaidAsBilled` beyond the hypotheses of their
  theorems: there they are false (section 5).
- Everything live: `EventuallyServed`, `EventuallySettled`, `EventuallyShown`. Their proofs need
  ENABLED and fairness, which the provers at hand do not treat.
- What the sums of tax and price are, which the models take as constants.

No module declares a RECURSIVE operator: sums and walks are folds or recursive functions.
## 5. Disagreements between the code and what it says

`race_cancel_capture`, the one in `PROJECT.json`, is shown by a run. The models also reach the
following; each has been seen as a counterexample of TLC to the property named or described (where a
property is named, it is defined at the end of its module), in the instances of the runs with the
handlers named.

*Billing*
- A void or a line discount judged before a capture leaves more collected than the bill comes to
  (`cashier/service.ts:741`; `NeverOverpaid` with "void" and "capture").
- A refund and then a cancellation give the points spent on a bill back twice
  (`orders/service.ts:1924`, against the comments at 1882 and 1923; `payments/service.ts:854`;
  `GivenBackWasSpent`).
- A bill refunded in full before its loyalty was settled keeps the points for good
  (`orders/service.ts:2241`).
- A guest edit over a capture leaves a bill PAID with money owed (`orders/actions.ts:667`), and over an
  addition a total that leaves a dish out (`orders/actions.ts:679`).
- `attachCustomer` lets points spent by one customer come back to another (`cashier/service.ts:1022`).

*Kitchen*
- `startItem` drags a finished line back (`orders/service.ts:1496`, against the comment at 1454;
  `LinesMoveForward`), and brings back a line that was voided since it was read, without a section
  when the order was routed in between (`NeverHalfRouted` with "start").
- The readout of `deriveOrderStatus` is taken without the order's lock: a dish added in between is
  left on a served order (`orders/service.ts:1184`); two derivations cross and the slower one's walk
  is lost (`orders/service.ts:1211`, against the comment at 1155; `CaughtUp`).
- Voiding the last line that is not served derives nothing (`cashier/service.ts:760`).
- A section made after an order was accepted routes it later, at PREPARING, with what it has become
  (`orders/service.ts:1798` and `kitchen/routing.ts:199`); a dish that needs no kitchen is READY with
  nothing prepared (`kitchen/routing.ts:183` and `orders/service.ts:1743`).
- A guest edit judged before and written after takes back a line the kitchen has started
  (`orders/actions.ts:594`), enlarges one that is ready (`orders/actions.ts:641`), and adds a line that
  no section receives (`orders/actions.ts:616`).
- A delivery handed over after it was paid stays SERVED (`orders/delivery-handover.ts:256`).
- A late no at one till cancels what another has accepted (`cashier/service.ts:900`).

*Seating, with two invocations*
- Strangers meet in one sitting (`orders/service.ts:646`, against the comment at 637;
  `StrangersApart`).
- The last two orders at a table, closed at once, each count the other, and the table is never freed
  (`floor/service.ts:70`).
- A placement joins a sitting that `freeTable` is closing (`floor/service.ts:55`).
- A swap does not see the order a placement has yet to commit, which stays at the old table
  (`floor/service.ts:187`).
- A cancellation or a status change frees the table it read before its transaction, after a swap the
  wrong one (`orders/service.ts:1862`).
- A table read as occupied and freed meanwhile is not marked again (`orders/service.ts:926`).
- A capture locks its order and then the table, a swap tables and then orders: a deadlock, which
  Postgres ends by killing one; in the model, `Fail` (`floor/service.ts:128`).

*Drawer and shifts*
- A request for petty cash that is decided twice is paid twice (`pettycash/service.ts:197`, against the
  comment at 279; `PaidOnce`). The frozen figure of a close leaves out a movement that was checked
  before it (`cashdrawer/service.ts:648`, `pettycash/service.ts:294`; `FrozenIsTrue`).
- A death, or settling the till on its own screen, between the till's step and the shift's leaves a
  handover PENDING_ACCEPTANCE for ever: accept, reject and withdraw all refuse because the cash is
  settled, and its keys block both people (`handover/shift-service.ts:45`, "the two move together";
  `MovesTogether`).
- A STARTED rota entry stays STARTED when its session is closed by another start's change of branch, or
  when the closer dies between its two statements (`attendance/service.ts:270`); `fromShiftId` may be
  an older session than the one open at acceptance. The overlap check of `assignShift` and the PLANNED
  check of `updateShiftAssignment` are outside the write.

*Purchasing and outgoing payments*
- Statuses are written by id after a read: a delivery can land on a cancelled order and revive it, and
  a rejection can be written over a received one; an edit judged before the approval replaces the lines
  after a receipt (`OverIsOver`).
- Two desk rows can be open for one order (`OneOpenRequest`); a decision on the order's page that races
  a submit leaves a desk row nobody can rule on; a withdrawn desk row leaves its order
  PENDING_APPROVAL.
- A purchase request that A wrote, B submitted and A approves passes the rule of two people
  (`purchasing/actions.ts:378`). An outgoing payment is judged by the submitter it was loaded with
  (`outgoing-payments/service.ts:347`; `ApproverNotSubmitter`); `markPaid` and `reverse` post what was
  loaded, maybe before a later edit (`PostedAsApproved`); a reversal may be reversed and posts a second
  negation (`ReversalsStand`).

*Stock*
- `approveTransfer` checks that the shelf suffices before it locks the item, so a shelf is promised
  twice (`transfers/service.ts:309`; `PromisedOnce`). `recallTransfer` brings goods back at the item's
  cost, not their layers' (`:755`); the waste of a short receipt draws the destination's oldest layers,
  though a comment says at the cost of the layers it was.
- A submit or a cancellation of a count is judged outside and written by id: a late submit re-opens an
  approved count, whose variance is then posted twice (`inventory/stock-count.ts:217`, against the
  comment at 249; `CountedOnce`); two first saves that race leave a variance that is not counted minus
  system.
- ADJUSTMENT_IN, SALE_REVERSAL and TRANSFER_IN are refused when the balance stays below zero
  (`inventory/ledger.ts:309`; the comment at 305 says corrections always pass). What `restoreToLayers`
  calls a new layer with no value is no layer at all (`inventory/fifo.ts:421`).
- `reconcileIfDepleted` takes "has rows" for "was accepted": a bill that took nothing when accepted
  never deducts what is added later (`inventory/depletion.ts:409`). An edit, a void or a split judged
  before a cancellation takes stock for a cancelled bill (`orders/actions.ts:582`,
  `cashier/service.ts:722`; `CancelledHoldsNothing` of `Depletion`). A void or a split by a line's id
  reconciles the wrong bill when the line has moved. Merging an accepted bill into a pending one deducts
  the pending lines early (`cashier/service.ts:495`).

*Sessions, jobs, outbox*
- Signing out with a token that has just been rotated leaves its successor live
  (`../server/auth/session.ts:714`); a very late refusal clears cookies that hold the live token
  (`:667`, `:682`; `CurrentIsKept`); "Serialise everything" (`:741`), though several paths take no lock.
- An event is passed over when the token did not change (`TokenMissesNothing`). A late runner overwrites
  DONE, and reclaiming does not look at the attempts (`AttemptsBounded`).

## 6. Plan

Done: the modules of section 2 with their runs and proofs. Next, in this order:

1. `Production` over `Ledger`, as a third user of the books beside the two in `Stock`: `Grown` and
   `Besides` are what its steps owe the others.
2. Payment accounts; then reservations and accounting periods.

## 7. Not modelled, and why

- *Production* (`production/service.ts`). It would be another user of `Ledger`. Reading it showed: the
  completion overwrites the start's client request id, so that a late retry of the start makes a second
  batch (comment at 862); issuing a part of the plan means the rest is never drawn; the output item is
  locked after the sorted ingredients.
- *Payment accounts* (`payments/accounts-ledger.ts`): balances as sums of movements, locked in id order;
  `setAccountActive` and `removeAccount` judge the balance outside and write by id.
- *Reservations*, whose overlap is checked before the transaction that writes
  (`floor/reservations.ts:65`); *accounting periods, journal and bank matching*
  (`accounting/service.ts:261`, `ledger/bank-matching.ts:265`).
- Manual discounts, coupons, adjusted points, adjustments of stock by hand, returns to a supplier, hold
  and resume: single-row edits next to what is modelled, or pure evaluation.
- Presentation, reports and search read only. Mail, SMS and the database vendor's API are outside
  services called on a best-effort basis. Menu, catalog, branches, access and settings are single-row
  edits. Prices, taxes and rounding are a constant function of the lines (`Net`): the arithmetic is
  sequential and has tests of its own (`scripts/billing-math-test.ts`); what matters here is which
  rows it is applied to. Postgres is taken at its word: READ COMMITTED statements, row locks, unique
  indexes, foreign keys' FOR KEY SHARE.
