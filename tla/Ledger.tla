------------------------------- MODULE Ledger -------------------------------
(***************************************************************************)
(* The stock of one item, and what posting a movement does to it.  A branch *)
(* holds a quantity, and the same goods as layers: each came in at a value  *)
(* and is drawn oldest first.  The item's total, value and cost are caches. *)
(*                                                                          *)
(* A movement is posted under the item's lock, so a posting is a function   *)
(* of the books before it; one transaction may post several.                *)
(***************************************************************************)
EXTENDS Integers, Sequences, FiniteSetsExt

CONSTANTS
  Branch,
  Opening,    \* the layers there are at first
  MaxLayers   \* bound: layers ever made

VARIABLE books

\* A layer's value is what is left of what was paid for it.  spent is a history:
\* what of it left for good, not on a bill that may give it back.
Layer == [branch: Branch, qty: Nat, value: Nat, date: Nat, received: Nat, spent: Nat]

\* uncovered is a history: what was issued from no layer, and not given back.
Shelf == [available: Int, reserved: Int, inTransit: Int, uncovered: Int]

Books == [quantity: Int, stockValue: Nat, cost: Nat, mayGoNegative: BOOLEAN,
          shelf: [Branch -> Shelf], layers: Seq(Layer)]

ASSUME BranchesAreFinite == IsFiniteSet(Branch)
\* What is there at first has its value, and an empty layer has none.
ASSUME OpeningIsWhole ==
  /\ MaxLayers \in Nat /\ Opening \in Seq(Layer) /\ Len(Opening) <= MaxLayers
  /\ \A l \in DOMAIN Opening : /\ Opening[l].received = Opening[l].value + Opening[l].spent
                               /\ Opening[l].qty = 0 => Opening[l].value = 0

Round(a, b) == (2 * a + b) \div (2 * b)
Least(a, b) == Min({a, b})
Most(a, b) == Max({a, b})

Total(op(_), S) == SumFunctionOnSet([x \in S |-> op(x)], S)

------------------------------------------------------------------------------
(* Layers *)

OpenAt(s, b) == {l \in DOMAIN s.layers : s.layers[l].branch = b /\ s.layers[l].qty > 0}
Older(s, k, l) ==
  s.layers[k].date < s.layers[l].date \/ (s.layers[k].date = s.layers[l].date /\ k < l)

\* What a draw that empties it takes is all the value that is left.
PerUnit(held, n) ==                            \* mutant: at a cost per unit, rounded
  n * (held.value \div held.qty)
Worth(held, n) ==
  IF n = held.qty THEN held.value ELSE Least(Round(held.value * n, held.qty), held.value)

\* What a walk takes of each of have when n are wanted and those ahead of it come first.
Walk(have, ahead, n) ==
  [l \in DOMAIN have |-> Least(have[l], Most(0, n - Total(LAMBDA k : have[k], ahead[l])))]

\* The rows of a draw: 0 stands for what no layer covered, which is worth nothing.
allocateAndConsume(s, b, n) ==
  LET open == OpenAt(s, b)
      part == Walk([l \in open |-> s.layers[l].qty],
                   [l \in open |-> {k \in open : Older(s, k, l)}], n)
      rest == n - Total(LAMBDA l : part[l], DOMAIN part)
  IN  [l \in 0..Len(s.layers) |->
        IF l = 0 THEN [qty |-> rest, value |-> 0]
        ELSE IF l \in DOMAIN part
             THEN [qty |-> part[l], value |-> Worth(s.layers[l], part[l])]
             ELSE [qty |-> 0, value |-> 0]]

QtyOf(rows) == Total(LAMBDA l : rows[l].qty, DOMAIN rows)
ValueOf(rows) == Total(LAMBDA l : rows[l].value, DOMAIN rows)

------------------------------------------------------------------------------
(* Posting *)

\* The caches, from the layers.
Tally(s) ==
  LET value == Total(LAMBDA l : s.layers[l].value, {l \in DOMAIN s.layers : s.layers[l].qty > 0})
  IN  [s EXCEPT !.stockValue = value,
                !.cost = IF s.quantity > 0 THEN Round(value, s.quantity) ELSE @]

\* Negative stock is the owner's choice, for the item and for the branch.
MayIssue(s, b, n) == s.mayGoNegative \/ (s.quantity >= n /\ s.shelf[b].available >= n)
MayArrive(s, n) == s.mayGoNegative \/ s.quantity + n >= 0

\* Rows come off their layers and the shelf (sign 1), or go back on (sign -1).
Book(s, b, rows, sign) ==
  [s EXCEPT
    !.quantity = @ - sign * QtyOf(rows),
    !.shelf[b].available = @ - sign * QtyOf(rows),
    !.shelf[b].uncovered = @ + sign * rows[0].qty,
    !.layers = [l \in DOMAIN s.layers |->
       [s.layers[l] EXCEPT !.qty = @ - sign * rows[l].qty,
                           !.value = @ - sign * rows[l].value]]]

\* What is wasted, sent off or counted away does not come back from its rows.
Spend(s, rows) ==
  [s EXCEPT !.layers = [l \in DOMAIN s.layers |->
     [s.layers[l] EXCEPT !.spent = @ + rows[l].value]]]

Issue(s, b, n) ==
  LET rows == allocateAndConsume(s, b, n) IN Tally(Spend(Book(s, b, rows, 1), rows))

\* A layer for each of specs, behind what was received before it.
createLayers(s, b, specs) ==
  [s EXCEPT !.layers = @ \o
    [i \in DOMAIN specs |->
      [branch |-> b, qty |-> specs[i].qty, value |-> specs[i].value, date |-> specs[i].date,
       received |-> specs[i].value, spent |-> 0]]]

Now(s) == Len(s.layers) + 1
Receive(s, b, n, specs) ==
  Tally([createLayers(s, b, specs) EXCEPT !.quantity = @ + n, !.shelf[b].available = @ + n])
\* Goods that come with no price are valued at the item's cost.
Priced(s, n, value) == <<[qty |-> n, value |-> value, date |-> Now(s)]>>

Fits(s, n) == Len(s.layers) + n <= MaxLayers

------------------------------------------------------------------------------
(* The books at first *)

HeldAt(b) == Total(LAMBDA l : Opening[l].qty, {l \in DOMAIN Opening : Opening[l].branch = b})
OpeningBooks(negative) ==
  Tally([quantity |-> Total(HeldAt, Branch), stockValue |-> 0, cost |-> 0,
         mayGoNegative |-> negative,
         shelf |-> [b \in Branch |-> [available |-> HeldAt(b), reserved |-> 0, inTransit |-> 0,
                                      uncovered |-> 0]],
         layers |-> Opening])

------------------------------------------------------------------------------
(* What must hold of the books *)

BooksType(s) ==
  /\ DOMAIN s = {"quantity", "stockValue", "cost", "mayGoNegative", "shelf", "layers"}
  /\ s.quantity \in Int /\ s.stockValue \in Nat /\ s.cost \in Nat /\ s.mayGoNegative \in BOOLEAN
  /\ s.shelf \in [Branch -> Shelf]
  /\ Len(s.layers) <= MaxLayers /\ \A l \in DOMAIN s.layers : s.layers[l] \in Layer

LayersAt(s, b) ==
  Total(LAMBDA l : s.layers[l].qty, {l \in DOMAIN s.layers : s.layers[l].branch = b})

\* However goods come, go and come back: the total is the branches', the value is
\* the layers', and the layers of a branch are what it holds and what it has issued
\* without a layer to issue from (postMovement, applyLocationDelta).
BooksTie ==
  /\ books.quantity = Total(LAMBDA b : books.shelf[b].available, Branch)
  /\ books.stockValue = Total(LAMBDA l : books.layers[l].value, DOMAIN books.layers)
  /\ \A b \in Branch :
       /\ LayersAt(books, b) = books.shelf[b].available + books.shelf[b].uncovered
       /\ books.shelf[b].uncovered >= 0
==============================================================================
