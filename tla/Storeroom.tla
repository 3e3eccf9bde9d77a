----------------------------- MODULE Storeroom ------------------------------
(***************************************************************************)
(* Stock that is moved on purpose: transfers between branches, physical     *)
(* counts, goods received and goods used up or wasted.                      *)
(*                                                                          *)
(* A transfer's row is locked while a step of it is decided, but approving  *)
(* looks at the shelf before it locks the item.  A count's calls, but for   *)
(* its approval, judge the count outside any transaction.                   *)
(***************************************************************************)
EXTENDS Ledger, SequencesExt

CONSTANTS
  Transfer, Count, Clerk,
  MaxAsked,    \* bound: units of a transfer, and of a receipt or a waste
  MaxMoves     \* bound: receipts and wastes

ASSUME StoreIsFinite == IsFiniteSet(Transfer) /\ MaxAsked \in Nat /\ MaxMoves \in Nat

VARIABLES transfer, tally, clerk, moves
storeVars == <<books, transfer, tally, clerk, moves>>

ManifestRow == [qty: Nat, value: Nat, date: Nat]

\* manifest is the layers drawn when it was sent.
TransferRow ==
  [status: {"NONE", "REQUESTED", "APPROVED", "DISPATCHED", "RECEIVED", "COMPLETED",
            "REJECTED", "CANCELLED"},
   from: Branch, to: Branch, allowed: 0..MaxAsked, sent: 0..MaxAsked, manifest: Seq(ManifestRow)]

\* line is whether the item has been counted.  posted and late are histories: how
\* often its variance was posted, and how often a submit was written after that.
TallyRow ==
  [status: {"NONE", "DRAFT", "AWAITING_APPROVAL", "APPROVED", "CANCELLED"}, branch: Branch,
   line: BOOLEAN, systemQty: Int, variance: Int, posted: Nat, late: Nat]

Free == [op |-> "free"]
Clerks ==
  {Free}
    \cup [op: {"approve"}, transfer: Transfer, allow: 0..MaxAsked]
    \cup [op: {"record"}, count: Count, systemQty: Int, counted: 0..MaxAsked]
    \cup [op: {"submit", "cancel"}, count: Count]

StoreTypeOK ==
  /\ BooksType(books)
  /\ transfer \in [Transfer -> TransferRow]
  /\ tally \in [Count -> TallyRow]
  /\ clerk \in [Clerk -> Clerks]
  /\ moves \in 0..MaxMoves

\* A decision in progress holds the transfer's row.
Unlocked(t) == \A c \in Clerk : clerk[c].op = "approve" => clerk[c].transfer # t
Sufficient(s, b, n) == s.shelf[b].available - s.shelf[b].reserved >= n
Hold(s, b, n) == [s EXCEPT !.shelf[b].reserved = @ + n]
Inbound(s, b, n) == [s EXCEPT !.shelf[b].inTransit = @ + n]

------------------------------------------------------------------------------
(* Transfers *)

requestTransfer(t, from, to, n) ==
  /\ transfer[t].status = "NONE" /\ from # to
  /\ transfer' = [transfer EXCEPT ![t].status = "REQUESTED", ![t].from = from, ![t].to = to,
                                  ![t].allowed = n]
  /\ UNCHANGED <<books, tally, clerk, moves>>

\* What may go is what was asked, or less, and what the source can spare.
CheckApproval(c, t, allow) ==
  /\ clerk[c] = Free /\ Unlocked(t) /\ transfer[t].status = "REQUESTED"
  /\ allow <= transfer[t].allowed
  /\ allow > 0 => Sufficient(books, transfer[t].from, allow)
  /\ clerk' = [clerk EXCEPT ![c] = [op |-> "approve", transfer |-> t, allow |-> allow]]
  /\ UNCHANGED <<books, transfer, tally, moves>>

approveTransfer(c) ==
  /\ clerk[c].op = "approve"
  /\ LET t == clerk[c].transfer
     IN  /\ transfer' = [transfer EXCEPT ![t].status = "APPROVED",
                                         ![t].allowed = clerk[c].allow]
         /\ books' = Hold(books, transfer[t].from, clerk[c].allow)
  /\ clerk' = [clerk EXCEPT ![c] = Free]
  /\ UNCHANGED <<tally, moves>>

\* The whole reservation is released, whatever is sent.
ReleasedSent(t, sent) ==                       \* mutant: a line sent as zero keeps it
  IF sent = 0 THEN books ELSE Hold(books, transfer[t].from, -transfer[t].allowed)
Released(t, sent) == Hold(books, transfer[t].from, -transfer[t].allowed)

\* Oldest first.
InLine(s, q) == \A i, j \in DOMAIN q : i < j => Older(s, q[i], q[j])
Manifest(s, rows) ==
  LET drawn == CHOOSE q \in SetToSeqs({l \in DOMAIN s.layers : rows[l].qty > 0}) : InLine(s, q)
  IN  [i \in DOMAIN drawn |-> [qty |-> rows[drawn[i]].qty, value |-> rows[drawn[i]].value,
                               date |-> s.layers[drawn[i]].date]]

dispatchTransfer(t, sent) ==
  /\ transfer[t].status = "APPROVED" /\ Unlocked(t) /\ sent <= transfer[t].allowed
  /\ LET from == transfer[t].from
         s == Released(t, sent)
         rows == allocateAndConsume(s, from, sent)
     IN  /\ sent > 0 => Sufficient(s, from, sent) /\ MayIssue(s, from, sent)
         /\ books' = IF sent = 0 THEN s ELSE Inbound(Issue(s, from, sent), transfer[t].to, sent)
         /\ transfer' = [transfer EXCEPT ![t].status = "DISPATCHED", ![t].sent = sent,
                           ![t].manifest = Manifest(s, rows)]
  /\ UNCHANGED <<tally, clerk, moves>>

\* The source's layers are made again at their values and dates; without any, the
\* goods are priced at the item's cost.
Arriving(t) ==
  IF transfer[t].manifest # <<>> THEN transfer[t].manifest
  ELSE Priced(books, transfer[t].sent, transfer[t].sent * books.cost)

\* All that was sent is received, and what did not come is wasted at once.
receiveTransfer(t, got) ==
  /\ transfer[t].status = "DISPATCHED" /\ Unlocked(t) /\ got <= transfer[t].sent
  /\ LET to == transfer[t].to
         sent == transfer[t].sent
         s == Receive(books, to, sent, Arriving(t))
     IN  IF sent = 0
         THEN UNCHANGED books
         ELSE /\ MayArrive(books, sent) /\ Fits(books, Len(Arriving(t)))
              /\ got < sent => MayIssue(s, to, sent - got)
              /\ books' = Inbound(IF got < sent THEN Issue(s, to, sent - got) ELSE s, to, -sent)
  /\ transfer' = [transfer EXCEPT ![t].status = IF got < transfer[t].sent THEN "RECEIVED"
                                                ELSE "COMPLETED"]
  /\ UNCHANGED <<tally, clerk, moves>>

completeTransfer(t) ==
  /\ transfer[t].status = "RECEIVED" /\ Unlocked(t)
  /\ transfer' = [transfer EXCEPT ![t].status = "COMPLETED"]
  /\ UNCHANGED <<books, tally, clerk, moves>>

closeTransfer(t, status) ==
  /\ Unlocked(t)
  /\ \/ transfer[t].status = "REQUESTED" /\ UNCHANGED books
     \/ transfer[t].status = "APPROVED" /\ status = "CANCELLED"
        /\ books' = Hold(books, transfer[t].from, -transfer[t].allowed)
  /\ transfer' = [transfer EXCEPT ![t].status = status]
  /\ UNCHANGED <<tally, clerk, moves>>

\* It comes back as goods without a price.
recallTransfer(t) ==
  /\ transfer[t].status = "DISPATCHED" /\ Unlocked(t)
  /\ LET sent == transfer[t].sent
     IN  IF sent = 0 THEN UNCHANGED books
         ELSE /\ MayArrive(books, sent) /\ Fits(books, 1)
              /\ books' = Inbound(Receive(books, transfer[t].from, sent,
                                          Priced(books, sent, sent * books.cost)),
                                  transfer[t].to, -sent)
  /\ transfer' = [transfer EXCEPT ![t].status = "CANCELLED"]
  /\ UNCHANGED <<tally, clerk, moves>>

------------------------------------------------------------------------------
(* Counts *)

openStockCount(k, b) ==
  /\ tally[k].status = "NONE"
  /\ tally' = [tally EXCEPT ![k].status = "DRAFT", ![k].branch = b]
  /\ UNCHANGED <<books, transfer, clerk, moves>>

\* What the books say is read once, when the item is first counted.
ReadForCount(c, k, counted) ==
  /\ clerk[c] = Free /\ tally[k].status = "DRAFT"
  /\ clerk' = [clerk EXCEPT ![c] =
       [op |-> "record", count |-> k, counted |-> counted,
        systemQty |-> IF tally[k].line THEN tally[k].systemQty
                      ELSE books.shelf[tally[k].branch].available]]
  /\ UNCHANGED <<books, transfer, tally, moves>>

\* A line that has come to be there meanwhile keeps the figure it was made with.
recordCountLines(c) ==
  /\ clerk[c].op = "record"
  /\ LET k == clerk[c].count
     IN  tally' = [tally EXCEPT ![k].line = TRUE,
                     ![k].systemQty = IF tally[k].line THEN @ ELSE clerk[c].systemQty,
                     ![k].variance = clerk[c].counted - clerk[c].systemQty]
  /\ clerk' = [clerk EXCEPT ![c] = Free]
  /\ UNCHANGED <<books, transfer, moves>>

JudgeSubmit(c, k) ==
  /\ clerk[c] = Free /\ tally[k].status = "DRAFT" /\ tally[k].line
  /\ clerk' = [clerk EXCEPT ![c] = [op |-> "submit", count |-> k]]
  /\ UNCHANGED <<books, transfer, tally, moves>>

submitStockCount(c) ==
  /\ clerk[c].op = "submit"
  /\ LET k == clerk[c].count
     IN  tally' = [tally EXCEPT ![k].status = "AWAITING_APPROVAL",
                     ![k].late = IF tally[k].posted > 0 THEN @ + 1 ELSE @]
  /\ clerk' = [clerk EXCEPT ![c] = Free]
  /\ UNCHANGED <<books, transfer, moves>>

ApprovableUnlessVoid(k) ==                     \* mutant: the status is read outside the lock
  tally[k].status \notin {"NONE", "CANCELLED"} /\ tally[k].line
Approvable(k) == tally[k].status \in {"DRAFT", "AWAITING_APPROVAL"} /\ tally[k].line

\* The stored variance is posted, as a correction, which may go below nothing;
\* what is found is refused where it leaves the item below nothing.
approveStockCount(k) ==
  /\ Approvable(k)
  /\ LET b == tally[k].branch
         found == tally[k].variance
     IN  IF found > 0
         THEN /\ MayArrive(books, found) /\ Fits(books, 1)
              /\ books' = Receive(books, b, found, Priced(books, found, found * books.cost))
         ELSE books' = IF found = 0 THEN books ELSE Issue(books, b, -found)
  /\ tally' = [tally EXCEPT ![k].status = "APPROVED", ![k].posted = @ + 1]
  /\ UNCHANGED <<transfer, clerk, moves>>

JudgeCancelCount(c, k) ==
  /\ clerk[c] = Free /\ tally[k].status \notin {"NONE", "APPROVED", "CANCELLED"}
  /\ clerk' = [clerk EXCEPT ![c] = [op |-> "cancel", count |-> k]]
  /\ UNCHANGED <<books, transfer, tally, moves>>

cancelStockCount(c) ==
  /\ clerk[c].op = "cancel"
  /\ tally' = [tally EXCEPT ![clerk[c].count].status = "CANCELLED"]
  /\ clerk' = [clerk EXCEPT ![c] = Free]
  /\ UNCHANGED <<books, transfer, moves>>

------------------------------------------------------------------------------
(* Receipts and waste *)

receiveStock(b, n, value) ==
  /\ moves < MaxMoves /\ moves' = moves + 1
  /\ MayArrive(books, n) /\ Fits(books, 1)
  /\ books' = Receive(books, b, n, Priced(books, n, value))
  /\ UNCHANGED <<transfer, tally, clerk>>

recordWastage(b, n) ==
  /\ moves < MaxMoves /\ moves' = moves + 1
  /\ MayIssue(books, b, n)
  /\ books' = Issue(books, b, n)
  /\ UNCHANGED <<transfer, tally, clerk>>

------------------------------------------------------------------------------
(* Specification *)

AnyBranch == CHOOSE b \in Branch : TRUE
StoreInit ==
  /\ \E negative \in BOOLEAN : books = OpeningBooks(negative)
  /\ transfer = [t \in Transfer |-> [status |-> "NONE", from |-> AnyBranch, to |-> AnyBranch,
                                     allowed |-> 0, sent |-> 0, manifest |-> <<>>]]
  /\ tally = [k \in Count |-> [status |-> "NONE", branch |-> AnyBranch, line |-> FALSE,
                               systemQty |-> 0, variance |-> 0, posted |-> 0, late |-> 0]]
  /\ clerk = [c \in Clerk |-> Free]
  /\ moves = 0

StoreNext ==
  \/ \E t \in Transfer :
       \/ \E from, to \in Branch, n \in 1..MaxAsked : requestTransfer(t, from, to, n)
       \/ \E n \in 0..MaxAsked :
            \/ dispatchTransfer(t, n) \/ receiveTransfer(t, n)
            \/ \E c \in Clerk : CheckApproval(c, t, n)
       \/ completeTransfer(t) \/ recallTransfer(t)
       \/ \E status \in {"REJECTED", "CANCELLED"} : closeTransfer(t, status)
  \/ \E c \in Clerk :
       \/ approveTransfer(c) \/ recordCountLines(c) \/ submitStockCount(c) \/ cancelStockCount(c)
       \/ \E k \in Count :
            \/ \E n \in 0..MaxAsked : ReadForCount(c, k, n)
            \/ JudgeSubmit(c, k) \/ JudgeCancelCount(c, k)
  \/ \E k \in Count : approveStockCount(k) \/ \E b \in Branch : openStockCount(k, b)
  \/ \E b \in Branch, n \in 1..MaxAsked : receiveStock(b, n, 3) \/ recordWastage(b, n)

StoreSpec == StoreInit /\ [][StoreNext]_storeVars

------------------------------------------------------------------------------
(* What must hold *)

\* What is held back at a branch is what approved transfers will take from it, and
\* what is on its way there is what was sent and has neither come nor been called
\* back: no step strands either (approveTransfer, dispatchTransfer, receiveTransfer,
\* closeTransfer, recallTransfer).
PromisesTie ==
  \A b \in Branch :
    /\ books.shelf[b].reserved =
         Total(LAMBDA t : transfer[t].allowed,
               {t \in Transfer : transfer[t].status = "APPROVED" /\ transfer[t].from = b})
    /\ books.shelf[b].inTransit =
         Total(LAMBDA t : transfer[t].sent,
               {t \in Transfer : transfer[t].status = "DISPATCHED" /\ transfer[t].to = b})

\* What is in the van is all in the manifest: no part of it was drawn from no layer,
\* so the layers made at the far end are what left (assertSufficient).
ManifestCovers ==
  \A t \in Transfer : transfer[t].status = "DISPATCHED" =>
    Total(LAMBDA i : transfer[t].manifest[i].qty, DOMAIN transfer[t].manifest) = transfer[t].sent

\* Together: what is promised or on its way is what transfers that stand say, and it
\* keeps its layers.
TransfersTie == StoreTypeOK /\ PromisesTie /\ ManifestCovers

\* A count's variance is posted once, unless a submit that was judged before the
\* approval is written after it and the count is approved again.
PostedOnce == \A k \in Count : tally[k].posted <= 1 + tally[k].late

------------------------------------------------------------------------------
(* What comments say, and the code breaks *)

\* "the loser cannot commit": two approvals never post one count twice.
CountedOnce == \A k \in Count : tally[k].posted <= 1

\* "reserves the quantity so it cannot be promised twice".
PromisedOnce ==
  [][\A b \in Branch :
       books'.shelf[b].reserved > books.shelf[b].reserved =>
         books'.shelf[b].reserved <= books'.shelf[b].available]_storeVars
==============================================================================
