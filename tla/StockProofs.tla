----------------------------- MODULE StockProofs -----------------------------
(***************************************************************************)
(* Counts, transfers and bills against the stock ledger, for every number  *)
(* of branches, layers, transfers, counts, bills, lines and calls.         *)
(***************************************************************************)
EXTENDS Stock, Sums, FiniteSetTheorems, TLAPS

------------------------------------------------------------------------------
(* Counts: how often a variance is posted.  Nothing here looks at a figure  *)
(* of the books, so only the columns that decide it are typed.              *)

TallyColumns == {"status", "branch", "line", "systemQty", "variance", "posted", "late"}
Undecided(row) == row.status \in {"NONE", "DRAFT", "AWAITING_APPROVAL"}

\* A count that can still be approved has not been approved since it was last
\* submitted late.
Shaped(row) ==
  /\ DOMAIN row = TallyColumns
  /\ row.status \in {"NONE", "DRAFT", "AWAITING_APPROVAL", "APPROVED", "CANCELLED"}
  /\ row.posted \in Nat /\ row.late \in Nat
  /\ row.posted <= row.late + IF Undecided(row) THEN 0 ELSE 1

Pointed(q) == q.op \in {"record", "submit", "cancel"} => q.count \in Count

CountsInv ==
  /\ DOMAIN tally = Count /\ DOMAIN clerk = Clerk
  /\ \A k \in Count : Shaped(tally[k])
  /\ \A c \in Clerk : Pointed(clerk[c])

LEMMA CountChange ==
  ASSUME NEW k \in Count, NEW row, CountsInv, Shaped(row),
         tally' = [tally EXCEPT ![k] = row]
  PROVE  DOMAIN tally' = Count /\ \A j \in Count : Shaped(tally[j])'
  BY DEF CountsInv, Shaped, Undecided

LEMMA ClerkChange ==
  ASSUME NEW c \in Clerk, NEW q, CountsInv, Pointed(q), clerk' = [clerk EXCEPT ![c] = q]
  PROVE  DOMAIN clerk' = Clerk /\ \A d \in Clerk : Pointed(clerk[d])'
  BY DEF CountsInv, Pointed

LEMMA FreePoints == Pointed(Free)
  BY DEF Pointed, Free

LEMMA CountsKept ==
  ASSUME CountsInv, UNCHANGED tally
  PROVE  DOMAIN tally' = Count /\ \A j \in Count : Shaped(tally[j])'
  BY DEF CountsInv, Shaped, Undecided

LEMMA ClerksKept ==
  ASSUME CountsInv, UNCHANGED clerk
  PROVE  DOMAIN clerk' = Clerk /\ \A d \in Clerk : Pointed(clerk[d])'
  BY DEF CountsInv, Pointed

LEMMA CountsStep == CountsInv /\ [StoreNext]_storeVars => CountsInv'
<1> SUFFICES ASSUME CountsInv, [StoreNext]_storeVars PROVE CountsInv'
  OBVIOUS
<1>k. (UNCHANGED tally /\ UNCHANGED clerk) => CountsInv'
  BY CountsKept, ClerksKept DEF CountsInv
<1>1. ASSUME NEW t \in Transfer, NEW from \in Branch, NEW to \in Branch, NEW n \in 1..MaxAsked,
             requestTransfer(t, from, to, n)
      PROVE  CountsInv'
  BY <1>1, <1>k DEF requestTransfer
<1>2. ASSUME NEW t \in Transfer, NEW n \in 0..MaxAsked,
             dispatchTransfer(t, n) \/ receiveTransfer(t, n)
      PROVE  CountsInv'
  BY <1>2, <1>k DEF dispatchTransfer, receiveTransfer
<1>3. ASSUME NEW t \in Transfer, NEW n \in 0..MaxAsked, NEW c \in Clerk, CheckApproval(c, t, n)
      PROVE  CountsInv'
  <2> DEFINE q == [op |-> "approve", transfer |-> t, allow |-> n]
  <2>1. Pointed(q)  BY DEF Pointed
  <2>2. clerk' = [clerk EXCEPT ![c] = q] /\ UNCHANGED tally  BY <1>3 DEF CheckApproval
  <2> HIDE DEF q
  <2> QED  BY <2>1, <2>2, CountsKept, ClerkChange DEF CountsInv
<1>4. ASSUME NEW t \in Transfer,
             completeTransfer(t) \/ recallTransfer(t)
               \/ \E status \in {"REJECTED", "CANCELLED"} : closeTransfer(t, status)
      PROVE  CountsInv'
  BY <1>4, <1>k DEF completeTransfer, recallTransfer, closeTransfer
<1>5. ASSUME NEW c \in Clerk, approveTransfer(c)
      PROVE  CountsInv'
  <2>1. clerk' = [clerk EXCEPT ![c] = Free] /\ UNCHANGED tally  BY <1>5 DEF approveTransfer
  <2> QED  BY <2>1, FreePoints, CountsKept, ClerkChange DEF CountsInv
<1>6. ASSUME NEW c \in Clerk, recordCountLines(c)
      PROVE  CountsInv'
  <2> DEFINE k == clerk[c].count
             row == [tally[k] EXCEPT !.line = TRUE,
                       !.systemQty = IF tally[k].line THEN @ ELSE clerk[c].systemQty,
                       !.variance = clerk[c].counted - clerk[c].systemQty]
  <2>1. k \in Count  BY <1>6 DEF recordCountLines, CountsInv, Pointed
  <2>2. tally' = [tally EXCEPT ![k] = row]
    BY <1>6 DEF recordCountLines
  <2>3. Shaped(tally[k])  BY <2>1 DEF CountsInv
  <2>4. Shaped(row)
    BY <2>3 DEF Shaped, TallyColumns, Undecided
  <2>5. clerk' = [clerk EXCEPT ![c] = Free]  BY <1>6 DEF recordCountLines
  <2> HIDE DEF row
  <2> QED  BY <2>1, <2>2, <2>4, <2>5, FreePoints, CountChange, ClerkChange DEF CountsInv
<1>7. ASSUME NEW c \in Clerk, submitStockCount(c)
      PROVE  CountsInv'
  <2> DEFINE k == clerk[c].count
             row == [tally[k] EXCEPT !.status = "AWAITING_APPROVAL",
                       !.late = IF tally[k].posted > 0 THEN @ + 1 ELSE @]
  <2>1. k \in Count  BY <1>7 DEF submitStockCount, CountsInv, Pointed
  <2>2. tally' = [tally EXCEPT ![k] = row]
    BY <1>7 DEF submitStockCount
  <2>3. Shaped(tally[k])  BY <2>1 DEF CountsInv
  <2>4. Shaped(row)
    BY <2>3 DEF Shaped, TallyColumns, Undecided
  <2>5. clerk' = [clerk EXCEPT ![c] = Free]  BY <1>7 DEF submitStockCount
  <2> HIDE DEF row
  <2> QED  BY <2>1, <2>2, <2>4, <2>5, FreePoints, CountChange, ClerkChange DEF CountsInv
<1>8. ASSUME NEW c \in Clerk, cancelStockCount(c)
      PROVE  CountsInv'
  <2> DEFINE k == clerk[c].count
             row == [tally[k] EXCEPT !.status = "CANCELLED"]
  <2>1. k \in Count  BY <1>8 DEF cancelStockCount, CountsInv, Pointed
  <2>2. tally' = [tally EXCEPT ![k] = row]
    BY <1>8 DEF cancelStockCount
  <2>3. Shaped(tally[k])  BY <2>1 DEF CountsInv
  <2>4. Shaped(row)
    BY <2>3 DEF Shaped, TallyColumns, Undecided
  <2>5. clerk' = [clerk EXCEPT ![c] = Free]  BY <1>8 DEF cancelStockCount
  <2> HIDE DEF row
  <2> QED  BY <2>1, <2>2, <2>4, <2>5, FreePoints, CountChange, ClerkChange DEF CountsInv
<1>9. ASSUME NEW c \in Clerk, NEW k \in Count, NEW n \in 0..MaxAsked, ReadForCount(c, k, n)
      PROVE  CountsInv'
  <2> DEFINE q == [op |-> "record", count |-> k, counted |-> n,
                   systemQty |-> IF tally[k].line THEN tally[k].systemQty
                                 ELSE books.shelf[tally[k].branch].available]
  <2>1. Pointed(q)  BY DEF Pointed
  <2>2. clerk' = [clerk EXCEPT ![c] = q] /\ UNCHANGED tally  BY <1>9 DEF ReadForCount
  <2> HIDE DEF q
  <2> QED  BY <2>1, <2>2, CountsKept, ClerkChange DEF CountsInv
<1>10. ASSUME NEW k \in Count, approveStockCount(k)
       PROVE  CountsInv'
  <2> DEFINE row == [tally[k] EXCEPT !.status = "APPROVED", !.posted = @ + 1]
  <2>2. tally' = [tally EXCEPT ![k] = row]
    BY <1>10 DEF approveStockCount
  <2>3. Shaped(tally[k]) /\ Undecided(tally[k])
    BY <1>10 DEF CountsInv, approveStockCount, Approvable, Undecided
  <2>4. Shaped(row)
    BY <2>3 DEF Shaped, TallyColumns, Undecided
  <2>5. UNCHANGED clerk  BY <1>10 DEF approveStockCount
  <2> HIDE DEF row
  <2> QED  BY <2>2, <2>4, <2>5, CountChange, ClerksKept DEF CountsInv
<1>11. ASSUME NEW k \in Count, NEW b \in Branch, openStockCount(k, b)
       PROVE  CountsInv'
  <2> DEFINE row == [tally[k] EXCEPT !.status = "DRAFT", !.branch = b]
  <2>2. tally' = [tally EXCEPT ![k] = row]
    BY <1>11 DEF openStockCount
  <2>3. Shaped(tally[k]) /\ Undecided(tally[k])
    BY <1>11 DEF CountsInv, openStockCount, Undecided
  <2>4. Shaped(row)
    BY <2>3 DEF Shaped, TallyColumns, Undecided
  <2>5. UNCHANGED clerk  BY <1>11 DEF openStockCount
  <2> HIDE DEF row
  <2> QED  BY <2>2, <2>4, <2>5, CountChange, ClerksKept DEF CountsInv
<1>12. ASSUME NEW b \in Branch, NEW n \in 1..MaxAsked, receiveStock(b, n, 3) \/ recordWastage(b, n)
       PROVE  CountsInv'
  BY <1>12, <1>k DEF receiveStock, recordWastage
<1>13. CASE UNCHANGED storeVars
  BY <1>13, <1>k DEF storeVars
<1>14. ASSUME NEW t \in Transfer,
              \/ \E from, to \in Branch, n \in 1..MaxAsked : requestTransfer(t, from, to, n)
              \/ \E n \in 0..MaxAsked :
                   \/ dispatchTransfer(t, n) \/ receiveTransfer(t, n)
                   \/ \E c \in Clerk : CheckApproval(c, t, n)
              \/ completeTransfer(t) \/ recallTransfer(t)
              \/ \E status \in {"REJECTED", "CANCELLED"} : closeTransfer(t, status)
       PROVE  CountsInv'
  BY <1>1, <1>2, <1>3, <1>4, <1>14
<1>15. ASSUME NEW c \in Clerk,
              \/ approveTransfer(c) \/ recordCountLines(c) \/ submitStockCount(c)
              \/ cancelStockCount(c)
              \/ \E k \in Count :
                   \/ \E n \in 0..MaxAsked : ReadForCount(c, k, n)
                   \/ JudgeSubmit(c, k) \/ JudgeCancelCount(c, k)
       PROVE  CountsInv'
  <2>1. ASSUME NEW k \in Count, JudgeSubmit(c, k) \/ JudgeCancelCount(c, k)
        PROVE  CountsInv'
    <3>1. PICK q : Pointed(q) /\ clerk' = [clerk EXCEPT ![c] = q]
      BY <2>1 DEF JudgeSubmit, JudgeCancelCount, Pointed
    <3>2. UNCHANGED tally  BY <2>1 DEF JudgeSubmit, JudgeCancelCount
    <3> QED  BY <3>1, <3>2, CountsKept, ClerkChange DEF CountsInv
  <2> QED  BY <1>5, <1>6, <1>7, <1>8, <1>9, <1>15, <2>1
<1> QED
  <2>1. CASE \E k \in Count : approveStockCount(k) \/ \E b \in Branch : openStockCount(k, b)
    BY <2>1, <1>10, <1>11
  <2>2. CASE \E b \in Branch, n \in 1..MaxAsked : receiveStock(b, n, 3) \/ recordWastage(b, n)
    BY <2>2, <1>12
  <2> QED  BY <2>1, <2>2, <1>13, <1>14, <1>15 DEF StoreNext

LEMMA CountsOpen == StoreInit => CountsInv
  BY FreePoints DEF StoreInit, CountsInv, Shaped, TallyColumns, Undecided, Pointed, Free

LEMMA CountsPost == CountsInv => PostedOnce
  BY DEF CountsInv, Shaped, PostedOnce

\* A count's variance is posted once, unless a submit that was judged before the
\* approval is written after it: approval is decided under the count's lock, and no
\* other call makes an approved count approvable (approveStockCount,
\* submitStockCount, cancelStockCount).
THEOREM VariancePostedOnce == StoreSpec => []PostedOnce
<1> QED  BY CountsOpen, CountsPost, CountsStep, PTL DEF StoreSpec

------------------------------------------------------------------------------
(* Bills and what they have taken.  What is posted where is not looked at:  *)
(* reconciling sets what a bill has taken to what it wants.                 *)

LineRow == [order: Order \cup {NoOrder}, live: BOOLEAN]

Aimed(q) ==
  /\ q.op \in {"void", "more", "cancel", "split", "merge"} => q.order \in Order
  /\ q.op = "split" => q.status \in {"pending", "accepted"}
  /\ q.op = "merge" => q.into \in Order

\* A bill with no rows has taken nothing.
TakenSound(tk) ==
  /\ DOMAIN tk = Order
  /\ \A o \in Order : ~tk[o].depleted => tk[o].applied = 0

BillsInv ==
  /\ order \in [Order -> OrderRow] /\ line \in [Line -> LineRow]
  /\ DOMAIN call = Caller /\ \A c \in Caller : Aimed(call[c])
  /\ TakenSound(taken)
  /\ InStep

\* Reconciling one bill gives it what it wants and leaves the others alone.
LEMMA ReconciledTo ==
  ASSUME NEW st, TakenSound(st.taken), NEW o \in Order, NEW want,
         NEW r \in Reconciled(st, o, want)
  PROVE  /\ TakenSound(r.taken)
         /\ r.taken[o].applied = want
         /\ \A u \in Order \ {o} : r.taken[u] = st.taken[u]
<1>1. CASE want = st.taken[o].applied
  BY <1>1 DEF Reconciled
<1>2. CASE want # st.taken[o].applied
  <2>1. PICK rows, sign : r = Posted(st, o, want, rows, sign)
    BY <1>2, Zenon DEF Reconciled
  <2> DEFINE row == [depleted |-> TRUE, applied |-> want,
                     rows |-> Traced(st.taken[o].rows, rows, sign)]
  <2>2. r.taken = [st.taken EXCEPT ![o] = row]
    BY <2>1 DEF Posted
  <2>3. row.depleted = TRUE /\ row.applied = want
    OBVIOUS
  <2> HIDE DEF row
  <2> QED  BY <2>2, <2>3 DEF TakenSound
<1> QED  BY <1>1, <1>2

LEMMA SameLines ==
  ASSUME NEW lm, NEW ln, NEW u,
         \A l \in Line : lm[l].order = u \/ ln[l].order = u => lm[l] = ln[l]
  PROVE  Needed(lm, u) = Needed(ln, u)
<1>1. Of(lm, u) = Of(ln, u)
  BY DEF Of
<1> QED  BY <1>1 DEF Needed

LEMMA NoLines ==
  ASSUME NEW lm, NEW u, \A l \in Line : lm[l].order = u => ~lm[l].live
  PROVE  Needed(lm, u) = 0
<1>1. Of(lm, u) \ Plain = {}
  BY DEF Of
<1> QED  BY <1>1, FS_EmptySet DEF Needed

LEMMA BehindRows ==
  ASSUME NEW rows \in [Order -> OrderRow], NEW touched, NEW reconciled
  PROVE  /\ Behind(rows, touched, reconciled) \in [Order -> OrderRow]
         /\ \A u \in Order :
              /\ Behind(rows, touched, reconciled)[u].status = rows[u].status
              /\ Behind(rows, touched, reconciled)[u].behind
                   <=> (rows[u].behind
                          \/ (u \in touched
                               /\ (u \notin reconciled \/ order[u].status = "cancelled")))
  BY DEF Behind, OrderRow

LEMMA ReconciledHere ==
  ASSUME NEW o \in Order, NEW want, TakenSound(taken), Write(Reconciled(Here, o, want))
  PROVE  /\ TakenSound(taken')
         /\ taken'[o].applied = want
         /\ \A u \in Order \ {o} : taken'[u] = taken[u]
<1>1. PICK r \in Reconciled(Here, o, want) : taken' = r.taken
  BY DEF Write
<1>2. Here.taken = taken
  BY DEF Here
<1> QED  BY <1>1, <1>2, ReconciledTo

LEMMA RebalancedHere ==
  ASSUME NEW ln, NEW o \in Order, NEW p \in Order, TakenSound(taken),
         Write(rebalanceDepletion(ln, o, p)), Depleted({o, p}) # {}
  PROVE  /\ TakenSound(taken')
         /\ taken'[o].applied = Needed(ln, o) /\ taken'[p].applied = Needed(ln, p)
         /\ \A u \in Order \ {o, p} : taken'[u] = taken[u]
<1>1. taken[o].depleted \/ taken[p].depleted
  BY DEF Depleted
<1>2. PICK q \in {<<o, p>>, <<p, o>>} :
        \E st \in Reconciled(Here, q[1], Needed(ln, q[1])) :
          \E r \in Reconciled(st, q[2], Needed(ln, q[2])) : taken' = r.taken
  BY <1>1 DEF Write, rebalanceDepletion
<1>st. PICK st \in Reconciled(Here, q[1], Needed(ln, q[1])) :
         \E r \in Reconciled(st, q[2], Needed(ln, q[2])) : taken' = r.taken
  BY <1>2
<1>r. PICK r \in Reconciled(st, q[2], Needed(ln, q[2])) : taken' = r.taken
  BY <1>st
<1>3. q[1] \in Order /\ q[2] \in Order /\ {q[1], q[2]} = {o, p}
  OBVIOUS
<1>4. Here.taken = taken
  BY DEF Here
<1>5. /\ TakenSound(st.taken) /\ st.taken[q[1]].applied = Needed(ln, q[1])
      /\ \A u \in Order \ {q[1]} : st.taken[u] = taken[u]
  BY <1>st, <1>3, <1>4, ReconciledTo
<1>6. /\ TakenSound(r.taken) /\ r.taken[q[2]].applied = Needed(ln, q[2])
      /\ \A u \in Order \ {q[2]} : r.taken[u] = st.taken[u]
  BY <1>r, <1>3, <1>5, ReconciledTo
<1>7. r.taken[q[1]].applied = Needed(ln, q[1])
  BY <1>3, <1>5, <1>6
<1>8. \A u \in Order \ {o, p} : taken'[u] = taken[u]
  BY <1>r, <1>3, <1>5, <1>6
<1>9. taken'[o].applied = Needed(ln, o) /\ taken'[p].applied = Needed(ln, p)
  BY <1>r, <1>3, <1>6, <1>7
<1> QED  BY <1>r, <1>6, <1>8, <1>9

LEMMA NotRebalanced ==
  ASSUME NEW ln, NEW o \in Order, NEW p \in Order,
         Write(rebalanceDepletion(ln, o, p)), Depleted({o, p}) = {}
  PROVE  UNCHANGED taken /\ ~taken[o].depleted /\ ~taken[p].depleted
  BY DEF Write, rebalanceDepletion, Depleted, Here

\* Only of a bill that has rows; one that has none is left as it is.
LEMMA ReconciledIfDepleted ==
  ASSUME NEW ln, NEW o \in Order, TakenSound(taken), Write(reconcileIfDepleted(ln, o))
  PROVE  /\ TakenSound(taken')
         /\ taken[o].depleted => taken'[o].applied = Needed(ln, o)
         /\ \A u \in Order \ {o} : taken'[u] = taken[u]
<1>1. CASE taken[o].depleted
  BY <1>1, ReconciledHere DEF reconcileIfDepleted, reconcileOrderDepletion
<1>2. CASE ~taken[o].depleted
  BY <1>2 DEF reconcileIfDepleted, Write, Here
<1> QED  BY <1>1, <1>2

LEMMA CallsAimed ==
  ASSUME NEW c \in Caller, NEW q, Aimed(q), DOMAIN call = Caller,
         \A d \in Caller : Aimed(call[d]), call' = [call EXCEPT ![c] = q]
  PROVE  DOMAIN call' = Caller /\ \A d \in Caller : Aimed(call[d])'
  BY DEF Aimed

LEMMA NoCallAims == Aimed(NoCall)
  BY DEF Aimed, NoCall

\* What a step has to show: the rows typed, and each bill whose turn it is in step.
Answers(u) == order[u].status \in {"accepted", "cancelled"} /\ ~order[u].behind

LEMMA BillsKept ==
  BillsInv /\ UNCHANGED <<order, line, taken>> /\ DOMAIN call' = Caller
    /\ (\A d \in Caller : Aimed(call[d])') => BillsInv'
<1> SUFFICES ASSUME BillsInv, UNCHANGED <<order, line, taken>>, DOMAIN call' = Caller,
                    \A d \in Caller : Aimed(call[d])'
             PROVE  BillsInv'
  OBVIOUS
<1>1. TakenSound(taken')
  BY DEF BillsInv
<1>2. InStep'
  BY DEF BillsInv, InStep
<1> QED  BY <1>1, <1>2 DEF BillsInv

LEMMA PlaceStep ==
  ASSUME BillsInv, NEW o \in Order, NEW L \in SUBSET Line,
         NEW status \in {"pending", "accepted"}, Place(o, L, status)
  PROVE  BillsInv'
<1>0. /\ order \in [Order -> OrderRow] /\ line \in [Line -> LineRow] /\ TakenSound(taken)
      /\ InStep
  BY DEF BillsInv
<1>1. order' = [order EXCEPT ![o].status = status]
  BY DEF Place
<1>2. order' \in [Order -> OrderRow] /\ order'[o].status = status
  BY <1>0, <1>1 DEF OrderRow
<1>3. line' = [l \in Line |-> IF l \in L THEN [order |-> o, live |-> TRUE] ELSE line[l]]
  BY DEF Place
<1>4. line' \in [Line -> LineRow]
  BY <1>0, <1>3 DEF LineRow
<1>5. \A l \in L : line[l].order = NoOrder
  BY DEF Place, Spare
<1>6. /\ TakenSound(taken')
      /\ status = "accepted" => taken'[o].applied = Needed(line', o)
      /\ \A u \in Order \ {o} : taken'[u] = taken[u]
  <2>1. CASE status = "accepted"
    BY <2>1, <1>0, ReconciledHere DEF Place, reconcileOrderDepletion
  <2>2. CASE status # "accepted"
    BY <2>2, <1>0 DEF Place
  <2> QED  BY <2>1, <2>2
<1>7. ASSUME NEW u \in Order, order'[u].status \in {"accepted", "cancelled"}, ~order'[u].behind
      PROVE  taken'[u].applied = Needed(line', u)
  <2>1. CASE u = o
    BY <2>1, <1>2, <1>6, <1>7
  <2>2. CASE u # o
    <3>1. Needed(line', u) = Needed(line, u)
      BY <2>2, <1>3, <1>5, SiteIsABranch, SameLines
    <3>2. order'[u] = order[u]
      BY <2>2, <1>0, <1>1
    <3> QED  BY <2>2, <3>1, <3>2, <1>0, <1>6, <1>7 DEF InStep
  <2> QED  BY <2>1, <2>2
<1>8. UNCHANGED call
  BY DEF Place
<1> QED  BY <1>2, <1>4, <1>6, <1>7, <1>8 DEF BillsInv, InStep, Aimed

LEMMA AcceptStep ==
  ASSUME BillsInv, NEW o \in Order, Accept(o)
  PROVE  BillsInv'
<1>0. /\ order \in [Order -> OrderRow] /\ line \in [Line -> LineRow] /\ TakenSound(taken)
      /\ InStep
  BY DEF BillsInv
<1>1. order' = [order EXCEPT ![o] = [status |-> "accepted", behind |-> FALSE]]
  BY DEF Accept
<1>2. order' \in [Order -> OrderRow]
  BY <1>0, <1>1 DEF OrderRow
<1>3. UNCHANGED line /\ UNCHANGED call
  BY DEF Accept
<1>6. /\ TakenSound(taken')
      /\ taken'[o].applied = Needed(line, o)
      /\ \A u \in Order \ {o} : taken'[u] = taken[u]
  BY <1>0, ReconciledHere DEF Accept, reconcileOrderDepletion
<1>7. ASSUME NEW u \in Order, order'[u].status \in {"accepted", "cancelled"}, ~order'[u].behind
      PROVE  taken'[u].applied = Needed(line', u)
  BY <1>0, <1>1, <1>3, <1>6, <1>7 DEF InStep
<1> QED  BY <1>0, <1>2, <1>3, <1>6, <1>7 DEF BillsInv, InStep, Aimed

LEMMA AddStep ==
  ASSUME BillsInv, NEW o \in Order, NEW l \in Line, addOrderItems(o, l)
  PROVE  BillsInv'
<1>0. /\ order \in [Order -> OrderRow] /\ line \in [Line -> LineRow] /\ TakenSound(taken)
      /\ InStep
  BY DEF BillsInv
<1>1. order' = Behind(order, {o}, Depleted({o}))
  BY DEF addOrderItems
<1>2. order' \in [Order -> OrderRow]
  BY <1>0, <1>1, BehindRows
<1>3. line' = [line EXCEPT ![l] = [order |-> o, live |-> TRUE]] /\ line[l].order = NoOrder
  BY DEF addOrderItems, Spare
<1>4. line' \in [Line -> LineRow]
  BY <1>0, <1>3 DEF LineRow
<1>6. /\ TakenSound(taken')
      /\ order[o].status # "pending" /\ taken[o].depleted => taken'[o].applied = Needed(line', o)
      /\ \A u \in Order \ {o} : taken'[u] = taken[u]
  <2>1. CASE order[o].status = "pending"
    BY <2>1, <1>0 DEF addOrderItems
  <2>2. CASE order[o].status # "pending"
    <3>1. Write(reconcileIfDepleted(line', o))
      BY <2>2 DEF addOrderItems
    <3> QED  BY <3>1, <2>2, <1>0, ReconciledIfDepleted
  <2> QED  BY <2>1, <2>2
<1>7. ASSUME NEW u \in Order, order'[u].status \in {"accepted", "cancelled"}, ~order'[u].behind
      PROVE  taken'[u].applied = Needed(line', u)
  <2>1. order'[u].status = order[u].status /\ ~order[u].behind
          /\ (u = o => o \in Depleted({o}))
    BY <1>0, <1>1, <1>7, BehindRows
  <2>2. CASE u = o
    BY <2>1, <2>2, <1>6, <1>7 DEF Depleted
  <2>3. CASE u # o
    <3>0. line'[l].order = o /\ \A m \in Line \ {l} : line'[m] = line[m]
      BY <1>0, <1>3
    <3>1. \A m \in Line : line'[m].order = u \/ line[m].order = u => line'[m] = line[m]
      BY <2>3, <3>0, <1>3, SiteIsABranch
    <3>2. Needed(line', u) = Needed(line, u)
      BY <3>1, SameLines
    <3> QED  BY <2>1, <2>3, <3>2, <1>0, <1>6, <1>7 DEF InStep
  <2> QED  BY <2>2, <2>3
<1>8. UNCHANGED call
  BY DEF addOrderItems
<1> QED  BY <1>2, <1>4, <1>6, <1>7, <1>8 DEF BillsInv, InStep, Aimed

LEMMA VoidStep ==
  ASSUME BillsInv, NEW c \in Caller, voidOrderItem(c)
  PROVE  BillsInv'
<1>0. /\ order \in [Order -> OrderRow] /\ line \in [Line -> LineRow] /\ TakenSound(taken)
      /\ InStep
  BY DEF BillsInv
<1> DEFINE o == call[c].order
           l == call[c].line
           touched == {line[l].order, o}
<1>o. o \in Order
  BY DEF voidOrderItem, BillsInv, Aimed
<1>1. order' = Behind(order, touched, Depleted({o}))
  BY DEF voidOrderItem
<1>2. order' \in [Order -> OrderRow]
  BY <1>0, <1>1, BehindRows
<1>3. line' = [line EXCEPT ![l].live = FALSE]
  BY DEF voidOrderItem
<1>4. line' \in [Line -> LineRow]
  BY <1>0, <1>3 DEF LineRow
<1>5. Write(reconcileIfDepleted(line', o))
  BY DEF voidOrderItem
<1>6. /\ TakenSound(taken')
      /\ taken[o].depleted => taken'[o].applied = Needed(line', o)
      /\ \A u \in Order \ {o} : taken'[u] = taken[u]
  BY <1>0, <1>5, <1>o, ReconciledIfDepleted
<1>7. ASSUME NEW u \in Order, order'[u].status \in {"accepted", "cancelled"}, ~order'[u].behind
      PROVE  taken'[u].applied = Needed(line', u)
  <2>1. /\ order'[u].status = order[u].status /\ ~order[u].behind
        /\ u \in touched => u \in Depleted({o})
    BY <1>0, <1>1, <1>7, BehindRows
  <2>2. CASE u = o
    BY <2>1, <2>2, <1>6 DEF Depleted
  <2>3. CASE u # o
    <3>0. u \notin touched
      BY <2>1, <2>3 DEF Depleted
    <3>1. \A m \in Line \ {l} : line'[m] = line[m]
      BY <1>0, <1>3
    <3>2. l \in Line => line'[l].order = line[l].order
      BY <1>0, <1>3 DEF LineRow
    <3>3. Needed(line', u) = Needed(line, u)
      BY <3>0, <3>1, <3>2, SameLines
    <3> QED  BY <2>1, <2>3, <3>3, <1>0, <1>6, <1>7 DEF InStep
  <2> QED  BY <2>2, <2>3
<1>8. call' = [call EXCEPT ![c] = NoCall]
  BY DEF voidOrderItem, EndCall
<1>9. DOMAIN call' = Caller /\ \A d \in Caller : Aimed(call[d])'
  BY <1>8, CallsAimed, NoCallAims DEF BillsInv
<1> QED  BY <1>2, <1>4, <1>6, <1>7, <1>9 DEF BillsInv, InStep

LEMMA MoreStep ==
  ASSUME BillsInv, NEW c \in Caller, NEW l \in Line, updateOrder(c, l)
  PROVE  BillsInv'
<1>0. /\ order \in [Order -> OrderRow] /\ line \in [Line -> LineRow] /\ TakenSound(taken)
      /\ InStep
  BY DEF BillsInv
<1> DEFINE o == call[c].order
<1>o. o \in Order
  BY DEF updateOrder, BillsInv, Aimed
<1>1. order' = Behind(order, {o}, Depleted({o}))
  BY DEF updateOrder
<1>2. order' \in [Order -> OrderRow]
  BY <1>0, <1>1, BehindRows
<1>3. line' = [line EXCEPT ![l] = [order |-> o, live |-> TRUE]] /\ line[l].order = NoOrder
  BY DEF updateOrder, Spare
<1>4. line' \in [Line -> LineRow]
  BY <1>0, <1>3, <1>o DEF LineRow
<1>5. Write(reconcileIfDepleted(line', o))
  BY DEF updateOrder
<1>6. /\ TakenSound(taken')
      /\ taken[o].depleted => taken'[o].applied = Needed(line', o)
      /\ \A u \in Order \ {o} : taken'[u] = taken[u]
  BY <1>0, <1>5, <1>o, ReconciledIfDepleted
<1>7. ASSUME NEW u \in Order, order'[u].status \in {"accepted", "cancelled"}, ~order'[u].behind
      PROVE  taken'[u].applied = Needed(line', u)
  <2>1. /\ order'[u].status = order[u].status /\ ~order[u].behind
        /\ u \in {o} => u \in Depleted({o})
    BY <1>0, <1>1, <1>7, BehindRows
  <2>2. CASE u = o
    BY <2>1, <2>2, <1>6 DEF Depleted
  <2>3. CASE u # o
    <3>0. line'[l].order = o /\ \A m \in Line \ {l} : line'[m] = line[m]
      BY <1>0, <1>3
    <3>1. \A m \in Line : line'[m].order = u \/ line[m].order = u => line'[m] = line[m]
      BY <2>3, <3>0, <1>3, SiteIsABranch
    <3>2. Needed(line', u) = Needed(line, u)
      BY <3>1, SameLines
    <3> QED  BY <2>1, <2>3, <3>2, <1>0, <1>6, <1>7 DEF InStep
  <2> QED  BY <2>2, <2>3
<1>8. call' = [call EXCEPT ![c] = NoCall]
  BY DEF updateOrder, EndCall
<1>9. DOMAIN call' = Caller /\ \A d \in Caller : Aimed(call[d])'
  BY <1>8, CallsAimed, NoCallAims DEF BillsInv
<1> QED  BY <1>2, <1>4, <1>6, <1>7, <1>9 DEF BillsInv, InStep

LEMMA CancelStep ==
  ASSUME BillsInv, NEW c \in Caller, cancelOrder(c)
  PROVE  BillsInv'
<1>0. /\ order \in [Order -> OrderRow] /\ line \in [Line -> LineRow] /\ TakenSound(taken)
      /\ InStep
  BY DEF BillsInv
<1> DEFINE o == call[c].order
<1>o. o \in Order
  BY DEF cancelOrder, BillsInv, Aimed
<1>1. order' = [order EXCEPT ![o].status = "cancelled", ![o].behind = FALSE]
  BY DEF cancelOrder
<1>2. order' \in [Order -> OrderRow] /\ \A u \in Order \ {o} : order'[u] = order[u]
  BY <1>0, <1>1 DEF OrderRow
<1>3. line' = Struck(line, o)
  BY DEF cancelOrder
<1>4. line' \in [Line -> LineRow]
  BY <1>0, <1>3 DEF LineRow, Struck
<1>5. Write(Reconciled(Here, o, 0))
  BY DEF cancelOrder, ReleaseAll
<1>6. /\ TakenSound(taken') /\ taken'[o].applied = 0
      /\ \A u \in Order \ {o} : taken'[u] = taken[u]
  BY <1>0, <1>5, <1>o, ReconciledHere
<1>7. ASSUME NEW u \in Order, order'[u].status \in {"accepted", "cancelled"}, ~order'[u].behind
      PROVE  taken'[u].applied = Needed(line', u)
  <2>1. \A m \in Line : line[m].order # o => line'[m] = line[m]
    BY <1>3 DEF Struck
  <2>2. \A m \in Line : line[m].order = o => line'[m].order = o /\ ~line'[m].live
    BY <1>0, <1>3 DEF Struck, LineRow
  <2>3. CASE u = o
    BY <2>1, <2>2, <2>3, <1>6, NoLines
  <2>4. CASE u # o
    <3>1. Needed(line', u) = Needed(line, u)
      BY <2>1, <2>2, <2>4, SameLines
    <3> QED  BY <2>4, <3>1, <1>0, <1>2, <1>6, <1>7 DEF InStep
  <2> QED  BY <2>3, <2>4
<1>8. call' = [call EXCEPT ![c] = NoCall]
  BY DEF cancelOrder, EndCall
<1>9. DOMAIN call' = Caller /\ \A d \in Caller : Aimed(call[d])'
  BY <1>8, CallsAimed, NoCallAims DEF BillsInv
<1> QED  BY <1>2, <1>4, <1>6, <1>7, <1>9 DEF BillsInv, InStep

LEMMA SplitStep ==
  ASSUME BillsInv, NEW c \in Caller, NEW t \in Order, splitBill(c, t)
  PROVE  BillsInv'
<1>0. /\ order \in [Order -> OrderRow] /\ line \in [Line -> LineRow] /\ TakenSound(taken)
      /\ InStep
  BY DEF BillsInv
<1> DEFINE o == call[c].order
           L == call[c].lines
           status == call[c].status
           rows == [order EXCEPT ![t].status = status]
           touched == {line[m].order : m \in L} \cup {o, t}
<1>o. o \in Order /\ status \in {"pending", "accepted"}
  BY DEF splitBill, BillsInv, Aimed
<1>1. order' = Behind(rows, touched, Depleted({o, t})) /\ order[t].status = "none"
  BY DEF splitBill
<1>r. rows \in [Order -> OrderRow] /\ \A u \in Order \ {t} : rows[u] = order[u]
  BY <1>0, <1>o DEF OrderRow
<1> HIDE DEF rows
<1>2. order' \in [Order -> OrderRow]
  BY <1>r, <1>1, BehindRows
<1>3. line' = [m \in Line |-> IF m \in L THEN [line[m] EXCEPT !.order = t] ELSE line[m]]
  BY DEF splitBill
<1>4. line' \in [Line -> LineRow]
  BY <1>0, <1>3 DEF LineRow
<1>5. Write(rebalanceDepletion(line', o, t))
  BY DEF splitBill
<1>7. /\ TakenSound(taken')
      /\ \A u \in Order : order'[u].status \in {"accepted", "cancelled"} /\ ~order'[u].behind
           => taken'[u].applied = Needed(line', u)
  <2>1. ASSUME NEW u \in Order \ touched
        PROVE  Needed(line', u) = Needed(line, u)
    <3>1. \A m \in Line : m \notin L => line'[m] = line[m]
      BY <1>3
    <3>2. \A m \in Line : m \in L => line'[m].order = t
      BY <1>0, <1>3 DEF LineRow
    <3> QED  BY <2>1, <3>1, <3>2, SameLines
  <2>2. ASSUME NEW u \in Order, ~order'[u].behind, u \in touched
        PROVE  u \in Depleted({o, t})
    BY <1>r, <1>1, <2>2, BehindRows
  <2>3. ASSUME NEW u \in Order \ touched, ~order'[u].behind
        PROVE  order'[u].status = order[u].status /\ ~order[u].behind
    BY <1>r, <1>1, <2>3, BehindRows
  <2>4. CASE Depleted({o, t}) = {}
    <3>1. UNCHANGED taken
      BY <2>4, <1>5, <1>o, NotRebalanced
    <3> QED  BY <2>1, <2>2, <2>3, <2>4, <3>1, <1>0 DEF InStep
  <2>5. CASE Depleted({o, t}) # {}
    <3>1. /\ TakenSound(taken')
          /\ taken'[o].applied = Needed(line', o) /\ taken'[t].applied = Needed(line', t)
          /\ \A u \in Order \ {o, t} : taken'[u] = taken[u]
      <4>1. o \in Order /\ t \in Order /\ TakenSound(taken)
        BY <1>0, <1>o
      <4> HIDE DEF o
      <4> QED  BY ONLY <2>5, <4>1, <1>5, RebalancedHere
    <3>2. Depleted({o, t}) \subseteq {o, t}
      BY DEF Depleted
    <3> QED  BY <2>1, <2>2, <2>3, <3>1, <3>2, <1>0 DEF InStep
  <2> QED  BY <2>4, <2>5
<1>8. call' = [call EXCEPT ![c] = NoCall]
  BY DEF splitBill, EndCall
<1>9. DOMAIN call' = Caller /\ \A d \in Caller : Aimed(call[d])'
  BY <1>8, CallsAimed, NoCallAims DEF BillsInv
<1> QED  BY <1>2, <1>4, <1>7, <1>9 DEF BillsInv, InStep

LEMMA MergeStep ==
  ASSUME BillsInv, NEW c \in Caller, mergeBills(c)
  PROVE  BillsInv'
<1>0. /\ order \in [Order -> OrderRow] /\ line \in [Line -> LineRow] /\ TakenSound(taken)
      /\ InStep
  BY DEF BillsInv
<1> DEFINE o == call[c].order
           p == call[c].into
           rows == [order EXCEPT ![o].status = "cancelled", ![o].behind = FALSE]
<1>o. o \in Order /\ p \in Order
  BY DEF mergeBills, BillsInv, Aimed
<1>1. order' = Behind(rows, {p}, Depleted({o, p}))
  BY DEF mergeBills
<1>r. rows \in [Order -> OrderRow] /\ \A u \in Order \ {o} : rows[u] = order[u]
  BY <1>0 DEF OrderRow
<1> HIDE DEF rows
<1>2. order' \in [Order -> OrderRow]
  BY <1>r, <1>1, BehindRows
<1>3. line' = [m \in Line |-> IF line[m].order = o THEN [line[m] EXCEPT !.order = p] ELSE line[m]]
  BY DEF mergeBills
<1>4. line' \in [Line -> LineRow]
  BY <1>0, <1>3, <1>o DEF LineRow
<1>5. Write(rebalanceDepletion(line', p, o))
  BY DEF mergeBills
<1>7. /\ TakenSound(taken')
      /\ \A u \in Order : order'[u].status \in {"accepted", "cancelled"} /\ ~order'[u].behind
           => taken'[u].applied = Needed(line', u)
  <2>0. /\ \A m \in Line : line[m].order # o => line'[m] = line[m]
        /\ \A m \in Line : line[m].order = o => line'[m].order = p
    BY <1>0, <1>3 DEF LineRow
  <2>1. ASSUME NEW u \in Order \ {o, p}
        PROVE  Needed(line', u) = Needed(line, u)
    BY <2>0, SameLines
  <2>2. ASSUME ~order'[p].behind
        PROVE  p \in Depleted({o, p})
    <3> HIDE DEF p
    <3>1. p \in {p}
      OBVIOUS
    <3> QED  BY <1>o, <1>r, <1>1, <2>2, <3>1, BehindRows
  <2>3. ASSUME NEW u \in Order \ {o, p}, ~order'[u].behind
        PROVE  order'[u].status = order[u].status /\ ~order[u].behind
    BY <1>r, <1>1, <2>3, BehindRows
  <2>4. CASE Depleted({o, p}) = {}
    <3>1. UNCHANGED taken /\ ~taken[o].depleted
      BY <2>4, <1>5, <1>o, NotRebalanced
    <3>2. o # p => taken'[o].applied = Needed(line', o)
      BY <2>0, <3>1, <1>0, <1>o, NoLines DEF TakenSound
    <3> QED  BY <2>1, <2>2, <2>3, <2>4, <3>1, <3>2, <1>0 DEF InStep
  <2>5. CASE Depleted({o, p}) # {}
    <3>1. /\ TakenSound(taken')
          /\ taken'[o].applied = Needed(line', o) /\ taken'[p].applied = Needed(line', p)
          /\ \A u \in Order \ {o, p} : taken'[u] = taken[u]
      <4> HIDE DEF o, p
      <4>1. {p, o} = {o, p}
        OBVIOUS
      <4> QED  BY <2>5, <4>1, <1>0, <1>5, <1>o, RebalancedHere
    <3> QED  BY <2>1, <2>3, <3>1, <1>0 DEF InStep
  <2> QED  BY <2>4, <2>5
<1>8. call' = [call EXCEPT ![c] = NoCall]
  BY DEF mergeBills, EndCall
<1>9. DOMAIN call' = Caller /\ \A d \in Caller : Aimed(call[d])'
  BY <1>8, CallsAimed, NoCallAims DEF BillsInv
<1> QED  BY <1>2, <1>4, <1>7, <1>9 DEF BillsInv, InStep

\* A call judged, or rolled back, or a delivery: no bill changes.
LEMMA JudgeStep ==
  ASSUME BillsInv, NEW c \in Caller, NEW q, Aimed(q), BeginCall(c, q)
  PROVE  BillsInv'
<1>1. DOMAIN call' = Caller /\ \A d \in Caller : Aimed(call[d])'
  BY CallsAimed DEF BillsInv, BeginCall
<1>2. UNCHANGED <<order, line, taken>>
  BY DEF BeginCall
<1> QED  BY <1>1, <1>2, BillsKept

LEMMA StandsStill ==
  ASSUME BillsInv, UNCHANGED <<order, line, taken, call>>
  PROVE  BillsInv'
<1>1. DOMAIN call' = Caller /\ \A d \in Caller : Aimed(call[d])'
  BY DEF BillsInv, Aimed
<1> QED  BY <1>1, BillsKept

LEMMA BillsStep == BillsInv /\ [DepletionNext]_depletionVars => BillsInv'
<1> SUFFICES ASSUME BillsInv, [DepletionNext]_depletionVars PROVE BillsInv'
  OBVIOUS
<1>1. ASSUME NEW o \in Order,
             \/ \E L \in SUBSET Line, status \in {"pending", "accepted"} : Place(o, L, status)
             \/ Accept(o)
             \/ \E l \in Line : addOrderItems(o, l)
      PROVE  BillsInv'
  BY <1>1, PlaceStep, AcceptStep, AddStep
<1>2. ASSUME NEW c \in Caller, NEW o \in Order, NEW l \in Line, JudgeVoid(c, o, l)
      PROVE  BillsInv'
  <2> DEFINE q == [op |-> "void", order |-> o, line |-> l]
  <2>1. Aimed(q) /\ BeginCall(c, q)  BY <1>2 DEF Aimed, JudgeVoid
  <2> QED  BY <2>1, JudgeStep
<1>3. ASSUME NEW c \in Caller, NEW o \in Order, JudgeMore(c, o)
      PROVE  BillsInv'
  <2> DEFINE q == [op |-> "more", order |-> o]
  <2>1. Aimed(q) /\ BeginCall(c, q)  BY <1>3 DEF Aimed, JudgeMore
  <2> QED  BY <2>1, JudgeStep
<1>4. ASSUME NEW c \in Caller, NEW o \in Order, JudgeCancel(c, o)
      PROVE  BillsInv'
  <2> DEFINE q == [op |-> "cancel", order |-> o]
  <2>1. Aimed(q) /\ BeginCall(c, q)  BY <1>4 DEF Aimed, JudgeCancel
  <2> QED  BY <2>1, JudgeStep
<1>5. ASSUME NEW c \in Caller, NEW o \in Order, NEW L \in SUBSET Of(line, o), JudgeSplit(c, o, L)
      PROVE  BillsInv'
  <2> DEFINE q == [op |-> "split", order |-> o, lines |-> L, status |-> order[o].status]
  <2>1. Aimed(q) /\ BeginCall(c, q)  BY <1>5 DEF Aimed, JudgeSplit, Standing, Of
  <2> QED  BY <2>1, JudgeStep
<1>6. ASSUME NEW c \in Caller, NEW o \in Order, NEW p \in Order, JudgeMerge(c, o, p)
      PROVE  BillsInv'
  <2> DEFINE q == [op |-> "merge", order |-> o, into |-> p]
  <2>1. Aimed(q) /\ BeginCall(c, q)  BY <1>6 DEF Aimed, JudgeMerge
  <2> QED  BY <2>1, JudgeStep
<1>7. ASSUME NEW c \in Caller,
             \/ voidOrderItem(c) \/ \E l \in Line : updateOrder(c, l)
             \/ cancelOrder(c) \/ mergeBills(c) \/ \E t \in Order : splitBill(c, t)
      PROVE  BillsInv'
  BY <1>7, VoidStep, MoreStep, CancelStep, MergeStep, SplitStep
<1>8. ASSUME NEW c \in Caller, RolledBack(c)
      PROVE  BillsInv'
  <2>1. DOMAIN call' = Caller /\ \A d \in Caller : Aimed(call[d])'
    BY <1>8, CallsAimed, NoCallAims DEF BillsInv, RolledBack
  <2> QED  BY <1>8, <2>1, BillsKept DEF RolledBack
<1>9. ASSUME NEW b \in Branch, Delivery(b, 1, 2)
      PROVE  BillsInv'
  BY <1>9, StandsStill DEF Delivery
<1>10. CASE UNCHANGED depletionVars
  BY <1>10, StandsStill DEF depletionVars
<1> QED
  <2>1. CASE \E c \in Caller, o \in Order :
               \/ \E l \in Line : JudgeVoid(c, o, l)
               \/ JudgeMore(c, o) \/ JudgeCancel(c, o)
               \/ \E L \in SUBSET Of(line, o) : JudgeSplit(c, o, L)
               \/ \E p \in Order : JudgeMerge(c, o, p)
               \/ splitBill(c, o)
    BY <2>1, <1>2, <1>3, <1>4, <1>5, <1>6, <1>7
  <2>2. CASE \E c \in Caller :
               \/ voidOrderItem(c) \/ \E l \in Line : updateOrder(c, l)
               \/ cancelOrder(c) \/ mergeBills(c) \/ RolledBack(c)
    BY <2>2, <1>7, <1>8
  <2> QED  BY <1>1, <2>1, <2>2, <1>9, <1>10 DEF DepletionNext

\* An accepted or cancelled bill that no stale call has touched has taken what its
\* live lines need, however its lines came to it and left it, whichever bills are
\* split, merged, voided and cancelled at once, and in whatever order two bills are
\* rebalanced (reconcileOrderDepletion, rebalanceDepletion).
THEOREM BillsKeepInStep == DepletionSpec => []InStep
<1>1. DepletionInit => BillsInv
  BY NoCallAims DEF DepletionInit, BillsInv, OrderRow, LineRow, TakenSound, NothingTaken, InStep
<1>2. BillsInv => InStep
  BY DEF BillsInv
<1> QED  BY <1>1, <1>2, BillsStep, PTL DEF DepletionSpec
------------------------------------------------------------------------------
(* Walks: what a draw takes of the layers, and a return of a bill's rows    *)

LEMMA LeastIs ==
  ASSUME NEW a \in Int, NEW b \in Int
  PROVE  Least(a, b) = IF a <= b THEN a ELSE b
<1> DEFINE m == IF a <= b THEN a ELSE b
<1>1. m \in {a, b} /\ \A x \in {a, b} : m <= x
  OBVIOUS
<1>2. \A y \in {a, b} : (\A x \in {a, b} : y <= x) => y = m
  OBVIOUS
<1> QED
  BY <1>1, <1>2 DEF Least, Min

LEMMA MostIs ==
  ASSUME NEW a \in Int, NEW b \in Int
  PROVE  Most(a, b) = IF a >= b THEN a ELSE b
<1> DEFINE m == IF a >= b THEN a ELSE b
<1>1. m \in {a, b} /\ \A x \in {a, b} : m >= x
  OBVIOUS
<1>2. \A y \in {a, b} : (\A x \in {a, b} : y >= x) => y = m
  OBVIOUS
<1> QED
  BY <1>1, <1>2 DEF Most, Max

\* ahead says of each row which come before it, in one line.
Lined(D, ahead) ==
  /\ \A l \in D : ahead[l] \subseteq D \ {l}
  /\ \A k, l \in D : k # l => k \in ahead[l] \/ l \in ahead[k]
  /\ \A l \in D : \A k \in ahead[l] : ahead[k] \subseteq ahead[l]

LEMMA LastOfLine ==
  ASSUME NEW D, NEW ahead, Lined(D, ahead), NEW S \in SUBSET D, IsFiniteSet(S), S # {}
  PROVE  \E m \in S : S \ {m} \subseteq ahead[m]
<1> DEFINE Ends(T, m) == T \ {m} \subseteq ahead[m]
           G == {T \in SUBSET S : T = {} \/ \E m \in T : Ends(T, m)}
<1>1. ASSUME NEW T \in SUBSET S, \A x \in T : T \ {x} \in G
      PROVE  T \in G
  <2>1. CASE T = {}
    BY <2>1
  <2>2. CASE T # {}
    <3>1. PICK x \in T : TRUE
      BY <2>2
    <3>2. CASE T \ {x} = {}
      <4>1. Ends(T, x)
        BY <3>2
      <4> QED
        BY <3>1, <4>1
    <3>3. CASE T \ {x} # {}
      <4>1. PICK m \in T \ {x} : Ends(T \ {x}, m)
        BY <1>1, <3>1, <3>3
      <4>2. m \in D /\ x \in D /\ m # x
        BY <4>1
      <4>3. CASE m \in ahead[x]
        <5>1. ahead[m] \subseteq ahead[x]
          BY <4>2, <4>3 DEF Lined
        <5>2. Ends(T, x)
          BY <4>1, <4>3, <5>1
        <5> QED
          BY <3>1, <5>2
      <4>4. CASE x \in ahead[m]
        <5>1. Ends(T, m)
          BY <4>1, <4>4
        <5> QED
          BY <4>1, <5>1
      <4> QED
        BY <4>2, <4>3, <4>4 DEF Lined
    <3> QED
      BY <3>2, <3>3
  <2> QED
    BY <2>1, <2>2
<1> HIDE DEF G
<1>2. S \in G
  BY <1>1, SetInduction
<1> QED
  BY <1>2 DEF G

LEMMA FirstOfLine ==
  ASSUME NEW D, NEW ahead, Lined(D, ahead), NEW S \in SUBSET D, IsFiniteSet(S), S # {}
  PROVE  \E m \in S : ahead[m] \cap S = {}
<1> DEFINE Leads(T, m) == ahead[m] \cap T = {}
           G == {T \in SUBSET S : T = {} \/ \E m \in T : Leads(T, m)}
<1>1. ASSUME NEW T \in SUBSET S, \A x \in T : T \ {x} \in G
      PROVE  T \in G
  <2>1. CASE T = {}
    BY <2>1
  <2>2. CASE T # {}
    <3>1. PICK x \in T : TRUE
      BY <2>2
    <3>0. x \notin ahead[x]
      BY <3>1 DEF Lined
    <3>2. CASE T \ {x} = {}
      <4>1. Leads(T, x)
        BY <3>0, <3>2
      <4> QED
        BY <3>1, <4>1
    <3>3. CASE T \ {x} # {}
      <4>1. PICK m \in T \ {x} : Leads(T \ {x}, m)
        BY <1>1, <3>1, <3>3
      <4>2. m \in D /\ x \in D /\ m # x
        BY <4>1
      <4>3. CASE x \in ahead[m]
        <5>1. ahead[x] \subseteq ahead[m]
          BY <4>2, <4>3 DEF Lined
        <5>2. Leads(T, x)
          BY <3>0, <4>1, <5>1
        <5> QED
          BY <3>1, <5>2
      <4>4. CASE x \notin ahead[m]
        <5>1. Leads(T, m)
          BY <4>1, <4>4
        <5> QED
          BY <4>1, <5>1
      <4> QED
        BY <4>3, <4>4
    <3> QED
      BY <3>2, <3>3
  <2> QED
    BY <2>1, <2>2
<1> HIDE DEF G
<1>2. S \in G
  BY <1>1, SetInduction
<1> QED
  BY <1>2 DEF G

\* What one row gives up.
LEMMA WalkRow ==
  ASSUME NEW D, IsFiniteSet(D), NEW have \in [D -> Nat], NEW ahead, Lined(D, ahead),
         NEW n \in Nat, NEW l \in D
  PROVE  LET before == SumFunctionOnSet(have, ahead[l])
             part == Walk(have, ahead, n)[l]
         IN  /\ before \in Nat /\ part \in Nat /\ part <= have[l]
             /\ part > 0 => before + part <= n
             /\ part < have[l] => n <= before + part
<1> DEFINE A == ahead[l]
           before == SumFunctionOnSet(have, A)
           part == Walk(have, ahead, n)[l]
<1>1. A \subseteq D /\ IsFiniteSet(A)
  BY FS_Subset DEF Lined
<1>2. before \in Nat
  BY <1>1, SumNat
<1>3. Total(LAMBDA k : have[k], A) = before
  <2> DEFINE h == [x \in A |-> have[x]]
  <2>1. \A x \in A : h[x] = have[x]
    OBVIOUS
  <2>2. Total(LAMBDA k : have[k], A) = SumFunctionOnSet(h, A)
    BY DEF Total
  <2> HIDE DEF h
  <2> QED
    BY <1>1, <2>1, <2>2, SumSame
<1>4. part = Least(have[l], Most(0, n - before))
  BY <1>3 DEF Walk
<1>5. Most(0, n - before) = IF 0 >= n - before THEN 0 ELSE n - before
  BY <1>2, MostIs
<1> HIDE DEF before
<1>6. Most(0, n - before) \in Nat /\ have[l] \in Nat
  BY <1>2, <1>5
<1>7. part = IF have[l] <= Most(0, n - before) THEN have[l] ELSE Most(0, n - before)
  BY <1>4, <1>6, LeastIs
<1> QED
  BY <1>2, <1>5, <1>6, <1>7 DEF before

\* A walk takes what is wanted, or all there is if that is less.
LEMMA WalkTakes ==
  ASSUME NEW D, IsFiniteSet(D), NEW have \in [D -> Nat], NEW ahead, Lined(D, ahead),
         NEW n \in Nat
  PROVE  LET part == Walk(have, ahead, n)
         IN  /\ part \in [D -> Nat] /\ \A l \in D : part[l] <= have[l]
             /\ SumFunctionOnSet(part, D) \in Nat
             /\ SumFunctionOnSet(part, D) <= n
             /\ n <= SumFunctionOnSet(have, D) => SumFunctionOnSet(part, D) = n
<1> DEFINE part == Walk(have, ahead, n)
<1>1. \A l \in D : part[l] \in Nat /\ part[l] <= have[l] /\ have[l] \in Nat
  BY WalkRow
<1>2. part \in [D -> Nat]
  BY <1>1 DEF Walk
<1>3. \A l \in D : /\ SumFunctionOnSet(have, ahead[l]) \in Nat
                   /\ part[l] > 0 => SumFunctionOnSet(have, ahead[l]) + part[l] <= n
                   /\ part[l] < have[l] => n <= SumFunctionOnSet(have, ahead[l]) + part[l]
  BY WalkRow
<1> HIDE DEF part
<1>4. SumFunctionOnSet(part, D) \in Nat
  BY <1>1, SumNat
\* The last row it takes of, and those before it.
<1>5. SumFunctionOnSet(part, D) <= n
  <2> DEFINE S == {l \in D : part[l] > 0}
  <2>1. IsFiniteSet(S) /\ S \in SUBSET D
    BY FS_Subset
  <2>2. CASE S = {}
    <3>1. \A l \in D : part[l] = 0
      BY <1>1, <2>2
    <3>2. SumFunctionOnSet(part, D) = 0
      BY <3>1, SumZero
    <3> QED
      BY <3>2
  <2>3. CASE S # {}
    <3>1. PICK m \in S : S \ {m} \subseteq ahead[m]
      BY <2>1, <2>3, LastOfLine
    <3> DEFINE A == ahead[m]
               T == A \cup {m}
    <3>2. m \in D /\ part[m] > 0 /\ A \subseteq D /\ m \notin A /\ T \in SUBSET D
      BY <3>1 DEF Lined
    <3>3. IsFiniteSet(A)
      BY <3>2, FS_Subset
    <3>4. \A l \in D \ T : part[l] = 0
      BY <1>1, <3>1
    <3>5. \A l \in D : part[l] \in Int
      BY <1>1
    <3> HIDE DEF T
    <3>6. SumFunctionOnSet(part, D) = SumFunctionOnSet(part, T)
      BY <3>2, <3>4, <3>5, SumWithin
    <3>7. SumFunctionOnSet(part, A \cup {m}) = part[m] + SumFunctionOnSet(part, A)
      <4>1. \A l \in A : part[l] \in Int
        BY <3>2, <3>5
      <4> QED
        BY <3>2, <3>3, <3>5, <4>1, SumWith
    <3>8. SumFunctionOnSet(part, A) <= SumFunctionOnSet(have, A)
      <4>1. \A l \in A : part[l] \in Int /\ have[l] \in Int /\ part[l] <= have[l]
        BY <1>1, <3>2
      <4> QED
        BY <3>3, <4>1, SumAtMost
    <3>9. SumFunctionOnSet(have, A) \in Nat /\ SumFunctionOnSet(have, A) + part[m] <= n
      BY <1>3, <3>2
    <3>10. SumFunctionOnSet(part, A) \in Nat
      <4>1. \A l \in A : part[l] \in Nat
        BY <1>1, <3>2
      <4> QED
        BY <3>3, <4>1, SumNat
    <3> HIDE DEF A
    <3> QED
      BY <3>2, <3>5, <3>6, <3>7, <3>8, <3>9, <3>10 DEF T
  <2> QED
    BY <2>2, <2>3
\* The first row it leaves something of, and those before it.
<1>6. ASSUME n <= SumFunctionOnSet(have, D) PROVE SumFunctionOnSet(part, D) = n
  <2> DEFINE S == {l \in D : part[l] < have[l]}
  <2>1. IsFiniteSet(S) /\ S \in SUBSET D
    BY FS_Subset
  <2>2. CASE S = {}
    <3>1. \A l \in D : part[l] = have[l]
      BY <1>1, <2>2
    <3>2. SumFunctionOnSet(part, D) = SumFunctionOnSet(have, D)
      BY <3>1, SumSame
    <3> QED
      BY <1>4, <1>5, <1>6, <3>2
  <2>3. CASE S # {}
    <3>1. PICK m \in S : ahead[m] \cap S = {}
      BY <2>1, <2>3, FirstOfLine
    <3> DEFINE A == ahead[m]
               T == A \cup {m}
    <3>2. m \in D /\ part[m] < have[m] /\ A \subseteq D /\ m \notin A /\ T \in SUBSET D
      BY <3>1 DEF Lined
    <3>3. IsFiniteSet(A)
      BY <3>2, FS_Subset
    <3>4. SumFunctionOnSet(part, A) = SumFunctionOnSet(have, A)
      <4>1. \A l \in A : part[l] = have[l]
        BY <1>1, <3>1, <3>2
      <4> QED
        BY <3>3, <4>1, SumSame
    <3>5. SumFunctionOnSet(part, A \cup {m}) = part[m] + SumFunctionOnSet(part, A)
      <4>1. part[m] \in Int /\ \A l \in A : part[l] \in Int
        BY <1>1, <3>2
      <4> QED
        BY <3>2, <3>3, <4>1, SumWith
    <3>6. SumFunctionOnSet(part, T) <= SumFunctionOnSet(part, D)
      BY <1>1, <3>2, SumPart
    <3>7. SumFunctionOnSet(have, A) \in Nat /\ n <= SumFunctionOnSet(have, A) + part[m]
      BY <1>3, <3>2
    <3>8. part[m] \in Nat
      BY <1>1, <3>2
    <3> HIDE DEF A
    <3>9. n <= SumFunctionOnSet(part, D)
      BY <1>4, <3>4, <3>5, <3>6, <3>7, <3>8
    <3> QED
      BY <1>4, <1>5, <3>9
  <2> QED
    BY <2>2, <2>3
<1> QED
  BY <1>1, <1>2, <1>4, <1>5, <1>6 DEF part

------------------------------------------------------------------------------
(* The books: what a posting keeps *)

LEMMA RoundIs ==
  ASSUME NEW a \in Nat, NEW b \in Nat \ {0}
  PROVE  Round(a, b) \in Nat /\ (a = 0 => Round(a, b) = 0)
  BY DEF Round

\* A part of a layer is worth no more than it, all of it if it is all, nothing if
\* it is nothing.
LEMMA WorthIs ==
  ASSUME NEW held, held.qty \in Nat, held.value \in Nat, held.qty = 0 => held.value = 0,
         NEW n \in Nat, n <= held.qty
  PROVE  /\ Worth(held, n) \in Nat /\ Worth(held, n) <= held.value
         /\ n = held.qty => Worth(held, n) = held.value
         /\ n = 0 => Worth(held, n) = 0
<1>1. CASE n = held.qty
  BY <1>1 DEF Worth
<1>2. CASE n # held.qty
  <2> DEFINE a == held.value * n
             r == Round(a, held.qty)
  <2>1. a \in Nat /\ (n = 0 => a = 0) /\ held.qty \in Nat \ {0}
    BY <1>2
  <2> HIDE DEF a
  <2>2. r \in Nat /\ (n = 0 => r = 0)
    BY <2>1, RoundIs
  <2>3. Worth(held, n) = Least(r, held.value)
    BY <1>2 DEF Worth, a
  <2> HIDE DEF r
  <2>4. Least(r, held.value) = IF r <= held.value THEN r ELSE held.value
    BY <2>2, LeastIs
  <2> QED
    BY <1>2, <2>2, <2>3, <2>4
<1> QED
  BY <1>1, <1>2

Columns == {"quantity", "stockValue", "cost", "mayGoNegative", "shelf", "layers"}
Typed(s) ==
  /\ DOMAIN s = Columns
  /\ s.quantity \in Int /\ s.stockValue \in Nat /\ s.cost \in Nat /\ s.mayGoNegative \in BOOLEAN
  /\ s.shelf \in [Branch -> Shelf] /\ s.layers \in Seq(Layer)

\* The sums of BooksTie, of the columns they are over.
At(layers, b) == {l \in DOMAIN layers : layers[l].branch = b}
QtyAt(layers, b) == SumFunctionOnSet([l \in At(layers, b) |-> layers[l].qty], At(layers, b))
OnShelves(shelf) == SumFunctionOnSet([b \in Branch |-> shelf[b].available], Branch)
ValueIn(layers) == SumFunctionOnSet([l \in DOMAIN layers |-> layers[l].value], DOMAIN layers)

\* Everything but the cached value.
Shelved(s) ==
  /\ Typed(s)
  /\ \A l \in DOMAIN s.layers : s.layers[l].qty = 0 => s.layers[l].value = 0
  /\ s.quantity = OnShelves(s.shelf)
  /\ \A b \in Branch :
       /\ QtyAt(s.layers, b) = s.shelf[b].available + s.shelf[b].uncovered
       /\ s.shelf[b].uncovered >= 0

Valued(s) == s.stockValue = ValueIn(s.layers)
Sound(s) == Shelved(s) /\ Valued(s)

\* Nothing that is promised or on its way is touched, and no setting.
Besides(s, t) ==
  /\ t.mayGoNegative = s.mayGoNegative
  /\ \A b \in Branch : /\ t.shelf[b].reserved = s.shelf[b].reserved
                       /\ t.shelf[b].inTransit = s.shelf[b].inTransit

LEMMA LayersFinite ==
  ASSUME NEW s, Typed(s)
  PROVE  /\ DOMAIN s.layers = 1..Len(s.layers) /\ Len(s.layers) \in Nat
         /\ IsFiniteSet(DOMAIN s.layers)
         /\ \A l \in DOMAIN s.layers : s.layers[l] \in Layer
<1>1. DOMAIN s.layers = 1..Len(s.layers) /\ Len(s.layers) \in Nat
  BY DEF Typed
<1>2. IsFiniteSet(1..Len(s.layers))
  BY <1>1, FS_Interval
<1>3. \A l \in DOMAIN s.layers : s.layers[l] \in Layer
  BY DEF Typed
<1> QED
  BY <1>1, <1>2, <1>3, Zenon

\* The caches follow the layers.
LEMMA Tallied ==
  ASSUME NEW s, Shelved(s)
  PROVE  /\ Sound(Tally(s)) /\ Besides(s, Tally(s)) /\ Tally(s).layers = s.layers
         /\ Tally(s).shelf = s.shelf
<1> DEFINE D == DOMAIN s.layers
           P == {l \in D : s.layers[l].qty > 0}
           f == [l \in D |-> s.layers[l].value]
           value == Total(LAMBDA l : s.layers[l].value, P)
           t == Tally(s)
<1>1. Typed(s) /\ \A l \in D : s.layers[l] \in Layer
  BY LayersFinite DEF Shelved
<1>2. IsFiniteSet(D) /\ IsFiniteSet(P) /\ P \in SUBSET D
  BY <1>1, LayersFinite, FS_Subset
<1>3. \A l \in D : f[l] \in Nat /\ (l \notin P => f[l] = 0)
  <2> SUFFICES ASSUME NEW l \in D PROVE f[l] \in Nat /\ (l \notin P => f[l] = 0)
    OBVIOUS
  <2>1. s.layers[l].qty \in Nat /\ s.layers[l].value \in Nat
    BY <1>1 DEF Layer
  <2> QED
    BY <2>1 DEF Shelved
<1>4. value = SumFunctionOnSet(f, P)
  <2> DEFINE g == [l \in P |-> s.layers[l].value]
  <2>1. value = SumFunctionOnSet(g, P)
    BY DEF Total
  <2>2. \A l \in P : g[l] = f[l]
    OBVIOUS
  <2> HIDE DEF g, f
  <2> QED
    BY <1>2, <2>1, <2>2, SumSame
<1>5. SumFunctionOnSet(f, D) = SumFunctionOnSet(f, P) /\ SumFunctionOnSet(f, P) \in Nat
  <2>1. \A l \in D : f[l] \in Int
    BY <1>3
  <2>2. \A l \in P : f[l] \in Nat
    BY <1>3
  <2>3. \A l \in D \ P : f[l] = 0
    BY <1>3
  <2> HIDE DEF f, P
  <2> QED
    BY <1>2, <2>1, <2>2, <2>3, SumWithin, SumNat
<1>6. value \in Nat
  BY <1>4, <1>5
<1>7. t = [s EXCEPT !.stockValue = value,
                    !.cost = IF s.quantity > 0 THEN Round(value, s.quantity) ELSE @]
  BY DEF Tally
<1> HIDE DEF value, t
<1>8. /\ DOMAIN t = Columns /\ t.quantity = s.quantity /\ t.stockValue = value
      /\ t.mayGoNegative = s.mayGoNegative /\ t.shelf = s.shelf /\ t.layers = s.layers
      /\ t.cost = IF s.quantity > 0 THEN Round(value, s.quantity) ELSE s.cost
  BY <1>1, <1>7 DEF Typed, Columns
<1>9. t.cost \in Nat
  <2>1. CASE s.quantity > 0
    <3>1. s.quantity \in Nat \ {0}
      BY <1>1, <2>1 DEF Typed
    <3> QED
      BY <1>6, <1>8, <2>1, <3>1, RoundIs
  <2> QED
    BY <1>1, <1>8, <2>1 DEF Typed
<1>10. Typed(t)
  BY <1>1, <1>6, <1>8, <1>9 DEF Typed
<1>11. Shelved(t)
  BY <1>8, <1>10 DEF Shelved
<1>12. Valued(t)
  <2>1. ValueIn(t.layers) = SumFunctionOnSet(f, D)
    BY <1>8 DEF ValueIn
  <2> QED
    BY <1>4, <1>5, <1>8, <2>1 DEF Valued
<1> QED
  BY <1>8, <1>11, <1>12 DEF Sound, Besides, t

\* Less, or more if rows go back.
Less(x, y, sign) == IF sign = 1 THEN x - y ELSE x + y
LEMMA LessIs ==
  ASSUME NEW x \in Int, NEW y \in Int, NEW sign \in {1, -1}
  PROVE  /\ x - sign * y = Less(x, y, sign) /\ x + sign * y = Less(x, -y, sign)
         /\ Less(x, y, sign) \in Int
<1>1. CASE sign = 1
  BY <1>1 DEF Less
<1>2. CASE sign = -1
  BY <1>2 DEF Less
<1> QED
  BY <1>1, <1>2

ShelfLess(row, qty, bare, sign) ==
  [row EXCEPT !.available = Less(@, qty, sign), !.uncovered = Less(@, -bare, sign)]
LayerLess(row, out, sign) ==
  [row EXCEPT !.qty = Less(@, out.qty, sign), !.value = Less(@, out.value, sign)]
LayersLess(layers, rows, sign) == [l \in DOMAIN layers |-> LayerLess(layers[l], rows[l], sign)]
ShelvesLess(shelf, b, qty, bare, sign) == [shelf EXCEPT ![b] = ShelfLess(shelf[b], qty, bare, sign)]
QtyColumn(rows) == [l \in DOMAIN rows |-> rows[l].qty]

\* Rows that may be taken off the layers of b, or put back.
Bookable(s, b, rows, sign) ==
  /\ DOMAIN rows = 0..Len(s.layers)
  /\ \A l \in 0..Len(s.layers) : rows[l].qty \in Nat /\ rows[l].value \in Nat
  /\ \A l \in 1..Len(s.layers) :
       /\ rows[l].qty > 0 => s.layers[l].branch = b
       /\ Less(s.layers[l].qty, rows[l].qty, sign) \in Nat
       /\ Less(s.layers[l].value, rows[l].value, sign) \in Nat
       /\ Less(s.layers[l].qty, rows[l].qty, sign) = 0
            => Less(s.layers[l].value, rows[l].value, sign) = 0
  /\ Less(s.shelf[b].uncovered, -rows[0].qty, sign) >= 0

LEMMA BookColumns ==
  ASSUME NEW s, Typed(s), NEW b \in Branch, NEW rows, NEW sign \in {1, -1}, QtyOf(rows) \in Int,
         DOMAIN rows = 0..Len(s.layers),
         \A l \in 0..Len(s.layers) : rows[l].qty \in Nat /\ rows[l].value \in Nat
  PROVE  LET t == Book(s, b, rows, sign)
         IN  /\ DOMAIN t = Columns
             /\ t.quantity = Less(s.quantity, QtyOf(rows), sign)
             /\ t.stockValue = s.stockValue /\ t.cost = s.cost
             /\ t.mayGoNegative = s.mayGoNegative
             /\ t.shelf = ShelvesLess(s.shelf, b, QtyOf(rows), rows[0].qty, sign)
             /\ t.layers = LayersLess(s.layers, rows, sign)
<1> DEFINE t == Book(s, b, rows, sign)
           n == QtyOf(rows)
           r == s.shelf[b]
           p == [r EXCEPT !.available = @ - sign * n, !.uncovered = @ + sign * rows[0].qty]
           y(l) == [s.layers[l] EXCEPT !.qty = @ - sign * rows[l].qty,
                                       !.value = @ - sign * rows[l].value]
<1>1. DOMAIN s = Columns /\ DOMAIN s.shelf = Branch /\ r \in Shelf /\ s.quantity \in Int
  BY DEF Typed
<1>2. /\ DOMAIN t = Columns
      /\ t.quantity = s.quantity - sign * n
      /\ t.stockValue = s.stockValue /\ t.cost = s.cost /\ t.mayGoNegative = s.mayGoNegative
      /\ t.shelf = [s.shelf EXCEPT ![b] = p]
      /\ t.layers = [l \in DOMAIN s.layers |-> y(l)]
  BY <1>1 DEF Book, Columns, Shelf
<1>3. n \in Int /\ rows[0].qty \in Int
  <2>1. 0 \in 0..Len(s.layers)
    BY LayersFinite
  <2> QED
    BY <2>1
<1>4. s.quantity - sign * n = Less(s.quantity, n, sign)
  BY <1>1, <1>3, LessIs
<1> HIDE DEF n
<1>5. p = ShelfLess(r, n, rows[0].qty, sign)
  <2>1. /\ r.available - sign * n = Less(r.available, n, sign)
        /\ r.uncovered + sign * rows[0].qty = Less(r.uncovered, -rows[0].qty, sign)
    BY <1>1, <1>3, LessIs DEF Shelf
  <2> QED
    BY <2>1 DEF ShelfLess
<1>6. ASSUME NEW l \in DOMAIN s.layers
      PROVE  y(l) = LayerLess(s.layers[l], rows[l], sign)
  <2>1. s.layers[l] \in Layer /\ l \in 0..Len(s.layers)
    BY LayersFinite
  <2>2. rows[l].qty \in Nat /\ rows[l].value \in Nat
    BY <2>1
  <2>3. /\ s.layers[l].qty - sign * rows[l].qty = Less(s.layers[l].qty, rows[l].qty, sign)
        /\ s.layers[l].value - sign * rows[l].value = Less(s.layers[l].value, rows[l].value, sign)
    <3>1. /\ s.layers[l].qty \in Int /\ s.layers[l].value \in Int
          /\ rows[l].qty \in Int /\ rows[l].value \in Int
      BY <2>1, <2>2 DEF Layer
    <3> QED
      BY ONLY <3>1, sign \in {1, -1}, LessIs
  <2> QED
    BY <2>3 DEF LayerLess
<1> HIDE DEF t, p, y
<1>7. [l \in DOMAIN s.layers |-> y(l)] = LayersLess(s.layers, rows, sign)
  BY <1>6 DEF LayersLess
<1> QED
  BY <1>2, <1>4, <1>5, <1>7 DEF t, n, ShelvesLess

LEMMA ShelfMoved ==
  ASSUME NEW shelf \in [Branch -> Shelf], NEW b \in Branch, NEW r \in Shelf
  PROVE  LET to == [shelf EXCEPT ![b] = r]
         IN  /\ to \in [Branch -> Shelf] /\ to[b] = r
             /\ \A c \in Branch \ {b} : to[c] = shelf[c]
             /\ OnShelves(to) = OnShelves(shelf) + (r.available - shelf[b].available)
             /\ OnShelves(shelf) \in Int
<1> DEFINE to == [shelf EXCEPT ![b] = r]
           f == [c \in Branch |-> shelf[c].available]
           h == [c \in Branch |-> to[c].available]
<1>1. /\ to \in [Branch -> Shelf] /\ to[b] = r
      /\ \A c \in Branch \ {b} : to[c] = shelf[c]
  OBVIOUS
<1> HIDE DEF to
<1>2. \A c \in Branch : f[c] \in Int
  BY DEF Shelf
<1>3. h[b] \in Int /\ h[b] = r.available /\ f[b] = shelf[b].available
  BY <1>1 DEF Shelf
<1>4. \A c \in Branch \ {b} : h[c] = f[c]
  BY <1>1
<1>5. OnShelves(shelf) = SumFunctionOnSet(f, Branch) /\ OnShelves(to) = SumFunctionOnSet(h, Branch)
  BY DEF OnShelves
<1> HIDE DEF f, h
<1>6. SumFunctionOnSet(h, Branch) = SumFunctionOnSet(f, Branch) + (h[b] - f[b])
  BY <1>2, <1>3, <1>4, BranchesAreFinite, SumMoved
<1>7. SumFunctionOnSet(f, Branch) \in Int
  BY <1>2, BranchesAreFinite, SumTyped
<1> QED
  BY <1>1, <1>3, <1>5, <1>6, <1>7 DEF to

LEMMA QtyAtTyped ==
  ASSUME NEW layers \in Seq(Layer), NEW b
  PROVE  /\ IsFiniteSet(At(layers, b)) /\ At(layers, b) \in SUBSET DOMAIN layers
         /\ QtyAt(layers, b) \in Nat
<1> DEFINE A == At(layers, b)
           f == [l \in A |-> layers[l].qty]
<1>1. DOMAIN layers = 1..Len(layers) /\ Len(layers) \in Nat
  OBVIOUS
<1>2. IsFiniteSet(DOMAIN layers)
  BY <1>1, FS_Interval
<1>3. A \in SUBSET DOMAIN layers
  BY DEF At
<1>4. IsFiniteSet(A)
  BY <1>2, <1>3, FS_Subset
<1>5. \A l \in A : f[l] \in Nat
  <2> SUFFICES ASSUME NEW l \in A PROVE layers[l].qty \in Nat
    OBVIOUS
  <2>1. layers[l] \in Layer
    BY <1>3
  <2> QED
    BY <2>1 DEF Layer
<1>6. SumFunctionOnSet(f, A) \in Nat
  BY ONLY <1>4, <1>5, SumNat
<1> QED
  BY <1>3, <1>4, <1>6 DEF QtyAt

Alike(layer, after) == /\ after.branch = layer.branch /\ after.date = layer.date
                       /\ after.received = layer.received

LEMMA LayersBooked ==
  ASSUME NEW s, Typed(s), NEW b \in Branch, NEW rows, NEW sign \in {1, -1},
         Bookable(s, b, rows, sign)
  PROVE  LET to == LayersLess(s.layers, rows, sign)
             covered == QtyOf(rows) - rows[0].qty
         IN  /\ to \in Seq(Layer) /\ Len(to) = Len(s.layers)
             /\ \A l \in DOMAIN s.layers :
                  /\ Alike(s.layers[l], to[l]) /\ to[l].spent = s.layers[l].spent
                  /\ to[l].qty = Less(s.layers[l].qty, rows[l].qty, sign)
                  /\ to[l].value = Less(s.layers[l].value, rows[l].value, sign)
             /\ QtyOf(rows) \in Nat /\ covered \in Nat
             /\ QtyAt(to, b) = Less(QtyAt(s.layers, b), covered, sign)
             /\ \A c \in Branch \ {b} : QtyAt(to, c) = QtyAt(s.layers, c)
<1> DEFINE D == DOMAIN s.layers
           E == 0..Len(s.layers)
           to == LayersLess(s.layers, rows, sign)
           Q == QtyColumn(rows)
           A(c) == At(s.layers, c)
<1>1. D = 1..Len(s.layers) /\ Len(s.layers) \in Nat /\ \A l \in D : s.layers[l] \in Layer
  BY LayersFinite
<1>2. IsFiniteSet(D) /\ IsFiniteSet(E) /\ E \ {0} = D /\ 0 \in E
  <2>1. IsFiniteSet(E)
    BY <1>1, FS_Interval
  <2>2. E \ {0} = D /\ 0 \in E
    BY <1>1
  <2> QED
    BY <2>1, <2>2, LayersFinite
<1>3. \A l \in E : rows[l].qty \in Nat /\ rows[l].value \in Nat
  BY DEF Bookable
<1>4. ASSUME NEW l \in D
      PROVE  /\ to[l] \in Layer
             /\ Alike(s.layers[l], to[l]) /\ to[l].spent = s.layers[l].spent
             /\ to[l].qty = Less(s.layers[l].qty, rows[l].qty, sign)
             /\ to[l].value = Less(s.layers[l].value, rows[l].value, sign)
  <2>1. s.layers[l] \in Layer /\ l \in 1..Len(s.layers)
    BY <1>1
  <2> DEFINE q == Less(s.layers[l].qty, rows[l].qty, sign)
             v == Less(s.layers[l].value, rows[l].value, sign)
  <2>2. q \in Nat /\ v \in Nat
    BY <2>1 DEF Bookable
  <2>3. to[l] = [[s.layers[l] EXCEPT !.qty = q] EXCEPT !.value = v]
    BY Zenon DEF LayersLess, LayerLess
  <2> HIDE DEF q, v
  <2> QED
    BY <2>1, <2>2, <2>3 DEF Layer, Alike, q, v
<1>5. to \in Seq(Layer) /\ Len(to) = Len(s.layers) /\ DOMAIN to = D
  <2>1. to \in [1..Len(s.layers) -> Layer]
    BY <1>1, <1>4 DEF LayersLess
  <2> HIDE DEF to
  <2> QED
    BY <1>1, <2>1
<1>6. \A c : At(to, c) = A(c)
  BY <1>4, <1>5 DEF At, Alike
<1>7. \A l \in E : Q[l] = rows[l].qty /\ Q[l] \in Nat
  BY <1>3 DEF QtyColumn, Bookable
<1>8. QtyOf(rows) = SumFunctionOnSet(Q, E)
  <2>1. DOMAIN rows = E
    BY DEF Bookable
  <2> QED
    BY <2>1 DEF QtyOf, Total, QtyColumn
<1> HIDE DEF to, Q, E
<1>9. SumFunctionOnSet(Q, E) = Q[0] + SumFunctionOnSet(Q, D)
  <2>1. SumFunctionOnSet(Q, E) = Q[0] + SumFunctionOnSet(Q, E \ {0})
    <3>1. \A l \in E : Q[l] \in Int
      BY <1>7
    <3> QED
      BY ONLY <1>2, <3>1, SumTake
  <2>2. SumFunctionOnSet(Q, E \ {0}) = SumFunctionOnSet(Q, D)
    BY <1>2, Zenon
  <2> QED
    BY <2>1, <2>2
<1>10. \A l \in D : l \in E /\ Q[l] \in Nat /\ Q[l] = rows[l].qty
  <2>1. D \subseteq E
    BY <1>2, Zenon
  <2> QED
    BY <1>7, <2>1
<1>11. SumFunctionOnSet(Q, D) \in Nat
  BY <1>2, <1>10, SumNat
<1>12. QtyOf(rows) \in Nat /\ QtyOf(rows) - rows[0].qty = SumFunctionOnSet(Q, D)
  BY <1>2, <1>7, <1>8, <1>9, <1>11
<1>13. SumFunctionOnSet(Q, D) = SumFunctionOnSet(Q, A(b))
  <2>0. \A l \in D : rows[l].qty > 0 => s.layers[l].branch = b
    BY <1>1 DEF Bookable
  <2>1. \A l \in D \ A(b) : Q[l] = 0
    BY ONLY <1>10, <2>0 DEF At
  <2>2. \A l \in D : Q[l] \in Int
    BY <1>10
  <2>3. A(b) \in SUBSET D
    BY DEF At
  <2> QED
    BY ONLY <1>2, <2>1, <2>2, <2>3, SumWithin
<1> DEFINE F(c) == [l \in A(c) |-> s.layers[l].qty]
           T(c) == [l \in A(c) |-> to[l].qty]
<1>14. \A c : IsFiniteSet(A(c)) /\ A(c) \in SUBSET D /\ QtyAt(s.layers, c) \in Nat
  <2>1. s.layers \in Seq(Layer)
    BY DEF Typed
  <2> QED
    BY <2>1, QtyAtTyped
<1>15. \A c : QtyAt(s.layers, c) = SumFunctionOnSet(F(c), A(c))
              /\ QtyAt(to, c) = SumFunctionOnSet(T(c), A(c))
  BY <1>6 DEF QtyAt
<1>16. \A c : \A l \in A(c) : /\ F(c)[l] = s.layers[l].qty /\ F(c)[l] \in Nat
                              /\ T(c)[l] = Less(F(c)[l], rows[l].qty, sign) /\ T(c)[l] \in Nat
  <2> SUFFICES ASSUME NEW c, NEW l \in A(c)
               PROVE  /\ F(c)[l] = s.layers[l].qty /\ F(c)[l] \in Nat
                      /\ T(c)[l] = Less(F(c)[l], rows[l].qty, sign) /\ T(c)[l] \in Nat
    OBVIOUS
  <2>1. l \in D
    BY DEF At
  <2>2. s.layers[l].qty \in Nat /\ to[l].qty \in Nat
    BY <1>1, <1>4, <2>1 DEF Layer
  <2> QED
    BY <1>4, <2>1, <2>2
<1>17. ASSUME NEW c \in Branch \ {b} PROVE QtyAt(to, c) = QtyAt(s.layers, c)
  <2>1. \A l \in A(c) : T(c)[l] = F(c)[l]
    <3> SUFFICES ASSUME NEW l \in A(c) PROVE T(c)[l] = F(c)[l]
      OBVIOUS
    <3>1. l \in D /\ s.layers[l].branch # b
      BY <1>17 DEF At
    <3>2. rows[l].qty = 0
      BY <1>1, <1>10, <3>1 DEF Bookable
    <3> HIDE DEF F, T
    <3> QED
      BY <1>16, <3>2 DEF Less
  <2> HIDE DEF F, T
  <2> QED
    BY <1>14, <1>15, <2>1, SumSame
<1>18. QtyAt(to, b) = Less(QtyAt(s.layers, b), SumFunctionOnSet(Q, A(b)), sign)
  <2>1. \A l \in A(b) : Q[l] \in Nat /\ Q[l] = rows[l].qty
    BY <1>10, <1>14
  <2>2. SumFunctionOnSet(Q, A(b)) \in Nat
    BY <1>14, <2>1, SumNat
  <2> HIDE DEF F, T, A
  <2>3. CASE sign = 1
    <3>1. \A l \in A(b) : T(b)[l] \in Int /\ Q[l] \in Int /\ F(b)[l] = T(b)[l] + Q[l]
      BY <1>16, <2>1, <2>3 DEF Less
    <3>2. SumFunctionOnSet(F(b), A(b)) = SumFunctionOnSet(T(b), A(b)) + SumFunctionOnSet(Q, A(b))
      BY ONLY <1>14, <3>1, SumPlus
    <3>3. SumFunctionOnSet(T(b), A(b)) \in Int
      BY <1>14, <3>1, SumTyped
    <3> QED
      BY <1>15, <2>2, <2>3, <3>2, <3>3 DEF Less
  <2>4. CASE sign = -1
    <3>1. \A l \in A(b) : F(b)[l] \in Int /\ Q[l] \in Int /\ T(b)[l] = F(b)[l] + Q[l]
      BY <1>16, <2>1, <2>4 DEF Less
    <3>2. SumFunctionOnSet(T(b), A(b)) = SumFunctionOnSet(F(b), A(b)) + SumFunctionOnSet(Q, A(b))
      BY ONLY <1>14, <3>1, SumPlus
    <3> QED
      BY <1>15, <2>4, <3>2 DEF Less
  <2> QED
    BY <2>3, <2>4
<1> QED
  BY <1>4, <1>5, <1>11, <1>12, <1>13, <1>17, <1>18 DEF to

LEMMA Booked ==
  ASSUME NEW s, Shelved(s), NEW b \in Branch, NEW rows, NEW sign \in {1, -1},
         Bookable(s, b, rows, sign)
  PROVE  LET t == Book(s, b, rows, sign)
         IN  /\ Shelved(t) /\ Besides(s, t)
             /\ DOMAIN t.layers = DOMAIN s.layers /\ Len(t.layers) = Len(s.layers)
             /\ \A l \in DOMAIN s.layers :
                  /\ Alike(s.layers[l], t.layers[l]) /\ t.layers[l].spent = s.layers[l].spent
                  /\ t.layers[l].qty = Less(s.layers[l].qty, rows[l].qty, sign)
                  /\ t.layers[l].value = Less(s.layers[l].value, rows[l].value, sign)
             /\ t.shelf[b].uncovered = Less(s.shelf[b].uncovered, -rows[0].qty, sign)
             /\ \A c \in Branch \ {b} : t.shelf[c].uncovered = s.shelf[c].uncovered
<1> DEFINE t == Book(s, b, rows, sign)
           n == QtyOf(rows)
           bare == rows[0].qty
           to == LayersLess(s.layers, rows, sign)
           r == ShelfLess(s.shelf[b], n, bare, sign)
<1>1. Typed(s)
  BY DEF Shelved
<1>2. /\ to \in Seq(Layer) /\ Len(to) = Len(s.layers)
      /\ \A l \in DOMAIN s.layers :
           /\ Alike(s.layers[l], to[l]) /\ to[l].spent = s.layers[l].spent
           /\ to[l].qty = Less(s.layers[l].qty, rows[l].qty, sign)
           /\ to[l].value = Less(s.layers[l].value, rows[l].value, sign)
      /\ n \in Nat /\ n - bare \in Nat
      /\ QtyAt(to, b) = Less(QtyAt(s.layers, b), n - bare, sign)
      /\ \A c \in Branch \ {b} : QtyAt(to, c) = QtyAt(s.layers, c)
  BY <1>1, LayersBooked
<1>3. bare \in Nat
  BY <1>1, LayersFinite DEF Bookable
<1>4. /\ DOMAIN rows = 0..Len(s.layers)
      /\ \A l \in 0..Len(s.layers) : rows[l].qty \in Nat /\ rows[l].value \in Nat
  BY DEF Bookable
<1>5. /\ DOMAIN t = Columns /\ t.quantity = Less(s.quantity, n, sign)
      /\ t.stockValue = s.stockValue /\ t.cost = s.cost /\ t.mayGoNegative = s.mayGoNegative
      /\ t.shelf = [s.shelf EXCEPT ![b] = r] /\ t.layers = to
  <2>1. n \in Int
    BY <1>2
  <2>2. t.shelf = ShelvesLess(s.shelf, b, n, bare, sign)
    BY <1>1, <1>4, <2>1, BookColumns
  <2>3. t.shelf = [s.shelf EXCEPT ![b] = r]
    BY <2>2, Zenon DEF ShelvesLess
  <2> QED
    BY <1>1, <1>4, <2>1, <2>3, BookColumns
<1>6. s.shelf \in [Branch -> Shelf] /\ s.shelf[b] \in Shelf
  BY <1>1 DEF Typed
<1>7. /\ r \in Shelf /\ r.available = Less(s.shelf[b].available, n, sign)
      /\ r.uncovered = Less(s.shelf[b].uncovered, -bare, sign)
      /\ r.reserved = s.shelf[b].reserved /\ r.inTransit = s.shelf[b].inTransit
  <2> DEFINE x == Less(s.shelf[b].available, n, sign)
             u == Less(s.shelf[b].uncovered, -bare, sign)
  <2>0. /\ s.shelf[b].available \in Int /\ s.shelf[b].uncovered \in Int
        /\ n \in Int /\ -bare \in Int
    BY <1>2, <1>3, <1>6 DEF Shelf
  <2> HIDE DEF n, bare
  <2>1. x \in Int /\ u \in Int
    BY <2>0, LessIs
  <2>2. r = [[s.shelf[b] EXCEPT !.available = x] EXCEPT !.uncovered = u]
    BY Zenon DEF ShelfLess
  <2> HIDE DEF x, u, r
  <2>3. /\ r \in Shelf /\ r.available = x /\ r.uncovered = u
        /\ r.reserved = s.shelf[b].reserved /\ r.inTransit = s.shelf[b].inTransit
    BY <1>6, <2>1, <2>2 DEF Shelf
  <2> QED
    BY <2>3 DEF x, u
<1> HIDE DEF t, n, to, r
<1>8. /\ t.shelf \in [Branch -> Shelf] /\ t.shelf[b] = r
      /\ \A c \in Branch \ {b} : t.shelf[c] = s.shelf[c]
      /\ OnShelves(t.shelf) = OnShelves(s.shelf) + (r.available - s.shelf[b].available)
      /\ OnShelves(s.shelf) \in Int
  BY <1>5, <1>6, <1>7, ShelfMoved
<1>9. t.quantity = OnShelves(t.shelf) /\ t.quantity \in Int
  <2>1. s.quantity = OnShelves(s.shelf) /\ s.shelf[b].available \in Int
    BY <1>6 DEF Shelved, Shelf
  <2> QED
    BY <1>2, <1>5, <1>7, <1>8, <2>1 DEF Less
<1>10. DOMAIN to = DOMAIN s.layers
  BY <1>2, <1>1, LayersFinite
<1>11. Typed(t)
  BY <1>1, <1>2, <1>5, <1>8, <1>9 DEF Typed
<1>12. \A l \in DOMAIN t.layers : t.layers[l].qty = 0 => t.layers[l].value = 0
  <2>1. \A l \in 1..Len(s.layers) :
           Less(s.layers[l].qty, rows[l].qty, sign) = 0
            => Less(s.layers[l].value, rows[l].value, sign) = 0
    BY DEF Bookable
  <2>2. DOMAIN s.layers = 1..Len(s.layers)
    BY <1>1, LayersFinite
  <2> QED
    BY <1>2, <1>5, <1>10, <2>1, <2>2
<1>13. ASSUME NEW c \in Branch
       PROVE  /\ QtyAt(t.layers, c) = t.shelf[c].available + t.shelf[c].uncovered
              /\ t.shelf[c].uncovered >= 0
  <2>1. /\ QtyAt(s.layers, c) = s.shelf[c].available + s.shelf[c].uncovered
        /\ s.shelf[c].uncovered >= 0 /\ s.shelf[c] \in Shelf
    BY <1>6 DEF Shelved
  <2>2. CASE c # b
    BY <1>2, <1>5, <1>8, <2>1, <2>2
  <2>3. CASE c = b
    <3>1. r.uncovered >= 0
      BY <1>7 DEF Bookable
    <3>2. s.shelf[b].available \in Int /\ s.shelf[b].uncovered \in Int
      BY <1>6 DEF Shelf
    <3>3. QtyAt(to, b) = r.available + r.uncovered
      <4> DEFINE x == s.shelf[b].available
                 u == s.shelf[b].uncovered
                 k == QtyAt(s.layers, b)
      <4>0. /\ x \in Int /\ u \in Int /\ n \in Int /\ bare \in Int /\ k = x + u
            /\ r.available = Less(x, n, sign) /\ r.uncovered = Less(u, -bare, sign)
            /\ QtyAt(to, b) = Less(k, n - bare, sign)
        BY <1>2, <1>3, <1>7, <2>1, <2>3, <3>2
      <4> HIDE DEF x, u, k, bare
      <4>1. CASE sign = 1
        BY ONLY <4>0, <4>1 DEF Less
      <4>2. CASE sign = -1
        BY ONLY <4>0, <4>2 DEF Less
      <4> QED
        BY <4>1, <4>2
    <3> QED
      BY <1>5, <1>8, <2>3, <3>1, <3>3
  <2> QED
    BY <2>2, <2>3
<1>14. Shelved(t)
  BY <1>9, <1>11, <1>12, <1>13 DEF Shelved
<1>15. Besides(s, t)
  BY <1>5, <1>7, <1>8 DEF Besides
<1> QED
  BY <1>2, <1>5, <1>7, <1>8, <1>10, <1>14, <1>15 DEF t

\* What is spent is a history.
LEMMA Spent ==
  ASSUME NEW s, Shelved(s), NEW rows, \A l \in DOMAIN s.layers : rows[l].value \in Nat
  PROVE  LET t == Spend(s, rows)
         IN  /\ Shelved(t) /\ Besides(s, t) /\ t.shelf = s.shelf
             /\ DOMAIN t.layers = DOMAIN s.layers /\ Len(t.layers) = Len(s.layers)
             /\ \A l \in DOMAIN s.layers :
                  /\ Alike(s.layers[l], t.layers[l]) /\ t.layers[l].qty = s.layers[l].qty
                  /\ t.layers[l].value = s.layers[l].value
                  /\ t.layers[l].spent = s.layers[l].spent + rows[l].value
<1> DEFINE t == Spend(s, rows)
           D == DOMAIN s.layers
           y(l) == [s.layers[l] EXCEPT !.spent = @ + rows[l].value]
           to == [l \in D |-> y(l)]
<1>1. /\ Typed(s) /\ D = 1..Len(s.layers) /\ Len(s.layers) \in Nat
      /\ \A l \in D : s.layers[l] \in Layer
  BY LayersFinite DEF Shelved
<1>2. /\ DOMAIN t = Columns /\ t.quantity = s.quantity /\ t.stockValue = s.stockValue
      /\ t.cost = s.cost /\ t.mayGoNegative = s.mayGoNegative /\ t.shelf = s.shelf
      /\ t.layers = to
  BY <1>1 DEF Spend, Typed, Columns
<1>3. ASSUME NEW l \in D
      PROVE  /\ to[l] \in Layer /\ Alike(s.layers[l], to[l]) /\ to[l].qty = s.layers[l].qty
             /\ to[l].value = s.layers[l].value
             /\ to[l].spent = s.layers[l].spent + rows[l].value
  <2> DEFINE v == s.layers[l].spent + rows[l].value
  <2>1. s.layers[l] \in Layer /\ v \in Nat
    BY <1>1 DEF Layer
  <2>2. to[l] = [s.layers[l] EXCEPT !.spent = v]
    OBVIOUS
  <2> HIDE DEF v, to
  <2> QED
    BY <2>1, <2>2 DEF Layer, Alike, v
<1>4. to \in Seq(Layer) /\ Len(to) = Len(s.layers) /\ DOMAIN to = D
  <2>1. to \in [1..Len(s.layers) -> Layer]
    BY <1>1, <1>3
  <2> HIDE DEF to
  <2> QED
    BY <1>1, <2>1
<1> HIDE DEF t, to
<1>5. \A c : At(to, c) = At(s.layers, c)
  BY <1>3, <1>4 DEF At, Alike
<1>6. ASSUME NEW c PROVE QtyAt(to, c) = QtyAt(s.layers, c)
  <2> DEFINE A == At(s.layers, c)
             f == [l \in A |-> s.layers[l].qty]
             h == [l \in A |-> to[l].qty]
  <2>1. QtyAt(to, c) = SumFunctionOnSet(h, A) /\ QtyAt(s.layers, c) = SumFunctionOnSet(f, A)
    BY <1>5 DEF QtyAt
  <2>2. h = f
    BY <1>3 DEF At
  <2> QED
    BY <2>1, <2>2
<1>7. Typed(t)
  BY <1>1, <1>2, <1>4 DEF Typed
<1>8. Shelved(t)
  BY <1>2, <1>3, <1>4, <1>6, <1>7 DEF Shelved
<1> QED
  BY <1>2, <1>3, <1>4, <1>8 DEF t, Besides

------------------------------------------------------------------------------
(* Drawing: the rows a draw takes are on the layers it draws                *)

LEMMA OldestFirst ==
  ASSUME NEW s, Typed(s), NEW b \in Branch
  PROVE  LET D == OpenAt(s, b)
             ahead == [l \in D |-> {k \in D : Older(s, k, l)}]
             have == [l \in D |-> s.layers[l].qty]
         IN  /\ IsFiniteSet(D) /\ D \in SUBSET (1..Len(s.layers))
             /\ have \in [D -> Nat] /\ Lined(D, ahead)
<1> DEFINE D == OpenAt(s, b)
           ahead == [l \in D |-> {k \in D : Older(s, k, l)}]
           have == [l \in D |-> s.layers[l].qty]
<1>1. /\ DOMAIN s.layers = 1..Len(s.layers) /\ Len(s.layers) \in Nat
      /\ IsFiniteSet(DOMAIN s.layers) /\ \A l \in DOMAIN s.layers : s.layers[l] \in Layer
  BY LayersFinite
<1>2. D \in SUBSET (1..Len(s.layers)) /\ IsFiniteSet(D)
  <2>1. D \in SUBSET (DOMAIN s.layers)
    BY DEF OpenAt
  <2> HIDE DEF D
  <2> QED
    BY <1>1, <2>1, FS_Subset
<1>3. \A l \in D : s.layers[l].qty \in Nat /\ s.layers[l].date \in Nat /\ l \in Nat
  BY <1>1, <1>2 DEF Layer
<1>4. have \in [D -> Nat]
  BY <1>3
<1> HIDE DEF D
<1>5. \A l \in D : ahead[l] \subseteq D \ {l}
  BY <1>3 DEF Older
<1>6. \A k, l \in D : k # l => k \in ahead[l] \/ l \in ahead[k]
  BY <1>3 DEF Older
<1>7. \A l \in D : \A k \in ahead[l] : ahead[k] \subseteq ahead[l]
  <2> SUFFICES ASSUME NEW l \in D, NEW k \in ahead[l], NEW j \in ahead[k]
               PROVE  j \in ahead[l]
    OBVIOUS
  <2>1. k \in D /\ j \in D /\ Older(s, k, l) /\ Older(s, j, k)
    OBVIOUS
  <2>2. Older(s, j, l)
    BY <1>3, <2>1 DEF Older
  <2> QED
    BY <2>1, <2>2
<1> QED
  BY <1>2, <1>4, <1>5, <1>6, <1>7 DEF Lined, D

LEMMA Drawn ==
  ASSUME NEW s, Shelved(s), NEW b \in Branch, NEW n \in Nat
  PROVE  LET rows == allocateAndConsume(s, b, n)
         IN  /\ Bookable(s, b, rows, 1) /\ QtyOf(rows) = n /\ rows[0].value = 0
             /\ \A l \in 0..Len(s.layers) : rows[l].qty = 0 => rows[l].value = 0
<1> DEFINE D == OpenAt(s, b)
           ahead == [l \in D |-> {k \in D : Older(s, k, l)}]
           have == [l \in D |-> s.layers[l].qty]
           part == Walk(have, ahead, n)
           rest == n - Total(LAMBDA l : part[l], DOMAIN part)
           rows == allocateAndConsume(s, b, n)
           E == 0..Len(s.layers)
           L == 1..Len(s.layers)
           Q == QtyColumn(rows)
<1>1. Typed(s) /\ Len(s.layers) \in Nat /\ \A l \in L : s.layers[l] \in Layer
  BY LayersFinite DEF Shelved
<1>2. IsFiniteSet(D) /\ D \in SUBSET L /\ have \in [D -> Nat] /\ Lined(D, ahead)
  BY <1>1, OldestFirst
<1>3. \A l \in D : have[l] = s.layers[l].qty
  OBVIOUS
<1>4. rows = [l \in E |->
                IF l = 0 THEN [qty |-> rest, value |-> 0]
                ELSE IF l \in DOMAIN part
                     THEN [qty |-> part[l], value |-> Worth(s.layers[l], part[l])]
                     ELSE [qty |-> 0, value |-> 0]]
  BY DEF allocateAndConsume
<1> HIDE DEF have, ahead, rows
<1>5. /\ part \in [D -> Nat] /\ \A l \in D : part[l] <= have[l]
      /\ SumFunctionOnSet(part, D) \in Nat /\ SumFunctionOnSet(part, D) <= n
  BY <1>2, WalkTakes
<1> HIDE DEF part
<1>6. rest = n - SumFunctionOnSet(part, D) /\ rest \in Nat
  <2> DEFINE g == [l \in DOMAIN part |-> part[l]]
  <2>1. Total(LAMBDA l : part[l], DOMAIN part) = SumFunctionOnSet(g, DOMAIN part)
    BY DEF Total
  <2>2. g = part /\ DOMAIN part = D
    BY <1>5
  <2> QED
    BY <1>5, <2>1, <2>2
<1> HIDE DEF rest, D
<1>7. rows[0].qty = rest /\ rows[0].value = 0 /\ DOMAIN rows = E /\ 0 \in E
  BY <1>1, <1>4
<1>8. ASSUME NEW l \in L
      PROVE  /\ l \in E /\ rows[l].qty \in Nat /\ rows[l].value \in Nat
             /\ rows[l].qty = IF l \in D THEN part[l] ELSE 0
             /\ rows[l].qty > 0 => s.layers[l].branch = b
             /\ rows[l].qty <= s.layers[l].qty /\ rows[l].value <= s.layers[l].value
             /\ rows[l].qty = s.layers[l].qty => rows[l].value = s.layers[l].value
             /\ rows[l].qty = 0 => rows[l].value = 0
  <2>0. l \in E /\ l # 0 /\ DOMAIN part = D
    BY <1>5
  <2>1. /\ s.layers[l].qty \in Nat /\ s.layers[l].value \in Nat
        /\ s.layers[l].qty = 0 => s.layers[l].value = 0
    <3>1. l \in DOMAIN s.layers
      BY <1>1, LayersFinite
    <3> QED
      BY <1>1, <3>1 DEF Shelved, Layer
  <2>2. CASE l \in D
    <3>1. rows[l].qty = part[l] /\ rows[l].value = Worth(s.layers[l], part[l])
      BY <1>4, <2>0, <2>2
    <3>2. part[l] \in Nat /\ part[l] <= s.layers[l].qty
      BY <1>3, <1>5, <2>2
    <3>3. /\ Worth(s.layers[l], part[l]) \in Nat
          /\ Worth(s.layers[l], part[l]) <= s.layers[l].value
          /\ part[l] = s.layers[l].qty => Worth(s.layers[l], part[l]) = s.layers[l].value
          /\ part[l] = 0 => Worth(s.layers[l], part[l]) = 0
      BY <2>1, <3>2, WorthIs
    <3>4. s.layers[l].branch = b
      BY <2>2 DEF D, OpenAt
    <3> QED
      BY <2>0, <2>2, <3>1, <3>2, <3>3, <3>4
  <2>3. CASE l \notin D
    <3>1. rows[l].qty = 0 /\ rows[l].value = 0
      BY <1>4, <2>0, <2>3
    <3>2. s.layers[l].branch = b => s.layers[l].qty = 0
      <4>1. l \in DOMAIN s.layers
        BY <1>1, LayersFinite
      <4> QED
        BY <2>1, <2>3, <4>1 DEF D, OpenAt
    <3>3. s.layers[l].qty = 0 => s.layers[l].value = 0
      BY <2>1
    <3> QED
      BY <2>0, <2>1, <2>3, <3>1, <3>3
  <2> QED
    BY <2>2, <2>3
<1>9. Bookable(s, b, rows, 1)
  <2>1. \A l \in E : l = 0 \/ l \in L
    BY <1>1
  <2>2. \A l \in E : rows[l].qty \in Nat /\ rows[l].value \in Nat
    BY <1>6, <1>7, <1>8, <2>1
  <2>3. ASSUME NEW l \in L
        PROVE  /\ Less(s.layers[l].qty, rows[l].qty, 1) \in Nat
               /\ Less(s.layers[l].value, rows[l].value, 1) \in Nat
               /\ Less(s.layers[l].qty, rows[l].qty, 1) = 0
                   => Less(s.layers[l].value, rows[l].value, 1) = 0
    <3>1. s.layers[l].qty \in Nat /\ s.layers[l].value \in Nat
      BY <1>1 DEF Layer
    <3> QED
      BY <1>8, <3>1 DEF Less
  <2>4. Less(s.shelf[b].uncovered, -rows[0].qty, 1) >= 0
    <3>1. s.shelf[b].uncovered \in Int /\ s.shelf[b].uncovered >= 0
      BY <1>1 DEF Shelved, Typed, Shelf
    <3> QED
      BY <1>6, <1>7, <3>1 DEF Less
  <2> QED
    BY <1>7, <1>8, <2>2, <2>3, <2>4 DEF Bookable
<1>10. QtyOf(rows) = n
  <2>1. IsFiniteSet(E) /\ IsFiniteSet(L) /\ E \ {0} = L
    <3>1. IsFiniteSet(E)
      BY <1>1, FS_Interval
    <3>2. IsFiniteSet(L)
      BY <1>1, FS_Interval
    <3>3. E \ {0} = L
      BY <1>1
    <3> QED
      BY <3>1, <3>2, <3>3
  <2>2. QtyOf(rows) = SumFunctionOnSet(Q, E)
    BY <1>7 DEF QtyOf, Total, QtyColumn
  <2>3. \A l \in E : Q[l] = rows[l].qty /\ Q[l] \in Int
    <3>1. \A l \in E : rows[l].qty \in Nat
      BY <1>9 DEF Bookable
    <3> QED
      BY <1>7, <3>1 DEF QtyColumn
  <2> HIDE DEF Q, E
  <2>4. SumFunctionOnSet(Q, E) = Q[0] + SumFunctionOnSet(Q, E \ {0})
    BY <1>7, <2>1, <2>3, SumTake
  <2>5. SumFunctionOnSet(Q, E \ {0}) = SumFunctionOnSet(Q, L)
    BY <2>1, Zenon
  <2> HIDE DEF L
  <2>6. \A l \in L : Q[l] \in Int /\ Q[l] = IF l \in D THEN part[l] ELSE 0
    BY <1>8, <2>3
  <2>7. SumFunctionOnSet(Q, L) = SumFunctionOnSet(Q, D)
    <3>1. \A l \in L \ D : Q[l] = 0
      BY <2>6
    <3>2. \A l \in L : Q[l] \in Int
      BY <2>6
    <3> QED
      BY <1>2, <2>1, <3>1, <3>2, SumWithin
  <2>8. SumFunctionOnSet(Q, D) = SumFunctionOnSet(part, D)
    <3>1. \A l \in D : Q[l] = part[l]
      BY <1>2, <2>6
    <3> QED
      BY <1>2, <3>1, SumSame
  <2> QED
    BY <1>5, <1>6, <1>7, <2>2, <2>3, <2>4, <2>5, <2>7, <2>8
<1>11. \A l \in E : rows[l].qty = 0 => rows[l].value = 0
  <2>1. \A l \in E : l = 0 \/ l \in L
    BY <1>1
  <2> QED
    BY <1>7, <1>8, <2>1
<1> QED
  BY <1>7, <1>9, <1>10, <1>11 DEF rows

\* The books stay sound, and what was paid for a layer is still accounted for.
Grown(s, t) ==
  /\ Sound(t) /\ Len(s.layers) <= Len(t.layers)
  /\ \A l \in 1..Len(s.layers) :
       /\ t.layers[l].branch = s.layers[l].branch
       /\ t.layers[l].received = s.layers[l].received
       /\ t.layers[l].value + t.layers[l].spent = s.layers[l].value + s.layers[l].spent
  /\ \A l \in 1..Len(t.layers) : l > Len(s.layers) =>
       t.layers[l].received = t.layers[l].value + t.layers[l].spent
  /\ \A c \in Branch : t.shelf[c].uncovered >= s.shelf[c].uncovered

Carried(s, t) == Grown(s, t) /\ Besides(s, t)

LEMMA IssueIs ==
  ASSUME NEW s, Sound(s), NEW b \in Branch, NEW n \in Nat
  PROVE  Carried(s, Issue(s, b, n)) /\ Len(Issue(s, b, n).layers) = Len(s.layers)
<1> DEFINE rows == allocateAndConsume(s, b, n)
           u == Book(s, b, rows, 1)
           v == Spend(u, rows)
           t == Tally(v)
<1>1. /\ Shelved(s) /\ Typed(s) /\ DOMAIN s.layers = 1..Len(s.layers) /\ Len(s.layers) \in Nat
      /\ \A l \in DOMAIN s.layers : s.layers[l] \in Layer
  BY LayersFinite DEF Sound, Shelved
<1>2. Bookable(s, b, rows, 1) /\ rows[0].qty \in Nat
  <2>1. Bookable(s, b, rows, 1)
    BY <1>1, Drawn
  <2> HIDE DEF rows
  <2> QED
    BY <1>1, <2>1 DEF Bookable
<1>3. Issue(s, b, n) = t
  BY DEF Issue
<1> HIDE DEF rows
<1>4. /\ Shelved(u) /\ Besides(s, u)
      /\ DOMAIN u.layers = DOMAIN s.layers /\ Len(u.layers) = Len(s.layers)
      /\ \A l \in DOMAIN s.layers :
           /\ Alike(s.layers[l], u.layers[l]) /\ u.layers[l].spent = s.layers[l].spent
           /\ u.layers[l].value = Less(s.layers[l].value, rows[l].value, 1)
      /\ u.shelf[b].uncovered = Less(s.shelf[b].uncovered, -rows[0].qty, 1)
      /\ \A c \in Branch \ {b} : u.shelf[c].uncovered = s.shelf[c].uncovered
  <2> HIDE DEF u
  <2> QED
    BY <1>1, <1>2, Booked DEF u
<1> HIDE DEF u
<1>5. \A l \in DOMAIN u.layers : rows[l].value \in Nat
  BY <1>1, <1>2, <1>4 DEF Bookable
<1>6. /\ Shelved(v) /\ Besides(u, v) /\ v.shelf = u.shelf
      /\ DOMAIN v.layers = DOMAIN u.layers /\ Len(v.layers) = Len(u.layers)
      /\ \A l \in DOMAIN u.layers :
           /\ Alike(u.layers[l], v.layers[l]) /\ v.layers[l].value = u.layers[l].value
           /\ v.layers[l].spent = u.layers[l].spent + rows[l].value
  <2> HIDE DEF v
  <2> QED
    BY <1>4, <1>5, Spent DEF v
<1> HIDE DEF v
<1>7. Sound(t) /\ Besides(v, t) /\ t.layers = v.layers /\ t.shelf = v.shelf
  BY <1>6, Tallied
<1> HIDE DEF t
<1>8. ASSUME NEW l \in DOMAIN s.layers
      PROVE  /\ t.layers[l].branch = s.layers[l].branch
             /\ t.layers[l].received = s.layers[l].received
             /\ t.layers[l].value + t.layers[l].spent = s.layers[l].value + s.layers[l].spent
  <2>1. /\ s.layers[l].value \in Nat /\ s.layers[l].spent \in Nat /\ rows[l].value \in Nat
    BY <1>1, <1>4, <1>5 DEF Layer
  <2> QED
    BY <1>4, <1>6, <1>7, <2>1 DEF Alike, Less
<1>9. \A c \in Branch : t.shelf[c].uncovered >= s.shelf[c].uncovered
  <2> SUFFICES ASSUME NEW c \in Branch PROVE t.shelf[c].uncovered >= s.shelf[c].uncovered
    OBVIOUS
  <2>1. s.shelf[c].uncovered \in Int
    BY <1>1 DEF Typed, Shelf
  <2>2. t.shelf[c].uncovered = u.shelf[c].uncovered
    BY <1>6, <1>7
  <2>3. u.shelf[b].uncovered = s.shelf[b].uncovered + rows[0].qty
    <3>1. s.shelf[b].uncovered \in Int
      BY <1>1 DEF Typed, Shelf
    <3> QED
      BY <1>2, <1>4, <3>1 DEF Less
  <2>4. CASE c = b
    BY <1>2, <2>1, <2>2, <2>3, <2>4
  <2>5. CASE c # b
    BY <1>4, <2>1, <2>2, <2>5
  <2> QED
    BY <2>4, <2>5
<1>10. Besides(s, t)
  BY <1>4, <1>6, <1>7 DEF Besides
<1>11. Len(t.layers) = Len(s.layers)
  BY <1>4, <1>6, <1>7
<1> QED
  BY <1>1, <1>3, <1>7, <1>8, <1>9, <1>10, <1>11 DEF Carried, Grown

------------------------------------------------------------------------------
(* Receiving: layers behind those there are                                 *)

\* What may be received as layers of n.
Specs(specs, n) ==
  /\ specs \in Seq(ManifestRow)
  /\ \A i \in DOMAIN specs : specs[i].qty = 0 => specs[i].value = 0
  /\ SumFunctionOnSet([i \in DOMAIN specs |-> specs[i].qty], DOMAIN specs) = n

NewLayer(b, spec) ==
  [branch |-> b, qty |-> spec.qty, value |-> spec.value, date |-> spec.date,
   received |-> spec.value, spent |-> 0]
NewLayers(b, specs) == [i \in DOMAIN specs |-> NewLayer(b, specs[i])]

LEMMA LayersAdded ==
  ASSUME NEW old \in Seq(Layer), NEW b \in Branch, NEW specs, NEW n \in Nat, Specs(specs, n)
  PROVE  LET all == old \o NewLayers(b, specs)
         IN  /\ all \in Seq(Layer) /\ Len(all) = Len(old) + Len(specs)
             /\ DOMAIN old \subseteq DOMAIN all
             /\ \A l \in DOMAIN old : all[l] = old[l]
             /\ \A l \in DOMAIN all \ DOMAIN old :
                  /\ l \in Nat /\ l > Len(old) /\ all[l].branch = b
                  /\ all[l].received = all[l].value /\ all[l].spent = 0
                  /\ all[l].qty = 0 => all[l].value = 0
             /\ QtyAt(all, b) = QtyAt(old, b) + n
             /\ \A c \in Branch \ {b} : QtyAt(all, c) = QtyAt(old, c)
<1> DEFINE new == NewLayers(b, specs)
           all == old \o new
           k == Len(old)
           m == Len(specs)
           I == DOMAIN specs
           D == DOMAIN old
           N == DOMAIN all \ D
<1>1. k \in Nat /\ m \in Nat /\ D = 1..k /\ I = 1..m /\ \A i \in I : specs[i] \in ManifestRow
  BY DEF Specs
<1>2. \A i \in I : new[i] = NewLayer(b, specs[i]) /\ new[i] \in Layer
  <2> SUFFICES ASSUME NEW i \in I PROVE new[i] = NewLayer(b, specs[i]) /\ new[i] \in Layer
    OBVIOUS
  <2>1. new[i] = NewLayer(b, specs[i])
    BY DEF NewLayers
  <2>2. NewLayer(b, specs[i]) \in Layer
    BY <1>1 DEF NewLayer, Layer, ManifestRow
  <2> QED
    BY <2>1, <2>2
<1>3. new \in Seq(Layer) /\ Len(new) = m
  <2>1. new \in [1..m -> Layer]
    BY <1>1, <1>2 DEF NewLayers
  <2> HIDE DEF new
  <2> QED
    BY <1>1, <2>1
<1> HIDE DEF new
<1>4. /\ all \in Seq(Layer) /\ Len(all) = k + m /\ DOMAIN all = 1..(k + m)
      /\ \A l \in D : all[l] = old[l]
      /\ \A i \in I : all[k + i] = new[i]
  <2>1. all \in Seq(Layer) /\ Len(all) = k + m
    BY <1>3
  <2>2. DOMAIN all = 1..(k + m)
    BY <2>1
  <2>3. \A l \in D : all[l] = old[l]
    BY <1>1, <1>3
  <2>4. \A i \in I : all[k + i] = new[i]
    BY <1>1, <1>3
  <2> QED
    BY <2>1, <2>2, <2>3, <2>4
<1> HIDE DEF all
<1>5. D \subseteq DOMAIN all
  BY <1>1, <1>4
<1> DEFINE r == [i \in I |-> k + i]
<1>6. N = {r[i] : i \in I}
  <2>1. N \subseteq {r[i] : i \in I}
    <3> SUFFICES ASSUME NEW l \in N PROVE \E i \in I : l = r[i]
      OBVIOUS
    <3>1. l \in Nat /\ l > k /\ l <= k + m
      BY <1>1, <1>4
    <3>2. l - k \in I /\ r[l - k] = l
      BY <1>1, <3>1
    <3> QED
      BY <3>2
  <2>2. {r[i] : i \in I} \subseteq N
    BY <1>1, <1>4
  <2> QED
    BY <2>1, <2>2
<1>7. ASSUME NEW l \in N
      PROVE  /\ l \in Nat /\ l > k /\ all[l].branch = b
             /\ all[l].received = all[l].value /\ all[l].spent = 0
             /\ all[l].qty = 0 => all[l].value = 0
  <2>1. PICK i \in I : l = k + i
    BY <1>6
  <2>2. all[l] = NewLayer(b, specs[i])
    BY <1>2, <1>4, <2>1
  <2>3. specs[i].qty = 0 => specs[i].value = 0
    BY DEF Specs
  <2> QED
    BY <1>1, <2>1, <2>2, <2>3 DEF NewLayer
<1>8. IsFiniteSet(I) /\ IsFiniteSet(D) /\ IsFiniteSet(DOMAIN all) /\ IsFiniteSet(N)
  <2>1. IsFiniteSet(I)
    BY <1>1, FS_Interval
  <2>2. IsFiniteSet(D)
    BY <1>1, FS_Interval
  <2>3. IsFiniteSet(DOMAIN all)
    <3>1. k + m \in Int
      BY <1>1
    <3>2. IsFiniteSet(1..(k + m))
      BY <3>1, FS_Interval
    <3> QED
      BY <1>4, <3>2
  <2> QED
    BY <2>1, <2>2, <2>3, FS_Subset
<1> DEFINE q == [l \in DOMAIN all |-> all[l].qty]
           g == [i \in I |-> specs[i].qty]
<1>9. \A l \in DOMAIN all : q[l] = all[l].qty /\ q[l] \in Nat
  <2>1. \A l \in DOMAIN all : all[l] \in Layer
    BY <1>4
  <2> QED
    BY <2>1 DEF Layer
<1>10. SumFunctionOnSet(q, N) = n
  <2>1. \A i \in I : g[i] \in Int /\ q[r[i]] = g[i]
    <3> SUFFICES ASSUME NEW i \in I PROVE g[i] \in Int /\ q[r[i]] = g[i]
      OBVIOUS
    <3>1. r[i] = k + i /\ k + i \in DOMAIN all /\ g[i] = specs[i].qty
      BY <1>1, <1>4
    <3>2. all[k + i] = NewLayer(b, specs[i])
      BY <1>2, <1>4
    <3>3. q[k + i] = specs[i].qty
      BY <3>1, <3>2 DEF NewLayer
    <3> QED
      BY <1>1, <3>1, <3>3 DEF ManifestRow
  <2>2. \A i, j \in I : r[i] = r[j] => i = j
    BY <1>1
  <2>3. SumFunctionOnSet(g, I) = n
    BY DEF Specs
  <2> HIDE DEF q, g, r, I, N
  <2>4. SumFunctionOnSet(q, {r[i] : i \in I}) = SumFunctionOnSet(g, I)
    BY ONLY <1>8, <2>1, <2>2, SumAlong
  <2>5. SumFunctionOnSet(q, N) = SumFunctionOnSet(q, {r[i] : i \in I})
    BY <1>6, Zenon
  <2> QED
    BY <2>3, <2>4, <2>5
<1>11. ASSUME NEW c
       PROVE  /\ QtyAt(old, c) = SumFunctionOnSet(q, At(old, c))
              /\ QtyAt(all, c) = SumFunctionOnSet(q, At(all, c))
              /\ IsFiniteSet(At(old, c)) /\ At(old, c) \subseteq D
  <2>1. IsFiniteSet(At(old, c)) /\ At(old, c) \in SUBSET D
    BY QtyAtTyped
  <2>2. IsFiniteSet(At(all, c)) /\ At(all, c) \in SUBSET DOMAIN all
    BY <1>4, QtyAtTyped
  <2> DEFINE f == [l \in At(old, c) |-> old[l].qty]
             h == [l \in At(all, c) |-> all[l].qty]
  <2>3. \A l \in At(old, c) : f[l] = q[l]
    BY <1>4, <1>5, <2>1
  <2>4. \A l \in At(all, c) : h[l] = q[l]
    BY <2>2
  <2>5. QtyAt(old, c) = SumFunctionOnSet(f, At(old, c)) /\ QtyAt(all, c) = SumFunctionOnSet(h, At(all, c))
    BY DEF QtyAt
  <2> HIDE DEF f, h, q
  <2>6. SumFunctionOnSet(f, At(old, c)) = SumFunctionOnSet(q, At(old, c))
    BY ONLY <2>1, <2>3, SumSame
  <2>7. SumFunctionOnSet(h, At(all, c)) = SumFunctionOnSet(q, At(all, c))
    BY ONLY <2>2, <2>4, SumSame
  <2> QED
    BY <2>1, <2>5, <2>6, <2>7
<1> HIDE DEF q
<1>12. At(all, b) = At(old, b) \cup N
  <2>1. At(all, b) \subseteq At(old, b) \cup N
    BY <1>4 DEF At
  <2>2. At(old, b) \cup N \subseteq At(all, b)
    BY <1>4, <1>5, <1>7 DEF At
  <2> QED
    BY <2>1, <2>2
<1>13. QtyAt(all, b) = QtyAt(old, b) + n
  <2> DEFINE A == At(old, b)
  <2>1. A \cap N = {} /\ IsFiniteSet(A)
    BY <1>11
  <2>2. \A l \in A \cup N : q[l] \in Int
    BY <1>5, <1>9, <1>11
  <2> HIDE DEF A, N
  <2>3. SumFunctionOnSet(q, A \cup N) = SumFunctionOnSet(q, A) + SumFunctionOnSet(q, N)
    BY ONLY <1>8, <2>1, <2>2, SumUnion
  <2>4. SumFunctionOnSet(q, At(all, b)) = SumFunctionOnSet(q, A \cup N)
    BY <1>12, Zenon DEF A
  <2> QED
    BY <1>10, <1>11, <2>3, <2>4 DEF A
<1>14. ASSUME NEW c \in Branch \ {b} PROVE QtyAt(all, c) = QtyAt(old, c)
  <2>1. At(all, c) \subseteq At(old, c)
    BY <1>4, <1>7, <1>14 DEF At
  <2>2. At(old, c) \subseteq At(all, c)
    BY <1>4, <1>5 DEF At
  <2>3. At(all, c) = At(old, c)
    BY <2>1, <2>2
  <2>4. SumFunctionOnSet(q, At(all, c)) = SumFunctionOnSet(q, At(old, c))
    BY <2>3, Zenon
  <2> QED
    BY <1>11, <2>4
<1> QED
  BY <1>4, <1>5, <1>7, <1>13, <1>14 DEF all, new

LEMMA Received ==
  ASSUME NEW s, Sound(s), NEW b \in Branch, NEW n \in Nat, NEW specs, Specs(specs, n)
  PROVE  LET t == Receive(s, b, n, specs)
         IN  Carried(s, t) /\ Len(t.layers) = Len(s.layers) + Len(specs)
<1> DEFINE all == s.layers \o NewLayers(b, specs)
           x == s.shelf[b].available + n
           r == [s.shelf[b] EXCEPT !.available = x]
           u == [createLayers(s, b, specs) EXCEPT !.quantity = @ + n, !.shelf[b].available = @ + n]
           t == Tally(u)
<1>1. /\ Typed(s) /\ DOMAIN s.layers = 1..Len(s.layers) /\ Len(s.layers) \in Nat
      /\ \A l \in DOMAIN s.layers : s.layers[l] \in Layer
  BY LayersFinite DEF Sound, Shelved
<1>2. /\ s.layers \in Seq(Layer) /\ s.shelf \in [Branch -> Shelf] /\ s.shelf[b] \in Shelf
      /\ DOMAIN s = Columns
  BY <1>1 DEF Typed
<1>3. /\ all \in Seq(Layer) /\ Len(all) = Len(s.layers) + Len(specs)
      /\ DOMAIN s.layers \subseteq DOMAIN all
      /\ \A l \in DOMAIN s.layers : all[l] = s.layers[l]
      /\ \A l \in DOMAIN all \ DOMAIN s.layers :
           /\ l \in Nat /\ l > Len(s.layers) /\ all[l].branch = b
           /\ all[l].received = all[l].value /\ all[l].spent = 0
           /\ all[l].qty = 0 => all[l].value = 0
      /\ QtyAt(all, b) = QtyAt(s.layers, b) + n
      /\ \A c \in Branch \ {b} : QtyAt(all, c) = QtyAt(s.layers, c)
  BY <1>2, LayersAdded
<1>4. Receive(s, b, n, specs) = t
  BY DEF Receive
<1>5. /\ DOMAIN u = Columns /\ u.quantity = s.quantity + n
      /\ u.stockValue = s.stockValue /\ u.cost = s.cost /\ u.mayGoNegative = s.mayGoNegative
      /\ u.shelf = [s.shelf EXCEPT ![b] = r] /\ u.layers = all
  BY <1>2 DEF createLayers, Columns, NewLayers, NewLayer
<1>6. /\ x \in Int /\ r \in Shelf /\ r.available = x /\ r.uncovered = s.shelf[b].uncovered
      /\ r.reserved = s.shelf[b].reserved /\ r.inTransit = s.shelf[b].inTransit
      /\ s.shelf[b].available \in Int
  <2>1. x \in Int /\ s.shelf[b].available \in Int
    BY <1>2 DEF Shelf
  <2> HIDE DEF x
  <2> QED
    BY <1>2, <2>1 DEF Shelf
<1> HIDE DEF u, all, r
<1>7. /\ u.shelf \in [Branch -> Shelf] /\ u.shelf[b] = r
      /\ \A c \in Branch \ {b} : u.shelf[c] = s.shelf[c]
      /\ OnShelves(u.shelf) = OnShelves(s.shelf) + (r.available - s.shelf[b].available)
      /\ OnShelves(s.shelf) \in Int
  BY <1>2, <1>5, <1>6, ShelfMoved
<1>8. u.quantity = OnShelves(u.shelf) /\ u.quantity \in Int
  <2>1. s.quantity = OnShelves(s.shelf)
    BY DEF Sound, Shelved
  <2> QED
    BY <1>5, <1>6, <1>7, <2>1
<1>9. Typed(u)
  BY <1>1, <1>3, <1>5, <1>7, <1>8 DEF Typed
<1>10. \A l \in DOMAIN u.layers : u.layers[l].qty = 0 => u.layers[l].value = 0
  BY <1>3, <1>5 DEF Sound, Shelved
<1>11. ASSUME NEW c \in Branch
       PROVE  /\ QtyAt(u.layers, c) = u.shelf[c].available + u.shelf[c].uncovered
              /\ u.shelf[c].uncovered >= 0
  <2>1. /\ QtyAt(s.layers, c) = s.shelf[c].available + s.shelf[c].uncovered
        /\ s.shelf[c].uncovered >= 0 /\ s.shelf[c].available \in Int
        /\ s.shelf[c].uncovered \in Int
    BY <1>2 DEF Sound, Shelved, Shelf
  <2>2. CASE c # b
    BY <1>3, <1>5, <1>7, <2>1, <2>2
  <2>3. CASE c = b
    BY <1>3, <1>5, <1>6, <1>7, <2>1, <2>3
  <2> QED
    BY <2>2, <2>3
<1>12. Shelved(u)
  BY <1>8, <1>9, <1>10, <1>11 DEF Shelved
<1>13. Sound(t) /\ Besides(u, t) /\ t.layers = u.layers /\ t.shelf = u.shelf
  BY <1>12, Tallied
<1> HIDE DEF t
<1>14. Besides(s, t)
  BY <1>5, <1>6, <1>7, <1>13 DEF Besides
<1>15. \A c \in Branch : t.shelf[c].uncovered >= s.shelf[c].uncovered
  <2> SUFFICES ASSUME NEW c \in Branch PROVE t.shelf[c].uncovered >= s.shelf[c].uncovered
    OBVIOUS
  <2>1. t.shelf[c].uncovered = s.shelf[c].uncovered
    BY <1>6, <1>7, <1>13
  <2>2. s.shelf[c].uncovered \in Int
    BY <1>2 DEF Shelf
  <2> QED
    BY <2>1, <2>2
<1>16. Len(specs) \in Nat
  BY DEF Specs
<1>17. ASSUME NEW l \in 1..Len(t.layers), l > Len(s.layers)
       PROVE  t.layers[l].received = t.layers[l].value + t.layers[l].spent
  <2>1. l \in DOMAIN all \ DOMAIN s.layers
    BY <1>1, <1>3, <1>5, <1>13, <1>17
  <2>2. all[l].value \in Nat
    <3>1. all[l] \in Layer
      BY <1>3, <2>1
    <3> QED
      BY <3>1 DEF Layer
  <2>3. t.layers[l] = all[l]
    BY <1>5, <1>13
  <2>4. all[l].received = all[l].value /\ all[l].spent = 0
    BY <1>3, <2>1
  <2> QED
    BY <2>2, <2>3, <2>4
<1> QED
  BY <1>1, <1>3, <1>4, <1>5, <1>13, <1>14, <1>15, <1>16, <1>17 DEF Carried, Grown

\* One layer, at a price.
LEMMA PricedIs ==
  ASSUME NEW s, Sound(s), NEW n \in Nat \ {0}, NEW value \in Nat
  PROVE  Specs(Priced(s, n, value), n) /\ Len(Priced(s, n, value)) = 1
<1> DEFINE p == Priced(s, n, value)
           d == Now(s)
           g == [i \in DOMAIN p |-> p[i].qty]
<1>1. d \in Nat
  BY LayersFinite DEF Now, Sound, Shelved
<1>2. p = <<[qty |-> n, value |-> value, date |-> d]>>
  BY DEF Priced
<1> HIDE DEF p, d
<1>3. p \in Seq(ManifestRow) /\ DOMAIN p = {1} /\ p[1].qty = n /\ Len(p) = 1
  BY <1>1, <1>2 DEF ManifestRow
<1>4. SumFunctionOnSet(g, {1}) = n
  <2>1. g[1] = n /\ g[1] \in Int
    BY <1>3
  <2> HIDE DEF g
  <2>2. SumFunctionOnSet(g, {1}) = g[1] + SumFunctionOnSet(g, {1} \ {1})
    <3>1. IsFiniteSet({1})
      BY FS_Singleton
    <3> QED
      BY <2>1, <3>1, SumTake
  <2>3. {1} \ {1} = {}
    OBVIOUS
  <2>4. SumFunctionOnSet(g, {1} \ {1}) = SumFunctionOnSet(g, {})
    BY <2>3, Zenon
  <2> QED
    BY <2>1, <2>2, <2>4, SumOfNone
<1>5. SumFunctionOnSet(g, DOMAIN p) = n
  BY <1>3, <1>4, Zenon
<1> QED
  BY <1>3, <1>5 DEF Specs, p

LEMMA OpeningSound ==
  ASSUME NEW negative \in BOOLEAN
  PROVE  LET s == OpeningBooks(negative)
         IN  /\ Sound(s) /\ s.layers = Opening /\ s.mayGoNegative = negative
             /\ \A b \in Branch : /\ s.shelf[b].reserved = 0 /\ s.shelf[b].inTransit = 0
                                  /\ s.shelf[b].uncovered = 0
<1> DEFINE y(b) == [available |-> HeldAt(b), reserved |-> 0, inTransit |-> 0, uncovered |-> 0]
           held == [b \in Branch |-> HeldAt(b)]
           shelf == [b \in Branch |-> y(b)]
           u == [quantity |-> SumFunctionOnSet(held, Branch), stockValue |-> 0, cost |-> 0,
                 mayGoNegative |-> negative, shelf |-> shelf, layers |-> Opening]
           s == OpeningBooks(negative)
<1>1. Opening \in Seq(Layer)
  BY OpeningIsWhole
<1>2. \A b : HeldAt(b) = QtyAt(Opening, b) /\ HeldAt(b) \in Nat
  <2>1. \A b : QtyAt(Opening, b) \in Nat
    BY <1>1, QtyAtTyped
  <2>2. \A b : HeldAt(b) = QtyAt(Opening, b)
    BY DEF HeldAt, QtyAt, At, Total
  <2> QED
    BY <2>1, <2>2
<1>3. Total(HeldAt, Branch) = SumFunctionOnSet(held, Branch)
  BY DEF Total
<1>4. s = Tally(u)
  BY <1>3 DEF OpeningBooks
<1>5. /\ shelf \in [Branch -> Shelf]
      /\ \A b \in Branch : /\ shelf[b].available = HeldAt(b) /\ shelf[b].reserved = 0
                           /\ shelf[b].inTransit = 0 /\ shelf[b].uncovered = 0
  <2>1. \A b \in Branch : y(b) \in Shelf
    BY <1>2 DEF Shelf
  <2> QED
    BY <2>1
<1> HIDE DEF shelf
<1>6. /\ DOMAIN u = Columns /\ u.quantity = SumFunctionOnSet(held, Branch) /\ u.stockValue = 0
      /\ u.cost = 0 /\ u.mayGoNegative = negative /\ u.shelf = shelf /\ u.layers = Opening
  BY DEF Columns
<1> HIDE DEF u
<1>7. u.quantity = OnShelves(u.shelf) /\ u.quantity \in Int
  <2> DEFINE f == [b \in Branch |-> shelf[b].available]
  <2>1. \A b \in Branch : held[b] = f[b] /\ held[b] \in Int
    BY <1>2, <1>5
  <2>2. OnShelves(shelf) = SumFunctionOnSet(f, Branch)
    BY DEF OnShelves
  <2> HIDE DEF f, held
  <2>3. SumFunctionOnSet(held, Branch) = SumFunctionOnSet(f, Branch)
    BY <2>1, BranchesAreFinite, SumSame
  <2>4. SumFunctionOnSet(held, Branch) \in Int
    BY <2>1, BranchesAreFinite, SumTyped
  <2> QED
    BY <1>6, <2>2, <2>3, <2>4
<1>8. Typed(u)
  BY <1>1, <1>5, <1>6, <1>7 DEF Typed
<1>9. \A l \in DOMAIN u.layers : u.layers[l].qty = 0 => u.layers[l].value = 0
  BY <1>6, OpeningIsWhole
<1>10. \A b \in Branch : /\ QtyAt(u.layers, b) = u.shelf[b].available + u.shelf[b].uncovered
                         /\ u.shelf[b].uncovered >= 0
  BY <1>2, <1>5, <1>6
<1>11. Shelved(u)
  BY <1>7, <1>8, <1>9, <1>10 DEF Shelved
<1>12. Sound(s) /\ Besides(u, s) /\ s.layers = u.layers /\ s.shelf = u.shelf
  BY <1>4, <1>11, Tallied
<1> HIDE DEF s
<1> QED
  BY <1>5, <1>6, <1>12 DEF Besides, s

\* The definition is of columns, the property of books.
LEMMA SoundTies ==
  ASSUME Sound(books), Len(books.layers) <= MaxLayers
  PROVE  BooksType(books) /\ BooksTie
<1>1. /\ Typed(books) /\ \A l \in DOMAIN books.layers : books.layers[l] \in Layer
  BY LayersFinite DEF Sound, Shelved
<1>2. BooksType(books)
  BY <1>1 DEF BooksType, Typed, Columns
<1>3. books.quantity = Total(LAMBDA b : books.shelf[b].available, Branch)
  BY DEF Sound, Shelved, OnShelves, Total
<1>4. books.stockValue = Total(LAMBDA l : books.layers[l].value, DOMAIN books.layers)
  BY DEF Sound, Valued, ValueIn, Total
<1>5. \A b \in Branch : LayersAt(books, b) = QtyAt(books.layers, b)
  BY DEF LayersAt, QtyAt, At, Total
<1>6. \A b \in Branch : /\ LayersAt(books, b) = books.shelf[b].available + books.shelf[b].uncovered
                        /\ books.shelf[b].uncovered >= 0
  BY <1>5 DEF Sound, Shelved
<1> QED
  BY <1>2, <1>3, <1>4, <1>6 DEF BooksTie

------------------------------------------------------------------------------
(* Bills and the books: what a bill has out is on record, layer by layer    *)

OutRow == [qty: Nat, value: Nat, turn: Nat]
OutRows == [0..MaxLayers -> OutRow]

LEMMA LatestTurn ==
  ASSUME NEW rows \in OutRows
  PROVE  1 + Max({rows[l].turn : l \in DOMAIN rows}) \in Nat
<1> DEFINE D == 0..MaxLayers
           T == {rows[l].turn : l \in DOMAIN rows}
           ahead == [l \in D |-> {k \in D : \/ rows[k].turn < rows[l].turn
                                            \/ rows[k].turn = rows[l].turn /\ k < l}]
<1>1. MaxLayers \in Nat /\ IsFiniteSet(D) /\ 0 \in D /\ DOMAIN rows = D /\ \A l \in D : l \in Int
  <2>1. MaxLayers \in Nat /\ DOMAIN rows = D
    BY OpeningIsWhole DEF OutRows
  <2>2. IsFiniteSet(D)
    BY <2>1, FS_Interval
  <2> QED
    BY <2>1, <2>2
<1>2. \A l \in D : rows[l].turn \in Nat
  BY DEF OutRows, OutRow
<1>3. Lined(D, ahead)
  <2> HIDE DEF D
  <2>1. \A l \in D : ahead[l] \subseteq D \ {l}
    BY <1>1, <1>2
  <2>2. \A k, l \in D : k # l => k \in ahead[l] \/ l \in ahead[k]
    BY <1>1, <1>2
  <2>3. \A l \in D : \A k \in ahead[l] : ahead[k] \subseteq ahead[l]
    <3> SUFFICES ASSUME NEW l \in D, NEW k \in ahead[l], NEW j \in ahead[k]
                 PROVE  j \in ahead[l]
      OBVIOUS
    <3> QED
      BY <1>1, <1>2
  <2> QED
    BY <2>1, <2>2, <2>3 DEF Lined
<1>4. PICK m \in D : D \ {m} \subseteq ahead[m]
  <2> HIDE DEF ahead, D
  <2> QED
    BY <1>1, <1>3, LastOfLine
<1> DEFINE x == rows[m].turn
<1>5. x \in T /\ x \in Nat /\ \A y \in T : y \in Nat /\ x >= y
  <2>1. \A l \in D : rows[l].turn <= rows[m].turn
    <3> SUFFICES ASSUME NEW l \in D PROVE rows[l].turn <= rows[m].turn
      OBVIOUS
    <3>1. CASE l = m
      BY <1>2, <3>1
    <3>2. CASE l # m
      BY <1>2, <1>4, <3>2
    <3> QED
      BY <3>1, <3>2
  <2> HIDE DEF D
  <2> QED
    BY <1>1, <1>2, <2>1
<1> HIDE DEF T, x
<1> DEFINE most == Max(T)
<1>6. most \in T
  BY <1>5, Zenon DEF Max
<1> HIDE DEF most
<1>7. 1 + most \in Nat
  BY <1>5, <1>6
<1> QED
  BY <1>7, Zenon DEF most, T

\* The other way.
More(x, y, sign) == IF sign = 1 THEN x + y ELSE x - y

\* What the record of a bill says once rows of len layers have gone out or come back.
Traceable(rows, new, len, sign) ==
  /\ DOMAIN new = 0..len
  /\ \A l \in 0..len :
       /\ new[l].qty \in Nat /\ new[l].value \in Nat
       /\ new[l].qty = 0 => new[l].value = 0
       /\ More(rows[l].qty, new[l].qty, sign) \in Nat
       /\ More(rows[l].value, new[l].value, sign) \in Nat
       /\ More(rows[l].qty, new[l].qty, sign) = 0 => More(rows[l].value, new[l].value, sign) = 0

LEMMA MoreIs ==
  ASSUME NEW x \in Int, NEW y \in Int, NEW sign \in {1, -1}
  PROVE  x + sign * y = More(x, y, sign)
<1>1. CASE sign = 1
  BY <1>1 DEF More
<1>2. CASE sign = -1
  <2>1. x + sign * y = x - y
    BY <1>2, LessIs DEF Less
  <2> QED
    BY <1>2, <2>1 DEF More
<1> QED
  BY <1>1, <1>2

LEMMA TracedIs ==
  ASSUME NEW rows \in OutRows, NEW new, NEW len \in 0..MaxLayers,
         NEW sign \in {1, -1}, Traceable(rows, new, len, sign)
  PROVE  LET r == Traced(rows, new, sign)
         IN  /\ r \in OutRows
             /\ \A l \in 0..len : /\ r[l].qty = More(rows[l].qty, new[l].qty, sign)
                                  /\ r[l].value = More(rows[l].value, new[l].value, sign)
             /\ \A l \in 0..MaxLayers : l \notin 0..len => r[l] = rows[l]
<1> DEFINE D == 0..MaxLayers
           N == 0..len
           turn == 1 + Max({rows[l].turn : l \in DOMAIN rows})
           r == Traced(rows, new, sign)
<1>1. turn \in Nat /\ MaxLayers \in Nat
  BY LatestTurn, OpeningIsWhole
<1>2. N \subseteq D /\ DOMAIN rows = D /\ DOMAIN new = N
  BY <1>1 DEF Traceable, OutRows
<1>0. \A l \in D : rows[l] \in OutRow
  BY DEF OutRows
<1>3. r = [l \in D |-> IF l \in N /\ new[l].qty > 0
                       THEN [qty |-> rows[l].qty + sign * new[l].qty,
                             value |-> rows[l].value + sign * new[l].value, turn |-> turn]
                       ELSE rows[l]]
  BY <1>2 DEF Traced
<1> HIDE DEF turn, r
<1>4. ASSUME NEW l \in N
      PROVE  /\ r[l] \in OutRow /\ l \in D
             /\ r[l].qty = More(rows[l].qty, new[l].qty, sign)
             /\ r[l].value = More(rows[l].value, new[l].value, sign)
  <2> DEFINE q == More(rows[l].qty, new[l].qty, sign)
             v == More(rows[l].value, new[l].value, sign)
  <2>1. l \in D /\ rows[l] \in OutRow
    BY <1>0, <1>2
  <2>2. /\ new[l].qty \in Nat /\ new[l].value \in Nat
        /\ new[l].qty = 0 => new[l].value = 0
        /\ q \in Nat /\ v \in Nat
    BY DEF Traceable
  <2>3. rows[l].qty \in Nat /\ rows[l].value \in Nat
    BY <2>1 DEF OutRows, OutRow
  <2>4. rows[l].qty + sign * new[l].qty = q /\ rows[l].value + sign * new[l].value = v
    <3>1. /\ rows[l].qty \in Int /\ new[l].qty \in Int
          /\ rows[l].value \in Int /\ new[l].value \in Int
      BY <2>2, <2>3
    <3> QED
      BY ONLY <3>1, sign \in {1, -1}, MoreIs
  <2>5. CASE new[l].qty > 0
    <3>1. r[l] = [qty |-> q, value |-> v, turn |-> turn]
      BY <1>3, <2>1, <2>4, <2>5
    <3> HIDE DEF q, v
    <3>2. r[l] \in OutRow /\ r[l].qty = q /\ r[l].value = v
      BY <1>1, <2>2, <3>1 DEF OutRows, OutRow
    <3> QED
      BY <2>1, <3>2 DEF q, v
  <2>6. CASE ~(new[l].qty > 0)
    <3>1. new[l].qty = 0 /\ new[l].value = 0
      BY <2>2, <2>6
    <3>2. r[l] = rows[l]
      BY <1>3, <2>1, <2>6
    <3>3. q = rows[l].qty /\ v = rows[l].value
      BY <2>3, <3>1 DEF More
    <3> QED
      BY <2>1, <3>2, <3>3
  <2> QED
    BY <2>5, <2>6
<1>5. \A l \in D : l \notin N => r[l] = rows[l]
  BY <1>3
<1>6. r \in OutRows
  <2>1. \A l \in D : r[l] \in OutRow
    BY <1>0, <1>4, <1>5
  <2> QED
    BY <1>3, <2>1 DEF OutRows
<1> QED
  BY <1>4, <1>5, <1>6 DEF r

\* Columns of what bills have out.
AllOut(rows) == SumFunctionOnSet([l \in 0..MaxLayers |-> rows[l].qty], 0..MaxLayers)
ValueOut(tk, l) == SumFunctionOnSet([o \in Order |-> tk[o].rows[l].value], Order)
BareOut(tk) == SumFunctionOnSet([o \in Order |-> tk[o].rows[0].qty], Order)

\* A bill's rows are of layers there are, at its branch.
OnRecord(s, row) ==
  /\ row.applied = AllOut(row.rows)
  /\ row.rows[0].value = 0
  /\ \A l \in 1..MaxLayers :
       /\ row.rows[l].qty > 0 => l <= Len(s.layers) /\ s.layers[l].branch = Site
       /\ row.rows[l].qty = 0 => row.rows[l].value = 0

Accounted(s, tk) ==
  /\ Sound(s) /\ Len(s.layers) <= MaxLayers
  /\ tk \in [Order -> TakenRow] /\ \A o \in Order : OnRecord(s, tk[o])
  /\ \A l \in 1..Len(s.layers) :
       s.layers[l].received = s.layers[l].value + s.layers[l].spent + ValueOut(tk, l)
  /\ s.shelf[Site].uncovered >= BareOut(tk)

LEMMA RowsAre ==
  ASSUME NEW row \in TakenRow
  PROVE  /\ row.rows \in OutRows /\ row.applied \in Nat
         /\ \A l \in 0..MaxLayers : /\ row.rows[l] \in OutRow
                                    /\ row.rows[l].qty \in Nat /\ row.rows[l].value \in Nat
  BY DEF TakenRow, OutRows, OutRow

LEMMA OutAre ==
  ASSUME NEW tk \in [Order -> TakenRow], NEW l \in 0..MaxLayers
  PROVE  /\ ValueOut(tk, l) \in Nat /\ BareOut(tk) \in Nat
         /\ \A o \in Order : tk[o].rows[0].qty <= BareOut(tk)
<1> DEFINE v == [o \in Order |-> tk[o].rows[l].value]
           q == [o \in Order |-> tk[o].rows[0].qty]
<1>1. 0 \in 0..MaxLayers /\ IsFiniteSet(Order)
  BY OpeningIsWhole, BillsAreFinite
<1>2. \A o \in Order : v[o] \in Nat /\ q[o] \in Nat
  BY <1>1, RowsAre
<1>3. ValueOut(tk, l) = SumFunctionOnSet(v, Order) /\ BareOut(tk) = SumFunctionOnSet(q, Order)
  BY DEF ValueOut, BareOut
<1>4. \A o \in Order : q[o] = tk[o].rows[0].qty
  OBVIOUS
<1> HIDE DEF v, q
<1>5. SumFunctionOnSet(v, Order) \in Nat /\ SumFunctionOnSet(q, Order) \in Nat
  BY <1>1, <1>2, SumNat
<1>6. ASSUME NEW o \in Order PROVE q[o] <= SumFunctionOnSet(q, Order)
  <2> DEFINE R == Order \ {o}
  <2>1. SumFunctionOnSet(q, Order) = q[o] + SumFunctionOnSet(q, R)
    <3>1. \A u \in Order : q[u] \in Int
      BY <1>2
    <3> QED
      BY <1>1, <3>1, SumTake
  <2>2. SumFunctionOnSet(q, R) \in Nat
    <3>1. IsFiniteSet(R)
      BY <1>1, FS_Subset
    <3>2. \A u \in R : q[u] \in Nat
      BY <1>2
    <3> HIDE DEF R
    <3> QED
      BY <3>1, <3>2, SumNat
  <2> QED
    BY <1>2, <2>1, <2>2
<1> QED
  BY <1>3, <1>4, <1>5, <1>6

\* Nothing is lost from one step of the books to the next.
LEMMA GrownOn ==
  ASSUME NEW s, Sound(s), NEW t, NEW u, Grown(s, t), Grown(t, u)
  PROVE  Grown(s, u)
<1>1. /\ Typed(s) /\ Typed(t) /\ Typed(u)
      /\ Len(s.layers) \in Nat /\ Len(t.layers) \in Nat /\ Len(u.layers) \in Nat
      /\ DOMAIN t.layers = 1..Len(t.layers) /\ DOMAIN u.layers = 1..Len(u.layers)
      /\ \A l \in DOMAIN t.layers : t.layers[l] \in Layer
      /\ \A l \in DOMAIN u.layers : u.layers[l] \in Layer
  BY LayersFinite DEF Grown, Sound, Shelved
<1>2. \A c \in Branch : /\ s.shelf[c].uncovered \in Int /\ t.shelf[c].uncovered \in Int
                        /\ u.shelf[c].uncovered \in Int
  BY <1>1 DEF Typed, Shelf
<1>3. \A c \in Branch : u.shelf[c].uncovered >= s.shelf[c].uncovered
  <2> SUFFICES ASSUME NEW c \in Branch PROVE u.shelf[c].uncovered >= s.shelf[c].uncovered
    OBVIOUS
  <2>1. u.shelf[c].uncovered >= t.shelf[c].uncovered /\ t.shelf[c].uncovered >= s.shelf[c].uncovered
    BY DEF Grown
  <2> QED
    BY <1>2, <2>1
<1>4. \A l \in 1..Len(s.layers) :
        /\ u.layers[l].branch = s.layers[l].branch
        /\ u.layers[l].received = s.layers[l].received
        /\ u.layers[l].value + u.layers[l].spent = s.layers[l].value + s.layers[l].spent
  BY <1>1 DEF Grown
<1>5. ASSUME NEW l \in 1..Len(u.layers), l > Len(s.layers)
      PROVE  u.layers[l].received = u.layers[l].value + u.layers[l].spent
  <2>1. CASE l > Len(t.layers)
    BY <1>1, <2>1 DEF Grown
  <2>2. CASE ~(l > Len(t.layers))
    <3>1. l \in 1..Len(t.layers)
      BY <1>1, <2>2
    <3>2. t.layers[l].received = t.layers[l].value + t.layers[l].spent
      BY <1>5, <3>1 DEF Grown
    <3>3. /\ u.layers[l].received = t.layers[l].received
          /\ u.layers[l].value + u.layers[l].spent = t.layers[l].value + t.layers[l].spent
      BY <3>1 DEF Grown
    <3> QED
      BY <3>2, <3>3
  <2> QED
    BY <2>1, <2>2
<1>6. Sound(u) /\ Len(s.layers) <= Len(u.layers)
  BY <1>1 DEF Grown
<1> QED
  BY <1>3, <1>4, <1>5, <1>6 DEF Grown

\* Whatever else is issued or received, bills stay on record.
LEMMA StaysAccounted ==
  ASSUME NEW s, NEW tk, Accounted(s, tk), NEW t, Grown(s, t), Len(t.layers) <= MaxLayers
  PROVE  Accounted(t, tk)
<1>1. /\ Typed(s) /\ Typed(t) /\ Len(s.layers) \in Nat /\ Len(t.layers) \in Nat
      /\ DOMAIN s.layers = 1..Len(s.layers) /\ DOMAIN t.layers = 1..Len(t.layers)
      /\ \A l \in DOMAIN s.layers : s.layers[l] \in Layer
      /\ \A l \in DOMAIN t.layers : t.layers[l] \in Layer
  BY LayersFinite DEF Accounted, Grown, Sound, Shelved
<1>2. Site \in Branch /\ MaxLayers \in Nat /\ IsFiniteSet(Order)
  BY SiteIsABranch, OpeningIsWhole, BillsAreFinite
<1>3. tk \in [Order -> TakenRow]
  BY DEF Accounted
<1>4. ASSUME NEW o \in Order PROVE OnRecord(t, tk[o])
  <2>1. OnRecord(s, tk[o])
    BY DEF Accounted
  <2> QED
    BY <1>1, <2>1 DEF OnRecord, Grown
<1>5. ASSUME NEW l \in 1..Len(t.layers)
      PROVE  t.layers[l].received = t.layers[l].value + t.layers[l].spent + ValueOut(tk, l)
  <2>1. l \in 0..MaxLayers /\ l \in 1..MaxLayers
    BY <1>1, <1>2
  <2>2. ValueOut(tk, l) \in Nat
    BY <1>3, <2>1, OutAre
  <2>3. t.layers[l].value \in Nat /\ t.layers[l].spent \in Nat
    BY <1>1 DEF Layer
  <2>4. CASE l <= Len(s.layers)
    <3>1. l \in 1..Len(s.layers)
      BY <1>1, <2>4
    <3>2. s.layers[l].value \in Nat /\ s.layers[l].spent \in Nat
      BY <1>1, <3>1 DEF Layer
    <3>3. s.layers[l].received = s.layers[l].value + s.layers[l].spent + ValueOut(tk, l)
      BY <3>1 DEF Accounted
    <3>4. /\ t.layers[l].received = s.layers[l].received
          /\ t.layers[l].value + t.layers[l].spent = s.layers[l].value + s.layers[l].spent
      BY <3>1 DEF Grown
    <3> QED
      BY <2>2, <2>3, <3>2, <3>3, <3>4
  <2>5. CASE l > Len(s.layers)
    <3> DEFINE v == [o \in Order |-> tk[o].rows[l].value]
    <3>1. \A o \in Order : v[o] = 0
      <4> SUFFICES ASSUME NEW o \in Order PROVE tk[o].rows[l].value = 0
        OBVIOUS
      <4>1. OnRecord(s, tk[o]) /\ tk[o].rows[l].qty \in Nat
        BY <1>3, <2>1, RowsAre DEF Accounted
      <4> QED
        BY <1>1, <2>1, <2>5, <4>1 DEF OnRecord
    <3>2. ValueOut(tk, l) = SumFunctionOnSet(v, Order)
      BY DEF ValueOut
    <3> HIDE DEF v
    <3>3. ValueOut(tk, l) = 0
      BY <1>2, <3>1, <3>2, SumZero
    <3>4. t.layers[l].received = t.layers[l].value + t.layers[l].spent
      BY <2>5 DEF Grown
    <3> QED
      BY <2>3, <3>3, <3>4
  <2> QED
    BY <1>1, <2>4, <2>5
<1>6. t.shelf[Site].uncovered >= BareOut(tk)
  <2>1. /\ t.shelf[Site].uncovered >= s.shelf[Site].uncovered
        /\ s.shelf[Site].uncovered >= BareOut(tk)
    BY <1>2 DEF Grown, Accounted
  <2>2. t.shelf[Site].uncovered \in Int /\ s.shelf[Site].uncovered \in Int
    BY <1>1, <1>2 DEF Typed, Shelf
  <2>3. BareOut(tk) \in Nat
    <3>1. 0 \in 0..MaxLayers
      BY <1>2
    <3> QED
      BY <1>3, <3>1, OutAre
  <2> QED
    BY <2>1, <2>2, <2>3
<1> QED
  BY <1>3, <1>4, <1>5, <1>6 DEF Accounted, Grown

\* What a bill's step leaves: it is on record, and touches nothing promised.
Rebooked(s, t, tk) == Accounted(t, tk) /\ Besides(s, t)

Adjusted(old, now, new, len, sign) ==
  /\ DOMAIN new = 0..len /\ \A l \in 0..len : new[l].qty \in Nat
  /\ \A l \in 0..len : now[l].qty = More(old[l].qty, new[l].qty, sign)
  /\ \A l \in 0..MaxLayers : l \notin 0..len => now[l] = old[l]

\* A bill's total follows its rows.
LEMMA AllOutMoved ==
  ASSUME NEW old \in OutRows, NEW now \in OutRows, NEW new, NEW len \in 0..MaxLayers,
         NEW sign \in {1, -1}, Adjusted(old, now, new, len, sign)
  PROVE  AllOut(now) \in Nat /\ AllOut(now) = More(AllOut(old), QtyOf(new), sign)
<1> DEFINE D == 0..MaxLayers
           N == 0..len
           Q == QtyColumn(new)
           f == [l \in D |-> old[l].qty]
           g == [l \in D |-> IF l \in N THEN new[l].qty ELSE 0]
           h == [l \in D |-> now[l].qty]
<1>0. /\ DOMAIN new = N /\ \A l \in N : new[l].qty \in Nat
      /\ \A l \in N : now[l].qty = More(old[l].qty, new[l].qty, sign)
      /\ \A l \in D : l \notin N => now[l] = old[l]
  BY DEF Adjusted
<1>1. MaxLayers \in Nat /\ IsFiniteSet(D) /\ N \in SUBSET D
  <2>1. MaxLayers \in Nat
    BY OpeningIsWhole
  <2>2. IsFiniteSet(D)
    BY <2>1, FS_Interval
  <2>3. N \in SUBSET D
    BY <2>1
  <2> QED
    BY <2>1, <2>2, <2>3
<1>2. IsFiniteSet(N)
  BY <1>1, FS_Subset
<1>3. \A l \in N : l \in D /\ Q[l] = new[l].qty /\ g[l] = new[l].qty
  BY <1>0, <1>1 DEF QtyColumn
<1>4. \A l \in D : f[l] = old[l].qty /\ h[l] = now[l].qty /\ (l \notin N => g[l] = 0)
  OBVIOUS
<1>5. QtyOf(new) = SumFunctionOnSet(Q, N)
  BY <1>0 DEF QtyOf, Total, QtyColumn
<1>6. AllOut(old) = SumFunctionOnSet(f, D) /\ AllOut(now) = SumFunctionOnSet(h, D)
  BY DEF AllOut
<1> HIDE DEF D, N, Q, f, g, h
<1>7. \A l \in D : f[l] \in Nat /\ h[l] \in Nat /\ g[l] \in Nat
  <2> SUFFICES ASSUME NEW l \in D PROVE f[l] \in Nat /\ h[l] \in Nat /\ g[l] \in Nat
    OBVIOUS
  <2>1. old[l] \in OutRow /\ now[l] \in OutRow
    BY DEF D, OutRows
  <2>2. f[l] \in Nat /\ h[l] \in Nat
    BY <1>4, <2>1 DEF OutRows, OutRow
  <2>3. g[l] \in Nat
    BY <1>0, <1>3, <1>4 DEF N
  <2> QED
    BY <2>2, <2>3
<1>8. SumFunctionOnSet(g, D) = SumFunctionOnSet(Q, N)
  <2>1. \A l \in D \ N : g[l] = 0
    BY <1>4
  <2>2. \A l \in D : g[l] \in Int
    BY <1>7
  <2>3. SumFunctionOnSet(g, D) = SumFunctionOnSet(g, N)
    BY <1>1, <2>1, <2>2, SumWithin
  <2>4. SumFunctionOnSet(g, N) = SumFunctionOnSet(Q, N)
    <3>1. \A l \in N : g[l] = Q[l]
      BY <1>3
    <3> QED
      BY <1>2, <3>1, SumSame
  <2> QED
    BY <2>3, <2>4
<1>9. /\ SumFunctionOnSet(f, D) \in Nat /\ SumFunctionOnSet(g, D) \in Nat
      /\ SumFunctionOnSet(h, D) \in Nat
  BY <1>1, <1>7, SumNat
<1>10. \A l \in D : h[l] = More(f[l], g[l], sign)
  <2> SUFFICES ASSUME NEW l \in D PROVE h[l] = More(f[l], g[l], sign)
    OBVIOUS
  <2>1. CASE l \in N
    BY <1>0, <1>3, <1>4, <2>1 DEF N
  <2>2. CASE l \notin N
    <3>1. h[l] = f[l] /\ g[l] = 0
      BY <1>0, <1>4, <2>2 DEF D, N
    <3> QED
      BY <1>7, <3>1 DEF More
  <2> QED
    BY <2>1, <2>2
<1>11. CASE sign = 1
  <2>1. \A l \in D : f[l] \in Int /\ g[l] \in Int /\ h[l] = f[l] + g[l]
    BY <1>7, <1>10, <1>11 DEF More
  <2>2. SumFunctionOnSet(h, D) = SumFunctionOnSet(f, D) + SumFunctionOnSet(g, D)
    BY <1>1, <2>1, SumPlus
  <2> QED
    BY <1>5, <1>6, <1>8, <1>9, <1>11, <2>2 DEF More
<1>12. CASE sign = -1
  <2>1. \A l \in D : h[l] \in Int /\ g[l] \in Int /\ f[l] = h[l] + g[l]
    BY <1>7, <1>10, <1>12 DEF More
  <2>2. SumFunctionOnSet(f, D) = SumFunctionOnSet(h, D) + SumFunctionOnSet(g, D)
    BY <1>1, <2>1, SumPlus
  <2> QED
    BY <1>5, <1>6, <1>8, <1>9, <1>12, <2>2 DEF More
<1> QED
  BY <1>11, <1>12

Given(tk, o, row) == [tk EXCEPT ![o] = row]

\* What all bills have out follows one bill's rows.
LEMMA OutMoved ==
  ASSUME NEW tk \in [Order -> TakenRow], NEW o \in Order, NEW row \in TakenRow
  PROVE  LET to == Given(tk, o, row)
         IN  /\ to \in [Order -> TakenRow] /\ to[o] = row /\ \A u \in Order \ {o} : to[u] = tk[u]
             /\ \A l \in 0..MaxLayers :
                  ValueOut(to, l) = ValueOut(tk, l) + (row.rows[l].value - tk[o].rows[l].value)
             /\ BareOut(to) = BareOut(tk) + (row.rows[0].qty - tk[o].rows[0].qty)
<1> DEFINE to == Given(tk, o, row)
<1>1. to \in [Order -> TakenRow] /\ to[o] = row /\ \A u \in Order \ {o} : to[u] = tk[u]
  BY DEF Given
<1> HIDE DEF to
<1>2. IsFiniteSet(Order) /\ 0 \in 0..MaxLayers
  BY OpeningIsWhole, BillsAreFinite
<1>3. ASSUME NEW l \in 0..MaxLayers
      PROVE  ValueOut(to, l) = ValueOut(tk, l) + (row.rows[l].value - tk[o].rows[l].value)
  <2> DEFINE f == [u \in Order |-> tk[u].rows[l].value]
             h == [u \in Order |-> to[u].rows[l].value]
  <2>1. ValueOut(to, l) = SumFunctionOnSet(h, Order) /\ ValueOut(tk, l) = SumFunctionOnSet(f, Order)
    BY DEF ValueOut
  <2>2. \A u \in Order : f[u] \in Int
    BY RowsAre
  <2>3. h[o] \in Int /\ h[o] = row.rows[l].value /\ f[o] = tk[o].rows[l].value
    BY <1>1, RowsAre
  <2>4. \A u \in Order \ {o} : h[u] = f[u]
    BY <1>1
  <2> HIDE DEF f, h
  <2>5. SumFunctionOnSet(h, Order) = SumFunctionOnSet(f, Order) + (h[o] - f[o])
    BY <1>2, <2>2, <2>3, <2>4, SumMoved
  <2> QED
    BY <2>1, <2>3, <2>5
<1>4. BareOut(to) = BareOut(tk) + (row.rows[0].qty - tk[o].rows[0].qty)
  <2> DEFINE f == [u \in Order |-> tk[u].rows[0].qty]
             h == [u \in Order |-> to[u].rows[0].qty]
  <2>1. BareOut(to) = SumFunctionOnSet(h, Order) /\ BareOut(tk) = SumFunctionOnSet(f, Order)
    BY DEF BareOut
  <2>2. \A u \in Order : f[u] \in Int
    BY <1>2, RowsAre
  <2>3. h[o] \in Int /\ h[o] = row.rows[0].qty /\ f[o] = tk[o].rows[0].qty
    BY <1>1, <1>2, RowsAre
  <2>4. \A u \in Order \ {o} : h[u] = f[u]
    BY <1>1
  <2> HIDE DEF f, h
  <2>5. SumFunctionOnSet(h, Order) = SumFunctionOnSet(f, Order) + (h[o] - f[o])
    BY <1>2, <2>2, <2>3, <2>4, SumMoved
  <2> QED
    BY <2>1, <2>3, <2>5
<1> QED
  BY <1>1, <1>3, <1>4 DEF to

\* A posting: what leaves the layers is on record, and what comes back no longer is.
LEMMA PostedAccounted ==
  ASSUME NEW st, Accounted(st.books, st.taken), NEW o \in Order, NEW rows, NEW sign \in {1, -1},
         NEW want, Bookable(st.books, Site, rows, sign), rows[0].value = 0,
         Traceable(st.taken[o].rows, rows, Len(st.books.layers), sign),
         want = More(st.taken[o].applied, QtyOf(rows), sign)
  PROVE  Rebooked(st.books, Posted(st, o, want, rows, sign).books, Posted(st, o, want, rows, sign).taken)
<1> DEFINE s == st.books
           tk == st.taken
           u == Book(s, Site, rows, sign)
           t == Tally(u)
           old == tk[o]
           r == Traced(old.rows, rows, sign)
           row == [depleted |-> TRUE, applied |-> want, rows |-> r]
           to == Given(tk, o, row)
           len == Len(s.layers)
           p == Posted(st, o, want, rows, sign)
<1>1. p.books = t /\ p.taken = to
  BY DEF Posted, Given
<1>2. /\ Site \in Branch /\ MaxLayers \in Nat /\ 0 \in 0..MaxLayers
      /\ Shelved(s) /\ Typed(s) /\ len \in Nat /\ len \in 0..MaxLayers
      /\ DOMAIN s.layers = 1..len /\ \A l \in 1..len : s.layers[l] \in Layer
  <2>1. Shelved(s) /\ Typed(s) /\ len <= MaxLayers
    BY DEF Accounted, Sound, Shelved
  <2> QED
    BY <2>1, LayersFinite, SiteIsABranch, OpeningIsWhole
<1>3. tk \in [Order -> TakenRow] /\ old \in TakenRow
  BY DEF Accounted
<1> HIDE DEF p
<1> HIDE DEF s, tk, t, u
<1>4. /\ Shelved(u) /\ Besides(s, u) /\ DOMAIN u.layers = DOMAIN s.layers /\ Len(u.layers) = len
      /\ \A l \in DOMAIN s.layers :
           /\ Alike(s.layers[l], u.layers[l]) /\ u.layers[l].spent = s.layers[l].spent
           /\ u.layers[l].value = Less(s.layers[l].value, rows[l].value, sign)
      /\ u.shelf[Site].uncovered = Less(s.shelf[Site].uncovered, -rows[0].qty, sign)
  <2>1. Bookable(s, Site, rows, sign)
    BY DEF s
  <2> QED
    BY <1>2, <2>1, Booked DEF u
<1>5. Sound(t) /\ Besides(u, t) /\ t.layers = u.layers /\ t.shelf = u.shelf
  BY <1>4, Tallied DEF t
<1>6. /\ DOMAIN rows = 0..len
      /\ \A l \in 0..len : /\ rows[l].qty \in Nat /\ rows[l].value \in Nat
                           /\ rows[l].qty = 0 => rows[l].value = 0
                           /\ More(old.rows[l].qty, rows[l].qty, sign) = 0
                                => More(old.rows[l].value, rows[l].value, sign) = 0
      /\ \A l \in 1..len : rows[l].qty > 0 => s.layers[l].branch = Site
      /\ rows[0].value = 0
  BY DEF Traceable, Bookable, s, tk
<1>7. /\ old.rows \in OutRows
      /\ \A l \in 0..MaxLayers : old.rows[l].qty \in Nat /\ old.rows[l].value \in Nat
  BY <1>3, RowsAre
<1>8. /\ r \in OutRows
      /\ \A l \in 0..len : /\ r[l].qty = More(old.rows[l].qty, rows[l].qty, sign)
                           /\ r[l].value = More(old.rows[l].value, rows[l].value, sign)
      /\ \A l \in 0..MaxLayers : l \notin 0..len => r[l] = old.rows[l]
  <2> DEFINE had == old.rows
  <2>1. Traceable(had, rows, len, sign)
    BY DEF s, tk
  <2>2. had \in OutRows /\ len \in 0..MaxLayers /\ r = Traced(had, rows, sign)
    BY <1>2, <1>7
  <2> HIDE DEF had, len, r
  <2>3. /\ r \in OutRows
        /\ \A l \in 0..len : /\ r[l].qty = More(had[l].qty, rows[l].qty, sign)
                             /\ r[l].value = More(had[l].value, rows[l].value, sign)
        /\ \A l \in 0..MaxLayers : l \notin 0..len => r[l] = had[l]
    BY ONLY <2>1, <2>2, sign \in {1, -1}, TracedIs
  <2> QED
    BY <2>3, Zenon DEF had
<1> HIDE DEF r
<1>9. want \in Nat /\ want = AllOut(r)
  <2> DEFINE had == old.rows
  <2>1. old.applied = AllOut(had)
    BY DEF Accounted, OnRecord, s, tk
  <2>2. /\ r \in OutRows /\ had \in OutRows /\ len \in 0..MaxLayers
        /\ Adjusted(had, r, rows, len, sign)
    BY <1>2, <1>6, <1>7, <1>8 DEF Adjusted
  <2> HIDE DEF had, len
  <2>3. AllOut(r) \in Nat /\ AllOut(r) = More(AllOut(had), QtyOf(rows), sign)
    BY ONLY <2>2, sign \in {1, -1}, AllOutMoved
  <2>4. want = More(old.applied, QtyOf(rows), sign)
    BY DEF old, tk
  <2> QED
    BY <2>1, <2>3, <2>4
<1>10. row \in TakenRow /\ row.rows = r /\ row.applied = want
  BY <1>8, <1>9 DEF TakenRow, OutRows, OutRow
<1> HIDE DEF row
<1>11. /\ to \in [Order -> TakenRow] /\ to[o] = row /\ \A v \in Order \ {o} : to[v] = tk[v]
       /\ \A l \in 0..MaxLayers :
            ValueOut(to, l) = ValueOut(tk, l) + (row.rows[l].value - tk[o].rows[l].value)
       /\ BareOut(to) = BareOut(tk) + (row.rows[0].qty - tk[o].rows[0].qty)
  BY <1>3, <1>10, OutMoved
<1> HIDE DEF to
<1>12. ASSUME NEW v \in Order PROVE OnRecord(t, to[v])
  <2>0. OnRecord(s, tk[v])
    BY DEF Accounted, s, tk
  <2>1. CASE v # o
    <3>1. to[v] = tk[v]
      BY <1>11, <2>1
    <3>2. ASSUME NEW l \in 1..MaxLayers, tk[v].rows[l].qty > 0
          PROVE  l <= Len(t.layers) /\ t.layers[l].branch = Site
      <4>1. l <= len /\ s.layers[l].branch = Site
        BY <2>0, <3>2 DEF OnRecord
      <4>2. l \in DOMAIN s.layers
        BY <1>2, <4>1
      <4> QED
        BY <1>4, <1>5, <4>1, <4>2 DEF Alike
    <3> QED
      BY <2>0, <3>1, <3>2 DEF OnRecord
  <2>2. CASE v = o
    <3>1. to[v] = row /\ row.applied = AllOut(row.rows)
      BY <1>9, <1>10, <1>11, <2>2
    <3>2. r[0].value = 0
      <4>1. old.rows[0].value = 0 /\ 0 \in 0..len
        BY <1>2, <2>0, <2>2 DEF OnRecord
      <4>2. More(old.rows[0].value, rows[0].value, sign) = 0
        BY <1>6, <4>1 DEF More
      <4> QED
        BY <1>8, <4>1, <4>2
    <3>3. ASSUME NEW l \in 1..MaxLayers
          PROVE  /\ r[l].qty > 0 => l <= Len(t.layers) /\ t.layers[l].branch = Site
                 /\ r[l].qty = 0 => r[l].value = 0
      <4>1. /\ old.rows[l].qty > 0 => l <= len /\ s.layers[l].branch = Site
            /\ old.rows[l].qty = 0 => old.rows[l].value = 0
        BY <2>0, <2>2 DEF OnRecord
      <4>2. CASE l \in 0..len
        <5>1. l \in DOMAIN s.layers /\ l \in 1..len /\ l \in 0..MaxLayers
          BY <1>2, <4>2
        <5>2. r[l].qty > 0 => old.rows[l].qty > 0 \/ rows[l].qty > 0
          <6>1. r[l].qty = More(old.rows[l].qty, rows[l].qty, sign)
            BY <1>8, <4>2
          <6>2. old.rows[l].qty \in Nat /\ rows[l].qty \in Nat
            BY <1>6, <1>7, <4>2, <5>1
          <6> QED
            BY <6>1, <6>2 DEF More
        <5>3. r[l].qty > 0 => s.layers[l].branch = Site
          BY <1>6, <4>1, <5>1, <5>2
        <5>4. t.layers[l].branch = s.layers[l].branch /\ l <= Len(t.layers)
          <6>1. t.layers[l].branch = s.layers[l].branch
            BY <1>4, <1>5, <5>1 DEF Alike
          <6>2. Len(t.layers) = len
            BY <1>4, <1>5
          <6> QED
            BY <1>2, <5>1, <6>1, <6>2
        <5>5. r[l].qty = 0 => r[l].value = 0
          BY <1>6, <1>8, <4>2
        <5> QED
          BY <5>3, <5>4, <5>5
      <4>3. CASE l \notin 0..len
        <5>1. r[l] = old.rows[l]
          BY <1>2, <1>8, <4>3
        <5>2. ~(old.rows[l].qty > 0)
          BY <1>2, <4>1, <4>3
        <5> QED
          BY <4>1, <5>1, <5>2
      <4> QED
        BY <4>2, <4>3
    <3> QED
      BY <1>10, <3>1, <3>2, <3>3 DEF OnRecord
  <2> QED
    BY <2>1, <2>2
<1>13. ASSUME NEW l \in 1..Len(t.layers)
       PROVE  t.layers[l].received = t.layers[l].value + t.layers[l].spent + ValueOut(to, l)
  <2>1. l \in 1..len /\ l \in 0..len /\ l \in 0..MaxLayers /\ l \in DOMAIN s.layers
    BY <1>2, <1>4, <1>5
  <2>2. /\ s.layers[l].received = s.layers[l].value + s.layers[l].spent + ValueOut(tk, l)
        /\ s.layers[l].value \in Nat /\ s.layers[l].spent \in Nat
    BY <1>2, <2>1 DEF Accounted, Layer, s, tk
  <2>3. /\ t.layers[l].received = s.layers[l].received /\ t.layers[l].spent = s.layers[l].spent
        /\ t.layers[l].value = Less(s.layers[l].value, rows[l].value, sign)
    BY <1>4, <1>5, <2>1 DEF Alike
  <2>4. ValueOut(to, l) = ValueOut(tk, l) + (r[l].value - old.rows[l].value)
    BY <1>10, <1>11, <2>1
  <2>5. r[l].value = More(old.rows[l].value, rows[l].value, sign)
    BY <1>8, <2>1
  <2>6. ValueOut(tk, l) \in Nat /\ old.rows[l].value \in Nat /\ rows[l].value \in Nat
    BY <1>3, <1>6, <1>7, <2>1, OutAre
  <2> DEFINE a == s.layers[l].value
             b == s.layers[l].spent
             c == ValueOut(tk, l)
             d == old.rows[l].value
             e == rows[l].value
  <2>9. /\ a \in Nat /\ b \in Nat /\ c \in Nat /\ d \in Nat /\ e \in Nat
        /\ t.layers[l].received = a + b + c /\ t.layers[l].spent = b
        /\ t.layers[l].value = Less(a, e, sign) /\ ValueOut(to, l) = c + (More(d, e, sign) - d)
    BY <2>2, <2>3, <2>4, <2>5, <2>6
  <2> HIDE DEF a, b, c, d, e
  <2>7. CASE sign = 1
    BY ONLY <2>7, <2>9 DEF Less, More
  <2>8. CASE sign = -1
    BY ONLY <2>8, <2>9 DEF Less, More
  <2> QED
    BY <2>7, <2>8
<1>14. t.shelf[Site].uncovered >= BareOut(to)
  <2>1. s.shelf[Site].uncovered >= BareOut(tk) /\ s.shelf[Site].uncovered \in Int
    BY <1>2 DEF Accounted, Typed, Shelf, s, tk
  <2>2. t.shelf[Site].uncovered = Less(s.shelf[Site].uncovered, -rows[0].qty, sign)
    BY <1>4, <1>5
  <2>3. BareOut(to) = BareOut(tk) + (r[0].qty - old.rows[0].qty)
    BY <1>10, <1>11
  <2>4. r[0].qty = More(old.rows[0].qty, rows[0].qty, sign) /\ rows[0].qty \in Nat
    <3>1. 0 \in 0..len
      BY <1>2
    <3> QED
      BY <1>6, <1>8, <3>1
  <2>5. BareOut(tk) \in Nat /\ old.rows[0].qty \in Nat
    BY <1>2, <1>3, <1>7, OutAre
  <2> DEFINE a == s.shelf[Site].uncovered
             c == BareOut(tk)
             d == old.rows[0].qty
             e == rows[0].qty
  <2>8. /\ a \in Int /\ c \in Nat /\ d \in Nat /\ e \in Nat /\ a >= c
        /\ t.shelf[Site].uncovered = Less(a, -e, sign) /\ BareOut(to) = c + (More(d, e, sign) - d)
    BY <2>1, <2>2, <2>3, <2>4, <2>5
  <2> HIDE DEF a, c, d, e
  <2>6. CASE sign = 1
    BY ONLY <2>6, <2>8 DEF Less, More
  <2>7. CASE sign = -1
    BY ONLY <2>7, <2>8 DEF Less, More
  <2> QED
    BY <2>6, <2>7
<1>15. Len(t.layers) <= MaxLayers
  BY <1>2, <1>4, <1>5
<1>16. Accounted(t, to)
  BY <1>5, <1>11, <1>12, <1>13, <1>14, <1>15 DEF Accounted
<1>17. Besides(s, t)
  BY <1>4, <1>5 DEF Besides
<1>18. Rebooked(s, t, to)
  BY <1>16, <1>17 DEF Rebooked
<1> QED
  BY <1>1, <1>18 DEF p, s

\* A draw may be put on a bill's record.
LEMMA DrawnTraceable ==
  ASSUME NEW s, NEW tk, Accounted(s, tk), NEW o \in Order, NEW n \in Nat
  PROVE  LET rows == allocateAndConsume(s, Site, n)
         IN  /\ Bookable(s, Site, rows, 1) /\ rows[0].value = 0 /\ QtyOf(rows) = n
             /\ Traceable(tk[o].rows, rows, Len(s.layers), 1)
<1> DEFINE rows == allocateAndConsume(s, Site, n)
           had == tk[o].rows
           len == Len(s.layers)
<1>1. Shelved(s) /\ Site \in Branch /\ tk[o] \in TakenRow /\ OnRecord(s, tk[o])
  BY SiteIsABranch DEF Accounted, Sound
<1>2. /\ Bookable(s, Site, rows, 1) /\ QtyOf(rows) = n /\ rows[0].value = 0
      /\ \A l \in 0..len : rows[l].qty = 0 => rows[l].value = 0
  BY <1>1, Drawn
<1>3. len \in Nat /\ MaxLayers \in Nat /\ len <= MaxLayers
  BY <1>1, LayersFinite, OpeningIsWhole DEF Accounted, Shelved
<1> HIDE DEF rows
<1>4. /\ DOMAIN rows = 0..len
      /\ \A l \in 0..len : rows[l].qty \in Nat /\ rows[l].value \in Nat
  BY <1>2 DEF Bookable
<1>5. ASSUME NEW l \in 0..len
      PROVE  /\ had[l].qty \in Nat /\ had[l].value \in Nat
             /\ had[l].qty = 0 => had[l].value = 0
  <2>1. l \in 0..MaxLayers /\ (l = 0 \/ l \in 1..MaxLayers)
    BY <1>3
  <2>2. had[l].qty \in Nat /\ had[l].value \in Nat
    BY <1>1, <2>1, RowsAre
  <2>3. had[l].qty = 0 => had[l].value = 0
    BY <1>1, <2>1 DEF OnRecord
  <2> QED
    BY <2>2, <2>3
<1> HIDE DEF had, len
<1>6. ASSUME NEW l \in 0..len
      PROVE  /\ More(had[l].qty, rows[l].qty, 1) \in Nat
             /\ More(had[l].value, rows[l].value, 1) \in Nat
             /\ More(had[l].qty, rows[l].qty, 1) = 0 => More(had[l].value, rows[l].value, 1) = 0
  <2>1. /\ rows[l].qty \in Nat /\ rows[l].value \in Nat /\ had[l].qty \in Nat
        /\ had[l].value \in Nat
        /\ rows[l].qty = 0 => rows[l].value = 0
        /\ had[l].qty = 0 => had[l].value = 0
    BY <1>2, <1>4, <1>5
  <2> DEFINE a == had[l].qty
             b == had[l].value
             c == rows[l].qty
             d == rows[l].value
  <2>2. More(a, c, 1) = a + c /\ More(b, d, 1) = b + d
    BY DEF More
  <2> HIDE DEF a, b, c, d
  <2>3. a \in Nat /\ b \in Nat /\ c \in Nat /\ d \in Nat /\ (c = 0 => d = 0) /\ (a = 0 => b = 0)
    BY <2>1 DEF a, b, c, d
  <2>4. More(a, c, 1) \in Nat /\ More(b, d, 1) \in Nat /\ (More(a, c, 1) = 0 => More(b, d, 1) = 0)
    BY ONLY <2>2, <2>3
  <2> QED
    BY <2>4 DEF a, b, c, d
<1>7. Traceable(had, rows, len, 1)
  BY <1>2, <1>4, <1>6 DEF Traceable
<1> QED
  BY <1>2, <1>7 DEF rows, had, len

LEMMA LatestFirst ==
  ASSUME NEW had \in OutRows, NEW up \in BOOLEAN
  PROVE  LET D == {l \in DOMAIN had : had[l].qty > 0}
             ahead == [l \in D |-> {k \in D : Later(had, up, k, l)}]
             have == [l \in D |-> had[l].qty]
         IN  /\ D \in SUBSET (0..MaxLayers) /\ IsFiniteSet(D)
             /\ have \in [D -> Nat] /\ Lined(D, ahead)
             /\ SumFunctionOnSet(have, D) = AllOut(had)
<1> DEFINE E == 0..MaxLayers
           D == {l \in DOMAIN had : had[l].qty > 0}
           ahead == [l \in D |-> {k \in D : Later(had, up, k, l)}]
           have == [l \in D |-> had[l].qty]
           f == [l \in E |-> had[l].qty]
<1>1. /\ DOMAIN had = E /\ IsFiniteSet(E)
      /\ \A l \in E : l \in Int /\ had[l] \in OutRow
  <2>1. MaxLayers \in Nat
    BY OpeningIsWhole
  <2>2. IsFiniteSet(E)
    BY <2>1, FS_Interval
  <2> QED
    BY <2>1, <2>2 DEF OutRows
<1> HIDE DEF E
<1>2. D \in SUBSET E /\ IsFiniteSet(D)
  BY <1>1, FS_Subset
<1>3. \A l \in E : l \in Int /\ had[l].qty \in Nat /\ had[l].turn \in Nat
  BY <1>1 DEF OutRow
<1>4. have \in [D -> Nat]
  BY <1>2, <1>3
<1>5. SumFunctionOnSet(have, D) = AllOut(had)
  <2>1. AllOut(had) = SumFunctionOnSet(f, E)
    BY DEF AllOut, E
  <2>2. \A l \in E : f[l] = had[l].qty /\ f[l] \in Int
    BY <1>3
  <2>3. \A l \in E \ D : f[l] = 0
    BY <1>1, <1>3
  <2>4. \A l \in D : have[l] = f[l]
    BY <1>2
  <2> HIDE DEF f, have, D
  <2>5. SumFunctionOnSet(f, E) = SumFunctionOnSet(f, D)
    BY <1>1, <1>2, <2>2, <2>3, SumWithin
  <2>6. SumFunctionOnSet(have, D) = SumFunctionOnSet(f, D)
    BY <1>2, <2>4, SumSame
  <2> QED
    BY <2>1, <2>5, <2>6
<1>6. \A l \in D : l \in Int /\ had[l].turn \in Nat
  BY <1>2, <1>3
<1> HIDE DEF D, have
<1>7. Lined(D, ahead)
  <2>1. \A l \in D : ahead[l] \subseteq D \ {l}
    BY <1>6 DEF Later
  <2>2. \A k, l \in D : k # l => k \in ahead[l] \/ l \in ahead[k]
    BY <1>6 DEF Later
  <2>3. \A l \in D : \A k \in ahead[l] : ahead[k] \subseteq ahead[l]
    <3> SUFFICES ASSUME NEW l \in D, NEW k \in ahead[l], NEW j \in ahead[k]
                 PROVE  j \in ahead[l]
      OBVIOUS
    <3>1. k \in D /\ j \in D /\ Later(had, up, k, l) /\ Later(had, up, j, k)
      OBVIOUS
    <3>2. Later(had, up, j, l)
      BY <1>6, <3>1 DEF Later
    <3> QED
      BY <3>1, <3>2
  <2> QED
    BY <2>1, <2>2, <2>3 DEF Lined
<1> QED
  BY <1>1, <1>2, <1>4, <1>5, <1>7 DEF D, E, have

\* What is given back is in the bill's rows, to the last unit, and may be put back.
LEMMA Restored ==
  ASSUME NEW s, NEW tk, Accounted(s, tk), NEW o \in Order, NEW n \in Nat,
         n <= tk[o].applied, NEW up \in BOOLEAN
  PROVE  LET rows == restoreToLayers(s, tk[o].rows, n, up)
         IN  /\ Bookable(s, Site, rows, -1) /\ rows[0].value = 0 /\ QtyOf(rows) = n
             /\ Traceable(tk[o].rows, rows, Len(s.layers), -1)
<1> DEFINE had == tk[o].rows
           len == Len(s.layers)
           D == {l \in DOMAIN had : had[l].qty > 0}
           ahead == [l \in D |-> {k \in D : Later(had, up, k, l)}]
           have == [l \in D |-> had[l].qty]
           part == GivenBack(had, n, up)
           left == n - Total(LAMBDA l : part[l], DOMAIN part)
           put(l) == IF l \in DOMAIN part THEN part[l] ELSE 0
           rows == restoreToLayers(s, had, n, up)
           E == 0..len
           Q == QtyColumn(rows)
<1>1. /\ Typed(s) /\ Shelved(s) /\ Site \in Branch /\ tk[o] \in TakenRow /\ OnRecord(s, tk[o])
      /\ len \in Nat /\ MaxLayers \in Nat /\ len <= MaxLayers
      /\ DOMAIN s.layers = 1..len /\ \A l \in 1..len : s.layers[l] \in Layer
  <2>1. Typed(s) /\ Shelved(s) /\ tk[o] \in TakenRow /\ OnRecord(s, tk[o]) /\ len <= MaxLayers
    BY DEF Accounted, Sound, Shelved
  <2> QED
    BY <2>1, LayersFinite, SiteIsABranch, OpeningIsWhole
<1>2. /\ had \in OutRows /\ tk[o].applied = AllOut(had)
      /\ \A l \in 0..MaxLayers : had[l].qty \in Nat /\ had[l].value \in Nat
  BY <1>1, RowsAre DEF OnRecord
<1>3. /\ D \in SUBSET (0..MaxLayers) /\ IsFiniteSet(D)
      /\ have \in [D -> Nat] /\ Lined(D, ahead) /\ SumFunctionOnSet(have, D) = AllOut(had)
  <2> HIDE DEF had
  <2> QED
    BY <1>2, LatestFirst
<1>4. part = Walk(have, ahead, n)
  BY DEF GivenBack
<1>5. \A l \in D : have[l] = had[l].qty
  OBVIOUS
<1>6. rows = [l \in E |->
                IF l = 0 THEN [qty |-> put(0) + left, value |-> 0]
                ELSE [qty |-> put(l), value |-> IF put(l) = 0 THEN 0 ELSE Worth(had[l], put(l))]]
  BY DEF restoreToLayers
<1> HIDE DEF have, ahead, rows, part
<1>7. /\ part \in [D -> Nat] /\ \A l \in D : part[l] <= have[l]
      /\ SumFunctionOnSet(part, D) = n
  <2>1. n <= SumFunctionOnSet(have, D)
    BY <1>2, <1>3
  <2> HIDE DEF D
  <2> QED
    BY <1>3, <1>4, <2>1, WalkTakes
<1>8. left = 0
  <2> DEFINE g == [l \in DOMAIN part |-> part[l]]
  <2>1. Total(LAMBDA l : part[l], DOMAIN part) = SumFunctionOnSet(g, DOMAIN part)
    BY DEF Total
  <2>2. g = part /\ DOMAIN part = D
    BY <1>7
  <2> QED
    BY <1>7, <2>1, <2>2
<1> HIDE DEF left
\* Only layers that are there have anything out.
<1>9. D \subseteq E
  <2> SUFFICES ASSUME NEW l \in D PROVE l \in E
    OBVIOUS
  <2>1. l \in 0..MaxLayers /\ had[l].qty > 0
    BY <1>3
  <2>2. l = 0 \/ l <= len
    BY <1>1, <2>1 DEF OnRecord
  <2> QED
    BY <1>1, <2>1, <2>2
<1>10. \A l \in E : l \in 0..MaxLayers /\ (l = 0 \/ (l \in 1..len /\ l \in 1..MaxLayers))
  BY <1>1
<1>11. ASSUME NEW l \in E
       PROVE  /\ had[l].qty \in Nat /\ had[l].value \in Nat
              /\ had[l].qty = 0 => had[l].value = 0
              /\ l # 0 /\ had[l].qty > 0 => s.layers[l].branch = Site
              /\ l = 0 => had[l].value = 0
  BY <1>1, <1>2, <1>10 DEF OnRecord
<1>12. ASSUME NEW l \in E
       PROVE  /\ put(l) \in Nat /\ put(l) <= had[l].qty
              /\ put(l) > 0 => l \in D
  <2>1. DOMAIN part = D
    BY <1>7
  <2>2. CASE l \in D
    BY <1>5, <1>7, <2>1, <2>2
  <2>3. CASE l \notin D
    BY <1>11, <2>1, <2>3
  <2> QED
    BY <2>2, <2>3
<1>13. \A l \in D : put(l) = part[l]
  BY <1>7
<1> HIDE DEF put
<1>14. DOMAIN rows = E
  BY <1>6
<1>15. ASSUME NEW l \in E
       PROVE  /\ rows[l].qty = put(l) /\ rows[l].value \in Nat
              /\ rows[l].value <= had[l].value
              /\ rows[l].qty = had[l].qty => rows[l].value = had[l].value
              /\ rows[l].qty = 0 => rows[l].value = 0
              /\ l = 0 => rows[l].value = 0
  <2>1. CASE l = 0
    <3>1. rows[l] = [qty |-> put(0) + left, value |-> 0]
      BY <1>6, <2>1
    <3> QED
      BY <1>8, <1>11, <1>12, <2>1, <3>1
  <2>2. CASE l # 0
    <3>1. /\ rows[l].qty = put(l)
          /\ rows[l].value = IF put(l) = 0 THEN 0 ELSE Worth(had[l], put(l))
      BY <1>6, <2>2
    <3>2. CASE put(l) = 0
      BY <1>11, <2>2, <3>1, <3>2
    <3>3. CASE put(l) # 0
      <4>1. /\ Worth(had[l], put(l)) \in Nat /\ Worth(had[l], put(l)) <= had[l].value
            /\ put(l) = had[l].qty => Worth(had[l], put(l)) = had[l].value
        BY <1>11, <1>12, WorthIs
      <4> QED
        BY <2>2, <3>1, <3>3, <4>1
    <3> QED
      BY <3>2, <3>3
  <2> QED
    BY <2>1, <2>2
<1>16. Traceable(had, rows, len, -1)
  <2> SUFFICES ASSUME NEW l \in 0..len
               PROVE  /\ rows[l].qty \in Nat /\ rows[l].value \in Nat
                      /\ rows[l].qty = 0 => rows[l].value = 0
                      /\ More(had[l].qty, rows[l].qty, -1) \in Nat
                      /\ More(had[l].value, rows[l].value, -1) \in Nat
                      /\ More(had[l].qty, rows[l].qty, -1) = 0
                           => More(had[l].value, rows[l].value, -1) = 0
    BY <1>14 DEF Traceable
  <2> QED
    BY <1>11, <1>12, <1>15 DEF More
<1>17. QtyOf(rows) = n
  <2>1. QtyOf(rows) = SumFunctionOnSet(Q, E)
    BY <1>14 DEF QtyOf, Total, QtyColumn
  <2>2. IsFiniteSet(E)
    BY <1>1, FS_Interval
  <2>3. \A l \in E : Q[l] = put(l) /\ Q[l] \in Int
    BY <1>12, <1>14, <1>15 DEF QtyColumn
  <2>4. \A l \in E \ D : Q[l] = 0
    BY <1>12, <2>3
  <2>5. \A l \in D : Q[l] = part[l]
    BY <1>9, <1>13, <2>3
  <2>8. IsFiniteSet(D)
    BY <1>3
  <2> HIDE DEF Q, E, D
  <2>6. SumFunctionOnSet(Q, E) = SumFunctionOnSet(Q, D)
    BY <1>9, <2>2, <2>3, <2>4, SumWithin
  <2>7. SumFunctionOnSet(Q, D) = SumFunctionOnSet(part, D)
    BY ONLY <2>8, <2>5, SumSame
  <2> QED
    BY <1>7, <2>1, <2>6, <2>7
<1>18. Bookable(s, Site, rows, -1)
  <2>1. \A l \in 0..len : rows[l].qty \in Nat /\ rows[l].value \in Nat
    BY <1>12, <1>15
  <2>2. ASSUME NEW l \in 1..len
        PROVE  /\ rows[l].qty > 0 => s.layers[l].branch = Site
               /\ Less(s.layers[l].qty, rows[l].qty, -1) \in Nat
               /\ Less(s.layers[l].value, rows[l].value, -1) \in Nat
               /\ Less(s.layers[l].qty, rows[l].qty, -1) = 0
                    => Less(s.layers[l].value, rows[l].value, -1) = 0
    <3>1. l \in E /\ l # 0 /\ l \in DOMAIN s.layers
      BY <1>1
    <3>2. /\ s.layers[l].qty \in Nat /\ s.layers[l].value \in Nat
          /\ s.layers[l].qty = 0 => s.layers[l].value = 0
      BY <1>1, <3>1 DEF Shelved, Layer
    <3>3. /\ rows[l].qty \in Nat /\ rows[l].value \in Nat
          /\ rows[l].qty = 0 => rows[l].value = 0
          /\ rows[l].qty > 0 => had[l].qty > 0
      BY <1>11, <1>12, <1>15, <3>1
    <3>4. had[l].qty > 0 => s.layers[l].branch = Site
      BY <1>11, <3>1
    <3> DEFINE a == s.layers[l].qty
               b == s.layers[l].value
               c == rows[l].qty
               d == rows[l].value
    <3>5. Less(a, c, -1) = a + c /\ Less(b, d, -1) = b + d
      BY DEF Less
    <3>6. a \in Nat /\ b \in Nat /\ c \in Nat /\ d \in Nat /\ (c = 0 => d = 0) /\ (a = 0 => b = 0)
      BY <3>2, <3>3
    <3>7. c > 0 => s.layers[l].branch = Site
      BY <3>3, <3>4
    <3> HIDE DEF a, b, c, d
    <3>8. Less(a, c, -1) \in Nat /\ Less(b, d, -1) \in Nat /\ (Less(a, c, -1) = 0 => Less(b, d, -1) = 0)
      BY ONLY <3>5, <3>6
    <3> QED
      BY <3>7, <3>8 DEF a, b, c, d
  <2>3. Less(s.shelf[Site].uncovered, -rows[0].qty, -1) >= 0
    <3>1. 0 \in E /\ 0 \in 0..MaxLayers
      BY <1>1
    <3>2. rows[0].qty \in Nat /\ rows[0].qty <= had[0].qty /\ had[0].qty \in Nat
      BY <1>11, <1>12, <1>15, <3>1
    <3>3. had[0].qty <= BareOut(tk) /\ BareOut(tk) \in Nat
      BY <3>1, OutAre DEF Accounted
    <3>4. s.shelf[Site].uncovered >= BareOut(tk) /\ s.shelf[Site].uncovered \in Int
      BY <1>1 DEF Accounted, Typed, Shelf
    <3> QED
      BY <3>2, <3>3, <3>4 DEF Less
  <2> QED
    BY <1>14, <2>1, <2>2, <2>3 DEF Bookable
<1>19. rows[0].value = 0
  BY <1>1, <1>15
<1> QED
  BY <1>16, <1>17, <1>18, <1>19 DEF rows

LEMMA ReconciledAccounted ==
  ASSUME NEW st, Accounted(st.books, st.taken), NEW o \in Order, NEW want \in Nat,
         NEW r \in Reconciled(st, o, want)
  PROVE  Rebooked(st.books, r.books, r.taken)
<1> DEFINE s == st.books
           had == st.taken[o]
           have == had.applied
<1>1. have \in Nat
  BY RowsAre DEF Accounted
<1>2. CASE want = have
  BY <1>2 DEF Reconciled, Rebooked, Besides
<1>3. CASE want > have
  <2> DEFINE n == want - have
             rows == allocateAndConsume(s, Site, n)
  <2>1. n \in Nat
    BY <1>1, <1>3
  <2>2. r = Posted(st, o, want, rows, 1)
    BY <1>1, <1>3 DEF Reconciled
  <2> HIDE DEF n
  <2>3. /\ Bookable(s, Site, rows, 1) /\ rows[0].value = 0 /\ QtyOf(rows) = n
        /\ Traceable(had.rows, rows, Len(s.layers), 1)
    BY <2>1, DrawnTraceable
  <2>4. want = More(have, n, 1)
    BY <1>1, <1>3 DEF More, n
  <2> HIDE DEF rows
  <2>5. Rebooked(s, Posted(st, o, want, rows, 1).books, Posted(st, o, want, rows, 1).taken)
    BY <2>3, <2>4, PostedAccounted
  <2> QED
    BY <2>2, <2>5
<1>4. CASE want < have
  <2> DEFINE n == have - want
             rows(up) == restoreToLayers(s, had.rows, n, up)
  <2>1. n \in Nat /\ n <= have
    BY <1>1, <1>4
  <2>2. PICK up \in BOOLEAN : r = Posted(st, o, want, rows(up), -1)
    BY <1>1, <1>4 DEF Reconciled
  <2> HIDE DEF n
  <2>3. /\ Bookable(s, Site, rows(up), -1) /\ rows(up)[0].value = 0 /\ QtyOf(rows(up)) = n
        /\ Traceable(had.rows, rows(up), Len(s.layers), -1)
    BY <2>1, Restored
  <2>4. want = More(have, n, -1)
    BY <1>1, <1>4 DEF More, n
  <2> HIDE DEF rows
  <2>5. Rebooked(s, Posted(st, o, want, rows(up), -1).books, Posted(st, o, want, rows(up), -1).taken)
    BY <2>3, <2>4, PostedAccounted
  <2> QED
    BY <2>2, <2>5
<1> QED
  BY <1>1, <1>2, <1>3, <1>4

LEMMA NeededNat == ASSUME NEW ln, NEW o PROVE Needed(ln, o) \in Nat
<1>1. Of(ln, o) \ Plain \in SUBSET Line
  BY DEF Of
<1>2. IsFiniteSet(Of(ln, o) \ Plain)
  BY <1>1, BillsAreFinite, FS_Subset
<1> QED
  BY <1>2, FS_CardinalityType DEF Needed

LEMMA AccountedHere ==
  ASSUME NEW o \in Order, NEW want \in Nat, Accounted(books, taken),
         Write(Reconciled(Here, o, want))
  PROVE  Rebooked(books, books', taken')
<1>1. PICK r \in Reconciled(Here, o, want) : books' = r.books /\ taken' = r.taken
  BY DEF Write
<1>2. Here.taken = taken /\ Here.books = books
  BY DEF Here
<1> QED
  BY <1>1, <1>2, ReconciledAccounted

LEMMA AccountedIfDepleted ==
  ASSUME NEW ln, NEW o \in Order, Accounted(books, taken), Write(reconcileIfDepleted(ln, o))
  PROVE  Rebooked(books, books', taken')
<1>1. CASE taken[o].depleted
  <2>1. Write(Reconciled(Here, o, Needed(ln, o)))
    BY <1>1 DEF reconcileIfDepleted, reconcileOrderDepletion
  <2> QED
    BY <2>1, AccountedHere, NeededNat
<1>2. CASE ~taken[o].depleted
  BY <1>2 DEF reconcileIfDepleted, Write, Here, Rebooked, Besides
<1> QED
  BY <1>1, <1>2

LEMMA AccountedRebalanced ==
  ASSUME NEW ln, NEW o \in Order, NEW p \in Order, Accounted(books, taken),
         Write(rebalanceDepletion(ln, o, p))
  PROVE  Rebooked(books, books', taken')
<1>1. CASE ~(taken[o].depleted \/ taken[p].depleted)
  BY <1>1 DEF rebalanceDepletion, Write, Here, Rebooked, Besides
<1>2. CASE taken[o].depleted \/ taken[p].depleted
  <2>1. PICK q \in {<<o, p>>, <<p, o>>} :
          \E st \in Reconciled(Here, q[1], Needed(ln, q[1])) :
            \E r \in Reconciled(st, q[2], Needed(ln, q[2])) : books' = r.books /\ taken' = r.taken
    BY <1>2 DEF Write, rebalanceDepletion
  <2>2. PICK st \in Reconciled(Here, q[1], Needed(ln, q[1])) :
           \E r \in Reconciled(st, q[2], Needed(ln, q[2])) : books' = r.books /\ taken' = r.taken
    BY <2>1
  <2>3. PICK r \in Reconciled(st, q[2], Needed(ln, q[2])) : books' = r.books /\ taken' = r.taken
    BY <2>2
  <2>4. q[1] \in Order /\ q[2] \in Order
    OBVIOUS
  <2>5. Here.taken = taken /\ Here.books = books
    BY DEF Here
  <2>6. Accounted(st.books, st.taken) /\ Besides(books, st.books)
    BY <2>2, <2>4, <2>5, NeededNat, ReconciledAccounted DEF Rebooked
  <2>7. Accounted(r.books, r.taken) /\ Besides(st.books, r.books)
    BY <2>3, <2>4, <2>6, NeededNat, ReconciledAccounted DEF Rebooked
  <2> QED
    BY <2>3, <2>6, <2>7 DEF Rebooked, Besides
<1> QED
  BY <1>1, <1>2

BillsAccountInv ==
  /\ BillsInv /\ Accounted(books, taken)
  /\ call \in [Caller -> Calls] /\ delivered \in 0..MaxDeliveries

LEMMA AccountedStep ==
  ASSUME BillsAccountInv, DepletionNext
  PROVE  Rebooked(books, books', taken')
<1>0. Accounted(books, taken)
  BY DEF BillsAccountInv
<1>a. \A c \in Caller : Aimed(call[c])
  BY DEF BillsAccountInv, BillsInv
<1>1. ASSUME NEW o \in Order, NEW L \in SUBSET Line, NEW status \in {"pending", "accepted"},
             Place(o, L, status)
      PROVE  Rebooked(books, books', taken')
  <2>1. CASE status = "accepted"
    <3>1. Write(Reconciled(Here, o, Needed(line', o)))
      BY <1>1, <2>1 DEF Place, reconcileOrderDepletion
    <3> QED
      BY <1>0, <3>1, AccountedHere, NeededNat
  <2>2. CASE status # "accepted"
    BY <1>0, <1>1, <2>2 DEF Place, Rebooked, Besides
  <2> QED
    BY <2>1, <2>2
<1>2. ASSUME NEW o \in Order, Accept(o)
      PROVE  Rebooked(books, books', taken')
  <2>1. Write(Reconciled(Here, o, Needed(line, o)))
    BY <1>2 DEF Accept, reconcileOrderDepletion
  <2> QED
    BY <1>0, <2>1, AccountedHere, NeededNat
<1>3. ASSUME NEW o \in Order, NEW l \in Line, addOrderItems(o, l)
      PROVE  Rebooked(books, books', taken')
  <2>1. CASE order[o].status = "pending"
    BY <1>0, <1>3, <2>1 DEF addOrderItems, Rebooked, Besides
  <2>2. CASE order[o].status # "pending"
    <3>1. Write(reconcileIfDepleted(line', o))
      BY <1>3, <2>2 DEF addOrderItems
    <3> QED
      BY <1>0, <3>1, AccountedIfDepleted
  <2> QED
    BY <2>1, <2>2
<1>4. ASSUME NEW c \in Caller, voidOrderItem(c)
      PROVE  Rebooked(books, books', taken')
  <2>1. call[c].order \in Order
    BY <1>4, <1>a DEF voidOrderItem, Aimed
  <2>2. Write(reconcileIfDepleted(line', call[c].order))
    BY <1>4 DEF voidOrderItem
  <2> QED
    BY <1>0, <2>1, <2>2, AccountedIfDepleted
<1>5. ASSUME NEW c \in Caller, NEW l \in Line, updateOrder(c, l)
      PROVE  Rebooked(books, books', taken')
  <2>1. call[c].order \in Order
    BY <1>5, <1>a DEF updateOrder, Aimed
  <2>2. Write(reconcileIfDepleted(line', call[c].order))
    BY <1>5 DEF updateOrder
  <2> QED
    BY <1>0, <2>1, <2>2, AccountedIfDepleted
<1>6. ASSUME NEW c \in Caller, cancelOrder(c)
      PROVE  Rebooked(books, books', taken')
  <2>1. call[c].order \in Order
    BY <1>6, <1>a DEF cancelOrder, Aimed
  <2>2. Write(Reconciled(Here, call[c].order, 0))
    BY <1>6 DEF cancelOrder, ReleaseAll
  <2> QED
    BY <1>0, <2>1, <2>2, AccountedHere
<1>7. ASSUME NEW c \in Caller, NEW t \in Order, splitBill(c, t)
      PROVE  Rebooked(books, books', taken')
  <2>1. call[c].order \in Order
    BY <1>7, <1>a DEF splitBill, Aimed
  <2>2. Write(rebalanceDepletion(line', call[c].order, t))
    BY <1>7 DEF splitBill
  <2> QED
    BY <1>0, <1>7, <2>1, <2>2, AccountedRebalanced
<1>8. ASSUME NEW c \in Caller, mergeBills(c)
      PROVE  Rebooked(books, books', taken')
  <2>1. call[c].order \in Order /\ call[c].into \in Order
    BY <1>8, <1>a DEF mergeBills, Aimed
  <2>2. Write(rebalanceDepletion(line', call[c].into, call[c].order))
    BY <1>8 DEF mergeBills
  <2> QED
    BY <1>0, <2>1, <2>2, AccountedRebalanced
<1>9. ASSUME NEW b \in Branch, Delivery(b, 1, 2)
      PROVE  Rebooked(books, books', taken')
  <2> DEFINE specs == Priced(books, 1, 2)
             t == Receive(books, b, 1, specs)
  <2>1. books' = t /\ taken' = taken /\ Len(books.layers) + 1 <= MaxLayers
    BY <1>9 DEF Delivery, Fits
  <2>2. Sound(books)
    BY <1>0 DEF Accounted
  <2>3. Specs(specs, 1) /\ Len(specs) = 1
    BY <2>2, PricedIs
  <2> HIDE DEF specs
  <2>a. 1 \in Nat
    OBVIOUS
  <2>b. Carried(books, t) /\ Len(t.layers) = Len(books.layers) + Len(specs)
    BY ONLY <1>9, <2>2, <2>3, <2>a, Received, Zenon
  <2> HIDE DEF t
  <2>4. Carried(books, t) /\ Len(t.layers) = Len(books.layers) + 1
    BY <2>3, <2>b
  <2>5. Rebooked(books, t, taken)
    BY <1>0, <2>1, <2>4, StaysAccounted DEF Carried, Rebooked
  <2> QED
    BY <2>1, <2>5
<1>10. ASSUME UNCHANGED <<books, taken>>
       PROVE  Rebooked(books, books', taken')
  BY <1>0, <1>10 DEF Rebooked, Besides
<1>11. CASE \E c \in Caller, o \in Order :
              \/ \E l \in Line : JudgeVoid(c, o, l)
              \/ JudgeMore(c, o) \/ JudgeCancel(c, o)
              \/ \E L \in SUBSET Of(line, o) : JudgeSplit(c, o, L)
              \/ \E p \in Order : JudgeMerge(c, o, p)
              \/ splitBill(c, o)
  BY <1>7, <1>10, <1>11 DEF JudgeVoid, JudgeMore, JudgeCancel, JudgeSplit, JudgeMerge, BeginCall
<1>12. CASE \E c \in Caller :
              \/ voidOrderItem(c) \/ \E l \in Line : updateOrder(c, l)
              \/ cancelOrder(c) \/ mergeBills(c) \/ RolledBack(c)
  BY <1>4, <1>5, <1>6, <1>8, <1>10, <1>12 DEF RolledBack
<1> QED
  BY <1>1, <1>2, <1>3, <1>9, <1>11, <1>12 DEF DepletionNext

\* Whatever is judged or closed is one of the calls there are.
LEMMA CallsMade ==
  ASSUME BillsAccountInv, [DepletionNext]_depletionVars
  PROVE  call' \in [Caller -> Calls] /\ delivered' \in 0..MaxDeliveries
<1>0. /\ call \in [Caller -> Calls] /\ delivered \in 0..MaxDeliveries /\ MaxDeliveries \in Nat
      /\ NoCall \in Calls
  BY BillsAreFinite DEF BillsAccountInv, Calls
<1>1. ASSUME NEW c \in Caller, NEW q \in Calls, BeginCall(c, q)
      PROVE  call' \in [Caller -> Calls] /\ delivered' \in 0..MaxDeliveries
  BY <1>0, <1>1 DEF BeginCall
<1>2. ASSUME NEW c \in Caller, call' = [call EXCEPT ![c] = NoCall], UNCHANGED delivered
      PROVE  call' \in [Caller -> Calls] /\ delivered' \in 0..MaxDeliveries
  BY <1>0, <1>2
<1>3. ASSUME UNCHANGED <<call, delivered>>
      PROVE  call' \in [Caller -> Calls] /\ delivered' \in 0..MaxDeliveries
  BY <1>0, <1>3
<1>4. ASSUME NEW c \in Caller, NEW o \in Order, NEW l \in Line, JudgeVoid(c, o, l)
      PROVE  call' \in [Caller -> Calls] /\ delivered' \in 0..MaxDeliveries
  <2>1. [op |-> "void", order |-> o, line |-> l] \in Calls
    BY DEF Calls
  <2> QED
    BY <1>1, <1>4, <2>1 DEF JudgeVoid
<1>5. ASSUME NEW c \in Caller, NEW o \in Order, JudgeMore(c, o) \/ JudgeCancel(c, o)
      PROVE  call' \in [Caller -> Calls] /\ delivered' \in 0..MaxDeliveries
  <2>1. [op |-> "more", order |-> o] \in Calls /\ [op |-> "cancel", order |-> o] \in Calls
    BY DEF Calls
  <2> QED
    BY <1>1, <1>5, <2>1 DEF JudgeMore, JudgeCancel
<1>6. ASSUME NEW c \in Caller, NEW o \in Order, NEW L \in SUBSET Of(line, o),
             JudgeSplit(c, o, L)
      PROVE  call' \in [Caller -> Calls] /\ delivered' \in 0..MaxDeliveries
  <2> DEFINE status == order[o].status
  <2>1. status \in {"pending", "accepted"} /\ L \in SUBSET Line
    BY <1>6 DEF JudgeSplit, Standing, Of
  <2>2. BeginCall(c, [op |-> "split", order |-> o, lines |-> L, status |-> status])
    BY <1>6 DEF JudgeSplit
  <2> HIDE DEF status
  <2>3. [op |-> "split", order |-> o, lines |-> L, status |-> status] \in Calls
    BY <2>1 DEF Calls
  <2> QED
    BY <1>1, <2>2, <2>3
<1>7. ASSUME NEW c \in Caller, NEW o \in Order, NEW p \in Order, JudgeMerge(c, o, p)
      PROVE  call' \in [Caller -> Calls] /\ delivered' \in 0..MaxDeliveries
  <2>1. [op |-> "merge", order |-> o, into |-> p] \in Calls
    BY DEF Calls
  <2> QED
    BY <1>1, <1>7, <2>1 DEF JudgeMerge
<1>8. ASSUME NEW c \in Caller,
             \/ voidOrderItem(c) \/ \E l \in Line : updateOrder(c, l)
             \/ cancelOrder(c) \/ mergeBills(c) \/ RolledBack(c)
             \/ \E t \in Order : splitBill(c, t)
      PROVE  call' \in [Caller -> Calls] /\ delivered' \in 0..MaxDeliveries
  <2>1. call' = [call EXCEPT ![c] = NoCall] /\ UNCHANGED delivered
    BY <1>8, Zenon DEF voidOrderItem, updateOrder, cancelOrder, mergeBills, splitBill, EndCall,
                       RolledBack
  <2> QED
    BY <1>2, <2>1
<1>9. ASSUME NEW o \in Order,
             \/ \E L \in SUBSET Line, status \in {"pending", "accepted"} : Place(o, L, status)
             \/ Accept(o)
             \/ \E l \in Line : addOrderItems(o, l)
      PROVE  call' \in [Caller -> Calls] /\ delivered' \in 0..MaxDeliveries
  <2>1. UNCHANGED <<call, delivered>>
    BY <1>9, Zenon DEF Place, Accept, addOrderItems
  <2> QED
    BY <1>3, <2>1
<1>10. ASSUME NEW b \in Branch, Delivery(b, 1, 2)
       PROVE  call' \in [Caller -> Calls] /\ delivered' \in 0..MaxDeliveries
  <2>1. UNCHANGED call /\ delivered' = delivered + 1 /\ delivered < MaxDeliveries
    BY <1>10, Zenon DEF Delivery
  <2> QED
    BY <1>0, <2>1
<1>11. CASE UNCHANGED depletionVars
  BY <1>3, <1>11 DEF depletionVars
<1>12. CASE \E c \in Caller, o \in Order :
              \/ \E l \in Line : JudgeVoid(c, o, l)
              \/ JudgeMore(c, o) \/ JudgeCancel(c, o)
              \/ \E L \in SUBSET Of(line, o) : JudgeSplit(c, o, L)
              \/ \E p \in Order : JudgeMerge(c, o, p)
              \/ splitBill(c, o)
  BY <1>4, <1>5, <1>6, <1>7, <1>8, <1>12
<1> QED
  BY <1>8, <1>9, <1>10, <1>11, <1>12 DEF DepletionNext

LEMMA NothingOut ==
  ASSUME DepletionInit
  PROVE  Accounted(books, taken)
<1>1. PICK negative \in BOOLEAN : books = OpeningBooks(negative)
  BY DEF DepletionInit
<1>2. /\ Sound(books) /\ books.layers = Opening
      /\ \A b \in Branch : books.shelf[b].uncovered = 0
  BY <1>1, OpeningSound
<1>3. /\ MaxLayers \in Nat /\ Len(Opening) <= MaxLayers /\ Len(Opening) \in Nat
      /\ Opening \in Seq(Layer)
      /\ \A l \in DOMAIN Opening : Opening[l].received = Opening[l].value + Opening[l].spent
      /\ DOMAIN Opening = 1..Len(Opening)
  BY OpeningIsWhole
<1>4. Site \in Branch /\ IsFiniteSet(Order)
  BY SiteIsABranch, BillsAreFinite
<1> DEFINE none == [l \in 0..MaxLayers |-> [qty |-> 0, value |-> 0, turn |-> 0]]
<1>5. \A o \in Order : taken[o] = [depleted |-> FALSE, applied |-> 0, rows |-> none]
  BY DEF DepletionInit, NothingTaken
<1>6. /\ none \in [0..MaxLayers -> [qty: Nat, value: Nat, turn: Nat]]
      /\ \A l \in 0..MaxLayers : none[l].qty = 0 /\ none[l].value = 0
  OBVIOUS
<1> HIDE DEF none
<1>7. taken \in [Order -> TakenRow]
  <2>1. [depleted |-> FALSE, applied |-> 0, rows |-> none] \in TakenRow
    BY <1>6 DEF TakenRow
  <2>2. taken = [o \in Order |-> NothingTaken]
    BY DEF DepletionInit
  <2>3. \A o \in Order : taken[o] \in TakenRow
    BY <1>5, <2>1
  <2> QED
    BY <2>2, <2>3
<1>8. \A o \in Order : taken[o].rows = none /\ taken[o].applied = 0
  BY <1>5
<1>9. AllOut(none) = 0
  <2> DEFINE f == [l \in 0..MaxLayers |-> none[l].qty]
  <2>0. IsFiniteSet(0..MaxLayers)
    BY <1>3, FS_Interval
  <2>1. \A l \in 0..MaxLayers : f[l] = 0
    BY <1>6
  <2> HIDE DEF f
  <2>2. SumFunctionOnSet(f, 0..MaxLayers) = 0
    BY <2>0, <2>1, SumZero
  <2> QED
    BY <2>2 DEF AllOut, f
<1>10. ASSUME NEW l \in 0..MaxLayers PROVE ValueOut(taken, l) = 0
  <2> DEFINE f == [o \in Order |-> taken[o].rows[l].value]
  <2>1. \A o \in Order : f[o] = 0
    BY <1>6, <1>8
  <2> HIDE DEF f
  <2>2. SumFunctionOnSet(f, Order) = 0
    BY <1>4, <2>1, SumZero
  <2> QED
    BY <2>2 DEF ValueOut, f
<1>11. BareOut(taken) = 0
  <2> DEFINE f == [o \in Order |-> taken[o].rows[0].qty]
  <2>1. \A o \in Order : f[o] = 0
    BY <1>3, <1>6, <1>8
  <2> HIDE DEF f
  <2>2. SumFunctionOnSet(f, Order) = 0
    BY <1>4, <2>1, SumZero
  <2> QED
    BY <2>2 DEF BareOut, f
<1>12. \A o \in Order : OnRecord(books, taken[o])
  BY <1>3, <1>6, <1>8, <1>9 DEF OnRecord
<1>13. \A l \in 1..Len(books.layers) :
         books.layers[l].received = books.layers[l].value + books.layers[l].spent
                                      + ValueOut(taken, l)
  <2> SUFFICES ASSUME NEW l \in 1..Len(books.layers)
               PROVE  books.layers[l].received = books.layers[l].value + books.layers[l].spent
                                                   + ValueOut(taken, l)
    OBVIOUS
  <2>1. l \in DOMAIN Opening /\ l \in 0..MaxLayers /\ Opening[l] \in Layer
    BY <1>2, <1>3
  <2>2. ValueOut(taken, l) = 0
    BY <1>10, <2>1
  <2>3. Opening[l].value \in Nat /\ Opening[l].spent \in Nat
    BY <2>1 DEF Layer
  <2> QED
    BY <1>2, <1>3, <2>1, <2>2, <2>3
<1> QED
  BY <1>2, <1>3, <1>4, <1>7, <1>11, <1>12, <1>13 DEF Accounted

LEMMA BillsAccount == BillsAccountInv => StockAccounted
<1> SUFFICES ASSUME BillsAccountInv PROVE StockAccounted
  OBVIOUS
<1>0. Accounted(books, taken)
  BY DEF BillsAccountInv
<1>1. BooksType(books) /\ BooksTie
  BY <1>0, SoundTies DEF Accounted
<1>2. DepletionTypeOK
  BY <1>0, <1>1 DEF BillsAccountInv, BillsInv, LineRow, Accounted, DepletionTypeOK
<1>3. AppliedIsOut
  BY <1>0 DEF Accounted, OnRecord, AllOut, AppliedIsOut, Total
<1>5. DOMAIN books.layers = 1..Len(books.layers)
  BY <1>0, LayersFinite DEF Accounted, Sound, Shelved
<1>6. ValueKept
  <2> DEFINE held == books.layers
  <2>1. ASSUME NEW l \in DOMAIN held
        PROVE  held[l].received = held[l].value + held[l].spent
                                    + Total(LAMBDA o : taken[o].rows[l].value, Order)
    <3>1. held[l].received = held[l].value + held[l].spent + ValueOut(taken, l)
      BY <1>0, <1>5 DEF Accounted
    <3>2. ValueOut(taken, l) = Total(LAMBDA o : taken[o].rows[l].value, Order)
      BY Zenon DEF ValueOut, Total
    <3> QED
      BY <3>1, <3>2, Zenon
  <2>2. \A l \in DOMAIN held : held[l].qty = 0 => held[l].value = 0
    BY <1>0 DEF Accounted, Sound, Shelved
  <2> QED
    BY <2>1, <2>2, Zenon DEF ValueKept
<1> QED
  BY <1>1, <1>2, <1>3, <1>6 DEF StockAccounted

LEMMA NothingTakenYet == DepletionInit => BillsAccountInv
<1> SUFFICES ASSUME DepletionInit PROVE BillsAccountInv
  OBVIOUS
<1>1. BillsInv
  BY NoCallAims DEF DepletionInit, BillsInv, OrderRow, LineRow, TakenSound, NothingTaken, InStep
<1>2. call \in [Caller -> Calls] /\ delivered \in 0..MaxDeliveries
  BY BillsAreFinite DEF DepletionInit, Calls
<1> QED
  BY <1>1, <1>2, NothingOut DEF BillsAccountInv

LEMMA BillsAccountStep == BillsAccountInv /\ [DepletionNext]_depletionVars => BillsAccountInv'
<1> SUFFICES ASSUME BillsAccountInv, [DepletionNext]_depletionVars PROVE BillsAccountInv'
  OBVIOUS
<1>1. BillsInv'
  BY BillsStep DEF BillsAccountInv
<1>2. Accounted(books', taken')
  <2>1. CASE DepletionNext
    BY <2>1, AccountedStep DEF Rebooked
  <2>2. CASE UNCHANGED depletionVars
    BY <2>2 DEF depletionVars, BillsAccountInv
  <2> QED
    BY <2>1, <2>2
<1>3. call' \in [Caller -> Calls] /\ delivered' \in 0..MaxDeliveries
  BY CallsMade
<1> QED
  BY <1>1, <1>2, <1>3 DEF BillsAccountInv

\* Bills and books account for every unit and for what it cost, whichever bills are
\* placed, split, merged, voided and cancelled at once and whatever is delivered: what
\* a bill has taken is what its rows say is out, a layer's value is in it, out on bills
\* or spent to the last unit, and the caches are the layers' (walkFifo,
\* restoreToLayers, reconcileOrderDepletion, postMovement).
THEOREM BillsAndBooksAccount == DepletionSpec => []StockAccounted
<1> QED
  BY NothingTakenYet, BillsAccountStep, BillsAccount, PTL DEF DepletionSpec

------------------------------------------------------------------------------
(* Manifests: the layers drawn for a transfer, in a row                     *)

\* What stands in a line can be put in a sequence.
LEMMA LineUp ==
  ASSUME NEW D, NEW ahead, Lined(D, ahead), NEW S \in SUBSET D, IsFiniteSet(S)
  PROVE  \E q \in [1..Cardinality(S) -> S] :
           \A i, j \in 1..Cardinality(S) : i < j => q[i] \in ahead[q[j]]
<1> DEFINE Queues(T, q) == /\ q \in [1..Cardinality(T) -> T]
                           /\ \A i, j \in 1..Cardinality(T) : i < j => q[i] \in ahead[q[j]]
           G == {T \in SUBSET S : \E q : Queues(T, q)}
<1>1. ASSUME NEW T \in SUBSET S, \A x \in T : T \ {x} \in G
      PROVE  T \in G
  <2>0. IsFiniteSet(T) /\ T \in SUBSET D
    BY FS_Subset
  <2>1. CASE T = {}
    <3> DEFINE q == [i \in 1..0 |-> 0]
    <3>1. Cardinality(T) = 0
      BY <2>1, FS_EmptySet
    <3>2. Queues(T, q)
      BY <3>1
    <3> QED
      BY <3>2
  <2>2. CASE T # {}
    <3>1. PICK x \in T : T \ {x} \subseteq ahead[x]
      BY <2>0, <2>2, LastOfLine
    <3> DEFINE U == T \ {x}
               n == Cardinality(U)
    <3>2. PICK q : Queues(U, q)
      BY <1>1
    <3>3. n \in Nat /\ Cardinality(T) = n + 1
      <4>1. IsFiniteSet(U) /\ Cardinality(U) = Cardinality(T) - 1
        BY <2>0, FS_RemoveElement
      <4>2. Cardinality(T) \in Nat /\ n \in Nat
        BY <2>0, <4>1, FS_CardinalityType
      <4> QED
        BY <4>1, <4>2
    <3> DEFINE r == [i \in 1..(n + 1) |-> IF i = n + 1 THEN x ELSE q[i]]
    <3>4. q \in [1..n -> U] /\ \A i, j \in 1..n : i < j => q[i] \in ahead[q[j]]
      BY <3>2
    <3> HIDE DEF n
    <3>5. r \in [1..(n + 1) -> T]
      BY <3>3, <3>4
    <3>6. ASSUME NEW i \in 1..(n + 1), NEW j \in 1..(n + 1), i < j
          PROVE  r[i] \in ahead[r[j]]
      <4>1. i \in 1..n /\ r[i] = q[i] /\ q[i] \in U
        BY <3>3, <3>4, <3>6
      <4>2. CASE j = n + 1
        BY <3>1, <4>1, <4>2
      <4>3. CASE j # n + 1
        <5>1. j \in 1..n /\ r[j] = q[j]
          BY <3>3, <4>3
        <5> QED
          BY <3>4, <3>6, <4>1, <5>1
      <4> QED
        BY <4>2, <4>3
    <3> HIDE DEF r
    <3>7. Queues(T, r)
      BY <3>3, <3>5, <3>6
    <3> QED
      BY <3>7
  <2> QED
    BY <2>1, <2>2
<1> HIDE DEF G
<1>2. S \in G
  BY <1>1, SetInduction
<1> QED
  BY <1>2 DEF G

\* With enough on the shelf, no part of a draw is of no layer.
LEMMA DrawnWhole ==
  ASSUME NEW s, Shelved(s), NEW b \in Branch, NEW n \in Nat, n <= QtyAt(s.layers, b)
  PROVE  allocateAndConsume(s, b, n)[0].qty = 0
<1> DEFINE D == OpenAt(s, b)
           ahead == [l \in D |-> {k \in D : Older(s, k, l)}]
           have == [l \in D |-> s.layers[l].qty]
           part == Walk(have, ahead, n)
           rest == n - Total(LAMBDA l : part[l], DOMAIN part)
           rows == allocateAndConsume(s, b, n)
<1>1. /\ Typed(s) /\ Len(s.layers) \in Nat /\ IsFiniteSet(DOMAIN s.layers)
      /\ \A l \in DOMAIN s.layers : s.layers[l] \in Layer
  BY LayersFinite DEF Shelved
<1>2. IsFiniteSet(D) /\ have \in [D -> Nat] /\ Lined(D, ahead)
  BY <1>1, OldestFirst
<1>3. SumFunctionOnSet(have, D) = QtyAt(s.layers, b)
  <2> DEFINE A == At(s.layers, b)
             f == [l \in A |-> s.layers[l].qty]
  <2>1. D \in SUBSET A /\ A \in SUBSET (DOMAIN s.layers)
    BY DEF OpenAt, At
  <2>2. IsFiniteSet(A)
    BY <1>1, <2>1, FS_Subset
  <2>3. \A l \in A : f[l] = s.layers[l].qty /\ f[l] \in Nat
    BY <1>1 DEF At, Layer
  <2>4. \A l \in A \ D : f[l] = 0
    BY <2>3 DEF At, OpenAt
  <2>5. \A l \in D : f[l] = have[l]
    BY <2>1
  <2>6. QtyAt(s.layers, b) = SumFunctionOnSet(f, A)
    BY DEF QtyAt
  <2> HIDE DEF f, have, A, D
  <2>7. SumFunctionOnSet(f, A) = SumFunctionOnSet(f, D)
    <3>1. \A l \in A : f[l] \in Int
      BY <2>3
    <3> QED
      BY <2>1, <2>2, <2>4, <3>1, SumWithin
  <2>8. SumFunctionOnSet(f, D) = SumFunctionOnSet(have, D)
    BY <1>2, <2>5, SumSame
  <2> QED
    BY <2>6, <2>7, <2>8
<1>4. rows[0].qty = rest
  <2>1. 0 \in 0..Len(s.layers)
    BY <1>1
  <2> QED
    BY <2>1 DEF allocateAndConsume
<1> HIDE DEF have, ahead, rows
<1>5. part \in [D -> Nat] /\ SumFunctionOnSet(part, D) = n
  BY <1>2, <1>3, WalkTakes
<1> HIDE DEF part
<1>6. rest = n - SumFunctionOnSet(part, D)
  <2> DEFINE g == [l \in DOMAIN part |-> part[l]]
  <2>1. Total(LAMBDA l : part[l], DOMAIN part) = SumFunctionOnSet(g, DOMAIN part)
    BY DEF Total
  <2>2. g = part /\ DOMAIN part = D
    BY <1>5
  <2> QED
    BY <2>1, <2>2
<1> HIDE DEF rest
<1> QED
  BY <1>4, <1>5, <1>6 DEF rows

\* All that is drawn is in the manifest.
LEMMA ManifestIs ==
  ASSUME NEW s, Shelved(s), NEW b \in Branch, NEW n \in Nat, n <= QtyAt(s.layers, b)
  PROVE  Specs(Manifest(s, allocateAndConsume(s, b, n)), n)
<1> DEFINE rows == allocateAndConsume(s, b, n)
           L == DOMAIN s.layers
           E == 0..Len(s.layers)
           S == {l \in L : rows[l].qty > 0}
           k == Cardinality(S)
           q == CHOOSE q \in SetToSeqs(S) : InLine(s, q)
           m == Manifest(s, rows)
<1>1. /\ Typed(s) /\ L = 1..Len(s.layers) /\ Len(s.layers) \in Nat /\ IsFiniteSet(L)
      /\ \A l \in L : s.layers[l] \in Layer
  BY LayersFinite DEF Shelved
<1>2. /\ DOMAIN rows = E /\ QtyOf(rows) = n /\ rows[0].qty = 0
      /\ \A l \in L : rows[l].qty \in Nat /\ rows[l].value \in Nat
  <2>1. Bookable(s, b, rows, 1) /\ QtyOf(rows) = n
    BY Drawn
  <2>2. rows[0].qty = 0
    BY DrawnWhole
  <2> HIDE DEF rows
  <2> QED
    BY <1>1, <2>1, <2>2 DEF Bookable
<1>3. m = [i \in DOMAIN q |-> [qty |-> rows[q[i]].qty, value |-> rows[q[i]].value,
                               date |-> s.layers[q[i]].date]]
  BY DEF Manifest
<1> HIDE DEF rows, m
<1>4. S \in SUBSET L /\ IsFiniteSet(S)
  BY <1>1, FS_Subset
<1>5. k \in Nat
  BY <1>4, FS_CardinalityType
<1>6. \E p \in SetToSeqs(S) : InLine(s, p)
  <2> DEFINE ahead == [l \in L |-> {j \in L : Older(s, j, l)}]
  <2>0. \A l \in L : l \in Nat /\ s.layers[l].date \in Nat
    BY <1>1 DEF Layer
  <2>1. Lined(L, ahead)
    <3>1. \A l \in L : ahead[l] \subseteq L \ {l}
      BY <2>0 DEF Older
    <3>2. \A i, l \in L : i # l => i \in ahead[l] \/ l \in ahead[i]
      BY <2>0 DEF Older
    <3>3. \A l \in L : \A i \in ahead[l] : ahead[i] \subseteq ahead[l]
      <4> SUFFICES ASSUME NEW l \in L, NEW i \in ahead[l], NEW j \in ahead[i]
                   PROVE  j \in ahead[l]
        OBVIOUS
      <4>1. i \in L /\ j \in L /\ Older(s, i, l) /\ Older(s, j, i)
        OBVIOUS
      <4>2. Older(s, j, l)
        BY <2>0, <4>1 DEF Older
      <4> QED
        BY <4>1, <4>2
    <3> QED
      BY <3>1, <3>2, <3>3 DEF Lined
  <2> HIDE DEF ahead, S
  <2>2. PICK p \in [1..k -> S] : \A i, j \in 1..k : i < j => p[i] \in ahead[p[j]]
    BY <1>4, <2>1, LineUp
  <2>3. \A i, j \in 1..k : i < j => Older(s, p[i], p[j]) /\ p[i] # p[j]
    <3> SUFFICES ASSUME NEW i \in 1..k, NEW j \in 1..k, i < j
                 PROVE  Older(s, p[i], p[j]) /\ p[i] # p[j]
      OBVIOUS
    <3>1. p[i] \in ahead[p[j]] /\ p[i] \in L /\ p[j] \in L
      BY <1>4, <2>2
    <3>2. p[i] \in L \ {p[j]}
      BY <2>1, <3>1 DEF Lined
    <3> QED
      BY <3>1, <3>2 DEF ahead
  <2>4. \A i, j \in 1..k : i # j => p[i] # p[j]
    BY <1>5, <2>3
  <2>5. p \in SetToSeqs(S)
    BY <2>2, <2>4 DEF SetToSeqs
  <2>6. InLine(s, p)
    BY <2>2, <2>3 DEF InLine
  <2> QED
    BY <2>5, <2>6
<1>7. q \in SetToSeqs(S)
  BY <1>6
<1> HIDE DEF q
<1>8. q \in [1..k -> S] /\ \A i, j \in 1..k : i # j => q[i] # q[j]
  BY <1>7 DEF SetToSeqs
<1>9. {q[i] : i \in 1..k} = S
  <2>1. q \in Injection(1..k, S)
    BY <1>8 DEF Injection, IsInjective
  <2>2. Cardinality(1..k) = k
    BY <1>5, FS_Interval
  <2> HIDE DEF S
  <2>3. q \in Surjection(1..k, S)
    BY <1>4, <2>1, <2>2, FS_Injection
  <2> QED
    BY <1>8, <2>3 DEF Surjection
<1>10. \A i \in 1..k : /\ m[i].qty = rows[q[i]].qty /\ m[i].qty \in Nat /\ m[i].qty > 0
                       /\ m[i] \in ManifestRow
  <2> SUFFICES ASSUME NEW i \in 1..k
               PROVE  /\ m[i].qty = rows[q[i]].qty /\ m[i].qty \in Nat /\ m[i].qty > 0
                      /\ m[i] \in ManifestRow
    OBVIOUS
  <2>1. q[i] \in S /\ DOMAIN q = 1..k
    BY <1>8
  <2> DEFINE l == q[i]
  <2>2. /\ l \in L /\ rows[l].qty > 0 /\ rows[l].qty \in Nat /\ rows[l].value \in Nat
        /\ s.layers[l].date \in Nat
    BY <1>1, <1>2, <2>1 DEF Layer
  <2>3. m[i] = [qty |-> rows[l].qty, value |-> rows[l].value, date |-> s.layers[l].date]
    BY <1>3, <2>1
  <2> HIDE DEF l, m, S
  <2> QED
    BY <2>2, <2>3 DEF ManifestRow, l
<1>11. m \in Seq(ManifestRow) /\ DOMAIN m = 1..k
  <2>1. DOMAIN q = 1..k
    BY <1>8
  <2>2. m \in [1..k -> ManifestRow]
    BY <1>3, <1>10, <2>1
  <2> HIDE DEF k
  <2> QED
    BY <1>5, <2>2
<1>12. SumFunctionOnSet([i \in DOMAIN m |-> m[i].qty], DOMAIN m) = n
  <2> DEFINE f == QtyColumn(rows)
             g == [i \in DOMAIN m |-> m[i].qty]
  <2>1. \A l \in E : f[l] = rows[l].qty /\ f[l] \in Int
    <3> SUFFICES ASSUME NEW l \in E PROVE f[l] = rows[l].qty /\ f[l] \in Int
      OBVIOUS
    <3>1. f[l] = rows[l].qty
      BY <1>2 DEF QtyColumn
    <3>2. l = 0 \/ l \in L
      BY <1>1
    <3> QED
      BY <1>2, <3>1, <3>2
  <2>2. S \in SUBSET E /\ IsFiniteSet(E) /\ \A l \in E \ S : f[l] = 0
    <3>1. S \in SUBSET E
      BY <1>1
    <3>2. IsFiniteSet(E)
      <4>1. 0 \in Int /\ Len(s.layers) \in Int
        BY <1>1
      <4> QED
        BY ONLY <4>1, FS_Interval
    <3>3. ASSUME NEW l \in E \ S PROVE f[l] = 0
      <4>1. l = 0 \/ (l \in L /\ ~(rows[l].qty > 0))
        BY <1>1
      <4> QED
        BY <1>2, <2>1, <4>1
    <3> QED
      BY <3>1, <3>2, <3>3
  <2>3. QtyOf(rows) = SumFunctionOnSet(f, E)
    BY <1>2 DEF QtyOf, Total, QtyColumn
  <2>4. \A i \in 1..k : g[i] \in Int /\ f[q[i]] = g[i]
    <3> SUFFICES ASSUME NEW i \in 1..k PROVE g[i] \in Int /\ f[q[i]] = g[i]
      OBVIOUS
    <3>1. g[i] = m[i].qty
      BY <1>11
    <3>2. q[i] \in E
      BY <1>8, <2>2
    <3> QED
      BY <1>10, <2>1, <3>1, <3>2
  <2>5. \A i, j \in 1..k : q[i] = q[j] => i = j
    BY <1>8
  <2>6. IsFiniteSet(1..k)
    BY <1>5, FS_Interval
  <2> HIDE DEF f, g, S
  <2>7. SumFunctionOnSet(f, E) = SumFunctionOnSet(f, S)
    BY <2>1, <2>2, SumWithin
  <2>8. SumFunctionOnSet(f, {q[i] : i \in 1..k}) = SumFunctionOnSet(g, 1..k)
    <3> DEFINE K == 1..k
    <3>1. /\ IsFiniteSet(K) /\ \A i \in K : g[i] \in Int /\ f[q[i]] = g[i]
          /\ \A i, j \in K : q[i] = q[j] => i = j
      BY <2>4, <2>5, <2>6
    <3> HIDE DEF K
    <3>2. SumFunctionOnSet(f, {q[i] : i \in K}) = SumFunctionOnSet(g, K)
      BY ONLY <3>1, SumAlong
    <3> QED
      BY <3>2 DEF K
  <2>9. SumFunctionOnSet(f, {q[i] : i \in 1..k}) = SumFunctionOnSet(f, S)
    BY <1>9, Zenon
  <2>10. SumFunctionOnSet(g, DOMAIN m) = SumFunctionOnSet(g, 1..k)
    BY <1>11, Zenon
  <2>11. SumFunctionOnSet(g, DOMAIN m) = n
    BY ONLY <1>2, <2>3, <2>7, <2>8, <2>9, <2>10
  <2> QED
    BY <2>11 DEF g
<1>13. \A i \in DOMAIN m : m[i].qty = 0 => m[i].value = 0
  BY <1>10, <1>11
<1> QED
  BY <1>11, <1>12, <1>13 DEF Specs, m, rows

------------------------------------------------------------------------------
(* Transfers: what is promised and what is on its way                       *)

\* What a step does to the books besides their goods: at from, reserved goes up by
\* held, and at to, what is on its way by sent.
Shifted(s, u, from, held, to, sent) ==
  /\ Grown(s, u)
  /\ \A c \in Branch :
       /\ u.shelf[c].reserved = s.shelf[c].reserved + (IF c = from THEN held ELSE 0)
       /\ u.shelf[c].inTransit = s.shelf[c].inTransit + (IF c = to THEN sent ELSE 0)

\* A shelf set to r, which holds as much.
AsMuch(s, b, r, u) ==
  /\ r \in Shelf /\ r.available = s.shelf[b].available /\ r.uncovered = s.shelf[b].uncovered
  /\ DOMAIN u = Columns /\ u.shelf = [s.shelf EXCEPT ![b] = r]
  /\ u.quantity = s.quantity /\ u.stockValue = s.stockValue /\ u.cost = s.cost
  /\ u.mayGoNegative = s.mayGoNegative /\ u.layers = s.layers

LEMMA Reshelved ==
  ASSUME NEW s, Sound(s), NEW b \in Branch, NEW r, NEW u, AsMuch(s, b, r, u)
  PROVE  Sound(u) /\ u.shelf[b] = r /\ \A c \in Branch \ {b} : u.shelf[c] = s.shelf[c]
<1>1. Typed(s) /\ s.shelf \in [Branch -> Shelf]
  BY DEF Sound, Shelved, Typed
<1>2. u.shelf[b] = r /\ (\A c \in Branch \ {b} : u.shelf[c] = s.shelf[c])
        /\ u.shelf \in [Branch -> Shelf]
  BY <1>1 DEF AsMuch
<1>3. Typed(u)
  BY <1>1, <1>2 DEF Typed, AsMuch
<1>4. \A c \in Branch : u.shelf[c].available = s.shelf[c].available
                        /\ u.shelf[c].uncovered = s.shelf[c].uncovered
  BY <1>2 DEF AsMuch
<1>5. OnShelves(u.shelf) = OnShelves(s.shelf)
  <2> DEFINE f == [c \in Branch |-> u.shelf[c].available]
             g == [c \in Branch |-> s.shelf[c].available]
  <2>1. \A c \in Branch : f[c] = g[c]
    BY <1>4
  <2>2. OnShelves(u.shelf) = SumFunctionOnSet(f, Branch)
        /\ OnShelves(s.shelf) = SumFunctionOnSet(g, Branch)
    BY DEF OnShelves
  <2> HIDE DEF f, g
  <2>3. SumFunctionOnSet(f, Branch) = SumFunctionOnSet(g, Branch)
    BY <2>1, BranchesAreFinite, SumSame
  <2> QED
    BY <2>2, <2>3
<1>6. Shelved(u)
  BY <1>3, <1>4, <1>5 DEF Sound, Shelved, AsMuch
<1>7. Valued(u)
  BY DEF Sound, Valued, AsMuch
<1> QED
  BY <1>2, <1>6, <1>7 DEF Sound

\* A shelf promised or awaited on costs no goods.
LEMMA SameGrown ==
  ASSUME NEW s, NEW u, Sound(s), Sound(u), u.layers = s.layers,
         \A c \in Branch : u.shelf[c].uncovered = s.shelf[c].uncovered
  PROVE  Grown(s, u)
<1>1. /\ Typed(s) /\ Len(s.layers) \in Nat
      /\ \A c \in Branch : s.shelf[c].uncovered \in Int
  BY LayersFinite DEF Sound, Shelved, Typed, Shelf
<1> QED
  BY <1>1 DEF Grown

LEMMA HoldIs ==
  ASSUME NEW s, Sound(s), NEW b \in Branch, NEW n \in Int, NEW to
  PROVE  /\ Shifted(s, Hold(s, b, n), b, n, to, 0)
         /\ Hold(s, b, n).layers = s.layers
         /\ \A c \in Branch : /\ Hold(s, b, n).shelf[c].available = s.shelf[c].available
                              /\ Hold(s, b, n).shelf[c].uncovered = s.shelf[c].uncovered
<1> DEFINE u == Hold(s, b, n)
           v == s.shelf[b].reserved + n
           r == [s.shelf[b] EXCEPT !.reserved = v]
<1>1. Typed(s) /\ s.shelf \in [Branch -> Shelf] /\ DOMAIN s = Columns
  BY DEF Sound, Shelved, Typed
<1>2. s.shelf[b] \in Shelf /\ v \in Int /\ \A c \in Branch : s.shelf[c] \in Shelf
  BY <1>1 DEF Shelf
<1>3. u = [s EXCEPT !.shelf = [s.shelf EXCEPT ![b] = r]]
  BY <1>1 DEF Hold, Columns
<1> HIDE DEF v
<1>4. /\ r \in Shelf /\ r.available = s.shelf[b].available /\ r.uncovered = s.shelf[b].uncovered
      /\ r.inTransit = s.shelf[b].inTransit /\ r.reserved = v
  BY <1>2 DEF Shelf
<1> HIDE DEF r, u
<1>5. /\ DOMAIN u = Columns /\ u.shelf = [s.shelf EXCEPT ![b] = r]
      /\ u.quantity = s.quantity /\ u.stockValue = s.stockValue /\ u.cost = s.cost
      /\ u.mayGoNegative = s.mayGoNegative /\ u.layers = s.layers
  BY <1>1, <1>3 DEF Columns
<1>6. Sound(u) /\ u.shelf[b] = r /\ \A c \in Branch \ {b} : u.shelf[c] = s.shelf[c]
  <2>1. AsMuch(s, b, r, u)
    BY <1>4, <1>5 DEF AsMuch
  <2> QED
    BY <2>1, Reshelved
<1>7. ASSUME NEW c \in Branch
      PROVE  /\ u.shelf[c].reserved = s.shelf[c].reserved + (IF c = b THEN n ELSE 0)
             /\ u.shelf[c].inTransit = s.shelf[c].inTransit + (IF c = to THEN 0 ELSE 0)
             /\ u.shelf[c].available = s.shelf[c].available
             /\ u.shelf[c].uncovered = s.shelf[c].uncovered
  <2>1. s.shelf[c].reserved \in Int /\ s.shelf[c].inTransit \in Int
    BY <1>2 DEF Shelf
  <2>2. CASE c = b
    BY <1>4, <1>6, <2>1, <2>2 DEF v
  <2>3. CASE c # b
    BY <1>6, <2>1, <2>3
  <2> QED
    BY <2>2, <2>3
<1>8. Grown(s, u)
  BY <1>5, <1>6, <1>7, SameGrown
<1> QED
  BY <1>5, <1>7, <1>8 DEF Shifted, u

LEMMA InboundIs ==
  ASSUME NEW s, Sound(s), NEW b \in Branch, NEW n \in Int, NEW from
  PROVE  /\ Shifted(s, Inbound(s, b, n), from, 0, b, n)
         /\ Inbound(s, b, n).layers = s.layers
<1> DEFINE u == Inbound(s, b, n)
           v == s.shelf[b].inTransit + n
           r == [s.shelf[b] EXCEPT !.inTransit = v]
<1>1. Typed(s) /\ s.shelf \in [Branch -> Shelf] /\ DOMAIN s = Columns
  BY DEF Sound, Shelved, Typed
<1>2. s.shelf[b] \in Shelf /\ v \in Int /\ \A c \in Branch : s.shelf[c] \in Shelf
  BY <1>1 DEF Shelf
<1>3. u = [s EXCEPT !.shelf = [s.shelf EXCEPT ![b] = r]]
  BY <1>1 DEF Inbound, Columns
<1> HIDE DEF v
<1>4. /\ r \in Shelf /\ r.available = s.shelf[b].available /\ r.uncovered = s.shelf[b].uncovered
      /\ r.reserved = s.shelf[b].reserved /\ r.inTransit = v
  BY <1>2 DEF Shelf
<1> HIDE DEF r, u
<1>5. /\ DOMAIN u = Columns /\ u.shelf = [s.shelf EXCEPT ![b] = r]
      /\ u.quantity = s.quantity /\ u.stockValue = s.stockValue /\ u.cost = s.cost
      /\ u.mayGoNegative = s.mayGoNegative /\ u.layers = s.layers
  BY <1>1, <1>3 DEF Columns
<1>6. Sound(u) /\ u.shelf[b] = r /\ \A c \in Branch \ {b} : u.shelf[c] = s.shelf[c]
  <2>1. AsMuch(s, b, r, u)
    BY <1>4, <1>5 DEF AsMuch
  <2> QED
    BY <2>1, Reshelved
<1>7. ASSUME NEW c \in Branch
      PROVE  /\ u.shelf[c].reserved = s.shelf[c].reserved + (IF c = from THEN 0 ELSE 0)
             /\ u.shelf[c].inTransit = s.shelf[c].inTransit + (IF c = b THEN n ELSE 0)
             /\ u.shelf[c].uncovered = s.shelf[c].uncovered
  <2>1. s.shelf[c].reserved \in Int /\ s.shelf[c].inTransit \in Int
    BY <1>2 DEF Shelf
  <2>2. CASE c = b
    BY <1>4, <1>6, <2>1, <2>2 DEF v
  <2>3. CASE c # b
    BY <1>6, <2>1, <2>3
  <2> QED
    BY <2>2, <2>3
<1>8. Grown(s, u)
  BY <1>5, <1>6, <1>7, SameGrown
<1> QED
  BY <1>5, <1>7, <1>8 DEF Shifted, u

\* Goods that come or go shift nothing, before another shift or after it.
LEMMA CarriedShifts ==
  ASSUME NEW s, Sound(s), NEW t, NEW u, NEW from, NEW held, NEW to, NEW sent,
         \/ Carried(s, t) /\ Shifted(t, u, from, held, to, sent)
         \/ Shifted(s, t, from, held, to, sent) /\ Carried(t, u)
  PROVE  Shifted(s, u, from, held, to, sent)
<1>1. Grown(s, u)
  BY GrownOn DEF Carried, Shifted
<1> QED
  BY <1>1 DEF Carried, Shifted, Besides

LEMMA ShiftsAdd ==
  ASSUME NEW s, Sound(s), NEW t, NEW u, NEW from, NEW held \in Int, NEW to, NEW sent \in Int,
         NEW other, NEW another,
         Shifted(s, t, from, held, other, 0), Shifted(t, u, another, 0, to, sent)
  PROVE  Shifted(s, u, from, held, to, sent)
<1> SUFFICES ASSUME NEW c \in Branch
             PROVE  /\ u.shelf[c].reserved = s.shelf[c].reserved + (IF c = from THEN held ELSE 0)
                    /\ u.shelf[c].inTransit = s.shelf[c].inTransit + (IF c = to THEN sent ELSE 0)
  <2>1. Grown(s, u)
    BY GrownOn DEF Shifted
  <2> QED
    BY <2>1 DEF Shifted
<1>1. s.shelf[c] \in Shelf
  BY DEF Sound, Shelved, Typed
<1>2. s.shelf[c].reserved \in Int /\ s.shelf[c].inTransit \in Int
  BY <1>1 DEF Shelf
<1>3. /\ t.shelf[c].reserved = s.shelf[c].reserved + (IF c = from THEN held ELSE 0)
      /\ t.shelf[c].inTransit = s.shelf[c].inTransit
  BY <1>2 DEF Shifted
<1>4. /\ u.shelf[c].reserved = t.shelf[c].reserved
      /\ u.shelf[c].inTransit = t.shelf[c].inTransit + (IF c = to THEN sent ELSE 0)
  BY <1>2, <1>3 DEF Shifted
<1> QED
  BY <1>3, <1>4

\* A transfer in the van has its manifest.
Covered(row) ==
  row \in TransferRow /\ (row.status = "DISPATCHED" => Specs(row.manifest, row.sent))

HeldBy(row, b) == IF row.status = "APPROVED" /\ row.from = b THEN row.allowed ELSE 0
SentBy(row, b) == IF row.status = "DISPATCHED" /\ row.to = b THEN row.sent ELSE 0
HeldAll(tr, b) == SumFunctionOnSet([t \in Transfer |-> HeldBy(tr[t], b)], Transfer)
SentAll(tr, b) == SumFunctionOnSet([t \in Transfer |-> SentBy(tr[t], b)], Transfer)

TransfersInv(s, tr) ==
  /\ Sound(s) /\ Len(s.layers) <= MaxLayers
  /\ tr \in [Transfer -> TransferRow] /\ \A t \in Transfer : Covered(tr[t])
  /\ \A b \in Branch : /\ s.shelf[b].reserved = HeldAll(tr, b)
                       /\ s.shelf[b].inTransit = SentAll(tr, b)

\* What a clerk's step leaves: promises tie, and bills stay on record.
Restocked(s, u, tr) == TransfersInv(u, tr) /\ Grown(s, u)

\* A row's own part of the sums.
Part(old, row, from, held, to, sent) ==
  \A c \in Branch : /\ HeldBy(row, c) = HeldBy(old, c) + (IF c = from THEN held ELSE 0)
                    /\ SentBy(row, c) = SentBy(old, c) + (IF c = to THEN sent ELSE 0)

LEMMA RowParts ==
  ASSUME NEW row \in TransferRow, NEW b
  PROVE  HeldBy(row, b) \in Nat /\ SentBy(row, b) \in Nat
<1>1. row.allowed \in Nat /\ row.sent \in Nat
  BY StoreIsFinite DEF TransferRow
<1> QED
  BY <1>1 DEF HeldBy, SentBy

LEMMA OthersHold ==
  ASSUME NEW tr \in [Transfer -> TransferRow], NEW t \in Transfer, NEW b
  PROVE  HeldAll(tr, b) \in Nat /\ HeldBy(tr[t], b) <= HeldAll(tr, b)
<1> DEFINE f == [x \in Transfer |-> HeldBy(tr[x], b)]
           R == Transfer \ {t}
<1>1. IsFiniteSet(Transfer)
  BY StoreIsFinite
<1>2. \A x \in Transfer : f[x] \in Nat
  BY RowParts
<1>3. f[t] = HeldBy(tr[t], b) /\ HeldAll(tr, b) = SumFunctionOnSet(f, Transfer)
  BY DEF HeldAll
<1> HIDE DEF f
<1>4. IsFiniteSet(R)
  BY <1>1, FS_Subset
<1>5. SumFunctionOnSet(f, R) \in Nat
  BY <1>2, <1>4, SumNat
<1>6. SumFunctionOnSet(f, Transfer) = f[t] + SumFunctionOnSet(f, R)
  <2>1. \A x \in Transfer : f[x] \in Int
    BY <1>2
  <2> QED
    BY <1>1, <2>1, SumTake
<1>7. f[t] \in Nat
  BY <1>2
<1> QED
  BY <1>3, <1>5, <1>6, <1>7

\* One row is changed and the books are shifted by as much.
LEMMA RowShifts ==
  ASSUME NEW s, NEW tr, TransfersInv(s, tr), NEW t \in Transfer, NEW row, Covered(row),
         NEW u, Len(u.layers) <= MaxLayers,
         NEW from, NEW held \in Int, NEW to, NEW sent \in Int,
         Shifted(s, u, from, held, to, sent), Part(tr[t], row, from, held, to, sent)
  PROVE  Restocked(s, u, [tr EXCEPT ![t] = row])
<1> DEFINE tn == [tr EXCEPT ![t] = row]
<1>1. /\ tr \in [Transfer -> TransferRow] /\ IsFiniteSet(Transfer) /\ row \in TransferRow
      /\ \A x \in Transfer : Covered(tr[x])
  BY StoreIsFinite DEF TransfersInv, Covered
<1>2. /\ tn \in [Transfer -> TransferRow] /\ tn[t] = row
      /\ \A x \in Transfer \ {t} : tn[x] = tr[x]
  BY <1>1
<1> HIDE DEF tn
<1>3. \A x \in Transfer : Covered(tn[x])
  BY <1>1, <1>2
<1>4. ASSUME NEW c \in Branch PROVE u.shelf[c].reserved = HeldAll(tn, c)
  <2> DEFINE f == [x \in Transfer |-> HeldBy(tr[x], c)]
             h == [x \in Transfer |-> HeldBy(tn[x], c)]
             d == IF c = from THEN held ELSE 0
  <2>1. \A x \in Transfer : f[x] \in Int
    <3>1. \A x \in Transfer : HeldBy(tr[x], c) \in Nat
      BY <1>1, RowParts
    <3> QED
      BY <3>1
  <2>2. h[t] \in Int
    BY <1>1, <1>2, RowParts
  <2>3. \A x \in Transfer \ {t} : h[x] = f[x]
    BY <1>2
  <2>4. h[t] = f[t] + d /\ d \in Int
    BY <1>2 DEF Part
  <2>5. HeldAll(tr, c) = SumFunctionOnSet(f, Transfer) /\ HeldAll(tn, c) = SumFunctionOnSet(h, Transfer)
    BY DEF HeldAll
  <2>6. u.shelf[c].reserved = s.shelf[c].reserved + d /\ s.shelf[c].reserved = HeldAll(tr, c)
    BY DEF Shifted, TransfersInv
  <2> HIDE DEF f, h, d
  <2>7. SumFunctionOnSet(h, Transfer) = SumFunctionOnSet(f, Transfer) + (h[t] - f[t])
    BY <1>1, <2>1, <2>2, <2>3, SumMoved
  <2>8. SumFunctionOnSet(f, Transfer) \in Int /\ f[t] \in Int
    BY <1>1, <2>1, SumTyped
  <2> QED
    BY <2>2, <2>4, <2>5, <2>6, <2>7, <2>8
<1>5. ASSUME NEW c \in Branch PROVE u.shelf[c].inTransit = SentAll(tn, c)
  <2> DEFINE f == [x \in Transfer |-> SentBy(tr[x], c)]
             h == [x \in Transfer |-> SentBy(tn[x], c)]
             d == IF c = to THEN sent ELSE 0
  <2>1. \A x \in Transfer : f[x] \in Int
    <3>1. \A x \in Transfer : SentBy(tr[x], c) \in Nat
      BY <1>1, RowParts
    <3> QED
      BY <3>1
  <2>2. h[t] \in Int
    BY <1>1, <1>2, RowParts
  <2>3. \A x \in Transfer \ {t} : h[x] = f[x]
    BY <1>2
  <2>4. h[t] = f[t] + d /\ d \in Int
    BY <1>2 DEF Part
  <2>5. SentAll(tr, c) = SumFunctionOnSet(f, Transfer) /\ SentAll(tn, c) = SumFunctionOnSet(h, Transfer)
    BY DEF SentAll
  <2>6. u.shelf[c].inTransit = s.shelf[c].inTransit + d /\ s.shelf[c].inTransit = SentAll(tr, c)
    BY DEF Shifted, TransfersInv
  <2> HIDE DEF f, h, d
  <2>7. SumFunctionOnSet(h, Transfer) = SumFunctionOnSet(f, Transfer) + (h[t] - f[t])
    BY <1>1, <2>1, <2>2, <2>3, SumMoved
  <2>8. SumFunctionOnSet(f, Transfer) \in Int /\ f[t] \in Int
    BY <1>1, <2>1, SumTyped
  <2> QED
    BY <2>2, <2>4, <2>5, <2>6, <2>7, <2>8
<1> QED
  <2>1. Grown(s, u) /\ Sound(u)
    BY DEF Shifted, Grown
  <2> QED
    BY <1>2, <1>3, <1>4, <1>5, <2>1 DEF TransfersInv, Restocked, tn

\* Goods come and go, and no transfer with them.
LEMMA GoodsMove ==
  ASSUME NEW s, NEW tr, TransfersInv(s, tr), NEW t, Carried(s, t), Len(t.layers) <= MaxLayers
  PROVE  Restocked(s, t, tr)
  BY DEF TransfersInv, Carried, Grown, Besides, Restocked

LEMMA StaysPut ==
  ASSUME NEW s, Sound(s), NEW from, NEW to
  PROVE  Shifted(s, s, from, 0, to, 0)
<1>1. \A c \in Branch : s.shelf[c] \in Shelf
  BY DEF Sound, Shelved, Typed
<1>2. \A c \in Branch : s.shelf[c].reserved \in Int /\ s.shelf[c].inTransit \in Int
  BY <1>1 DEF Shelf
<1>3. Grown(s, s)
  BY SameGrown
<1> QED
  BY <1>2, <1>3 DEF Shifted

\* A transfer is decided by one clerk, and stays requested meanwhile.
Deciding(tr, cl) ==
  /\ \A c \in Clerk : cl[c].op = "approve" => tr[cl[c].transfer].status = "REQUESTED"
  /\ \A c, d \in Clerk :
       cl[c].op = "approve" /\ cl[d].op = "approve" /\ cl[c].transfer = cl[d].transfer => c = d

StoreInv ==
  /\ TransfersInv(books, transfer)
  /\ tally \in [Count -> TallyRow] /\ clerk \in [Clerk -> Clerks] /\ moves \in 0..MaxMoves
  /\ Deciding(transfer, clerk)

LEMMA ClerksAre ==
  ASSUME StoreInv, NEW c \in Clerk
  PROVE  /\ clerk[c] \in Clerks
         /\ clerk[c].op = "approve" =>
              clerk[c].transfer \in Transfer /\ clerk[c].allow \in 0..MaxAsked
         /\ clerk[c].op = "record" => clerk[c].count \in Count /\ clerk[c].systemQty \in Int
                                        /\ clerk[c].counted \in 0..MaxAsked
         /\ clerk[c].op \in {"submit", "cancel"} => clerk[c].count \in Count
<1>1. clerk[c] \in Clerks
  BY DEF StoreInv
<1> QED
  BY <1>1 DEF Clerks, Free

LEMMA RowIs ==
  ASSUME StoreInv, NEW t \in Transfer
  PROVE  /\ transfer[t] \in TransferRow /\ Covered(transfer[t])
         /\ transfer[t].from \in Branch /\ transfer[t].to \in Branch
         /\ transfer[t].allowed \in 0..MaxAsked /\ transfer[t].sent \in 0..MaxAsked
         /\ transfer[t].allowed \in Nat /\ transfer[t].sent \in Nat
         /\ Sound(books) /\ Len(books.layers) <= MaxLayers
<1>1. /\ transfer[t] \in TransferRow /\ Covered(transfer[t])
      /\ Sound(books) /\ Len(books.layers) <= MaxLayers
  BY DEF StoreInv, TransfersInv
<1> QED
  BY <1>1, StoreIsFinite DEF TransferRow

LEMMA StandsAside ==
  ASSUME StoreInv, UNCHANGED <<books, transfer>>
  PROVE  Restocked(books, books', transfer')
<1>1. TransfersInv(books, transfer) /\ Sound(books)
  BY DEF StoreInv, TransfersInv
<1>2. Grown(books, books)
  BY <1>1, SameGrown
<1> QED
  BY <1>1, <1>2 DEF Restocked

LEMMA RequestMoves ==
  ASSUME StoreInv, NEW t \in Transfer, NEW from \in Branch, NEW to \in Branch,
         NEW n \in 1..MaxAsked, requestTransfer(t, from, to, n)
  PROVE  Restocked(books, books', transfer')
<1> DEFINE old == transfer[t]
           row == [old EXCEPT !.status = "REQUESTED", !.from = from, !.to = to, !.allowed = n]
<1>1. old \in TransferRow /\ Sound(books) /\ Len(books.layers) <= MaxLayers
      /\ old.status = "NONE" /\ TransfersInv(books, transfer)
  BY RowIs DEF requestTransfer, StoreInv
<1>2. n \in 0..MaxAsked
  BY StoreIsFinite
<1>3. row \in TransferRow /\ row.status = "REQUESTED"
  BY <1>1, <1>2 DEF TransferRow
<1>4. transfer' = [transfer EXCEPT ![t] = row] /\ books' = books
  BY DEF requestTransfer
<1> HIDE DEF row, old
<1>5. Covered(row) /\ Part(old, row, from, 0, to, 0)
  BY <1>1, <1>3 DEF Covered, Part, HeldBy, SentBy
<1>6. Shifted(books, books, from, 0, to, 0)
  BY <1>1, StaysPut
<1>7. Restocked(books, books, [transfer EXCEPT ![t] = row])
  BY <1>1, <1>5, <1>6, RowShifts DEF old
<1> QED
  BY <1>4, <1>7

LEMMA ApproveMoves ==
  ASSUME StoreInv, NEW c \in Clerk, approveTransfer(c)
  PROVE  Restocked(books, books', transfer')
<1>0. PICK t \in Transfer, n \in 0..MaxAsked : t = clerk[c].transfer /\ n = clerk[c].allow
  BY ClerksAre DEF approveTransfer
<1> DEFINE old == transfer[t]
           row == [old EXCEPT !.status = "APPROVED", !.allowed = n]
           u == Hold(books, old.from, n)
<1>1. /\ old \in TransferRow /\ Sound(books) /\ Len(books.layers) <= MaxLayers
      /\ old.from \in Branch /\ TransfersInv(books, transfer) /\ n \in Int /\ n \in Nat
  BY <1>0, RowIs DEF StoreInv
<1>2. /\ old.status = "REQUESTED" /\ transfer' = [transfer EXCEPT ![t] = row] /\ books' = u
  BY <1>0 DEF approveTransfer, StoreInv, Deciding
<1>3. row \in TransferRow /\ row.status = "APPROVED" /\ row.from = old.from /\ row.allowed = n
  BY <1>0, <1>1 DEF TransferRow
<1> HIDE DEF row, old
<1>5. Covered(row) /\ Part(old, row, old.from, n, old.to, 0)
  BY <1>1, <1>2, <1>3 DEF Covered, Part, HeldBy, SentBy
<1>6. Shifted(books, u, old.from, n, old.to, 0) /\ u.layers = books.layers
  BY <1>1, HoldIs
<1> HIDE DEF u
<1>7. Len(u.layers) <= MaxLayers /\ 0 \in Int
  BY <1>1, <1>6
<1>8. Restocked(books, u, [transfer EXCEPT ![t] = row])
  BY <1>1, <1>5, <1>6, <1>7, RowShifts DEF old
<1> QED
  BY <1>2, <1>8

LEMMA DispatchMoves ==
  ASSUME StoreInv, NEW t \in Transfer, NEW n \in 0..MaxAsked, dispatchTransfer(t, n)
  PROVE  Restocked(books, books', transfer')
<1> DEFINE old == transfer[t]
           k == old.allowed
           m == 0 - k
           v == Hold(books, old.from, m)
           rows == allocateAndConsume(v, old.from, n)
           list == Manifest(v, rows)
           row == [old EXCEPT !.status = "DISPATCHED", !.sent = n, !.manifest = list]
           u == IF n = 0 THEN v ELSE Inbound(Issue(v, old.from, n), old.to, n)
<1>1. /\ old \in TransferRow /\ Sound(books) /\ Len(books.layers) <= MaxLayers
      /\ old.from \in Branch /\ old.to \in Branch /\ k \in Nat /\ old.status = "APPROVED"
      /\ TransfersInv(books, transfer) /\ n \in Nat
  BY RowIs, StoreIsFinite DEF dispatchTransfer, StoreInv
<1>2. m \in Int /\ -k = m
  BY <1>1
<1>3. v = Released(t, n)
  BY <1>2 DEF Released
<1>4. /\ transfer' = [transfer EXCEPT ![t] = row] /\ books' = u
      /\ n > 0 => Sufficient(v, old.from, n)
  BY <1>3 DEF dispatchTransfer
<1>5. /\ Shifted(books, v, old.from, m, old.to, 0) /\ v.layers = books.layers
  BY <1>1, <1>2, HoldIs
<1> HIDE DEF v, rows, list, m
<1>6. /\ Sound(v) /\ Shelved(v) /\ v.shelf[old.from] \in Shelf
      /\ QtyAt(v.layers, old.from) = v.shelf[old.from].available + v.shelf[old.from].uncovered
      /\ v.shelf[old.from].uncovered >= 0 /\ Len(v.layers) <= MaxLayers
  BY <1>1, <1>5 DEF Shifted, Grown, Sound, Shelved, Typed
<1>7. v.shelf[old.from].reserved \in Nat
  <2>1. v.shelf[old.from].reserved = books.shelf[old.from].reserved + m
    BY <1>1, <1>5 DEF Shifted
  <2>2. books.shelf[old.from].reserved = HeldAll(transfer, old.from)
    BY <1>1 DEF TransfersInv
  <2>3. HeldBy(transfer[t], old.from) = k
    BY <1>1 DEF HeldBy
  <2>4. transfer \in [Transfer -> TransferRow]
    BY <1>1 DEF TransfersInv
  <2> DEFINE b == old.from
             all == HeldAll(transfer, b)
  <2>5. all \in Nat /\ HeldBy(transfer[t], b) <= all
    BY <2>4, OthersHold
  <2> HIDE DEF all
  <2> QED
    BY <1>1, <2>1, <2>2, <2>3, <2>5 DEF m, all
<1>8. n <= QtyAt(v.layers, old.from)
  <2>1. v.shelf[old.from].available \in Int /\ v.shelf[old.from].uncovered \in Int
        /\ v.shelf[old.from].reserved \in Int
    BY <1>6 DEF Shelf
  <2>2. QtyAt(v.layers, old.from) \in Nat
    <3>1. v.layers \in Seq(Layer)
      BY <1>6 DEF Shelved, Typed
    <3> QED
      BY <3>1, QtyAtTyped
  <2>3. CASE n = 0
    BY <2>2, <2>3
  <2>4. CASE n # 0
    <3> DEFINE x == v.shelf[old.from].available
               y == v.shelf[old.from].reserved
               z == v.shelf[old.from].uncovered
               q == QtyAt(v.layers, old.from)
    <3>1. x \in Int /\ y \in Nat /\ z \in Nat /\ q = x + z /\ n \in Nat
      BY <1>1, <1>6, <1>7, <2>1
    <3>2. x - y >= n
      BY <1>1, <1>4, <2>4 DEF Sufficient
    <3> HIDE DEF x, y, z, q
    <3>3. n <= q
      BY ONLY <3>1, <3>2
    <3> QED
      BY <3>3 DEF q
  <2> QED
    BY <2>3, <2>4
<1>9. Specs(list, n)
  BY <1>1, <1>6, <1>8, ManifestIs DEF list, rows
<1>10. /\ row \in TransferRow /\ row.status = "DISPATCHED" /\ row.to = old.to /\ row.sent = n
       /\ row.manifest = list
  BY <1>1, <1>9 DEF TransferRow, Specs
<1> HIDE DEF row, old, k
<1>11. Covered(row)
  BY <1>9, <1>10 DEF Covered
<1>12. Part(old, row, old.from, m, old.to, n)
  <2>1. /\ \A c \in Branch : HeldBy(row, c) = 0 /\ SentBy(old, c) = 0
        /\ \A c \in Branch : HeldBy(old, c) = IF c = old.from THEN k ELSE 0
        /\ \A c \in Branch : SentBy(row, c) = IF c = old.to THEN n ELSE 0
    BY <1>1, <1>10 DEF HeldBy, SentBy, k
  <2> QED
    BY <1>1, <2>1 DEF Part, m
<1>13. Shifted(books, u, old.from, m, old.to, n) /\ Len(u.layers) <= MaxLayers
  <2>1. CASE n = 0
    BY <1>5, <1>6, <2>1
  <2>2. CASE n # 0
    <3> DEFINE w == Issue(v, old.from, n)
    <3>1. Carried(v, w) /\ Len(w.layers) = Len(v.layers)
      BY <1>1, <1>6, IssueIs
    <3> HIDE DEF w
    <3>2. Sound(w)
      BY <3>1 DEF Carried, Grown
    <3>3. Shifted(w, Inbound(w, old.to, n), old.from, 0, old.to, n)
          /\ Inbound(w, old.to, n).layers = w.layers
      BY <1>1, <3>2, InboundIs
    <3>4. u = Inbound(w, old.to, n)
      BY <2>2 DEF w
    <3> HIDE DEF u
    <3>5. Shifted(v, u, old.from, 0, old.to, n)
      BY <1>6, <3>1, <3>3, <3>4, CarriedShifts
    <3>6. Shifted(books, u, old.from, m, old.to, n)
      BY <1>1, <1>2, <1>5, <3>5, ShiftsAdd
    <3> QED
      BY <1>6, <3>1, <3>3, <3>4, <3>6
  <2> QED
    BY <2>1, <2>2
<1> HIDE DEF u
<1>14. Restocked(books, u, [transfer EXCEPT ![t] = row])
  BY <1>1, <1>2, <1>11, <1>12, <1>13, RowShifts DEF old
<1> QED
  BY <1>4, <1>14

\* Goods that leave the van for a shelf.
LEMMA Unloaded ==
  ASSUME NEW s, Sound(s), NEW w, Carried(s, w), NEW to \in Branch, NEW n \in Int, NEW from
  PROVE  /\ Shifted(s, Inbound(w, to, n), from, 0, to, n)
         /\ Inbound(w, to, n).layers = w.layers
<1> DEFINE u == Inbound(w, to, n)
<1>1. Sound(w)
  BY DEF Carried, Grown
<1>2. Shifted(w, u, from, 0, to, n) /\ u.layers = w.layers
  BY <1>1, InboundIs
<1> HIDE DEF u
<1>3. Shifted(s, u, from, 0, to, n)
  BY <1>2, CarriedShifts
<1> QED
  BY <1>2, <1>3 DEF u

LEMMA ArrivingIs ==
  ASSUME StoreInv, NEW t \in Transfer, transfer[t].status = "DISPATCHED", transfer[t].sent # 0
  PROVE  Specs(Arriving(t), transfer[t].sent)
<1> DEFINE n == transfer[t].sent
           m == transfer[t].manifest
<1>1. n \in Nat \ {0} /\ Specs(m, n) /\ Sound(books)
  BY RowIs DEF Covered
<1>2. n * books.cost \in Nat
  <2>1. books.cost \in Nat
    BY <1>1 DEF Sound, Shelved, Typed
  <2> QED
    BY <1>1, <2>1
<1>3. Arriving(t) = IF m # <<>> THEN m ELSE Priced(books, n, n * books.cost)
  BY DEF Arriving
<1> HIDE DEF n, m
<1>4. Specs(Priced(books, n, n * books.cost), n)
  BY <1>1, <1>2, PricedIs
<1> QED
  BY <1>1, <1>3, <1>4 DEF n

\* What leaves the van, however it is judged.
LEMMA Arrives ==
  ASSUME StoreInv, NEW t \in Transfer, transfer[t].status = "DISPATCHED",
         NEW status \in {"RECEIVED", "COMPLETED", "CANCELLED"},
         transfer' = [transfer EXCEPT ![t].status = status],
         NEW w, Carried(books, w), Len(w.layers) <= MaxLayers,
         books' = IF transfer[t].sent = 0 THEN books
                  ELSE Inbound(w, transfer[t].to, -transfer[t].sent)
  PROVE  Restocked(books, books', transfer')
<1> DEFINE old == transfer[t]
           n == old.sent
           m == 0 - n
           row == [old EXCEPT !.status = status]
           v == Inbound(w, old.to, m)
           u == IF n = 0 THEN books ELSE v
<1>1. /\ old \in TransferRow /\ Sound(books) /\ Len(books.layers) <= MaxLayers
      /\ old.to \in Branch /\ n \in Nat /\ TransfersInv(books, transfer)
  BY RowIs DEF StoreInv
<1>2. m \in Int /\ -n = m /\ 0 \in Int
  BY <1>1
<1>3. transfer' = [transfer EXCEPT ![t] = row] /\ books' = u
  BY <1>2
<1>4. row \in TransferRow /\ row.status = status
  BY <1>1 DEF TransferRow
<1> HIDE DEF row, old, n, m
<1>5. Covered(row)
  BY <1>4 DEF Covered
<1>6. Part(old, row, old.from, 0, old.to, m)
  <2>1. \A c \in Branch : /\ HeldBy(row, c) = 0 /\ SentBy(row, c) = 0 /\ HeldBy(old, c) = 0
                          /\ SentBy(old, c) = IF c = old.to THEN n ELSE 0
    BY <1>4 DEF HeldBy, SentBy, n, old
  <2> QED
    BY <1>1, <2>1 DEF Part, m
<1>7. Shifted(books, v, old.from, 0, old.to, m) /\ v.layers = w.layers
  BY <1>1, <1>2, Unloaded
<1>8. Shifted(books, u, old.from, 0, old.to, m) /\ Len(u.layers) <= MaxLayers
  <2>1. CASE n = 0
    <3>1. m = 0 /\ u = books
      BY <2>1 DEF m
    <3>2. Shifted(books, books, old.from, 0, old.to, 0)
      BY <1>1, StaysPut
    <3> QED
      BY <1>1, <3>1, <3>2
  <2>2. CASE n # 0
    BY <1>7, <2>2
  <2> QED
    BY <2>1, <2>2
<1> HIDE DEF u
<1>9. Restocked(books, u, [transfer EXCEPT ![t] = row])
  BY <1>1, <1>2, <1>5, <1>6, <1>8, RowShifts DEF old
<1> QED
  BY <1>3, <1>9

LEMMA CarriedOn ==
  ASSUME NEW s, Sound(s), NEW t, NEW u, Carried(s, t), Carried(t, u)
  PROVE  Carried(s, u)
<1>1. Grown(s, u)
  BY GrownOn DEF Carried
<1> QED
  BY <1>1 DEF Carried, Besides

LEMMA ReceiveMoves ==
  ASSUME StoreInv, NEW t \in Transfer, NEW got \in 0..MaxAsked, receiveTransfer(t, got)
  PROVE  Restocked(books, books', transfer')
<1> DEFINE old == transfer[t]
           n == old.sent
           status == IF got < n THEN "RECEIVED" ELSE "COMPLETED"
<1>1. /\ Sound(books) /\ Len(books.layers) <= MaxLayers /\ old.to \in Branch /\ n \in Nat
      /\ old.status = "DISPATCHED" /\ got <= n /\ got \in Nat
  BY RowIs, StoreIsFinite DEF receiveTransfer
<1>2. /\ status \in {"RECEIVED", "COMPLETED", "CANCELLED"}
      /\ transfer' = [transfer EXCEPT ![t].status = status]
  BY DEF receiveTransfer
<1> HIDE DEF status
<1>3. CASE n = 0
  <2>1. books' = books
    BY <1>3 DEF receiveTransfer
  <2>2. Carried(books, Issue(books, old.to, 0))
        /\ Len(Issue(books, old.to, 0).layers) = Len(books.layers)
    BY <1>1, IssueIs
  <2> DEFINE w == Issue(books, old.to, 0)
  <2>3. Carried(books, w) /\ Len(w.layers) <= MaxLayers
    BY <1>1, <2>2
  <2> HIDE DEF w
  <2>4. books' = IF n = 0 THEN books ELSE Inbound(w, old.to, -n)
    BY <1>3, <2>1
  <2> QED
    BY <1>1, <1>2, <2>3, <2>4, Arrives
<1>4. CASE n # 0
  <2> DEFINE specs == Arriving(t)
             v == Receive(books, old.to, n, specs)
             lost == n - got
             x == Issue(v, old.to, lost)
             w == IF got < n THEN x ELSE v
  <2>1. Specs(specs, n)
    BY <1>1, <1>4, ArrivingIs
  <2>2. Fits(books, Len(specs)) /\ books' = Inbound(w, old.to, -n)
    BY <1>4, Zenon DEF receiveTransfer
  <2> HIDE DEF specs
  <2>3. Carried(books, v) /\ Len(v.layers) = Len(books.layers) + Len(specs)
    BY <1>1, <2>1, Received
  <2> HIDE DEF v
  <2>4. Sound(v) /\ lost \in Nat /\ Len(v.layers) <= MaxLayers
    BY <1>1, <2>2, <2>3 DEF Carried, Grown, Fits
  <2>5. Carried(v, x) /\ Len(x.layers) = Len(v.layers)
    BY <1>1, <2>4, IssueIs
  <2> HIDE DEF x
  <2>6. Carried(books, x)
    BY <1>1, <2>3, <2>5, CarriedOn
  <2>7. Carried(books, w) /\ Len(w.layers) <= MaxLayers
    BY <2>3, <2>4, <2>5, <2>6
  <2> HIDE DEF w
  <2>8. books' = IF n = 0 THEN books ELSE Inbound(w, old.to, -n)
    BY <1>4, <2>2
  <2> QED
    BY <1>1, <1>2, <2>7, <2>8, Arrives
<1> QED
  BY <1>3, <1>4

LEMMA RecallMoves ==
  ASSUME StoreInv, NEW t \in Transfer, recallTransfer(t)
  PROVE  Restocked(books, books', transfer')
<1> DEFINE old == transfer[t]
           n == old.sent
<1>1. /\ Sound(books) /\ Len(books.layers) <= MaxLayers /\ old.from \in Branch /\ n \in Nat
      /\ old.status = "DISPATCHED" /\ transfer' = [transfer EXCEPT ![t].status = "CANCELLED"]
      /\ "CANCELLED" \in {"RECEIVED", "COMPLETED", "CANCELLED"}
  BY RowIs DEF recallTransfer
<1>2. CASE n = 0
  <2> DEFINE w == Issue(books, old.from, 0)
  <2>1. books' = books
    BY <1>2 DEF recallTransfer
  <2>2. Carried(books, w) /\ Len(w.layers) = Len(books.layers)
    BY <1>1, IssueIs
  <2>3. Len(w.layers) <= MaxLayers
    BY <1>1, <2>2
  <2> HIDE DEF w
  <2>4. books' = IF n = 0 THEN books ELSE Inbound(w, old.to, -n)
    BY <1>2, <2>1
  <2> QED
    BY <1>1, <2>2, <2>3, <2>4, Arrives
<1>3. CASE n # 0
  <2> DEFINE value == n * books.cost
             specs == Priced(books, n, value)
             w == Receive(books, old.from, n, specs)
  <2>1. books' = Inbound(w, old.to, -n) /\ Fits(books, 1)
    BY <1>3, Zenon DEF recallTransfer
  <2>2. value \in Nat
    <3>1. books.cost \in Nat
      BY <1>1 DEF Sound, Shelved, Typed
    <3> QED
      BY <1>1, <3>1
  <2> HIDE DEF value
  <2>3. Specs(specs, n) /\ Len(specs) = 1
    BY <1>1, <1>3, <2>2, PricedIs
  <2> HIDE DEF specs
  <2>4. Carried(books, w) /\ Len(w.layers) = Len(books.layers) + Len(specs)
    BY <1>1, <2>3, Received
  <2> HIDE DEF w
  <2>5. Len(w.layers) <= MaxLayers
    BY <2>1, <2>3, <2>4 DEF Fits
  <2>6. books' = IF n = 0 THEN books ELSE Inbound(w, old.to, -n)
    BY <1>3, <2>1
  <2> QED
    BY <1>1, <2>4, <2>5, <2>6, Arrives
<1> QED
  BY <1>2, <1>3

\* A row that promised nothing and now promises nothing, or that gives up its promise.
LEMMA Dropped ==
  ASSUME StoreInv, NEW t \in Transfer,
         NEW status \in {"COMPLETED", "REJECTED", "CANCELLED"},
         transfer[t].status \in {"REQUESTED", "APPROVED", "RECEIVED"},
         transfer' = [transfer EXCEPT ![t].status = status],
         books' = IF transfer[t].status = "APPROVED"
                  THEN Hold(books, transfer[t].from, -transfer[t].allowed) ELSE books
  PROVE  Restocked(books, books', transfer')
<1> DEFINE old == transfer[t]
           k == IF old.status = "APPROVED" THEN old.allowed ELSE 0
           m == 0 - k
           row == [old EXCEPT !.status = status]
           v == Hold(books, old.from, m)
           u == IF old.status = "APPROVED" THEN v ELSE books
<1>1. /\ old \in TransferRow /\ Sound(books) /\ Len(books.layers) <= MaxLayers
      /\ old.from \in Branch /\ old.allowed \in Nat /\ k \in Nat /\ TransfersInv(books, transfer)
  BY RowIs DEF StoreInv
<1>2. m \in Int /\ 0 \in Int /\ (old.status = "APPROVED" => -old.allowed = m)
        /\ (old.status # "APPROVED" => m = 0)
  BY <1>1
<1>3. transfer' = [transfer EXCEPT ![t] = row] /\ books' = u
  BY <1>2
<1>4. row \in TransferRow /\ row.status = status /\ row.from = old.from
  BY <1>1 DEF TransferRow
<1>5. old.status \in {"REQUESTED", "APPROVED", "RECEIVED"}
  OBVIOUS
<1> HIDE DEF row, m, k
<1>6. Covered(row)
  BY <1>4 DEF Covered
<1>7. Part(old, row, old.from, m, old.to, 0)
  <2>1. \A c \in Branch : /\ HeldBy(row, c) = 0 /\ SentBy(row, c) = 0 /\ SentBy(old, c) = 0
                          /\ HeldBy(old, c) = IF c = old.from THEN k ELSE 0
    BY <1>4, <1>5 DEF HeldBy, SentBy, k
  <2> QED
    BY <1>1, <2>1 DEF Part, m
<1>8. Shifted(books, u, old.from, m, old.to, 0) /\ Len(u.layers) <= MaxLayers
  <2>1. Shifted(books, v, old.from, m, old.to, 0) /\ v.layers = books.layers
    BY <1>1, <1>2, HoldIs
  <2>2. Shifted(books, books, old.from, 0, old.to, 0)
    BY <1>1, StaysPut
  <2> HIDE DEF v
  <2> QED
    BY <1>1, <1>2, <2>1, <2>2
<1> HIDE DEF u, old
<1>9. Restocked(books, u, [transfer EXCEPT ![t] = row])
  BY <1>1, <1>2, <1>6, <1>7, <1>8, RowShifts DEF old
<1> QED
  BY <1>3, <1>9

LEMMA CompleteMoves ==
  ASSUME StoreInv, NEW t \in Transfer, completeTransfer(t)
  PROVE  Restocked(books, books', transfer')
<1>1. /\ transfer[t].status = "RECEIVED"
      /\ transfer' = [transfer EXCEPT ![t].status = "COMPLETED"] /\ books' = books
  BY DEF completeTransfer
<1> QED
  BY <1>1, Dropped

LEMMA CloseMoves ==
  ASSUME StoreInv, NEW t \in Transfer, NEW status \in {"REJECTED", "CANCELLED"},
         closeTransfer(t, status)
  PROVE  Restocked(books, books', transfer')
<1>1. /\ transfer[t].status \in {"REQUESTED", "APPROVED", "RECEIVED"}
      /\ status \in {"COMPLETED", "REJECTED", "CANCELLED"}
      /\ transfer' = [transfer EXCEPT ![t].status = status]
  BY DEF closeTransfer
<1>2. books' = IF transfer[t].status = "APPROVED"
               THEN Hold(books, transfer[t].from, -transfer[t].allowed) ELSE books
  BY DEF closeTransfer
<1> QED
  BY <1>1, <1>2, Dropped

\* Goods with a price, in one layer.
LEMMA GoodsIn ==
  ASSUME StoreInv, NEW b \in Branch, NEW n \in Nat \ {0}, NEW value \in Nat, Fits(books, 1)
  PROVE  Restocked(books, Receive(books, b, n, Priced(books, n, value)), transfer)
<1> DEFINE specs == Priced(books, n, value)
           w == Receive(books, b, n, specs)
<1>1. Sound(books) /\ Len(books.layers) <= MaxLayers /\ TransfersInv(books, transfer)
  BY DEF StoreInv, TransfersInv
<1>2. Specs(specs, n) /\ Len(specs) = 1
  BY <1>1, PricedIs
<1> HIDE DEF specs
<1>3. Carried(books, w) /\ Len(w.layers) = Len(books.layers) + Len(specs)
  BY <1>1, <1>2, Received
<1> HIDE DEF w
<1>4. Len(w.layers) <= MaxLayers
  BY <1>2, <1>3 DEF Fits
<1>5. Restocked(books, w, transfer)
  BY <1>1, <1>3, <1>4, GoodsMove
<1> QED
  BY <1>5 DEF w, specs

LEMMA GoodsOut ==
  ASSUME StoreInv, NEW b \in Branch, NEW n \in Nat
  PROVE  Restocked(books, Issue(books, b, n), transfer)
<1> DEFINE w == Issue(books, b, n)
<1>1. Sound(books) /\ Len(books.layers) <= MaxLayers /\ TransfersInv(books, transfer)
  BY DEF StoreInv, TransfersInv
<1>2. Carried(books, w) /\ Len(w.layers) = Len(books.layers)
  BY <1>1, IssueIs
<1> HIDE DEF w
<1>3. Restocked(books, w, transfer)
  BY <1>1, <1>2, GoodsMove
<1> QED
  BY <1>3 DEF w

LEMMA CountMoves ==
  ASSUME StoreInv, NEW k \in Count, approveStockCount(k)
  PROVE  Restocked(books, books', transfer')
<1> DEFINE b == tally[k].branch
           found == tally[k].variance
<1>1. b \in Branch /\ found \in Int /\ TransfersInv(books, transfer) /\ transfer' = transfer
  BY DEF StoreInv, TallyRow, approveStockCount
<1>2. CASE found > 0
  <2> DEFINE value == found * books.cost
  <2>1. Fits(books, 1) /\ books' = Receive(books, b, found, Priced(books, found, value))
    BY <1>2, Zenon DEF approveStockCount
  <2>2. found \in Nat \ {0} /\ value \in Nat
    <3>1. books.cost \in Nat
      BY <1>1 DEF TransfersInv, Sound, Shelved, Typed
    <3> QED
      BY <1>1, <1>2, <3>1
  <2> HIDE DEF value
  <2> QED
    BY <1>1, <2>1, <2>2, GoodsIn
<1>3. CASE found = 0
  <2>1. UNCHANGED <<books, transfer>>
    BY <1>1, <1>3 DEF approveStockCount
  <2> QED
    BY <2>1, StandsAside
<1>4. CASE found < 0
  <2>1. books' = Issue(books, b, -found) /\ -found \in Nat
    BY <1>1, <1>4 DEF approveStockCount
  <2> QED
    BY <1>1, <2>1, GoodsOut
<1> QED
  BY <1>1, <1>2, <1>3, <1>4

LEMMA MovementMoves ==
  ASSUME StoreInv, NEW b \in Branch, NEW n \in 1..MaxAsked,
         receiveStock(b, n, 3) \/ recordWastage(b, n)
  PROVE  Restocked(books, books', transfer')
<1>1. n \in Nat \ {0} /\ n \in Nat /\ 3 \in Nat
  BY StoreIsFinite
<1>2. CASE receiveStock(b, n, 3)
  <2>1. Fits(books, 1) /\ books' = Receive(books, b, n, Priced(books, n, 3))
        /\ transfer' = transfer
    BY <1>2 DEF receiveStock
  <2> QED
    BY <1>1, <2>1, GoodsIn
<1>3. CASE recordWastage(b, n)
  <2>1. books' = Issue(books, b, n) /\ transfer' = transfer
    BY <1>3 DEF recordWastage
  <2> QED
    BY <1>1, <2>1, GoodsOut
<1> QED
  BY <1>2, <1>3

\* The rest of the invariant: counts, clerks, and who decides what.
Judged(tr, ta, cl, mv) ==
  /\ ta \in [Count -> TallyRow] /\ cl \in [Clerk -> Clerks] /\ mv \in 0..MaxMoves
  /\ Deciding(tr, cl)

LEMMA DecidedApart ==
  ASSUME StoreInv, NEW t \in Transfer, NEW row,
         \A c \in Clerk : clerk[c].op = "approve" => clerk[c].transfer # t,
         transfer' = [transfer EXCEPT ![t] = row]
  PROVE  Judged(transfer', tally, clerk, moves)
<1>1. transfer \in [Transfer -> TransferRow]
  BY DEF StoreInv, TransfersInv
<1>2. \A c \in Clerk : clerk[c].op = "approve" => clerk[c].transfer \in Transfer
  BY ClerksAre
<1>3. Deciding(transfer', clerk)
  BY <1>1, <1>2 DEF StoreInv, Deciding
<1> QED
  BY <1>3 DEF StoreInv, Judged

LEMMA ClerkJudges ==
  ASSUME StoreInv, NEW c \in Clerk, NEW q \in Clerks, q.op # "approve",
         NEW ta \in [Count -> TallyRow]
  PROVE  Judged(transfer, ta, [clerk EXCEPT ![c] = q], moves)
<1>1. clerk \in [Clerk -> Clerks]
  BY DEF StoreInv
<1>2. Deciding(transfer, [clerk EXCEPT ![c] = q])
  BY <1>1 DEF StoreInv, Deciding
<1> QED
  BY <1>1, <1>2 DEF StoreInv, Judged

LEMMA JudgedStep ==
  ASSUME StoreInv, [StoreNext]_storeVars
  PROVE  Judged(transfer', tally', clerk', moves')
<1>0. /\ transfer \in [Transfer -> TransferRow] /\ tally \in [Count -> TallyRow]
      /\ clerk \in [Clerk -> Clerks] /\ moves \in 0..MaxMoves /\ Deciding(transfer, clerk)
      /\ MaxMoves \in Nat /\ MaxAsked \in Nat /\ Free \in Clerks /\ Free.op # "approve"
  BY StoreIsFinite DEF StoreInv, TransfersInv, Clerks, Free
<1>1. ASSUME UNCHANGED <<transfer, tally, clerk, moves>>
      PROVE  Judged(transfer', tally', clerk', moves')
  BY <1>0, <1>1 DEF Judged
<1>2. ASSUME NEW t \in Transfer, NEW row, transfer' = [transfer EXCEPT ![t] = row],
             Unlocked(t), UNCHANGED <<tally, clerk, moves>>
      PROVE  Judged(transfer', tally', clerk', moves')
  BY <1>2, DecidedApart DEF Unlocked
<1>3. ASSUME NEW t \in Transfer, NEW from \in Branch, NEW to \in Branch, NEW n \in 1..MaxAsked,
             requestTransfer(t, from, to, n)
      PROVE  Judged(transfer', tally', clerk', moves')
  <2> DEFINE row == [transfer[t] EXCEPT !.status = "REQUESTED", !.from = from, !.to = to,
                                        !.allowed = n]
  <2>1. /\ transfer' = [transfer EXCEPT ![t] = row] /\ UNCHANGED <<tally, clerk, moves>>
        /\ transfer[t].status = "NONE"
    BY <1>3 DEF requestTransfer
  <2>2. \A c \in Clerk : clerk[c].op = "approve" => clerk[c].transfer # t
    BY <1>0, <2>1 DEF Deciding
  <2> HIDE DEF row
  <2> QED
    BY <2>1, <2>2, DecidedApart
<1>4. ASSUME NEW t \in Transfer, NEW n \in 0..MaxAsked, dispatchTransfer(t, n)
      PROVE  Judged(transfer', tally', clerk', moves')
  <2>1. PICK list : transfer' = [transfer EXCEPT ![t].status = "DISPATCHED", ![t].sent = n,
                                                 ![t].manifest = list]
    BY <1>4, Zenon DEF dispatchTransfer
  <2> DEFINE row == [transfer[t] EXCEPT !.status = "DISPATCHED", !.sent = n, !.manifest = list]
  <2>2. transfer' = [transfer EXCEPT ![t] = row]
    BY <2>1
  <2>3. Unlocked(t) /\ UNCHANGED <<tally, clerk, moves>>
    BY <1>4 DEF dispatchTransfer
  <2> HIDE DEF row
  <2> QED
    BY <1>2, <2>2, <2>3
<1>5. ASSUME NEW t \in Transfer, NEW status, transfer' = [transfer EXCEPT ![t].status = status],
             Unlocked(t), UNCHANGED <<tally, clerk, moves>>
      PROVE  Judged(transfer', tally', clerk', moves')
  <2> DEFINE row == [transfer[t] EXCEPT !.status = status]
  <2>1. transfer' = [transfer EXCEPT ![t] = row]
    BY <1>5
  <2> HIDE DEF row
  <2> QED
    BY <1>2, <1>5, <2>1
<1>6. ASSUME NEW t \in Transfer,
             \/ \E n \in 0..MaxAsked : receiveTransfer(t, n)
             \/ completeTransfer(t) \/ recallTransfer(t)
             \/ \E status \in {"REJECTED", "CANCELLED"} : closeTransfer(t, status)
      PROVE  Judged(transfer', tally', clerk', moves')
  <2>1. PICK status : transfer' = [transfer EXCEPT ![t].status = status]
    BY <1>6, Zenon DEF receiveTransfer, completeTransfer, recallTransfer, closeTransfer
  <2>2. Unlocked(t) /\ UNCHANGED <<tally, clerk, moves>>
    BY <1>6, Zenon DEF receiveTransfer, completeTransfer, recallTransfer, closeTransfer
  <2> QED
    BY <1>5, <2>1, <2>2
<1>7. ASSUME NEW c \in Clerk, NEW t \in Transfer, NEW n \in 0..MaxAsked, CheckApproval(c, t, n)
      PROVE  Judged(transfer', tally', clerk', moves')
  <2> DEFINE q == [op |-> "approve", transfer |-> t, allow |-> n]
             cn == [clerk EXCEPT ![c] = q]
  <2>1. /\ clerk' = cn /\ UNCHANGED <<transfer, tally, moves>> /\ Unlocked(t)
        /\ transfer[t].status = "REQUESTED"
    BY <1>7 DEF CheckApproval
  <2>2. q \in Clerks /\ q.op = "approve" /\ q.transfer = t
    BY DEF Clerks
  <2> HIDE DEF q
  <2>3. cn \in [Clerk -> Clerks] /\ cn[c] = q /\ \A d \in Clerk \ {c} : cn[d] = clerk[d]
    BY <1>0, <2>2
  <2> HIDE DEF cn
  <2>4. Deciding(transfer, cn)
    <3>1. \A d \in Clerk : cn[d].op = "approve" => transfer[cn[d].transfer].status = "REQUESTED"
      BY <1>0, <2>1, <2>2, <2>3 DEF Deciding
    <3>2. \A d \in Clerk \ {c} : cn[d].op = "approve" => cn[d].transfer # t
      BY <2>1, <2>3 DEF Unlocked
    <3>3. \A d, e \in Clerk :
            cn[d].op = "approve" /\ cn[e].op = "approve" /\ cn[d].transfer = cn[e].transfer => d = e
      BY <1>0, <2>2, <2>3, <3>2 DEF Deciding
    <3> QED
      BY <3>1, <3>3 DEF Deciding
  <2> QED
    BY <1>0, <2>1, <2>3, <2>4 DEF Judged
<1>8. ASSUME NEW c \in Clerk, approveTransfer(c)
      PROVE  Judged(transfer', tally', clerk', moves')
  <2>0. PICK t \in Transfer, n \in 0..MaxAsked : t = clerk[c].transfer /\ n = clerk[c].allow
    BY <1>8, ClerksAre DEF approveTransfer
  <2> DEFINE row == [transfer[t] EXCEPT !.status = "APPROVED", !.allowed = n]
             cn == [clerk EXCEPT ![c] = Free]
  <2>1. /\ clerk[c].op = "approve" /\ transfer' = [transfer EXCEPT ![t] = row]
        /\ clerk' = cn /\ UNCHANGED <<tally, moves>>
    BY <1>8, <2>0 DEF approveTransfer
  <2> HIDE DEF row
  <2>2. cn \in [Clerk -> Clerks] /\ cn[c] = Free /\ \A d \in Clerk \ {c} : cn[d] = clerk[d]
    BY <1>0
  <2> HIDE DEF cn
  <2>3. \A d \in Clerk : cn[d].op = "approve" =>
          d # c /\ cn[d] = clerk[d] /\ cn[d].transfer \in Transfer /\ cn[d].transfer # t
    <3>1. \A d \in Clerk : clerk[d].op = "approve" => clerk[d].transfer \in Transfer
      BY ClerksAre
    <3> QED
      BY <1>0, <2>0, <2>1, <2>2, <3>1 DEF Deciding
  <2>4. Deciding(transfer', cn)
    BY <1>0, <2>1, <2>3 DEF Deciding
  <2> QED
    BY <1>0, <2>1, <2>2, <2>4 DEF Judged
<1>9. ASSUME NEW c \in Clerk, NEW q \in Clerks, q.op # "approve",
             clerk' = [clerk EXCEPT ![c] = q], UNCHANGED <<transfer, tally, moves>>
      PROVE  Judged(transfer', tally', clerk', moves')
  BY <1>0, <1>9, ClerkJudges
<1>10. ASSUME NEW c \in Clerk, NEW k \in Count, NEW row \in TallyRow,
              tally' = [tally EXCEPT ![k] = row], clerk' = [clerk EXCEPT ![c] = Free],
              UNCHANGED <<transfer, moves>>
       PROVE  Judged(transfer', tally', clerk', moves')
  <2>1. tally' \in [Count -> TallyRow]
    BY <1>0, <1>10
  <2> QED
    BY <1>0, <1>10, <2>1, ClerkJudges
<1>11. ASSUME NEW k \in Count, NEW row \in TallyRow, tally' = [tally EXCEPT ![k] = row],
              UNCHANGED <<transfer, clerk, moves>>
       PROVE  Judged(transfer', tally', clerk', moves')
  <2>1. tally' \in [Count -> TallyRow]
    BY <1>0, <1>11
  <2> QED
    BY <1>0, <1>11, <2>1 DEF Judged
<1>12. ASSUME NEW c \in Clerk, recordCountLines(c)
       PROVE  Judged(transfer', tally', clerk', moves')
  <2>0. PICK k \in Count : k = clerk[c].count
    BY <1>12, ClerksAre DEF recordCountLines
  <2> DEFINE read == IF tally[k].line THEN tally[k].systemQty ELSE clerk[c].systemQty
             variance == clerk[c].counted - clerk[c].systemQty
             row == [tally[k] EXCEPT !.line = TRUE, !.systemQty = read, !.variance = variance]
  <2>1. tally[k] \in TallyRow /\ read \in Int /\ variance \in Int
    <3>1. clerk[c].systemQty \in Int /\ clerk[c].counted \in Int
      BY <1>0, <1>12, ClerksAre DEF recordCountLines
    <3> QED
      BY <1>0, <3>1 DEF TallyRow
  <2>2. tally' = [tally EXCEPT ![k] = row] /\ clerk' = [clerk EXCEPT ![c] = Free]
        /\ UNCHANGED <<transfer, moves>>
    BY <1>12, <2>0 DEF recordCountLines
  <2> HIDE DEF read, variance
  <2>3. row \in TallyRow
    BY <2>1 DEF TallyRow
  <2> HIDE DEF row
  <2> QED
    BY <1>10, <2>2, <2>3
<1>13. ASSUME NEW c \in Clerk, submitStockCount(c)
       PROVE  Judged(transfer', tally', clerk', moves')
  <2>0. PICK k \in Count : k = clerk[c].count
    BY <1>13, ClerksAre DEF submitStockCount
  <2> DEFINE late == IF tally[k].posted > 0 THEN tally[k].late + 1 ELSE tally[k].late
             row == [tally[k] EXCEPT !.status = "AWAITING_APPROVAL", !.late = late]
  <2>1. tally[k] \in TallyRow /\ late \in Nat
    BY <1>0 DEF TallyRow
  <2>2. tally' = [tally EXCEPT ![k] = row] /\ clerk' = [clerk EXCEPT ![c] = Free]
        /\ UNCHANGED <<transfer, moves>>
    BY <1>13, <2>0 DEF submitStockCount
  <2> HIDE DEF late
  <2>3. row \in TallyRow
    BY <2>1 DEF TallyRow
  <2> HIDE DEF row
  <2> QED
    BY <1>10, <2>2, <2>3
<1>14. ASSUME NEW c \in Clerk, cancelStockCount(c)
       PROVE  Judged(transfer', tally', clerk', moves')
  <2>0. PICK k \in Count : k = clerk[c].count
    BY <1>14, ClerksAre DEF cancelStockCount
  <2> DEFINE row == [tally[k] EXCEPT !.status = "CANCELLED"]
  <2>2. tally' = [tally EXCEPT ![k] = row] /\ clerk' = [clerk EXCEPT ![c] = Free]
        /\ UNCHANGED <<transfer, moves>>
    BY <1>14, <2>0 DEF cancelStockCount
  <2>3. row \in TallyRow
    BY <1>0 DEF TallyRow
  <2> HIDE DEF row
  <2> QED
    BY <1>10, <2>2, <2>3
<1>15. ASSUME NEW c \in Clerk, NEW k \in Count, NEW n \in 0..MaxAsked, ReadForCount(c, k, n)
       PROVE  Judged(transfer', tally', clerk', moves')
  <2> DEFINE read == IF tally[k].line THEN tally[k].systemQty
                     ELSE books.shelf[tally[k].branch].available
             q == [op |-> "record", count |-> k, counted |-> n, systemQty |-> read]
  <2>1. read \in Int
    <3>1. tally[k] \in TallyRow /\ books.shelf \in [Branch -> Shelf]
      BY <1>0 DEF StoreInv, TransfersInv, Sound, Shelved, Typed
    <3>2. tally[k].branch \in Branch /\ tally[k].systemQty \in Int
      BY <3>1 DEF TallyRow
    <3> QED
      BY <3>1, <3>2 DEF Shelf
  <2>2. clerk' = [clerk EXCEPT ![c] = q] /\ UNCHANGED <<transfer, tally, moves>>
    BY <1>15 DEF ReadForCount
  <2> HIDE DEF read
  <2>3. q \in Clerks /\ q.op # "approve"
    BY <2>1 DEF Clerks
  <2> HIDE DEF q
  <2> QED
    BY <1>9, <2>2, <2>3
<1>16. ASSUME NEW c \in Clerk, NEW k \in Count, JudgeSubmit(c, k) \/ JudgeCancelCount(c, k)
       PROVE  Judged(transfer', tally', clerk', moves')
  <2>1. PICK op \in {"submit", "cancel"} : clerk' = [clerk EXCEPT ![c] = [op |-> op, count |-> k]]
    BY <1>16 DEF JudgeSubmit, JudgeCancelCount
  <2>2. UNCHANGED <<transfer, tally, moves>>
    BY <1>16 DEF JudgeSubmit, JudgeCancelCount
  <2> DEFINE q == [op |-> op, count |-> k]
  <2>3. q \in Clerks /\ q.op # "approve"
    BY DEF Clerks
  <2>4. clerk' = [clerk EXCEPT ![c] = q]
    BY <2>1
  <2> HIDE DEF q
  <2> QED
    BY <1>9, <2>2, <2>3, <2>4
<1>17. ASSUME NEW k \in Count, approveStockCount(k)
       PROVE  Judged(transfer', tally', clerk', moves')
  <2> DEFINE posted == tally[k].posted + 1
             row == [tally[k] EXCEPT !.status = "APPROVED", !.posted = posted]
  <2>1. tally' = [tally EXCEPT ![k] = row] /\ UNCHANGED <<transfer, clerk, moves>>
    BY <1>17 DEF approveStockCount
  <2>2. tally[k] \in TallyRow /\ posted \in Nat
    BY <1>0 DEF TallyRow
  <2> HIDE DEF posted
  <2>3. row \in TallyRow
    BY <2>2 DEF TallyRow
  <2> HIDE DEF row
  <2> QED
    BY <1>11, <2>1, <2>3
<1>18. ASSUME NEW k \in Count, NEW b \in Branch, openStockCount(k, b)
       PROVE  Judged(transfer', tally', clerk', moves')
  <2> DEFINE row == [tally[k] EXCEPT !.status = "DRAFT", !.branch = b]
  <2>1. tally' = [tally EXCEPT ![k] = row] /\ UNCHANGED <<transfer, clerk, moves>>
    BY <1>18 DEF openStockCount
  <2>2. row \in TallyRow
    <3>1. tally[k] \in TallyRow
      BY <1>0
    <3> QED
      BY <3>1 DEF TallyRow
  <2> HIDE DEF row
  <2> QED
    BY <1>11, <2>1, <2>2
<1>19. ASSUME NEW b \in Branch, NEW n \in 1..MaxAsked, receiveStock(b, n, 3) \/ recordWastage(b, n)
       PROVE  Judged(transfer', tally', clerk', moves')
  <2>1. UNCHANGED <<transfer, tally, clerk>> /\ moves < MaxMoves /\ moves' = moves + 1
    BY <1>19 DEF receiveStock, recordWastage
  <2>2. moves' \in 0..MaxMoves
    BY <1>0, <2>1
  <2> QED
    BY <1>0, <2>1, <2>2 DEF Judged
<1>20. CASE UNCHANGED storeVars
  BY <1>1, <1>20 DEF storeVars
<1>21. ASSUME NEW t \in Transfer,
              \/ \E from, to \in Branch, n \in 1..MaxAsked : requestTransfer(t, from, to, n)
              \/ \E n \in 0..MaxAsked :
                   \/ dispatchTransfer(t, n) \/ receiveTransfer(t, n)
                   \/ \E c \in Clerk : CheckApproval(c, t, n)
              \/ completeTransfer(t) \/ recallTransfer(t)
              \/ \E status \in {"REJECTED", "CANCELLED"} : closeTransfer(t, status)
       PROVE  Judged(transfer', tally', clerk', moves')
  BY <1>3, <1>4, <1>6, <1>7, <1>21
<1>22. ASSUME NEW c \in Clerk,
              \/ approveTransfer(c) \/ recordCountLines(c) \/ submitStockCount(c)
              \/ cancelStockCount(c)
              \/ \E k \in Count :
                   \/ \E n \in 0..MaxAsked : ReadForCount(c, k, n)
                   \/ JudgeSubmit(c, k) \/ JudgeCancelCount(c, k)
       PROVE  Judged(transfer', tally', clerk', moves')
  BY <1>8, <1>12, <1>13, <1>14, <1>15, <1>16, <1>22
<1>23. CASE \E k \in Count : approveStockCount(k) \/ \E b \in Branch : openStockCount(k, b)
  BY <1>17, <1>18, <1>23
<1>24. CASE \E b \in Branch, n \in 1..MaxAsked : receiveStock(b, n, 3) \/ recordWastage(b, n)
  BY <1>19, <1>24
<1> QED
  BY <1>20, <1>21, <1>22, <1>23, <1>24 DEF StoreNext

LEMMA StoreMoves ==
  ASSUME StoreInv, [StoreNext]_storeVars
  PROVE  Restocked(books, books', transfer')
<1>1. ASSUME UNCHANGED <<books, transfer>> PROVE Restocked(books, books', transfer')
  BY <1>1, StandsAside
<1>2. ASSUME NEW t \in Transfer,
             \/ \E from, to \in Branch, n \in 1..MaxAsked : requestTransfer(t, from, to, n)
             \/ \E n \in 0..MaxAsked :
                  \/ dispatchTransfer(t, n) \/ receiveTransfer(t, n)
                  \/ \E c \in Clerk : CheckApproval(c, t, n)
             \/ completeTransfer(t) \/ recallTransfer(t)
             \/ \E status \in {"REJECTED", "CANCELLED"} : closeTransfer(t, status)
      PROVE  Restocked(books, books', transfer')
  <2>1. ASSUME NEW c \in Clerk, NEW n \in 0..MaxAsked, CheckApproval(c, t, n)
        PROVE  Restocked(books, books', transfer')
    BY <1>1, <2>1 DEF CheckApproval
  <2> QED
    BY <1>2, <2>1, RequestMoves, DispatchMoves, ReceiveMoves, CompleteMoves, RecallMoves,
       CloseMoves
<1>3. ASSUME NEW c \in Clerk,
             \/ approveTransfer(c) \/ recordCountLines(c) \/ submitStockCount(c)
             \/ cancelStockCount(c)
             \/ \E k \in Count :
                  \/ \E n \in 0..MaxAsked : ReadForCount(c, k, n)
                  \/ JudgeSubmit(c, k) \/ JudgeCancelCount(c, k)
      PROVE  Restocked(books, books', transfer')
  <2>1. CASE approveTransfer(c)
    BY <2>1, ApproveMoves
  <2>2. CASE ~approveTransfer(c)
    <3>1. UNCHANGED <<books, transfer>>
      BY <1>3, <2>2, Zenon DEF recordCountLines, submitStockCount, cancelStockCount, ReadForCount,
                               JudgeSubmit, JudgeCancelCount
    <3> QED
      BY <1>1, <3>1
  <2> QED
    BY <2>1, <2>2
<1>4. CASE \E k \in Count : approveStockCount(k) \/ \E b \in Branch : openStockCount(k, b)
  <2>1. ASSUME NEW k \in Count, NEW b \in Branch, openStockCount(k, b)
        PROVE  Restocked(books, books', transfer')
    BY <1>1, <2>1 DEF openStockCount
  <2> QED
    BY <1>4, <2>1, CountMoves
<1>5. CASE \E b \in Branch, n \in 1..MaxAsked : receiveStock(b, n, 3) \/ recordWastage(b, n)
  BY <1>5, MovementMoves
<1>6. CASE UNCHANGED storeVars
  BY <1>1, <1>6 DEF storeVars
<1> QED
  BY <1>2, <1>3, <1>4, <1>5, <1>6 DEF StoreNext

LEMMA StoreStep == StoreInv /\ [StoreNext]_storeVars => StoreInv'
<1> SUFFICES ASSUME StoreInv, [StoreNext]_storeVars PROVE StoreInv'
  OBVIOUS
<1>1. Judged(transfer', tally', clerk', moves')
  BY JudgedStep
<1>2. TransfersInv(books', transfer')
  BY StoreMoves DEF Restocked
<1> QED
  BY <1>1, <1>2 DEF StoreInv, Judged

LEMMA NothingMoved == StoreInit => StoreInv
<1> SUFFICES ASSUME StoreInit PROVE StoreInv
  OBVIOUS
<1>0. AnyBranch \in Branch /\ IsFiniteSet(Transfer) /\ MaxAsked \in Nat /\ MaxMoves \in Nat
  BY SiteIsABranch, StoreIsFinite DEF AnyBranch
<1>1. PICK negative \in BOOLEAN : books = OpeningBooks(negative)
  BY DEF StoreInit
<1>2. /\ Sound(books) /\ Len(books.layers) <= MaxLayers
      /\ \A b \in Branch : books.shelf[b].reserved = 0 /\ books.shelf[b].inTransit = 0
  <2>1. /\ Sound(books) /\ books.layers = Opening
        /\ \A b \in Branch : books.shelf[b].reserved = 0 /\ books.shelf[b].inTransit = 0
    BY <1>1, OpeningSound
  <2> QED
    BY <2>1, OpeningIsWhole
<1> DEFINE row == [status |-> "NONE", from |-> AnyBranch, to |-> AnyBranch,
                   allowed |-> 0, sent |-> 0, manifest |-> <<>>]
<1>3. row \in TransferRow /\ row.status = "NONE"
  <2>1. <<>> \in Seq(ManifestRow) /\ 0 \in 0..MaxAsked
    BY <1>0
  <2> QED
    BY <1>0, <2>1 DEF TransferRow
<1>4. transfer = [t \in Transfer |-> row]
  BY DEF StoreInit
<1> HIDE DEF row
<1>5. /\ transfer \in [Transfer -> TransferRow]
      /\ \A t \in Transfer : Covered(transfer[t]) /\ transfer[t].status = "NONE"
  BY <1>3, <1>4 DEF Covered
<1>6. ASSUME NEW b \in Branch PROVE HeldAll(transfer, b) = 0 /\ SentAll(transfer, b) = 0
  <2> DEFINE f == [t \in Transfer |-> HeldBy(transfer[t], b)]
             g == [t \in Transfer |-> SentBy(transfer[t], b)]
  <2>1. \A t \in Transfer : f[t] = 0 /\ g[t] = 0
    BY <1>5 DEF HeldBy, SentBy
  <2>2. HeldAll(transfer, b) = SumFunctionOnSet(f, Transfer)
        /\ SentAll(transfer, b) = SumFunctionOnSet(g, Transfer)
    BY DEF HeldAll, SentAll
  <2> HIDE DEF f, g
  <2> QED
    BY <1>0, <2>1, <2>2, SumZero
<1>7. TransfersInv(books, transfer)
  BY <1>2, <1>5, <1>6 DEF TransfersInv
<1>8. tally \in [Count -> TallyRow] /\ clerk \in [Clerk -> Clerks] /\ moves \in 0..MaxMoves
  BY <1>0 DEF StoreInit, TallyRow, Clerks
<1>9. Deciding(transfer, clerk)
  BY DEF StoreInit, Deciding, Free
<1> QED
  BY <1>7, <1>8, <1>9 DEF StoreInv

\* The sums of the rows that stand are the sums of the parts of all.
LEMMA PromisesAre ==
  ASSUME NEW tr \in [Transfer -> TransferRow], NEW b
  PROVE  /\ HeldAll(tr, b) =
              Total(LAMBDA t : tr[t].allowed,
                    {t \in Transfer : tr[t].status = "APPROVED" /\ tr[t].from = b})
         /\ SentAll(tr, b) =
              Total(LAMBDA t : tr[t].sent,
                    {t \in Transfer : tr[t].status = "DISPATCHED" /\ tr[t].to = b})
<1> DEFINE A == {t \in Transfer : tr[t].status = "APPROVED" /\ tr[t].from = b}
           D == {t \in Transfer : tr[t].status = "DISPATCHED" /\ tr[t].to = b}
           f == [t \in Transfer |-> HeldBy(tr[t], b)]
           g == [t \in Transfer |-> SentBy(tr[t], b)]
           fa == [t \in A |-> tr[t].allowed]
           gd == [t \in D |-> tr[t].sent]
<1>1. /\ IsFiniteSet(Transfer) /\ A \in SUBSET Transfer /\ D \in SUBSET Transfer
      /\ \A t \in Transfer : tr[t] \in TransferRow
  BY StoreIsFinite
<1>2. IsFiniteSet(A) /\ IsFiniteSet(D)
  BY <1>1, FS_Subset
<1>3. \A t \in Transfer : HeldBy(tr[t], b) \in Nat /\ SentBy(tr[t], b) \in Nat
  BY <1>1, RowParts
<1>4. /\ \A t \in Transfer : f[t] \in Int /\ g[t] \in Int
      /\ \A t \in Transfer \ A : f[t] = 0
      /\ \A t \in Transfer \ D : g[t] = 0
      /\ \A t \in A : f[t] = fa[t]
      /\ \A t \in D : g[t] = gd[t]
  BY <1>3 DEF HeldBy, SentBy
<1>5. /\ HeldAll(tr, b) = SumFunctionOnSet(f, Transfer)
      /\ SentAll(tr, b) = SumFunctionOnSet(g, Transfer)
      /\ Total(LAMBDA t : tr[t].allowed, A) = SumFunctionOnSet(fa, A)
      /\ Total(LAMBDA t : tr[t].sent, D) = SumFunctionOnSet(gd, D)
  BY DEF HeldAll, SentAll, Total
<1> HIDE DEF f, g, fa, gd, A, D
<1>6. SumFunctionOnSet(f, Transfer) = SumFunctionOnSet(f, A)
      /\ SumFunctionOnSet(g, Transfer) = SumFunctionOnSet(g, D)
  BY <1>1, <1>4, SumWithin
<1>7. SumFunctionOnSet(f, A) = SumFunctionOnSet(fa, A)
      /\ SumFunctionOnSet(g, D) = SumFunctionOnSet(gd, D)
  BY <1>2, <1>4, SumSame
<1>8. /\ HeldAll(tr, b) = Total(LAMBDA t : tr[t].allowed, A)
      /\ SentAll(tr, b) = Total(LAMBDA t : tr[t].sent, D)
  BY <1>5, <1>6, <1>7
<1> QED
  BY <1>8 DEF A, D

LEMMA StoreTies == StoreInv => TransfersTie
<1> SUFFICES ASSUME StoreInv PROVE TransfersTie
  OBVIOUS
<1>1. /\ Sound(books) /\ Len(books.layers) <= MaxLayers
      /\ transfer \in [Transfer -> TransferRow] /\ \A t \in Transfer : Covered(transfer[t])
      /\ \A b \in Branch : /\ books.shelf[b].reserved = HeldAll(transfer, b)
                           /\ books.shelf[b].inTransit = SentAll(transfer, b)
  BY DEF StoreInv, TransfersInv
<1>2. StoreTypeOK
  BY <1>1, SoundTies DEF StoreInv, StoreTypeOK
<1>3. PromisesTie
  <2> SUFFICES ASSUME NEW b \in Branch
               PROVE  /\ books.shelf[b].reserved =
                           Total(LAMBDA t : transfer[t].allowed,
                                 {t \in Transfer : /\ transfer[t].status = "APPROVED"
                                                   /\ transfer[t].from = b})
                      /\ books.shelf[b].inTransit =
                           Total(LAMBDA t : transfer[t].sent,
                                 {t \in Transfer : /\ transfer[t].status = "DISPATCHED"
                                                   /\ transfer[t].to = b})
    BY DEF PromisesTie
  <2> QED
    BY <1>1, PromisesAre
<1>4. ManifestCovers
  <2> SUFFICES ASSUME NEW t \in Transfer, transfer[t].status = "DISPATCHED"
               PROVE  Total(LAMBDA i : transfer[t].manifest[i].qty, DOMAIN transfer[t].manifest)
                        = transfer[t].sent
    BY DEF ManifestCovers
  <2>1. Specs(transfer[t].manifest, transfer[t].sent)
    BY <1>1 DEF Covered
  <2> QED
    BY <2>1 DEF Specs, Total
<1> QED
  BY <1>2, <1>3, <1>4 DEF TransfersTie

\* What is held back at a branch is what approved transfers will take, what is on its
\* way is what was sent, and what is in the van is all in its manifest, for any number
\* of transfers in any state and whatever else moves the stock: the reservation is
\* released whole, a draw that was found sufficient finds its layers, and each way out
\* of the van takes the whole of it (dispatchTransfer, receiveTransfer, closeTransfer,
\* recallTransfer, assertSufficient).
THEOREM TransfersAlwaysTie == StoreSpec => []TransfersTie
<1> QED
  BY NothingMoved, StoreStep, StoreTies, PTL DEF StoreSpec

\* However goods come, go and come back on purpose: the total is the branches', the
\* value is the layers', and a branch's layers are what it holds and what it has issued
\* without one (postMovement, applyLocationDelta, createLayers, allocateAndConsume).
THEOREM StoreBooksTie == StoreSpec => []BooksTie
<1>1. StoreInv => BooksTie
  BY SoundTies DEF StoreInv, TransfersInv
<1> QED
  BY <1>1, NothingMoved, StoreStep, PTL DEF StoreSpec

------------------------------------------------------------------------------
(* Bills and clerks on the same books.  What one does to the rows of the    *)
(* other is nothing, so what is left to show is that a clerk's step keeps    *)
(* what bills have out on record, and a bill's step what is promised.       *)

StockInv == BillsAccountInv /\ CountsInv /\ StoreInv

LEMMA StockOpens == StockInit => StockInv
<1> SUFFICES ASSUME StockInit PROVE StockInv
  OBVIOUS
<1>1. CountsInv
  BY CountsOpen DEF StockInit
<1> QED
  BY <1>1, NothingTakenYet, NothingMoved DEF StockInit, StockInv

\* A bill's step.
LEMMA BillOnBooks ==
  ASSUME StockInv, UNCHANGED clerkVars, DepletionNext
  PROVE  StockInv'
<1>1. BillsAccountInv'
  BY BillsAccountStep DEF StockInv
<1>2. /\ transfer' = transfer /\ tally' = tally /\ clerk' = clerk /\ moves' = moves
  BY DEF clerkVars
<1>3. CountsInv'
  BY <1>2, CountsKept, ClerksKept DEF StockInv, CountsInv
<1>4. TransfersInv(books', transfer)
  <2>1. Besides(books, books')
    BY AccountedStep DEF StockInv, Rebooked
  <2>2. Sound(books') /\ Len(books'.layers) <= MaxLayers
    BY <1>1 DEF BillsAccountInv, Accounted
  <2>3. TransfersInv(books, transfer)
    BY DEF StockInv, StoreInv
  <2> QED
    BY <2>1, <2>2, <2>3 DEF TransfersInv, Besides
<1>5. StoreInv'
  BY <1>2, <1>4 DEF StockInv, StoreInv
<1> QED
  BY <1>1, <1>3, <1>5 DEF StockInv

\* A clerk's step.
LEMMA ClerkOnBooks ==
  ASSUME StockInv, UNCHANGED billVars, StoreNext
  PROVE  StockInv'
<1>1. StoreInv' /\ CountsInv'
  BY StoreStep, CountsStep DEF StockInv
<1>2. /\ order' = order /\ line' = line /\ taken' = taken /\ call' = call
      /\ delivered' = delivered
  BY DEF billVars
<1>3. BillsInv'
  BY <1>2 DEF StockInv, BillsAccountInv, BillsInv, InStep
<1>4. Accounted(books', taken)
  <2>1. Grown(books, books') /\ Len(books'.layers) <= MaxLayers
    BY StoreMoves DEF StockInv, Restocked, TransfersInv
  <2> QED
    BY <2>1, StaysAccounted DEF StockInv, BillsAccountInv
<1>5. BillsAccountInv'
  BY <1>2, <1>3, <1>4 DEF StockInv, BillsAccountInv
<1> QED
  BY <1>1, <1>5 DEF StockInv

LEMMA StockStep == StockInv /\ [StockNext]_stockVars => StockInv'
<1> SUFFICES ASSUME StockInv, [StockNext]_stockVars PROVE StockInv'
  OBVIOUS
<1>1. CASE UNCHANGED clerkVars /\ DepletionNext
  BY <1>1, BillOnBooks
<1>2. CASE UNCHANGED billVars /\ StoreNext
  BY <1>2, ClerkOnBooks
<1>3. CASE UNCHANGED stockVars
  <2>1. UNCHANGED depletionVars /\ UNCHANGED storeVars
    BY <1>3 DEF stockVars, billVars, clerkVars, depletionVars, storeVars
  <2> QED
    BY <2>1, BillsAccountStep, CountsStep, StoreStep DEF StockInv
<1> QED
  BY <1>1, <1>2, <1>3 DEF StockNext

\* On the same books, in any order: while bills take stock, share it and give it back,
\* and clerks promise it, send it, count it and write it off, every unit and what it
\* cost is accounted for, promises are what transfers say, bills have taken what their
\* lines need and a variance is posted once.  Neither side's posting undoes what the
\* other relies on (postMovement, reconcileOrderDepletion, dispatchTransfer,
\* receiveTransfer, approveStockCount).
THEOREM SharedBooksHold ==
  StockSpec => [](StockAccounted /\ InStep /\ TransfersTie /\ PostedOnce)
<1>1. StockInv => StockAccounted /\ InStep /\ TransfersTie /\ PostedOnce
  BY BillsAccount, StoreTies, CountsPost DEF StockInv, BillsAccountInv, BillsInv
<1> QED
  BY <1>1, StockOpens, StockStep, PTL DEF StockSpec
==============================================================================
