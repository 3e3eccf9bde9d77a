------------------------------- MODULE Drawer -------------------------------
(***************************************************************************)
(* The cash drawer: sessions opened at a register, cash taken and moved,    *)
(* counted and closed, handed over to the next cashier, and the petty cash  *)
(* paid from the drawer or from its tin.                                    *)
(*                                                                          *)
(* A call reads, then acts.  Closing, handing over and paying petty cash    *)
(* lock the session's row; a capture holds it shared while it books its     *)
(* cash; a movement reads it without a lock, and only the foreign key of    *)
(* the row it inserts waits for one.  One branch is modelled; amounts are   *)
(* units.                                                                   *)
(***************************************************************************)
EXTENDS Integers, FiniteSets

CONSTANTS
  Session,      \* rows of cash_drawer_sessions
  Register,     \* the tills
  Staff,        \* who works them
  Manager,      \* those who may act on others' drawers and decide petty cash
  Owner,        \* those who may sign off a difference
  Handover,     \* rows of cash_handovers
  Expense,      \* rows of petty_cash_requests
  Call,         \* calls in flight
  None,
  ReviewAbove,  \* the difference that needs a review; 0 is never
  ApprovalAbove,\* the amount that needs a second person; 0 is never
  Floats,       \* bound: what a drawer may be opened with
  Tins,         \* bound: what its tin may hold then
  MaxMoved,     \* bound: units moved, taken or counted at a drawer
  Rosters       \* bound: what a behaviour is made of: its operations, how many
                \* drawers it opens and how many requests it raises

ASSUME RolesAreStaff == Owner \subseteq Manager /\ Manager \subseteq Staff
ASSUME NoneIsNobody == None \notin Staff \cup Handover \cup Session \cup Int
ASSUME BoundsAreNumbers == /\ Floats \subseteq Nat /\ Tins \subseteq Nat
                           /\ MaxMoved \in Nat
                           /\ ReviewAbove \in Nat /\ ApprovalAbove \in Nat
ASSUME RequestsAreFinite == IsFiniteSet(Expense)

VARIABLES
  session, handover, expense, call,
  roster        \* which of the rosters this behaviour has; it never changes
vars == <<session, handover, expense, call, roster>>

------------------------------------------------------------------------------
(* The rows *)

SessionRow ==
  [status: {"NEW", "OPEN", "PENDING_REVIEW", "CLOSED"}, by: Staff \cup {None},
   register: Register \cup {None}, keyed: BOOLEAN, float: Nat, tin: Nat,
   taken: Nat, moved: Int, topped: Nat, paid: Nat,
   frozen: Int \cup {None}, counted: Nat \cup {None},
   closedBy: Staff \cup {None}, from: Handover \cup {None}]

NewSession ==
  [status |-> "NEW", by |-> None, register |-> None, keyed |-> FALSE,
   float |-> 0, tin |-> 0, taken |-> 0, moved |-> 0, topped |-> 0, paid |-> 0,
   frozen |-> None, counted |-> None, closedBy |-> None, from |-> None]

HandoverRow ==
  [status: {"NEW", "PENDING", "ACCEPTED", "DECLINED", "CANCELLED"},
   from: Session \cup {None}, fromUser: Staff \cup {None},
   toUser: Staff \cup {None}, counted: Nat]

\* payouts counts how often the cash left; it is a history the code does not keep.
ExpenseRow ==
  [status: {"NEW", "DRAFT", "PENDING", "APPROVED", "REJECTED", "CANCELLED", "PAID"},
   source: {"DRAWER", "PETTY_FUND"}, by: Staff \cup {None},
   session: Session \cup {None}, payouts: Nat]

Idle == [op |-> "idle"]
Effect == {"in", "out", "topup"}
Calls ==
  {Idle}
    \cup [op: {"move"}, session: Session, effect: Effect]
    \cup [op: {"capture"}, session: Session]
    \cup [op: {"close", "force"}, at: {"judged", "locked"}, user: Staff,
          session: Session, expected: Int]
    \cup [op: {"hand"}, at: {"judged", "locked"}, user: Staff,
          session: Session, expected: Int, to: Staff]
    \cup [op: {"pay"}, at: {"judged", "locked"}, session: Session,
          expected: Int, expense: Expense]
    \cup [op: {"accept", "reclaim"}, handover: Handover, tin: Int]
    \cup [op: {"decide"}, expense: Expense,
          to: {"PENDING", "APPROVED", "REJECTED", "CANCELLED"}]
    \cup [op: {"review"}, session: Session]

TypeOK ==
  /\ session \in [Session -> SessionRow]
  /\ handover \in [Handover -> HandoverRow]
  /\ expense \in [Expense -> ExpenseRow]
  /\ call \in [Call -> Calls]

Open(s) == session[s].status = "OPEN"

------------------------------------------------------------------------------
(* What the totals come to *)

\* What should be in the drawer.
Recount(s) ==
  LET d == session[s] IN d.float + d.taken + d.moved - d.topped - d.paid

\* Paid from the tin of a session: the requests that say so now.
SpentFromTin(s) ==
  Cardinality({e \in Expense : /\ expense[e].status = "PAID"
                               /\ expense[e].session = s
                               /\ expense[e].source = "PETTY_FUND"})
Fund(s) == session[s].tin + session[s].topped - SpentFromTin(s)

Abs(n) == IF n < 0 THEN -n ELSE n
NeedsReview(variance) == ReviewAbove > 0 /\ Abs(variance) >= ReviewAbove

------------------------------------------------------------------------------
(* Locks on a session's row, held by the calls that are past theirs *)

HeldForUpdate(s) ==
  \E r \in Call : /\ call[r].op \in {"close", "force", "hand", "pay"}
                  /\ call[r].at = "locked" /\ call[r].session = s
HeldForShare(s) == \E r \in Call : call[r].op = "capture" /\ call[r].session = s
MayLockShared(s) == ~HeldForUpdate(s)       \* mutant: past a capture in flight
MayLock(s) == ~HeldForUpdate(s) /\ ~HeldForShare(s)
MayShare(s) == ~HeldForUpdate(s)

Start(r, c) == call[r] = Idle /\ call' = [call EXCEPT ![r] = c]
Return(r) == call' = [call EXCEPT ![r] = Idle]
MayTouch(u, s) == u \in Manager \/ session[s].by = u

------------------------------------------------------------------------------
(* Opening *)

KeyOfCashierFree(u, g) == \A s \in Session : session[s].keyed => session[s].by # u  \* mutant: the till's key
\* The two unique keys: no session that holds a key shares a till or a cashier.
KeysFree(u, g) ==
  \A s \in Session : session[s].keyed => session[s].by # u /\ session[s].register # g

Opened(u, g, float, tin, from) ==
  [NewSession EXCEPT !.status = "OPEN", !.by = u, !.register = g, !.keyed = TRUE,
                     !.float = float, !.tin = tin, !.from = from]

\* A key left on a session that is over is released, a live one refuses.
OpenDrawer(u, g, float, tin) ==
  /\ "open" \in roster.ops
  /\ Cardinality({s \in Session : session[s].status # "NEW" /\ session[s].from = None}) < roster.opened
  /\ LET clash == {s \in Session : /\ session[s].keyed
                                   /\ session[s].by = u \/ session[s].register = g}
     IN  /\ \A s \in clash : ~Open(s)
         /\ \E new \in Session :
              /\ session[new].status = "NEW"
              /\ session' = [s \in Session |->
                   IF s = new THEN Opened(u, g, float, tin, None)
                   ELSE IF s \in clash THEN [session[s] EXCEPT !.keyed = FALSE]
                   ELSE session[s]]
  /\ UNCHANGED <<handover, expense, call>>

------------------------------------------------------------------------------
(* Cash taken and moved *)

Own(u) == {s \in Session : Open(s) /\ session[s].by = u}

\* A capture finds its cashier's drawer, or stays unattributed.
Charge(r, u) ==
  /\ "capture" \in roster.ops
  /\ \E s \in Own(u) :
       /\ MayShare(s) /\ session[s].taken < MaxMoved
       /\ Start(r, [op |-> "capture", session |-> s])
  /\ UNCHANGED <<session, handover, expense>>

TakeCash(r) ==
  /\ call[r].op = "capture"
  /\ session' = [session EXCEPT ![call[r].session].taken = @ + 1]
  /\ Return(r)
  /\ UNCHANGED <<handover, expense>>

\* Cash in, cash out or a top-up of the tin, by hand.
JudgeMovement(r, u, s, effect) ==
  /\ (IF effect = "topup" THEN "topup" ELSE "move") \in roster.ops
  /\ Open(s) /\ MayTouch(u, s)
  /\ Start(r, [op |-> "move", session |-> s, effect |-> effect])
  /\ UNCHANGED <<session, handover, expense>>

\* A refund leaves, a reversed expense returns to, the drawer of who does it
\* or else any open one; none open, and nothing is recorded.
FindDrawer(r, u, effect) ==
  /\ "refund" \in roster.ops
  /\ effect # "topup"
  /\ \E s \in IF Own(u) # {} THEN Own(u) ELSE {x \in Session : Open(x)} :
       Start(r, [op |-> "move", session |-> s, effect |-> effect])
  /\ UNCHANGED <<session, handover, expense>>

Moved(d, effect) ==
  CASE effect = "in" -> [d EXCEPT !.moved = @ + 1]
    [] effect = "out" -> [d EXCEPT !.moved = @ - 1]
    [] effect = "topup" -> [d EXCEPT !.topped = @ + 1]

InsertMovement(r) ==
  /\ call[r].op = "move"
  /\ LET s == call[r].session
         after == Moved(session[s], call[r].effect)
     IN  /\ MayShare(s)
         /\ Abs(after.moved) <= MaxMoved /\ after.topped <= MaxMoved
         /\ session' = [session EXCEPT ![s] = after]
  /\ Return(r)
  /\ UNCHANGED <<handover, expense>>

------------------------------------------------------------------------------
(* Counting: close, close for somebody else, hand over *)

JudgeClose(r, u, s) ==
  /\ "close" \in roster.ops
  /\ Open(s) /\ MayTouch(u, s)
  /\ Start(r, [op |-> "close", at |-> "judged", user |-> u, session |-> s, expected |-> 0])
  /\ UNCHANGED <<session, handover, expense>>

JudgeForce(r, u, s) ==
  /\ "force" \in roster.ops
  /\ Open(s) /\ u \in Manager
  /\ Start(r, [op |-> "force", at |-> "judged", user |-> u, session |-> s, expected |-> 0])
  /\ UNCHANGED <<session, handover, expense>>

\* One handover pending per till and per person taking one on.
JudgeHandover(r, u, s, v) ==
  /\ "hand" \in roster.ops
  /\ Open(s) /\ MayTouch(u, s) /\ v # u
  /\ \A h \in Handover : handover[h].status = "PENDING" =>
       handover[h].from # s /\ handover[h].toUser # v
  /\ Start(r, [op |-> "hand", at |-> "judged", user |-> u, session |-> s,
               expected |-> 0, to |-> v])
  /\ UNCHANGED <<session, handover, expense>>

\* The row is locked and looked at again; the totals are read under the lock.
StillOpen(r) ==
  /\ Open(call[r].session)
  /\ call[r].op = "pay" /\ expense[call[r].expense].source = "PETTY_FUND"
       => Fund(call[r].session) >= 1

LockSession(r) ==
  /\ call[r].op \in {"close", "force", "hand", "pay"} /\ call[r].at = "judged"
  /\ MayLock(call[r].session)
  /\ IF StillOpen(r)
     THEN call' = [call EXCEPT ![r].at = "locked", ![r].expected = Recount(call[r].session)]
     ELSE Return(r)
  /\ UNCHANGED <<session, handover, expense>>

\* The figures are frozen and the till is free; an uncounted close has no variance.
Counted(d, u, expected, counted) ==
  [d EXCEPT !.status = IF counted # None /\ NeedsReview(counted - expected)
                       THEN "PENDING_REVIEW" ELSE "CLOSED",
            !.keyed = FALSE, !.frozen = expected, !.counted = counted, !.closedBy = u]

CloseDrawer(r, counted) ==
  /\ call[r].op \in {"close", "force"} /\ call[r].at = "locked"
  /\ counted = None => call[r].op = "force"
  /\ session' = [session EXCEPT ![call[r].session] =
                   Counted(@, call[r].user, call[r].expected, counted)]
  /\ Return(r)
  /\ UNCHANGED <<handover, expense>>

RequestHandover(r, counted) ==
  /\ call[r].op = "hand" /\ call[r].at = "locked"
  /\ session' = [session EXCEPT ![call[r].session] =
                   Counted(@, call[r].user, call[r].expected, counted)]
  /\ \E h \in Handover :
       /\ handover[h].status = "NEW"
       /\ handover' = [handover EXCEPT ![h] =
            [status |-> "PENDING", from |-> call[r].session,
             fromUser |-> call[r].user, toUser |-> call[r].to, counted |-> counted]]
  /\ Return(r)
  /\ UNCHANGED expense

JudgeReview(r, u, s) ==
  /\ "review" \in roster.ops
  /\ u \in Owner /\ session[s].status = "PENDING_REVIEW" /\ session[s].closedBy # u
  /\ Start(r, [op |-> "review", session |-> s])
  /\ UNCHANGED <<session, handover, expense>>

ReviewDrawer(r) ==
  /\ call[r].op = "review"
  /\ session' = [session EXCEPT ![call[r].session].status = "CLOSED"]
  /\ Return(r)
  /\ UNCHANGED <<handover, expense>>

------------------------------------------------------------------------------
(* A handover taken on, declined, or withdrawn *)

\* What the tin holds is read before the transaction.
JudgeAccept(r, u, h) ==
  /\ "accept" \in roster.ops
  /\ handover[h].status = "PENDING" /\ handover[h].toUser = u
  /\ Start(r, [op |-> "accept", handover |-> h, tin |-> Fund(handover[h].from)])
  /\ UNCHANGED <<session, handover, expense>>

JudgeReclaim(r, u, h) ==
  /\ "reclaim" \in roster.ops
  /\ handover[h].status = "PENDING"
  /\ handover[h].fromUser = u \/ u \in Manager
  /\ Start(r, [op |-> "reclaim", handover |-> h, tin |-> Fund(handover[h].from)])
  /\ UNCHANGED <<session, handover, expense>>

OnceRequested(h) == handover[h].status # "NEW"  \* mutant: the claim without its status
StillPending(h) == handover[h].status = "PENDING"

\* The drawer opens again with what was counted, for whoever holds it now; a
\* taken key or a settled handover undoes it all.
SettleHandover(r) ==
  /\ call[r].op \in {"accept", "reclaim"}
  /\ LET h == call[r].handover
         u == IF call[r].op = "accept" THEN handover[h].toUser ELSE handover[h].fromUser
         g == session[handover[h].from].register
     IN  IF StillPending(h) /\ KeysFree(u, g)
         THEN /\ handover' = [handover EXCEPT ![h].status =
                   IF call[r].op = "accept" THEN "ACCEPTED" ELSE "CANCELLED"]
              /\ \E new \in Session :
                   /\ session[new].status = "NEW"
                   /\ session' = [session EXCEPT ![new] =
                        Opened(u, g, handover[h].counted, call[r].tin, h)]
         ELSE UNCHANGED <<session, handover>>
  /\ Return(r)
  /\ UNCHANGED expense

DeclineHandover(u, h) ==
  /\ "accept" \in roster.ops
  /\ StillPending(h)
  /\ handover[h].toUser = u \/ u \in Manager
  /\ handover' = [handover EXCEPT ![h].status = "DECLINED"]
  /\ UNCHANGED <<session, expense, call>>

------------------------------------------------------------------------------
(* Petty cash *)

CreateRequest(u, e, source, status) ==
  /\ "petty" \in roster.ops
  /\ expense[e].status = "NEW"
  /\ Cardinality({x \in Expense : expense[x].status # "NEW"}) < roster.raised
  /\ expense' = [expense EXCEPT ![e].status = status, ![e].source = source, ![e].by = u]
  /\ UNCHANGED <<session, handover, call>>

\* Submit, withdraw and decide judge the request, then write by id alone.
Decides == {"APPROVED", "REJECTED"}
From(to) ==
  CASE to = "PENDING" -> {"DRAFT"}
    [] to = "CANCELLED" -> {"DRAFT", "PENDING"}
    [] to \in Decides -> {"PENDING"}
MayMove(u, e, to) ==
  IF to \in Decides
  THEN /\ u \in Manager
       /\ ApprovalAbove \in 1..1 /\ u \notin Owner => expense[e].by # u
  ELSE u \in Manager \/ expense[e].by = u

JudgeRequest(r, u, e, to) ==
  /\ "petty" \in roster.ops
  /\ expense[e].status \in From(to) /\ MayMove(u, e, to)
  /\ Start(r, [op |-> "decide", expense |-> e, to |-> to])
  /\ UNCHANGED <<session, handover, expense>>

WriteRequest(r) ==
  /\ call[r].op = "decide"
  /\ expense' = [expense EXCEPT ![call[r].expense].status = call[r].to]
  /\ Return(r)
  /\ UNCHANGED <<session, handover>>

JudgePay(r, u, e, s) ==
  /\ "petty" \in roster.ops
  /\ u \in Manager /\ expense[e].status = "APPROVED" /\ Open(s)
  /\ Start(r, [op |-> "pay", at |-> "judged", session |-> s, expected |-> 0, expense |-> e])
  /\ UNCHANGED <<session, handover, expense>>

\* The claim repeats the status; from the drawer it leaves a movement too.
StillApproved(e) == expense[e].status = "APPROVED"
PayRequest(r) ==
  /\ call[r].op = "pay" /\ call[r].at = "locked"
  /\ LET e == call[r].expense
         s == call[r].session
     IN  IF StillApproved(e)
         THEN /\ expense' = [expense EXCEPT ![e].status = "PAID", ![e].session = s,
                                            ![e].payouts = @ + 1]
              /\ session' = IF expense[e].source = "DRAWER"
                            THEN [session EXCEPT ![s].paid = @ + 1] ELSE session
         ELSE UNCHANGED <<session, expense>>
  /\ Return(r)
  /\ UNCHANGED handover

------------------------------------------------------------------------------
(* Specification *)

Init ==
  /\ session = [s \in Session |-> NewSession]
  /\ handover = [h \in Handover |-> [status |-> "NEW", from |-> None, fromUser |-> None,
                                     toUser |-> None, counted |-> 0]]
  /\ expense = [e \in Expense |-> [status |-> "NEW", source |-> "DRAWER", by |-> None,
                                   session |-> None, payouts |-> 0]]
  /\ call = [r \in Call |-> Idle]
  /\ roster \in Rosters

\* What a call does next once it has begun.
Continue(r) ==
  \/ TakeCash(r)
  \/ InsertMovement(r)
  \/ LockSession(r)
  \/ \E n \in 0..MaxMoved \cup {None} : CloseDrawer(r, n)
  \/ \E n \in 0..MaxMoved : RequestHandover(r, n)
  \/ ReviewDrawer(r)
  \/ SettleHandover(r)
  \/ WriteRequest(r)
  \/ PayRequest(r)

Begin(r, u) ==
  \/ Charge(r, u)
  \/ \E s \in Session, effect \in Effect : JudgeMovement(r, u, s, effect)
  \/ \E effect \in Effect : FindDrawer(r, u, effect)
  \/ \E s \in Session : JudgeClose(r, u, s) \/ JudgeForce(r, u, s) \/ JudgeReview(r, u, s)
  \/ \E s \in Session, v \in Staff : JudgeHandover(r, u, s, v)
  \/ \E h \in Handover : JudgeAccept(r, u, h) \/ JudgeReclaim(r, u, h)
  \/ \E e \in Expense, to \in {"PENDING", "APPROVED", "REJECTED", "CANCELLED"} :
       JudgeRequest(r, u, e, to)
  \/ \E e \in Expense, s \in Session : JudgePay(r, u, e, s)

Steps ==
  \/ \E u \in Staff, g \in Register, float \in Floats, tin \in Tins :
       OpenDrawer(u, g, float, tin)
  \/ \E u \in Staff, h \in Handover : DeclineHandover(u, h)
  \/ \E u \in Staff, e \in Expense, source \in {"DRAWER", "PETTY_FUND"},
        status \in {"DRAFT", "PENDING"} : CreateRequest(u, e, source, status)
  \/ \E r \in Call : Continue(r)
  \/ \E r \in Call, u \in Staff : Begin(r, u)

Next == Steps /\ UNCHANGED roster

Spec == Init /\ [][Next]_vars

------------------------------------------------------------------------------
(* What must hold *)

\* One open drawer per till and per cashier, however it came to be opened
\* (activeRegisterKey, activeCashierKey).
OneDrawerEach ==
  \A s, x \in Session : Open(s) /\ Open(x) /\ s # x =>
    session[s].register # session[x].register /\ session[s].by # session[x].by

\* A key means an open drawer and an open drawer its key: no till is locked by
\* a session that is over, whichever way it ended (releaseStaleKeys).
KeysMeanOpen == \A s \in Session : session[s].keyed <=> Open(s)

\* Together: a till and a cashier are tied to a drawer exactly as long as it is open.
DrawersApart == OneDrawerEach /\ KeysMeanOpen

\* Once a drawer is counted no capture and no petty cash lands on it, and what
\* was frozen stays: a movement that was judged before the count is all that
\* can still reach it.
CountedTakesNoMore ==
  [][\A s \in Session : session[s].status \in {"PENDING_REVIEW", "CLOSED"} =>
       /\ session'[s].taken = session[s].taken /\ session'[s].paid = session[s].paid
       /\ session'[s].frozen = session[s].frozen
       /\ session'[s].counted = session[s].counted]_vars

\* What was frozen is what the drawer came to, less what such a movement moved.
FrozenIsTrue ==
  \A s \in Session : session[s].status \in {"PENDING_REVIEW", "CLOSED"} =>
    session[s].frozen = Recount(s)

\* The tin is never paid from beyond what is in it (payRequest locks the session
\* before it reads the balance).
FundNeverNegative == \A s \in Session : Fund(s) >= 0

\* The cash that was counted is carried on once: a handover opens one drawer if
\* it was taken on or withdrawn and none otherwise, with what was counted.
CashCarriedOnce ==
  \A h \in Handover :
    LET heirs == {s \in Session : session[s].from = h}
    IN  /\ Cardinality(heirs) =
             IF handover[h].status \in {"ACCEPTED", "CANCELLED"} THEN 1 ELSE 0
        /\ \A s \in heirs : /\ session[s].float = handover[h].counted
                            /\ session[s].float = session[handover[h].from].counted

\* Together: cash is not spent that is not there and not carried on twice.
CashAccounted == FundNeverNegative /\ CashCarriedOnce

------------------------------------------------------------------------------
(* What a comment says, and the code breaks *)

\* "the same expense cannot leave the till twice".
PaidOnce == \A e \in Expense : expense[e].payouts <= 1
==============================================================================
