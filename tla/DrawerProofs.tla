----------------------------- MODULE DrawerProofs ----------------------------
(***************************************************************************)
(* Drawers, tins and handovers, for every number of tills, people, requests *)
(* and calls in flight; shifts, the rota and the till that goes with a      *)
(* shift, for every number of people, sites, entries and calls in flight.   *)
(***************************************************************************)
EXTENDS Drawer, Shifts, FiniteSetTheorems, TLAPS

USE NoneIsNobody, BoundsAreNumbers, RequestsAreFinite

------------------------------------------------------------------------------
(* The invariant *)

Locked(r) == call[r].op \in {"close", "force", "hand", "pay"} /\ call[r].at = "locked"
Done(s) == session[s].status \in {"PENDING_REVIEW", "CLOSED"}

\* What a call relies on when it writes: an open drawer, locked or shared; a
\* tin that held enough; a handover that was made.
CallSound(r) ==
  /\ Locked(r) \/ call[r].op = "capture" => Open(call[r].session)
  /\ call[r].op = "review" => Done(call[r].session)
  /\ call[r].op = "pay" => expense[call[r].expense].status # "NEW"
  /\ Locked(r) /\ call[r].op = "pay" /\ expense[call[r].expense].source = "PETTY_FUND"
       => \A s \in Session : s = call[r].session => Fund(s) >= 1
  /\ call[r].op \in {"accept", "reclaim"} =>
       call[r].tin >= 0 /\ handover[call[r].handover].status # "NEW"

\* A lock is alone on its row; a shared one has others beside it, but no lock.
Exclusive ==
  \A r, q \in Call : r # q /\ Locked(r) /\ (Locked(q) \/ call[q].op = "capture")
    => call[r].session # call[q].session

\* Keys, and those who hold them, apart.
KeyedApart ==
  \A s, x \in Session : session[s].keyed /\ session[x].keyed /\ s # x =>
    session[s].register # session[x].register /\ session[s].by # session[x].by

\* Nothing hangs on a drawer that is not yet opened.
Untouched ==
  /\ \A s \in Session : session[s].status = "NEW" => session[s].from = None
  /\ \A e \in Expense : expense[e].session \in Session =>
                          session[expense[e].session].status # "NEW"

HandoverSound(h) ==
  handover[h].status # "NEW" =>
    /\ handover[h].from \in Session
    /\ Done(handover[h].from)
    /\ handover[h].counted = session[handover[h].from].counted

Heirs(h) == {s \in Session : session[s].from = h}
Carried(h) ==
  /\ IF handover[h].status \in {"ACCEPTED", "CANCELLED"}
     THEN \E s \in Session : Heirs(h) = {s} ELSE Heirs(h) = {}
  /\ \A s \in Session : session[s].from = h => session[s].float = handover[h].counted

DrawerInv ==
  /\ TypeOK
  /\ \A r \in Call : CallSound(r)
  /\ Exclusive
  /\ KeysMeanOpen /\ KeyedApart
  /\ Untouched
  /\ FundNeverNegative
  /\ \A h \in Handover : HandoverSound(h) /\ Carried(h)

------------------------------------------------------------------------------
(* Types *)

\* What a call of each kind carries.
LEMMA Kinds ==
  ASSUME TypeOK, NEW r \in Call
  PROVE  /\ call[r].op = "move" => call[r] \in [op: {"move"}, session: Session, effect: Effect]
         /\ call[r].op = "capture" => call[r] \in [op: {"capture"}, session: Session]
         /\ call[r].op \in {"close", "force"} =>
              call[r] \in [op: {"close", "force"}, at: {"judged", "locked"}, user: Staff,
                           session: Session, expected: Int]
         /\ call[r].op = "hand" =>
              call[r] \in [op: {"hand"}, at: {"judged", "locked"}, user: Staff,
                           session: Session, expected: Int, to: Staff]
         /\ call[r].op = "pay" =>
              call[r] \in [op: {"pay"}, at: {"judged", "locked"}, session: Session,
                           expected: Int, expense: Expense]
         /\ call[r].op \in {"accept", "reclaim"} =>
              call[r] \in [op: {"accept", "reclaim"}, handover: Handover, tin: Int]
         /\ call[r].op = "decide" =>
              call[r] \in [op: {"decide"}, expense: Expense,
                           to: {"PENDING", "APPROVED", "REJECTED", "CANCELLED"}]
         /\ call[r].op = "review" => call[r] \in [op: {"review"}, session: Session]
BY DEF TypeOK, Calls, Idle

\* The session of a call that has one.
LEMMA OnSession ==
  ASSUME TypeOK, NEW r \in Call
  PROVE  call[r].op \in {"move", "capture", "close", "force", "hand", "pay", "review"}
           => call[r].session \in Session
BY Kinds

LEMMA StartTyped ==
  ASSUME TypeOK, NEW r \in Call, NEW c \in Calls, Start(r, c)
  PROVE  call' \in [Call -> Calls] /\ call'[r] = c
         /\ \A q \in Call \ {r} : call'[q] = call[q]
BY DEF TypeOK, Start

LEMMA ReturnTyped ==
  ASSUME TypeOK, NEW r \in Call, Return(r)
  PROVE  call' \in [Call -> Calls] /\ call'[r] = Idle
         /\ \A q \in Call \ {r} : call'[q] = call[q]
<1>1. Idle \in Calls
  BY DEF Calls
<1> QED
  BY <1>1 DEF TypeOK, Return

\* The totals are numbers.
LEMMA SpentTyped ==
  ASSUME NEW s
  PROVE  /\ IsFiniteSet({e \in Expense : /\ expense[e].status = "PAID" /\ expense[e].session = s
                                         /\ expense[e].source = "PETTY_FUND"})
         /\ SpentFromTin(s) \in Nat
<1> DEFINE spent == {e \in Expense : /\ expense[e].status = "PAID" /\ expense[e].session = s
                                     /\ expense[e].source = "PETTY_FUND"}
<1>1. IsFiniteSet(spent)
  BY FS_Subset
<1> QED
  BY <1>1, FS_CardinalityType DEF SpentFromTin

LEMMA TotalsTyped ==
  ASSUME TypeOK, NEW s \in Session
  PROVE  Recount(s) \in Int /\ Fund(s) \in Int
<1>1. session[s] \in SessionRow
  BY DEF TypeOK
<1>2. /\ session[s].float \in Nat /\ session[s].tin \in Nat /\ session[s].taken \in Nat
      /\ session[s].moved \in Int /\ session[s].topped \in Nat /\ session[s].paid \in Nat
  BY <1>1 DEF SessionRow
<1>3. Recount(s) \in Int
  BY <1>2 DEF Recount
<1>4. SpentFromTin(s) \in Nat
  BY SpentTyped
<1> QED
  BY <1>2, <1>3, <1>4 DEF Fund

LEMMA InitTyped == Init => TypeOK
BY DEF Init, TypeOK, SessionRow, NewSession, HandoverRow, ExpenseRow, Calls

------------------------------------------------------------------------------
(* What may become of a drawer in one step *)

Same(s) ==
  /\ session'[s].by = session[s].by /\ session'[s].register = session[s].register
  /\ session'[s].float = session[s].float /\ session'[s].tin = session[s].tin
  /\ session'[s].from = session[s].from /\ session'[s].topped >= session[s].topped
Kept(s) ==
  /\ Same(s) /\ session'[s].status = session[s].status /\ session'[s].keyed = session[s].keyed
  /\ session'[s].counted = session[s].counted /\ session'[s].frozen = session[s].frozen
DoneNext(s) == session'[s].status \in {"PENDING_REVIEW", "CLOSED"}
CountedNow(s) ==
  /\ Same(s) /\ Open(s) /\ DoneNext(s) /\ session'[s].keyed = FALSE
  /\ \A r \in Call : (Locked(r) \/ call[r].op = "capture") /\ call[r].session = s
                       => call'[r] = Idle
ReviewedNow(s) ==
  /\ Same(s) /\ Done(s) /\ DoneNext(s) /\ session'[s].keyed = session[s].keyed
  /\ session'[s].counted = session[s].counted /\ session'[s].frozen = session[s].frozen
OpenedNow(s) ==
  /\ session[s].status = "NEW" /\ session'[s].status = "OPEN" /\ session'[s].keyed = TRUE
  /\ session'[s].tin \in Nat /\ session'[s].topped = 0
  /\ \A x \in Session \ {s} : Kept(x)
  /\ \A x \in Session : session[x].keyed =>
       session[x].by # session'[s].by /\ session[x].register # session'[s].register

\* Nothing lands on a drawer that was counted.
Settled(s) ==
  Done(s) => session'[s].taken = session[s].taken /\ session'[s].paid = session[s].paid

DrawerStep(s) == (Kept(s) \/ CountedNow(s) \/ ReviewedNow(s) \/ OpenedNow(s)) /\ Settled(s)

LEMMA UnchangedKeeps ==
  ASSUME TypeOK, NEW s \in Session, session'[s] = session[s]
  PROVE  Kept(s) /\ Settled(s)
BY DEF TypeOK, SessionRow, Kept, Same, Settled

\* Opening a drawer, by hand or out of a handover.
OpenRow(d, u, g, float, tin, from) ==
  /\ d.status = "OPEN" /\ d.keyed = TRUE /\ d.by = u /\ d.register = g
  /\ d.float = float /\ d.tin = tin /\ d.topped = 0 /\ d.from = from

LEMMA OpenedRow ==
  ASSUME NEW u \in Staff \cup {None}, NEW g \in Register \cup {None},
         NEW float \in Nat, NEW tin \in Nat, NEW from \in Handover \cup {None}
  PROVE  /\ Opened(u, g, float, tin, from) \in SessionRow
         /\ OpenRow(Opened(u, g, float, tin, from), u, g, float, tin, from)
<1> DEFINE d == Opened(u, g, float, tin, from)
           made == [NewSession EXCEPT !.status = "OPEN", !.by = u, !.register = g]
<1>1. NewSession \in SessionRow /\ NewSession.topped = 0
  BY DEF NewSession, SessionRow
<1>2. made \in SessionRow /\ made.status = "OPEN" /\ made.by = u /\ made.register = g /\ made.topped = 0
  BY <1>1 DEF SessionRow
<1>3. d = [made EXCEPT !.keyed = TRUE, !.float = float, !.tin = tin, !.from = from]
  BY DEF Opened
<1> HIDE DEF d, made
<1>4. d \in SessionRow
  BY <1>2, <1>3 DEF SessionRow
<1>5. /\ d.status = "OPEN" /\ d.keyed = TRUE /\ d.by = u /\ d.register = g
      /\ d.float = float /\ d.tin = tin /\ d.topped = 0 /\ d.from = from
  BY <1>2, <1>3 DEF SessionRow
<1> QED
  BY <1>4, <1>5 DEF d, OpenRow

LEMMA OpeningStep ==
  ASSUME TypeOK, NEW u \in Staff \cup {None}, NEW g \in Register \cup {None},
         NEW float \in Nat, NEW tin \in Nat, NEW from \in Handover \cup {None},
         NEW new \in Session, session[new].status = "NEW", KeysFree(u, g),
         session' = [session EXCEPT ![new] = Opened(u, g, float, tin, from)]
  PROVE  /\ session' \in [Session -> SessionRow]
         /\ session'[new] = Opened(u, g, float, tin, from)
         /\ \A s \in Session \ {new} : session'[s] = session[s]
         /\ OpenedNow(new)
         /\ \A s \in Session : DrawerStep(s)
<1>1. session'[new] = Opened(u, g, float, tin, from)
  BY DEF TypeOK
<1>2. \A s \in Session \ {new} : session'[s] = session[s] /\ Kept(s) /\ Settled(s)
  <2> TAKE s \in Session \ {new}
  <2>1. session'[s] = session[s]
    BY DEF TypeOK
  <2> QED
    BY <2>1, UnchangedKeeps
<1>3. OpenedNow(new)
  <2> DEFINE d == Opened(u, g, float, tin, from)
  <2>0. OpenRow(d, u, g, float, tin, from)
    BY OpenedRow
  <2> HIDE DEF d
  <2>1. /\ session'[new].status = "OPEN" /\ session'[new].keyed = TRUE
        /\ session'[new].tin \in Nat /\ session'[new].topped = 0
        /\ session'[new].by = u /\ session'[new].register = g
    BY <1>1, <2>0 DEF d, OpenRow
  <2> QED
    BY <1>2, <2>1 DEF OpenedNow, KeysFree
<1>4. Settled(new)
  BY DEF Settled, Done
<1>5. session' \in [Session -> SessionRow]
  BY OpenedRow DEF TypeOK
<1> QED
  BY <1>1, <1>2, <1>3, <1>4, <1>5 DEF DrawerStep

\* With keys only on open drawers, no stale one is left to release.
LEMMA OpenDrawerStep ==
  ASSUME TypeOK, KeysMeanOpen, NEW u \in Staff, NEW g \in Register, NEW float \in Floats,
         NEW tin \in Tins, OpenDrawer(u, g, float, tin)
  PROVE  \E new \in Session : /\ session[new].status = "NEW" /\ KeysFree(u, g)
                              /\ session' = [session EXCEPT ![new] = Opened(u, g, float, tin, None)]
<1> DEFINE clash == {s \in Session : session[s].keyed /\ (session[s].by = u \/ session[s].register = g)}
<1>1. clash = {}
  BY DEF OpenDrawer, KeysMeanOpen, Open
<1>2. KeysFree(u, g)
  BY <1>1 DEF KeysFree
<1>3. PICK new \in Session :
        /\ session[new].status = "NEW"
        /\ session' = [s \in Session |->
             IF s = new THEN Opened(u, g, float, tin, None)
             ELSE IF s \in clash THEN [session[s] EXCEPT !.keyed = FALSE] ELSE session[s]]
  BY DEF OpenDrawer
<1>4. session' = [s \in Session |-> IF s = new THEN Opened(u, g, float, tin, None) ELSE session[s]]
  BY <1>1, <1>3
<1>5. session' = [session EXCEPT ![new] = Opened(u, g, float, tin, None)]
  BY <1>4 DEF TypeOK
<1> QED
  BY <1>2, <1>3, <1>5

\* Counting a drawer under its lock.
CountedFrom(d, old, counted) ==
  /\ d.status \in {"PENDING_REVIEW", "CLOSED"} /\ d.keyed = FALSE /\ d.counted = counted
  /\ d.by = old.by /\ d.register = old.register /\ d.float = old.float
  /\ d.tin = old.tin /\ d.from = old.from /\ d.topped = old.topped

LEMMA CountedRow ==
  ASSUME TypeOK, NEW s \in Session, NEW u \in Staff, NEW expected \in Int,
         NEW counted \in Nat \cup {None}
  PROVE  /\ Counted(session[s], u, expected, counted) \in SessionRow
         /\ CountedFrom(Counted(session[s], u, expected, counted), session[s], counted)
<1> DEFINE status == IF counted # None /\ NeedsReview(counted - expected)
                     THEN "PENDING_REVIEW" ELSE "CLOSED"
           free == [session[s] EXCEPT !.status = status, !.keyed = FALSE]
           d == Counted(session[s], u, expected, counted)
<1>1. session[s] \in SessionRow /\ status \in {"PENDING_REVIEW", "CLOSED"}
  BY DEF TypeOK
<1>2. d = [free EXCEPT !.frozen = expected, !.counted = counted, !.closedBy = u]
  BY DEF Counted
<1> HIDE DEF status, d
<1>3. /\ free \in SessionRow /\ free.status = status /\ free.keyed = FALSE
      /\ free.by = session[s].by /\ free.register = session[s].register
      /\ free.float = session[s].float /\ free.tin = session[s].tin
      /\ free.from = session[s].from /\ free.topped = session[s].topped
  BY <1>1 DEF SessionRow
<1> HIDE DEF free
<1>4. d \in SessionRow
  BY <1>2, <1>3 DEF SessionRow
<1>5. /\ d.status = status /\ d.keyed = FALSE /\ d.counted = counted
      /\ d.by = session[s].by /\ d.register = session[s].register
      /\ d.float = session[s].float /\ d.tin = session[s].tin
      /\ d.from = session[s].from /\ d.topped = session[s].topped
  BY <1>2, <1>3 DEF SessionRow
<1> QED
  BY <1>1, <1>4, <1>5 DEF d, CountedFrom

LEMMA CountingStep ==
  ASSUME DrawerInv, NEW r \in Call, Locked(r), call[r].op \in {"close", "force", "hand"},
         NEW counted \in Nat \cup {None}, Return(r),
         session' = [session EXCEPT ![call[r].session] =
                       Counted(@, call[r].user, call[r].expected, counted)]
  PROVE  /\ session' \in [Session -> SessionRow]
         /\ call[r].session \in Session /\ Open(call[r].session) /\ DoneNext(call[r].session)
         /\ session'[call[r].session].counted = counted
         /\ \A s \in Session : DrawerStep(s)
<1>1. /\ call[r].session \in Session /\ call[r].user \in Staff /\ call[r].expected \in Int
      /\ Open(call[r].session) /\ TypeOK
  BY Kinds DEF DrawerInv, CallSound
<1>d. PICK d \in Session : d = call[r].session
  BY <1>1
<1>2. session'[d] = Counted(session[d], call[r].user, call[r].expected, counted)
  BY <1>1, <1>d DEF TypeOK
<1>3. /\ session'[d] \in SessionRow /\ DoneNext(d) /\ session'[d].keyed = FALSE
      /\ session'[d].counted = counted /\ Same(d)
  <2> DEFINE row == Counted(session[d], call[r].user, call[r].expected, counted)
  <2>1. row \in SessionRow /\ CountedFrom(row, session[d], counted)
    BY <1>1, <1>d, CountedRow
  <2>2. session'[d] = row
    BY <1>2
  <2>3. session[d].topped \in Nat
    BY <1>1 DEF TypeOK, SessionRow
  <2> HIDE DEF row
  <2>4. session'[d] \in SessionRow /\ CountedFrom(session'[d], session[d], counted)
    BY <2>1, <2>2
  <2> QED
    BY <2>3, <2>4 DEF Same, DoneNext, CountedFrom
<1>4. \A q \in Call : (Locked(q) \/ call[q].op = "capture") /\ call[q].session = d => call'[q] = Idle
  BY <1>1, <1>d, ReturnTyped DEF DrawerInv, Exclusive
<1>5. DrawerStep(d)
  BY <1>1, <1>d, <1>3, <1>4 DEF DrawerStep, CountedNow, Settled, Done, Open
<1>6. \A s \in Session \ {d} : DrawerStep(s)
  BY <1>1, <1>d, UnchangedKeeps DEF DrawerStep, TypeOK
<1>7. session' \in [Session -> SessionRow]
  BY <1>1, <1>d, <1>2, <1>3 DEF TypeOK
<1> QED
  BY <1>1, <1>d, <1>3, <1>5, <1>6, <1>7

------------------------------------------------------------------------------
(* What may become of a request, a handover and a call in one step *)

ExpenseKept(e) == expense'[e] = expense[e]
ExpenseJudged(e) ==
  /\ expense'[e].status \notin {"NEW", "PAID"} /\ expense'[e].session = expense[e].session
  /\ expense[e].status # "NEW" => expense'[e].source = expense[e].source
PaidNow(e) ==
  /\ expense[e].status \notin {"NEW", "PAID"} /\ expense'[e].status = "PAID"
  /\ expense'[e].source = expense[e].source
  /\ \A x \in Expense \ {e} : ExpenseKept(x)
  /\ \E r \in Call : /\ Locked(r) /\ call[r].op = "pay" /\ call[r].expense = e
                     /\ expense'[e].session = call[r].session /\ call'[r] = Idle
ExpenseStep(e) == ExpenseKept(e) \/ ExpenseJudged(e) \/ PaidNow(e)

HeirsKept(h) == \A s \in Session : session'[s].from = h <=> session[s].from = h
HandoverKept(h) == handover'[h] = handover[h] /\ HeirsKept(h)
RequestedNow(h) ==
  /\ handover[h].status = "NEW" /\ handover'[h].status = "PENDING" /\ HeirsKept(h)
  /\ handover'[h].from \in Session /\ DoneNext(handover'[h].from)
  /\ handover'[h].counted = session'[handover'[h].from].counted
SameCash(h) ==
  /\ handover[h].status = "PENDING"
  /\ handover'[h].from = handover[h].from /\ handover'[h].counted = handover[h].counted
DeclinedNow(h) == SameCash(h) /\ handover'[h].status = "DECLINED" /\ HeirsKept(h)
SettledNow(h) ==
  /\ SameCash(h) /\ handover'[h].status \in {"ACCEPTED", "CANCELLED"}
  /\ \E new \in Session :
       /\ OpenedNow(new) /\ session'[new].from = h
       /\ session'[new].float = handover[h].counted
HandoverStep(h) == HandoverKept(h) \/ RequestedNow(h) \/ DeclinedNow(h) \/ SettledNow(h)

CallStep(q) == call'[q] = call[q] \/ call'[q] = Idle

------------------------------------------------------------------------------
(* The steps that write a row keep the invariant *)

\* The tin of a drawer that is not opened in this step, and is not paid from.
NotPaidFrom(s) == \A e \in Expense :
  expense'[e].status = "PAID" /\ expense'[e].session = s /\ expense'[e].source = "PETTY_FUND"
    => expense[e].status = "PAID" /\ expense[e].session = s /\ expense[e].source = "PETTY_FUND"

LEMMA FundHolds ==
  ASSUME TypeOK, TypeOK', NEW s \in Session, Same(s), NotPaidFrom(s)
  PROVE  Fund(s)' >= Fund(s) /\ Fund(s) \in Int /\ Fund(s)' \in Int
<1> DEFINE spent == {e \in Expense : /\ expense[e].status = "PAID" /\ expense[e].session = s
                                     /\ expense[e].source = "PETTY_FUND"}
           next == {e \in Expense : /\ expense'[e].status = "PAID" /\ expense'[e].session = s
                                    /\ expense'[e].source = "PETTY_FUND"}
<1>1. next \subseteq spent
  BY DEF NotPaidFrom
<1>2. IsFiniteSet(spent)
  BY FS_Subset
<1>3. Cardinality(next) <= Cardinality(spent) /\ Cardinality(spent) \in Nat /\ Cardinality(next) \in Nat
  BY <1>1, <1>2, FS_Subset, FS_CardinalityType
<1>4. Fund(s) = session[s].tin + session[s].topped - Cardinality(spent)
  BY DEF Fund, SpentFromTin
<1>5. Fund(s)' = session'[s].tin + session'[s].topped - Cardinality(next)
  BY DEF Fund, SpentFromTin
<1>6. /\ session[s].tin \in Nat /\ session[s].topped \in Nat /\ session'[s].tin = session[s].tin
      /\ session'[s].topped \in Nat /\ session'[s].topped >= session[s].topped
  BY DEF TypeOK, SessionRow, Same
<1> HIDE DEF spent, next
<1> QED
  BY <1>3, <1>4, <1>5, <1>6

\* A drawer that is open stays so while a call holds it, and a count stays.
LEMMA NeverNewAgain ==
  ASSUME DrawerInv, NEW s \in Session, DrawerStep(s)
  PROVE  /\ session[s].status # "NEW" => session'[s].status # "NEW" /\ Same(s)
         /\ Done(s) => DoneNext(s) /\ session'[s].counted = session[s].counted
BY DEF DrawerInv, DrawerStep, Kept, Same, CountedNow, ReviewedNow, OpenedNow, Done, DoneNext, Open

LEMMA HeldStaysOpen ==
  ASSUME DrawerInv, NEW q \in Call, Locked(q) \/ call[q].op = "capture", call'[q] = call[q],
         NEW s \in Session, s = call[q].session, DrawerStep(s)
  PROVE  Kept(s) /\ Open(s)
<1>1. Open(s)
  BY DEF DrawerInv, CallSound
<1>2. call'[q] # Idle
  BY DEF Locked, Idle
<1> QED
  BY <1>1, <1>2 DEF DrawerStep, CountedNow, ReviewedNow, OpenedNow, Done, Open

LEMMA CallsStaySound ==
  ASSUME DrawerInv, TypeOK', \A s \in Session : DrawerStep(s), \A e \in Expense : ExpenseStep(e),
         \A h \in Handover : HandoverStep(h), NEW q \in Call, CallStep(q)
  PROVE  CallSound(q)'
<1>1. CASE call'[q] = Idle
  BY <1>1 DEF CallSound, Locked, Idle
<1>2. CASE call'[q] = call[q]
  <2>t. TypeOK /\ CallSound(q)
    BY DEF DrawerInv
  <2>1. Locked(q) \/ call[q].op = "capture" => Open(call[q].session)'
    <3> SUFFICES ASSUME Locked(q) \/ call[q].op = "capture" PROVE Open(call[q].session)'
      OBVIOUS
    <3>1. PICK d \in Session : d = call[q].session
      BY <2>t, OnSession DEF Locked
    <3>2. Kept(d) /\ Open(d)
      BY <1>2, <3>1, HeldStaysOpen
    <3> QED
      BY <1>2, <3>1, <3>2 DEF Kept, Open
  <2>2. call[q].op = "review" => Done(call[q].session)'
    <3> SUFFICES ASSUME call[q].op = "review" PROVE Done(call[q].session)'
      OBVIOUS
    <3>1. PICK d \in Session : d = call[q].session
      BY <2>t, OnSession
    <3>2. DoneNext(d)
      BY <2>t, <3>1, NeverNewAgain DEF CallSound
    <3> QED
      BY <1>2, <3>1, <3>2 DEF Done, DoneNext
  <2>3. call[q].op = "pay" =>
          /\ call[q].expense \in Expense /\ expense[call[q].expense].status # "NEW"
          /\ expense'[call[q].expense].status # "NEW"
          /\ expense'[call[q].expense].source = expense[call[q].expense].source
    <3> SUFFICES ASSUME call[q].op = "pay"
                 PROVE  /\ call[q].expense \in Expense /\ expense[call[q].expense].status # "NEW"
                        /\ expense'[call[q].expense].status # "NEW"
                        /\ expense'[call[q].expense].source = expense[call[q].expense].source
      OBVIOUS
    <3>1. PICK e \in Expense : e = call[q].expense
      BY <2>t, Kinds
    <3>2. expense[e].status # "NEW"
      BY <2>t, <3>1 DEF CallSound
    <3>3. expense'[e].status # "NEW" /\ expense'[e].source = expense[e].source
      BY <3>2 DEF ExpenseStep, ExpenseKept, ExpenseJudged, PaidNow
    <3> QED
      BY <3>1, <3>2, <3>3
  <2>4. Locked(q) /\ call[q].op = "pay" /\ expense[call[q].expense].source = "PETTY_FUND"
          => \A s \in Session : s = call[q].session => Fund(s)' >= 1
    <3> SUFFICES ASSUME Locked(q), call[q].op = "pay",
                        expense[call[q].expense].source = "PETTY_FUND",
                        NEW s \in Session, s = call[q].session
                 PROVE  Fund(s)' >= 1
      OBVIOUS
    <3>1. Fund(s) >= 1 /\ Kept(s)
      BY <1>2, <2>t, HeldStaysOpen DEF CallSound
    <3>2. NotPaidFrom(s)
      <4> SUFFICES ASSUME NEW e \in Expense, expense'[e].status = "PAID",
                          expense'[e].session = s, expense'[e].source = "PETTY_FUND"
                   PROVE  expense[e] = expense'[e]
        BY DEF NotPaidFrom
      <4>1. ~PaidNow(e)
        <5> SUFFICES ASSUME PaidNow(e) PROVE FALSE
          OBVIOUS
        <5>1. PICK r \in Call : Locked(r) /\ call[r].session = s /\ call'[r] = Idle
          BY DEF PaidNow
        <5>2. r # q
          BY <1>2, <5>1 DEF Locked, Idle
        <5> QED
          BY <5>1, <5>2 DEF DrawerInv, Exclusive
      <4> QED
        BY <4>1 DEF ExpenseStep, ExpenseKept, ExpenseJudged
    <3>3. Fund(s)' >= Fund(s) /\ Fund(s) \in Int /\ Fund(s)' \in Int
      BY <2>t, <3>1, <3>2, FundHolds DEF Kept
    <3> QED
      BY <3>1, <3>3
  <2>5. call[q].op \in {"accept", "reclaim"} =>
          call[q].tin >= 0 /\ handover'[call[q].handover].status # "NEW"
    <3> SUFFICES ASSUME call[q].op \in {"accept", "reclaim"}
                 PROVE  call[q].tin >= 0 /\ handover'[call[q].handover].status # "NEW"
      OBVIOUS
    <3>1. PICK h \in Handover : h = call[q].handover
      BY <2>t, Kinds
    <3>2. call[q].tin >= 0 /\ handover[h].status # "NEW"
      BY <2>t, <3>1 DEF CallSound
    <3>3. handover'[h].status # "NEW"
      BY <3>2 DEF HandoverStep, HandoverKept, RequestedNow, DeclinedNow, SettledNow, SameCash
    <3> QED
      BY <3>1, <3>2, <3>3
  <2> QED
    BY <1>2, <2>1, <2>2, <2>3, <2>4, <2>5 DEF CallSound, Locked
<1> QED
  BY <1>1, <1>2 DEF CallStep

\* Nobody else holds what is locked, and the keys keep drawers apart.
LEMMA StaysApart ==
  ASSUME DrawerInv, \A s \in Session : DrawerStep(s), \A q \in Call : CallStep(q)
  PROVE  Exclusive' /\ KeysMeanOpen' /\ KeyedApart'
<1>1. Exclusive'
  <2>1. \A q \in Call : call'[q] = Idle => ~Locked(q)' /\ call'[q].op # "capture"
    BY DEF Locked, Idle
  <2>2. \A q \in Call : Locked(q)' \/ call'[q].op = "capture" => call'[q] = call[q]
    BY <2>1 DEF CallStep
  <2> QED
    BY <2>2 DEF DrawerInv, Exclusive, Locked
<1>2. \A s \in Session : session'[s].keyed <=> session'[s].status = "OPEN"
  <2> TAKE s \in Session
  <2>1. session[s].keyed <=> session[s].status = "OPEN"
    BY DEF DrawerInv, KeysMeanOpen, Open
  <2>2. CASE Kept(s)
    BY <2>1, <2>2 DEF Kept
  <2>3. CASE CountedNow(s)
    BY <2>3 DEF CountedNow, DoneNext
  <2>4. CASE ReviewedNow(s)
    BY <2>1, <2>4 DEF ReviewedNow, DoneNext, Done
  <2>5. CASE OpenedNow(s)
    BY <2>5 DEF OpenedNow
  <2> QED
    BY <2>2, <2>3, <2>4, <2>5 DEF DrawerStep
<1>3. \A s \in Session : session'[s].keyed =>
        OpenedNow(s) \/ (session[s].keyed /\ Same(s))
  <2> TAKE s \in Session
  <2>1. CASE Kept(s)
    BY <2>1 DEF Kept
  <2>2. CASE CountedNow(s)
    BY <2>2 DEF CountedNow
  <2>3. CASE ReviewedNow(s)
    BY <2>3 DEF ReviewedNow
  <2> QED
    BY <2>1, <2>2, <2>3 DEF DrawerStep
<1>4. KeyedApart'
  <2> SUFFICES ASSUME NEW s \in Session, NEW x \in Session, s # x,
                      session'[s].keyed, session'[x].keyed
               PROVE  session'[s].register # session'[x].register /\ session'[s].by # session'[x].by
    BY DEF KeyedApart
  <2>1. CASE OpenedNow(s)
    <3>1. Kept(x)
      BY <2>1 DEF OpenedNow
    <3>2. session[x].keyed
      BY <3>1 DEF Kept
    <3> QED
      BY <2>1, <3>1, <3>2 DEF OpenedNow, Kept, Same
  <2>2. CASE OpenedNow(x)
    <3>1. Kept(s)
      BY <2>2 DEF OpenedNow
    <3>2. session[s].keyed
      BY <3>1 DEF Kept
    <3> QED
      BY <2>2, <3>1, <3>2 DEF OpenedNow, Kept, Same
  <2>3. CASE session[s].keyed /\ Same(s) /\ session[x].keyed /\ Same(x)
    BY <2>3 DEF DrawerInv, KeyedApart, Same
  <2> QED
    BY <1>3, <2>1, <2>2, <2>3
<1> QED
  BY <1>1, <1>2, <1>4 DEF KeysMeanOpen, Open

LEMMA StaysUntouched ==
  ASSUME DrawerInv, \A s \in Session : DrawerStep(s), \A e \in Expense : ExpenseStep(e)
  PROVE  Untouched'
<1>1. \A s \in Session : session'[s].status = "NEW" => session'[s].from = None
  <2> TAKE s \in Session
  <2> SUFFICES ASSUME session'[s].status = "NEW" PROVE session'[s].from = None
    OBVIOUS
  <2>1. Kept(s)
    BY DEF DrawerStep, CountedNow, ReviewedNow, OpenedNow, DoneNext
  <2> QED
    BY <2>1 DEF Kept, Same, DrawerInv, Untouched
<1>2. \A e \in Expense : expense'[e].session \in Session => session'[expense'[e].session].status # "NEW"
  <2> TAKE e \in Expense
  <2> SUFFICES ASSUME NEW s \in Session, s = expense'[e].session PROVE session'[s].status # "NEW"
    OBVIOUS
  <2>1. CASE expense'[e].session = expense[e].session
    BY <2>1, NeverNewAgain DEF DrawerInv, Untouched
  <2>2. CASE PaidNow(e)
    <3>1. PICK r \in Call : Locked(r) /\ call[r].session = s
      BY <2>2 DEF PaidNow
    <3>2. session[s].status # "NEW"
      BY <3>1 DEF DrawerInv, CallSound, Open
    <3> QED
      BY <3>2, NeverNewAgain
  <2> QED
    BY <2>1, <2>2 DEF ExpenseStep, ExpenseKept, ExpenseJudged
<1> QED
  BY <1>1, <1>2 DEF Untouched

\* A payment takes one unit from the tin that its lock saw to hold one.
LEMMA TinsStayFilled ==
  ASSUME DrawerInv, TypeOK', \A s \in Session : DrawerStep(s), \A e \in Expense : ExpenseStep(e)
  PROVE  FundNeverNegative'
<1> SUFFICES ASSUME NEW s \in Session PROVE Fund(s)' >= 0
  BY DEF FundNeverNegative
<1> DEFINE spent == {e \in Expense : /\ expense[e].status = "PAID" /\ expense[e].session = s
                                     /\ expense[e].source = "PETTY_FUND"}
           next == {e \in Expense : /\ expense'[e].status = "PAID" /\ expense'[e].session = s
                                    /\ expense'[e].source = "PETTY_FUND"}
<1>t. TypeOK /\ Fund(s) >= 0 /\ Fund(s) \in Int
  BY TotalsTyped DEF DrawerInv, FundNeverNegative
<1>1. Fund(s)' = session'[s].tin + session'[s].topped - Cardinality(next)
  BY DEF Fund, SpentFromTin
<1>2. CASE OpenedNow(s)
  <2>1. next = {}
    <3> SUFFICES ASSUME NEW e \in Expense, expense'[e].session = s PROVE FALSE
      OBVIOUS
    <3>1. session[s].status = "NEW"
      BY <1>2 DEF OpenedNow
    <3>2. expense[e].session # s
      BY <3>1 DEF DrawerInv, Untouched
    <3>3. PaidNow(e)
      BY <3>2 DEF ExpenseStep, ExpenseKept, ExpenseJudged
    <3>4. PICK r \in Call : Locked(r) /\ call[r].session = s
      BY <3>3 DEF PaidNow
    <3> QED
      BY <3>1, <3>4 DEF DrawerInv, CallSound, Open
  <2>2. Cardinality(next) = 0
    BY <2>1, FS_EmptySet
  <2> HIDE DEF next
  <2> QED
    BY <1>1, <1>2, <2>2 DEF OpenedNow
<1>3. CASE Same(s) /\ NotPaidFrom(s)
  <2>1. Fund(s)' >= Fund(s) /\ Fund(s)' \in Int
    BY <1>t, <1>3, FundHolds
  <2> QED
    BY <1>t, <2>1
<1>4. CASE Same(s) /\ ~NotPaidFrom(s)
  <2>1. PICK e \in Expense : /\ expense'[e].status = "PAID" /\ expense'[e].session = s
                             /\ expense'[e].source = "PETTY_FUND" /\ expense'[e] # expense[e]
    BY <1>4 DEF NotPaidFrom
  <2>2. PaidNow(e)
    BY <2>1 DEF ExpenseStep, ExpenseKept, ExpenseJudged
  <2>3. PICK r \in Call : /\ Locked(r) /\ call[r].op = "pay" /\ call[r].expense = e
                          /\ call[r].session = s
    BY <2>1, <2>2 DEF PaidNow
  <2>4. Fund(s) >= 1
    BY <2>1, <2>2, <2>3 DEF DrawerInv, CallSound, PaidNow
  <2>5. next \subseteq spent \cup {e}
    BY <2>2 DEF PaidNow, ExpenseKept
  <2>6. IsFiniteSet(spent)
    BY FS_Subset
  <2>7. /\ IsFiniteSet(spent \cup {e}) /\ Cardinality(spent) \in Nat
        /\ Cardinality(spent \cup {e}) <= Cardinality(spent) + 1
    <3> HIDE DEF spent
    <3>1. Cardinality(spent) \in Nat
      BY <2>6, FS_CardinalityType
    <3>2. /\ IsFiniteSet(spent \cup {e})
          /\ \/ Cardinality(spent \cup {e}) = Cardinality(spent)
             \/ Cardinality(spent \cup {e}) = Cardinality(spent) + 1
      BY <2>6, FS_AddElement
    <3> QED
      BY <3>1, <3>2
  <2>8. /\ Cardinality(next) <= Cardinality(spent \cup {e})
        /\ Cardinality(next) \in Nat /\ Cardinality(spent \cup {e}) \in Nat
    BY <2>5, <2>7, FS_Subset, FS_CardinalityType
  <2>9. Fund(s) = session[s].tin + session[s].topped - Cardinality(spent)
    BY DEF Fund, SpentFromTin
  <2>10. /\ session[s].tin \in Nat /\ session[s].topped \in Nat /\ session'[s].tin = session[s].tin
         /\ session'[s].topped \in Nat /\ session'[s].topped >= session[s].topped
    BY <1>t, <1>4 DEF TypeOK, SessionRow, Same
  <2> HIDE DEF spent, next
  <2> QED
    BY <1>1, <2>4, <2>7, <2>8, <2>9, <2>10
<1> QED
  BY <1>2, <1>3, <1>4 DEF DrawerStep, Kept, CountedNow, ReviewedNow

LEMMA HandoversStay ==
  ASSUME DrawerInv, TypeOK', \A s \in Session : DrawerStep(s), NEW h \in Handover, HandoverStep(h)
  PROVE  HandoverSound(h)' /\ Carried(h)'
<1>i. /\ TypeOK /\ HandoverSound(h) /\ Carried(h)
      /\ \A s \in Session : session[s].status = "NEW" => session[s].from = None
  BY DEF DrawerInv, Untouched
<1>d. \A s \in Session : Done(s) => DoneNext(s) /\ session'[s].counted = session[s].counted
  BY NeverNewAgain
<1>f. \A s \in Session : session[s].from = h => session'[s].float = session[s].float
  <2> TAKE s \in Session
  <2> SUFFICES ASSUME session[s].from = h PROVE session'[s].float = session[s].float
    OBVIOUS
  <2>1. session[s].status # "NEW"
    BY <1>i, NoneIsNobody
  <2> QED
    BY <2>1, NeverNewAgain DEF Same
<1>1. ASSUME handover[h].status # "NEW", handover'[h].from = handover[h].from,
             handover'[h].counted = handover[h].counted
      PROVE  HandoverSound(h)'
  <2>1. PICK d \in Session : d = handover[h].from
    BY <1>i, <1>1 DEF HandoverSound
  <2>2. Done(d) /\ handover[h].counted = session[d].counted
    BY <1>i, <1>1, <2>1 DEF HandoverSound
  <2>3. DoneNext(d) /\ session'[d].counted = session[d].counted
    BY <1>d, <2>2
  <2> QED
    BY <1>1, <2>1, <2>2, <2>3 DEF HandoverSound, Done, DoneNext
<1>2. CASE HandoverKept(h)
  <2>1. HandoverSound(h)'
    <3>1. CASE handover[h].status = "NEW"
      BY <1>2, <3>1 DEF HandoverKept, HandoverSound
    <3>2. CASE handover[h].status # "NEW"
      BY <1>1, <1>2, <3>2 DEF HandoverKept
    <3> QED
      BY <3>1, <3>2
  <2>2. Carried(h)'
    BY <1>i, <1>f, <1>2 DEF HandoverKept, HeirsKept, Carried, Heirs
  <2> QED
    BY <2>1, <2>2
<1>3. CASE RequestedNow(h)
  <2>1. HandoverSound(h)'
    BY <1>3 DEF RequestedNow, HandoverSound, Done, DoneNext
  <2>2. Heirs(h) = {}
    BY <1>i, <1>3 DEF RequestedNow, Carried
  <2>3. Carried(h)'
    BY <2>2, <1>3 DEF RequestedNow, Carried, Heirs, HeirsKept
  <2> QED
    BY <2>1, <2>3
<1>4. CASE DeclinedNow(h)
  <2>1. HandoverSound(h)'
    BY <1>1, <1>4 DEF DeclinedNow, SameCash
  <2>2. Heirs(h) = {}
    BY <1>i, <1>4 DEF DeclinedNow, SameCash, Carried
  <2>3. Carried(h)'
    BY <2>2, <1>4 DEF DeclinedNow, SameCash, Carried, Heirs, HeirsKept
  <2> QED
    BY <2>1, <2>3
<1>5. CASE SettledNow(h)
  <2>1. HandoverSound(h)'
    BY <1>1, <1>5 DEF SettledNow, SameCash
  <2>2. Heirs(h) = {}
    BY <1>i, <1>5 DEF SettledNow, SameCash, Carried
  <2>3. PICK new \in Session : /\ OpenedNow(new) /\ session'[new].from = h
                               /\ session'[new].float = handover[h].counted
    BY <1>5 DEF SettledNow
  <2>4. \A s \in Session : session'[s].from = h <=> s = new
    BY <2>2, <2>3 DEF OpenedNow, Kept, Same, Heirs
  <2>5. Heirs(h)' = {new}
    BY <2>4 DEF Heirs
  <2>6. Carried(h)'
    BY <1>5, <2>3, <2>4, <2>5 DEF SettledNow, SameCash, Carried
  <2> QED
    BY <2>1, <2>6
<1> QED
  BY <1>2, <1>3, <1>4, <1>5 DEF HandoverStep

\* The steps that write a row.
Writes ==
  /\ TypeOK'
  /\ \A s \in Session : DrawerStep(s)
  /\ \A e \in Expense : ExpenseStep(e)
  /\ \A h \in Handover : HandoverStep(h)
  /\ \A q \in Call : CallStep(q)

LEMMA WritesKeep == DrawerInv /\ Writes => DrawerInv'
<1> SUFFICES ASSUME DrawerInv, Writes PROVE DrawerInv'
  OBVIOUS
<1>0. /\ TypeOK'
      /\ \A s \in Session : DrawerStep(s)
      /\ \A e \in Expense : ExpenseStep(e)
      /\ \A h \in Handover : HandoverStep(h)
      /\ \A q \in Call : CallStep(q)
  BY DEF Writes
<1>1. \A q \in Call : CallSound(q)'
  BY <1>0, CallsStaySound
<1>2. Exclusive' /\ KeysMeanOpen' /\ KeyedApart'
  BY <1>0, StaysApart
<1>3. Untouched'
  BY <1>0, StaysUntouched
<1>4. FundNeverNegative'
  BY <1>0, TinsStayFilled
<1>5. \A h \in Handover : HandoverSound(h)' /\ Carried(h)'
  BY <1>0, HandoversStay
<1> QED
  BY <1>0, <1>1, <1>2, <1>3, <1>4, <1>5 DEF DrawerInv

------------------------------------------------------------------------------
(* The steps that only begin a call, or take its lock *)

Reads == UNCHANGED <<session, handover, expense>>

\* A call that holds no lock, shared or not.
Free(q) == ~Locked(q)' /\ call'[q].op # "capture"
\* A call that has just taken one.
Taken(q) ==
  \A r \in Call \ {q} : Locked(r) \/ (call[r].op = "capture" /\ Locked(q)')
                          => call[r].session # call'[q].session

LEMMA ReadsKeep ==
  ASSUME DrawerInv, Reads, NEW r \in Call, call' \in [Call -> Calls],
         \A q \in Call \ {r} : call'[q] = call[q], CallSound(r)', Free(r) \/ Taken(r)
  PROVE  DrawerInv'
<1>1. TypeOK'
  BY DEF DrawerInv, TypeOK, Reads
<1>2. \A q \in Call : CallSound(q)'
  <2> SUFFICES ASSUME NEW q \in Call \ {r} PROVE CallSound(q)'
    OBVIOUS
  <2>1. CallSound(q) /\ call'[q] = call[q]
    BY DEF DrawerInv
  <2>2. \A s \in Session : Fund(s)' = Fund(s)
    BY DEF Reads, Fund, SpentFromTin
  <2> QED
    BY <2>1, <2>2 DEF Reads, CallSound, Locked, Open, Done
<1>3. Exclusive'
  <2> SUFFICES ASSUME NEW q \in Call, NEW x \in Call, q # x, Locked(q)',
                      Locked(x)' \/ call'[x].op = "capture"
               PROVE  call'[q].session # call'[x].session
    BY DEF Exclusive
  <2>1. CASE q # r /\ x # r
    BY <2>1 DEF DrawerInv, Exclusive, Locked
  <2>2. CASE q = r
    BY <2>2 DEF Free, Taken, Locked
  <2>3. CASE x = r
    BY <2>3 DEF Free, Taken, Locked
  <2> QED
    BY <2>1, <2>2, <2>3
<1>4. KeysMeanOpen' /\ KeyedApart' /\ Untouched'
  BY DEF DrawerInv, Reads, KeysMeanOpen, KeyedApart, Untouched, Open
<1>5. FundNeverNegative'
  BY DEF DrawerInv, Reads, FundNeverNegative, Fund, SpentFromTin
<1>6. \A h \in Handover : HandoverSound(h)' /\ Carried(h)'
  BY DEF DrawerInv, Reads, HandoverSound, Carried, Heirs, Done
<1> QED
  BY <1>1, <1>2, <1>3, <1>4, <1>5, <1>6 DEF DrawerInv

\* A call that begins with nothing to rely on yet.
LEMMA BegunKeeps ==
  ASSUME DrawerInv, Reads, NEW r \in Call, NEW c \in Calls, Start(r, c),
         c.op \in {"move", "decide", "close", "force", "hand"},
         c.op \in {"close", "force", "hand"} => c.at = "judged"
  PROVE  DrawerInv'
<1>1. /\ call' \in [Call -> Calls] /\ call'[r] = c
      /\ \A q \in Call \ {r} : call'[q] = call[q]
  BY StartTyped DEF DrawerInv
<1>2. Free(r) /\ CallSound(r)'
  BY <1>1 DEF Free, CallSound, Locked
<1> QED
  BY <1>1, <1>2, ReadsKeep

LEMMA BeginKeeps ==
  ASSUME DrawerInv, NEW r \in Call, NEW u \in Staff, Begin(r, u)
  PROVE  DrawerInv'
<1>t. TypeOK
  BY DEF DrawerInv
<1>1. CASE Charge(r, u)
  <2>1. PICK s \in Session : /\ Open(s) /\ MayShare(s)
                             /\ Start(r, [op |-> "capture", session |-> s])
    BY <1>1 DEF Charge, Own
  <2>2. [op |-> "capture", session |-> s] \in Calls
    BY DEF Calls
  <2>3. /\ call' \in [Call -> Calls] /\ call'[r] = [op |-> "capture", session |-> s]
        /\ \A q \in Call \ {r} : call'[q] = call[q]
    BY <1>t, <2>1, <2>2, StartTyped
  <2>4. Reads
    BY <1>1 DEF Charge, Reads
  <2>5. CallSound(r)'
    BY <2>1, <2>3, <2>4 DEF CallSound, Locked, Open, Reads
  <2>6. Taken(r)
    BY <2>1, <2>3 DEF Taken, MayShare, HeldForUpdate, Locked
  <2> QED
    BY <2>3, <2>4, <2>5, <2>6, ReadsKeep
<1>2. ASSUME NEW s \in Session, NEW effect \in Effect, JudgeMovement(r, u, s, effect)
      PROVE  DrawerInv'
  <2> DEFINE c == [op |-> "move", session |-> s, effect |-> effect]
  <2>1. c \in Calls /\ c.op = "move"
    BY DEF Calls
  <2>2. Start(r, c) /\ Reads
    BY <1>2 DEF JudgeMovement, Reads
  <2> HIDE DEF c
  <2> QED
    BY <2>1, <2>2, BegunKeeps
<1>3. ASSUME NEW effect \in Effect, FindDrawer(r, u, effect) PROVE DrawerInv'
  <2>1. PICK s \in Session : Start(r, [op |-> "move", session |-> s, effect |-> effect])
    BY <1>3 DEF FindDrawer, Own
  <2> DEFINE c == [op |-> "move", session |-> s, effect |-> effect]
  <2>2. c \in Calls /\ c.op = "move"
    BY DEF Calls
  <2>3. Start(r, c) /\ Reads
    BY <1>3, <2>1 DEF FindDrawer, Reads
  <2> HIDE DEF c
  <2> QED
    BY <2>2, <2>3, BegunKeeps
<1>4. ASSUME NEW s \in Session, JudgeClose(r, u, s) \/ JudgeForce(r, u, s) PROVE DrawerInv'
  <2>1. PICK op \in {"close", "force"} :
          Start(r, [op |-> op, at |-> "judged", user |-> u, session |-> s, expected |-> 0])
    BY <1>4 DEF JudgeClose, JudgeForce
  <2> DEFINE c == [op |-> op, at |-> "judged", user |-> u, session |-> s, expected |-> 0]
  <2>2. c \in Calls /\ c.op \in {"close", "force"} /\ c.at = "judged"
    BY DEF Calls
  <2>3. Start(r, c) /\ Reads
    BY <1>4, <2>1 DEF JudgeClose, JudgeForce, Reads
  <2> HIDE DEF c
  <2> QED
    BY <2>2, <2>3, BegunKeeps
<1>5. ASSUME NEW s \in Session, JudgeReview(r, u, s) PROVE DrawerInv'
  <2> DEFINE c == [op |-> "review", session |-> s]
  <2>1. c \in Calls
    BY DEF Calls
  <2>2. Start(r, c) /\ Reads /\ Done(s)
    BY <1>5 DEF JudgeReview, Reads, Done
  <2>3. /\ call' \in [Call -> Calls] /\ call'[r] = c
        /\ \A q \in Call \ {r} : call'[q] = call[q]
    BY <1>t, <2>1, <2>2, StartTyped
  <2>4. CallSound(r)' /\ Free(r)
    BY <2>2, <2>3 DEF CallSound, Free, Locked, Done, Reads
  <2> QED
    BY <2>2, <2>3, <2>4, ReadsKeep
<1>6. ASSUME NEW s \in Session, NEW v \in Staff, JudgeHandover(r, u, s, v) PROVE DrawerInv'
  <2> DEFINE c == [op |-> "hand", at |-> "judged", user |-> u, session |-> s,
                   expected |-> 0, to |-> v]
  <2>1. c \in Calls /\ c.op = "hand" /\ c.at = "judged"
    BY DEF Calls
  <2>2. Start(r, c) /\ Reads
    BY <1>6 DEF JudgeHandover, Reads
  <2> HIDE DEF c
  <2> QED
    BY <2>1, <2>2, BegunKeeps
<1>7. ASSUME NEW h \in Handover, JudgeAccept(r, u, h) \/ JudgeReclaim(r, u, h) PROVE DrawerInv'
  <2>1. PICK op \in {"accept", "reclaim"} :
          Start(r, [op |-> op, handover |-> h, tin |-> Fund(handover[h].from)])
    BY <1>7 DEF JudgeAccept, JudgeReclaim
  <2>2. handover[h].status = "PENDING" /\ Reads
    BY <1>7 DEF JudgeAccept, JudgeReclaim, Reads
  <2>3. handover[h].from \in Session
    BY <2>2 DEF DrawerInv, HandoverSound
  <2>4. PICK n \in Int : n = Fund(handover[h].from) /\ n >= 0
    BY <1>t, <2>3, TotalsTyped DEF DrawerInv, FundNeverNegative
  <2> DEFINE c == [op |-> op, handover |-> h, tin |-> n]
  <2>5. c \in Calls
    BY DEF Calls
  <2>6. Start(r, c)
    BY <2>1, <2>4
  <2>7. /\ call' \in [Call -> Calls] /\ call'[r] = c
        /\ \A q \in Call \ {r} : call'[q] = call[q]
    BY <1>t, <2>5, <2>6, StartTyped
  <2>8. CallSound(r)' /\ Free(r)
    BY <2>2, <2>4, <2>7 DEF CallSound, Free, Locked, Reads
  <2> QED
    BY <2>2, <2>7, <2>8, ReadsKeep
<1>8. ASSUME NEW e \in Expense, NEW to \in {"PENDING", "APPROVED", "REJECTED", "CANCELLED"},
             JudgeRequest(r, u, e, to)
      PROVE  DrawerInv'
  <2> DEFINE c == [op |-> "decide", expense |-> e, to |-> to]
  <2>1. c \in Calls /\ c.op = "decide"
    BY DEF Calls
  <2>2. Start(r, c) /\ Reads
    BY <1>8 DEF JudgeRequest, Reads
  <2> HIDE DEF c
  <2> QED
    BY <2>1, <2>2, BegunKeeps
<1>9. ASSUME NEW e \in Expense, NEW s \in Session, JudgePay(r, u, e, s) PROVE DrawerInv'
  <2> DEFINE c == [op |-> "pay", at |-> "judged", session |-> s, expected |-> 0, expense |-> e]
  <2>1. c \in Calls
    BY DEF Calls
  <2>2. Start(r, c) /\ Reads /\ expense[e].status = "APPROVED"
    BY <1>9 DEF JudgePay, Reads
  <2>3. /\ call' \in [Call -> Calls] /\ call'[r] = c
        /\ \A q \in Call \ {r} : call'[q] = call[q]
    BY <1>t, <2>1, <2>2, StartTyped
  <2>4. CallSound(r)' /\ Free(r)
    BY <2>2, <2>3 DEF CallSound, Free, Locked, Reads
  <2> QED
    BY <2>2, <2>3, <2>4, ReadsKeep
<1> QED
  BY <1>1, <1>2, <1>3, <1>4, <1>5, <1>6, <1>7, <1>8, <1>9 DEF Begin

\* The lock is taken where nobody holds the row, and the row is looked at again.
LEMMA LockKeeps ==
  ASSUME DrawerInv, NEW r \in Call, LockSession(r)
  PROVE  DrawerInv'
<1>t. TypeOK /\ Reads /\ CallSound(r)
  BY DEF DrawerInv, LockSession, Reads
<1>1. CASE Return(r)
  <2>1. /\ call' \in [Call -> Calls] /\ call'[r] = Idle
        /\ \A q \in Call \ {r} : call'[q] = call[q]
    BY <1>t, <1>1, ReturnTyped
  <2>2. CallSound(r)' /\ Free(r)
    BY <2>1 DEF CallSound, Free, Locked, Idle
  <2> QED
    BY <1>t, <2>1, <2>2, ReadsKeep
<1>2. CASE ~Return(r)
  <2>1. /\ call[r].op \in {"close", "force", "hand", "pay"} /\ call[r].at = "judged"
        /\ MayLock(call[r].session) /\ StillOpen(r)
        /\ call' = [call EXCEPT ![r].at = "locked", ![r].expected = Recount(call[r].session)]
    BY <1>2 DEF LockSession
  <2>2. PICK d \in Session : d = call[r].session
    BY <1>t, <2>1, OnSession
  <2>3. PICK n \in Int : n = Recount(d)
    BY <1>t, TotalsTyped
  <2> DEFINE c == [call[r] EXCEPT !.at = "locked", !.expected = n]
  <2>4. call' = [call EXCEPT ![r] = c]
    BY <2>1, <2>2, <2>3
  <2>5. c \in Calls
    <3>1. CASE call[r].op \in {"close", "force"}
      <4>1. c \in [op: {"close", "force"}, at: {"judged", "locked"}, user: Staff,
                   session: Session, expected: Int]
        BY <1>t, <3>1, Kinds
      <4> QED
        BY <4>1 DEF Calls
    <3>2. CASE call[r].op = "hand"
      <4>1. c \in [op: {"hand"}, at: {"judged", "locked"}, user: Staff,
                   session: Session, expected: Int, to: Staff]
        BY <1>t, <3>2, Kinds
      <4> QED
        BY <4>1 DEF Calls
    <3>3. CASE call[r].op = "pay"
      <4>1. c \in [op: {"pay"}, at: {"judged", "locked"}, session: Session,
                   expected: Int, expense: Expense]
        BY <1>t, <3>3, Kinds
      <4> QED
        BY <4>1 DEF Calls
    <3> QED
      BY <2>1, <3>1, <3>2, <3>3
  <2>6. /\ call' \in [Call -> Calls] /\ call'[r] = c
        /\ \A q \in Call \ {r} : call'[q] = call[q]
    BY <1>t, <2>4, <2>5 DEF TypeOK
  <2>7. /\ call'[r].op = call[r].op /\ call'[r].session = d /\ call'[r].at = "locked"
        /\ call[r].op = "pay" => call'[r].expense = call[r].expense
    <3>1. CASE call[r].op \in {"close", "force"}
      BY <1>t, <2>2, <2>6, <3>1, Kinds
    <3>2. CASE call[r].op = "hand"
      BY <1>t, <2>2, <2>6, <3>2, Kinds
    <3>3. CASE call[r].op = "pay"
      BY <1>t, <2>2, <2>6, <3>3, Kinds
    <3> QED
      BY <2>1, <3>1, <3>2, <3>3
  <2> HIDE DEF c
  <2>8. Taken(r)
    BY <2>1, <2>2, <2>7 DEF Taken, MayLock, HeldForUpdate, HeldForShare, Locked
  <2>9. /\ Open(d)
        /\ call[r].op = "pay" /\ expense[call[r].expense].source = "PETTY_FUND" => Fund(d) >= 1
    BY <2>1, <2>2 DEF StillOpen
  <2>10. Fund(d)' = Fund(d)
    BY <1>t DEF Reads, Fund, SpentFromTin
  <2>11. CallSound(r)'
    BY <1>t, <2>1, <2>7, <2>9, <2>10 DEF CallSound, Locked, Reads, Open
  <2> QED
    BY <1>t, <2>6, <2>8, <2>11, ReadsKeep
<1> QED
  BY <1>1, <1>2

------------------------------------------------------------------------------
(* What each operation writes *)

\* Nothing is written to the rows of other kinds.
LEMMA OthersKept ==
  /\ \A e \in Expense : expense' = expense => ExpenseStep(e)
  /\ \A h \in Handover : handover' = handover /\ HeirsKept(h) => HandoverStep(h)
  /\ \A r, q \in Call : TypeOK /\ Return(r) => CallStep(q)
  /\ \A q \in Call : call' = call => CallStep(q)
<1>1. \A r, q \in Call : TypeOK /\ Return(r) => CallStep(q)
  BY ReturnTyped DEF CallStep
<1> QED
  BY <1>1 DEF ExpenseStep, ExpenseKept, HandoverStep, HandoverKept, CallStep

\* Unless a drawer is opened, no handover gains an heir.
LEMMA NoNewHeirs ==
  ASSUME NEW h \in Handover, \A s \in Session : DrawerStep(s) /\ ~OpenedNow(s)
  PROVE  HeirsKept(h)
BY DEF HeirsKept, DrawerStep, Kept, CountedNow, ReviewedNow, Same

LEMMA OpenDrawerWrites ==
  ASSUME DrawerInv, NEW u \in Staff, NEW g \in Register, NEW float \in Floats,
         NEW tin \in Tins, OpenDrawer(u, g, float, tin)
  PROVE  Writes
<1>t. TypeOK /\ KeysMeanOpen /\ Untouched
  BY DEF DrawerInv
<1>1. PICK new \in Session : /\ session[new].status = "NEW" /\ KeysFree(u, g)
                             /\ session' = [session EXCEPT ![new] = Opened(u, g, float, tin, None)]
  BY <1>t, OpenDrawerStep
<1>2. float \in Nat /\ tin \in Nat
  OBVIOUS
<1>3. /\ session' \in [Session -> SessionRow]
      /\ session'[new] = Opened(u, g, float, tin, None)
      /\ \A s \in Session \ {new} : session'[s] = session[s]
      /\ \A s \in Session : DrawerStep(s)
  BY <1>t, <1>1, <1>2, OpeningStep
<1>4. session'[new].from = None
  <2> DEFINE d == Opened(u, g, float, tin, None)
  <2>1. OpenRow(d, u, g, float, tin, None)
    BY <1>2, OpenedRow
  <2> HIDE DEF d
  <2> QED
    BY <1>3, <2>1 DEF d, OpenRow
<1>5. \A h \in Handover : HeirsKept(h)
  BY <1>t, <1>1, <1>3, <1>4, NoneIsNobody DEF HeirsKept, Untouched
<1>6. handover' = handover /\ expense' = expense /\ call' = call
  BY DEF OpenDrawer
<1>7. TypeOK'
  BY <1>t, <1>3, <1>6 DEF TypeOK
<1>8. /\ \A e \in Expense : ExpenseStep(e)
      /\ \A h \in Handover : HandoverStep(h)
      /\ \A q \in Call : CallStep(q)
  BY <1>5, <1>6, OthersKept
<1> QED
  BY <1>3, <1>7, <1>8 DEF Writes

\* Cash booked to a drawer, and nothing else of it.
Booked(d, old) ==
  /\ d.status = old.status /\ d.keyed = old.keyed /\ d.by = old.by
  /\ d.register = old.register /\ d.float = old.float /\ d.tin = old.tin
  /\ d.from = old.from /\ d.frozen = old.frozen /\ d.counted = old.counted
  /\ d.topped >= old.topped

LEMMA BookedStep ==
  ASSUME TypeOK, NEW d \in Session, NEW row \in SessionRow, Booked(row, session[d]),
         Done(d) => row.taken = session[d].taken /\ row.paid = session[d].paid,
         session' = [session EXCEPT ![d] = row]
  PROVE  /\ session' \in [Session -> SessionRow]
         /\ \A s \in Session : DrawerStep(s)
         /\ \A h \in Handover : HeirsKept(h)
<1>1. session'[d] = row /\ session' \in [Session -> SessionRow]
  BY DEF TypeOK
<1>2. Kept(d) /\ Settled(d)
  BY <1>1 DEF Booked, Kept, Same, Settled
<1>3. \A s \in Session \ {d} : Kept(s) /\ Settled(s)
  <2> TAKE s \in Session \ {d}
  <2>1. session'[s] = session[s]
    BY DEF TypeOK
  <2> QED
    BY <2>1, UnchangedKeeps
<1>4. \A s \in Session : Kept(s)
  BY <1>2, <1>3
<1>5. \A h \in Handover : HeirsKept(h)
  BY <1>4 DEF HeirsKept, Kept, Same
<1> QED
  BY <1>1, <1>2, <1>3, <1>5 DEF DrawerStep

LEMMA TakeCashWrites ==
  ASSUME DrawerInv, NEW r \in Call, TakeCash(r) PROVE Writes
<1>t. TypeOK /\ call[r].op = "capture" /\ Return(r) /\ CallSound(r)
  BY DEF DrawerInv, TakeCash
<1>1. PICK d \in Session : d = call[r].session
  BY <1>t, OnSession
<1>2. Open(d) /\ session[d] \in SessionRow
  BY <1>t, <1>1 DEF CallSound, TypeOK
<1> DEFINE row == [session[d] EXCEPT !.taken = @ + 1]
<1>3. row \in SessionRow /\ Booked(row, session[d])
  BY <1>2 DEF SessionRow, Booked
<1>4. session' = [session EXCEPT ![d] = row]
  BY <1>1 DEF TakeCash
<1>5. ~Done(d)
  BY <1>2 DEF Done, Open
<1> HIDE DEF row
<1>6. /\ session' \in [Session -> SessionRow]
      /\ \A s \in Session : DrawerStep(s)
      /\ \A h \in Handover : HeirsKept(h)
  BY <1>t, <1>3, <1>4, <1>5, BookedStep
<1>7. handover' = handover /\ expense' = expense
  BY DEF TakeCash
<1>8. TypeOK'
  BY <1>t, <1>6, <1>7, ReturnTyped DEF TypeOK
<1> QED
  BY <1>t, <1>6, <1>7, <1>8, OthersKept DEF Writes

LEMMA InsertMovementWrites ==
  ASSUME DrawerInv, NEW r \in Call, InsertMovement(r) PROVE Writes
<1>t. TypeOK /\ call[r].op = "move" /\ Return(r)
  BY DEF DrawerInv, InsertMovement
<1>1. PICK d \in Session, effect \in Effect : d = call[r].session /\ effect = call[r].effect
  BY <1>t, Kinds
<1>2. session[d] \in SessionRow
  BY <1>t DEF TypeOK
<1> DEFINE row == Moved(session[d], effect)
<1>3. row \in SessionRow /\ Booked(row, session[d])
      /\ row.taken = session[d].taken /\ row.paid = session[d].paid
  <2>1. CASE effect = "in"
    <3>1. row = [session[d] EXCEPT !.moved = @ + 1]
      BY <2>1 DEF Moved
    <3> QED
      BY <1>2, <3>1 DEF SessionRow, Booked
  <2>2. CASE effect = "out"
    <3>1. row = [session[d] EXCEPT !.moved = @ - 1]
      BY <2>2 DEF Moved
    <3> QED
      BY <1>2, <3>1 DEF SessionRow, Booked
  <2>3. CASE effect = "topup"
    <3>1. row = [session[d] EXCEPT !.topped = @ + 1]
      BY <2>3 DEF Moved
    <3> QED
      BY <1>2, <3>1 DEF SessionRow, Booked
  <2> QED
    BY <2>1, <2>2, <2>3 DEF Effect
<1>4. session' = [session EXCEPT ![d] = row]
  BY <1>1 DEF InsertMovement
<1> HIDE DEF row
<1>6. /\ session' \in [Session -> SessionRow]
      /\ \A s \in Session : DrawerStep(s)
      /\ \A h \in Handover : HeirsKept(h)
  BY <1>t, <1>3, <1>4, BookedStep
<1>7. handover' = handover /\ expense' = expense
  BY DEF InsertMovement
<1>8. TypeOK'
  BY <1>t, <1>6, <1>7, ReturnTyped DEF TypeOK
<1> QED
  BY <1>t, <1>6, <1>7, <1>8, OthersKept DEF Writes

LEMMA CloseDrawerWrites ==
  ASSUME DrawerInv, NEW r \in Call, NEW n \in Nat \cup {None}, CloseDrawer(r, n) PROVE Writes
<1>1. /\ TypeOK /\ Return(r) /\ Locked(r) /\ call[r].op \in {"close", "force", "hand"}
      /\ session' = [session EXCEPT ![call[r].session] =
                       Counted(@, call[r].user, call[r].expected, n)]
      /\ handover' = handover /\ expense' = expense
  BY DEF DrawerInv, CloseDrawer, Locked
<1>2. /\ session' \in [Session -> SessionRow]
      /\ call[r].session \in Session /\ Open(call[r].session) /\ DoneNext(call[r].session)
      /\ \A s \in Session : DrawerStep(s)
  BY <1>1, CountingStep
<1>3. \A s \in Session : ~OpenedNow(s)
  BY <1>1, <1>2 DEF OpenedNow, Open, DoneNext, TypeOK
<1>4. \A h \in Handover : HeirsKept(h)
  BY <1>2, <1>3, NoNewHeirs
<1>5. TypeOK'
  BY <1>1, <1>2, ReturnTyped DEF TypeOK
<1> QED
  BY <1>1, <1>2, <1>4, <1>5, OthersKept DEF Writes

LEMMA RequestHandoverWrites ==
  ASSUME DrawerInv, NEW r \in Call, NEW n \in Nat, RequestHandover(r, n) PROVE Writes
<1>1. /\ TypeOK /\ Return(r) /\ Locked(r) /\ call[r].op = "hand"
      /\ session' = [session EXCEPT ![call[r].session] =
                       Counted(@, call[r].user, call[r].expected, n)]
      /\ expense' = expense
  BY DEF DrawerInv, RequestHandover, Locked
<1>2. /\ session' \in [Session -> SessionRow]
      /\ call[r].session \in Session /\ Open(call[r].session) /\ DoneNext(call[r].session)
      /\ session'[call[r].session].counted = n
      /\ \A s \in Session : DrawerStep(s)
  BY <1>1, CountingStep
<1>3. \A s \in Session : ~OpenedNow(s)
  BY <1>1, <1>2 DEF OpenedNow, Open, DoneNext, TypeOK
<1>4. \A h \in Handover : HeirsKept(h)
  BY <1>2, <1>3, NoNewHeirs
<1>5. call[r].user \in Staff /\ call[r].to \in Staff
  BY <1>1, Kinds
<1> DEFINE made == [status |-> "PENDING", from |-> call[r].session, fromUser |-> call[r].user,
                    toUser |-> call[r].to, counted |-> n]
<1>6. made \in HandoverRow /\ made.status = "PENDING" /\ made.from = call[r].session /\ made.counted = n
  BY <1>2, <1>5 DEF HandoverRow
<1>7. PICK h \in Handover : handover[h].status = "NEW" /\ handover' = [handover EXCEPT ![h] = made]
  BY DEF RequestHandover
<1> HIDE DEF made
<1>8. /\ handover' \in [Handover -> HandoverRow] /\ handover'[h] = made
      /\ \A k \in Handover \ {h} : handover'[k] = handover[k]
  BY <1>1, <1>6, <1>7 DEF TypeOK
<1>9. RequestedNow(h)
  BY <1>2, <1>4, <1>6, <1>7, <1>8 DEF RequestedNow
<1>10. \A k \in Handover : HandoverStep(k)
  BY <1>4, <1>8, <1>9 DEF HandoverStep, HandoverKept
<1>11. TypeOK'
  BY <1>1, <1>2, <1>8, ReturnTyped DEF TypeOK
<1> QED
  BY <1>1, <1>2, <1>10, <1>11, OthersKept DEF Writes

LEMMA ReviewDrawerWrites ==
  ASSUME DrawerInv, NEW r \in Call, ReviewDrawer(r) PROVE Writes
<1>t. TypeOK /\ call[r].op = "review" /\ Return(r) /\ CallSound(r)
  BY DEF DrawerInv, ReviewDrawer
<1>1. PICK d \in Session : d = call[r].session
  BY <1>t, OnSession
<1>2. Done(d) /\ session[d] \in SessionRow
  BY <1>t, <1>1 DEF CallSound, TypeOK
<1> DEFINE row == [session[d] EXCEPT !.status = "CLOSED"]
<1>3. /\ row \in SessionRow /\ row.status = "CLOSED" /\ row.keyed = session[d].keyed
      /\ row.by = session[d].by /\ row.register = session[d].register
      /\ row.float = session[d].float /\ row.tin = session[d].tin /\ row.from = session[d].from
      /\ row.topped = session[d].topped /\ row.topped \in Nat /\ row.counted = session[d].counted
      /\ row.frozen = session[d].frozen /\ row.taken = session[d].taken /\ row.paid = session[d].paid
  BY <1>2 DEF SessionRow
<1>4. session' = [session EXCEPT ![d] = row]
  BY <1>1 DEF ReviewDrawer
<1> HIDE DEF row
<1>5. session'[d] = row /\ session' \in [Session -> SessionRow]
  BY <1>t, <1>3, <1>4 DEF TypeOK
<1>6. DrawerStep(d)
  BY <1>2, <1>3, <1>5 DEF DrawerStep, ReviewedNow, Same, DoneNext, Settled
<1>7. \A s \in Session \ {d} : DrawerStep(s)
  <2> TAKE s \in Session \ {d}
  <2>1. session'[s] = session[s]
    BY <1>t, <1>4 DEF TypeOK
  <2> QED
    BY <1>t, <2>1, UnchangedKeeps DEF DrawerStep
<1>8. \A s \in Session : ~OpenedNow(s)
  BY <1>t, <1>3, <1>4, <1>5 DEF OpenedNow, TypeOK
<1>9. \A h \in Handover : HeirsKept(h)
  BY <1>6, <1>7, <1>8, NoNewHeirs
<1>10. handover' = handover /\ expense' = expense
  BY DEF ReviewDrawer
<1>11. TypeOK'
  BY <1>t, <1>5, <1>10, ReturnTyped DEF TypeOK
<1> QED
  BY <1>t, <1>6, <1>7, <1>9, <1>10, <1>11, OthersKept DEF Writes

\* A step that leaves every drawer as it is.
LEMMA DrawersKept ==
  ASSUME TypeOK, session' = session
  PROVE  /\ \A s \in Session : DrawerStep(s)
         /\ \A h \in Handover : HeirsKept(h)
BY UnchangedKeeps DEF DrawerStep, HeirsKept

LEMMA SettleHandoverWrites ==
  ASSUME DrawerInv, NEW r \in Call, SettleHandover(r) PROVE Writes
<1>t. /\ TypeOK /\ call[r].op \in {"accept", "reclaim"} /\ Return(r) /\ expense' = expense
      /\ CallSound(r)
  BY DEF DrawerInv, SettleHandover
<1>1. PICK h \in Handover, tin \in Nat : h = call[r].handover /\ tin = call[r].tin
  <2>1. call[r].handover \in Handover /\ call[r].tin \in Int /\ call[r].tin >= 0
    BY <1>t, Kinds DEF CallSound
  <2> QED
    BY <2>1
<1>2. CASE UNCHANGED <<session, handover>>
  <2>1. TypeOK'
    BY <1>t, <1>2, ReturnTyped DEF TypeOK
  <2> QED
    BY <1>t, <1>2, <2>1, DrawersKept, OthersKept DEF Writes
<1>3. CASE ~UNCHANGED <<session, handover>>
  <2> DEFINE u == IF call[r].op = "accept" THEN handover[h].toUser ELSE handover[h].fromUser
             g == session[handover[h].from].register
             to == IF call[r].op = "accept" THEN "ACCEPTED" ELSE "CANCELLED"
             held == handover[h].counted
  <2>1. /\ handover[h].status = "PENDING" /\ KeysFree(u, g)
        /\ handover' = [handover EXCEPT ![h].status = to]
    BY <1>1, <1>3 DEF SettleHandover, StillPending
  <2>2. PICK new \in Session : /\ session[new].status = "NEW"
                               /\ session' = [session EXCEPT ![new] = Opened(u, g, held, tin, h)]
    BY <1>1, <1>3 DEF SettleHandover, StillPending
  <2>3. handover[h].from \in Session
    BY <2>1 DEF DrawerInv, HandoverSound
  <2>4. u \in Staff \cup {None} /\ g \in Register \cup {None} /\ held \in Nat
        /\ handover[h] \in HandoverRow
    BY <1>t, <2>3 DEF TypeOK, HandoverRow, SessionRow
  <2>5. to \in {"ACCEPTED", "CANCELLED"}
    OBVIOUS
  <2> HIDE DEF u, g, held, to
  <2>6. /\ session' \in [Session -> SessionRow]
        /\ session'[new] = Opened(u, g, held, tin, h)
        /\ \A s \in Session \ {new} : session'[s] = session[s]
        /\ OpenedNow(new)
        /\ \A s \in Session : DrawerStep(s)
    BY <1>t, <2>1, <2>2, <2>4, OpeningStep
  <2>7. session'[new].from = h /\ session'[new].float = held
    <3> DEFINE d == Opened(u, g, held, tin, h)
    <3>1. OpenRow(d, u, g, held, tin, h)
      BY <2>4, OpenedRow
    <3>2. session'[new] = d
      BY <2>6
    <3> HIDE DEF d
    <3> QED
      BY <3>1, <3>2 DEF OpenRow
  <2>8. /\ handover' \in [Handover -> HandoverRow]
        /\ handover'[h] = [handover[h] EXCEPT !.status = to]
        /\ \A k \in Handover \ {h} : handover'[k] = handover[k]
    BY <1>t, <2>1, <2>4, <2>5 DEF TypeOK, HandoverRow
  <2>9. /\ handover'[h].status = to /\ handover'[h].from = handover[h].from
        /\ handover'[h].counted = handover[h].counted
    BY <2>4, <2>8 DEF HandoverRow
  <2>10. SettledNow(h)
    BY <2>1, <2>5, <2>6, <2>7, <2>9 DEF SettledNow, SameCash, held
  <2>11. \A k \in Handover \ {h} : HeirsKept(k)
    BY <2>2, <2>6, <2>7, NoneIsNobody DEF HeirsKept, DrawerInv, Untouched
  <2>12. \A k \in Handover : HandoverStep(k)
    BY <2>8, <2>10, <2>11 DEF HandoverStep, HandoverKept
  <2>13. TypeOK'
    BY <1>t, <2>6, <2>8, ReturnTyped DEF TypeOK
  <2> QED
    BY <1>t, <2>6, <2>12, <2>13, OthersKept DEF Writes
<1> QED
  BY <1>2, <1>3

LEMMA DeclineHandoverWrites ==
  ASSUME DrawerInv, NEW u \in Staff, NEW h \in Handover, DeclineHandover(u, h) PROVE Writes
<1>1. /\ TypeOK /\ session' = session /\ expense' = expense /\ call' = call
      /\ handover[h].status = "PENDING" /\ handover[h] \in HandoverRow
      /\ handover' = [handover EXCEPT ![h].status = "DECLINED"]
  BY DEF DrawerInv, DeclineHandover, StillPending, TypeOK
<1>2. /\ \A s \in Session : DrawerStep(s)
      /\ \A k \in Handover : HeirsKept(k)
  BY <1>1, DrawersKept
<1>3. /\ handover' \in [Handover -> HandoverRow]
      /\ handover'[h].status = "DECLINED" /\ handover'[h].from = handover[h].from
      /\ handover'[h].counted = handover[h].counted
      /\ \A k \in Handover \ {h} : handover'[k] = handover[k]
  BY <1>1 DEF TypeOK, HandoverRow
<1>4. \A k \in Handover : HandoverStep(k)
  BY <1>1, <1>2, <1>3 DEF HandoverStep, HandoverKept, DeclinedNow, SameCash
<1>5. TypeOK'
  BY <1>1, <1>3 DEF TypeOK
<1> QED
  BY <1>1, <1>2, <1>4, <1>5, OthersKept DEF Writes

LEMMA CreateRequestWrites ==
  ASSUME DrawerInv, NEW u \in Staff, NEW e \in Expense, NEW source \in {"DRAWER", "PETTY_FUND"},
         NEW status \in {"DRAFT", "PENDING"}, CreateRequest(u, e, source, status)
  PROVE  Writes
<1>1. /\ TypeOK /\ session' = session /\ handover' = handover /\ call' = call
      /\ expense[e].status = "NEW" /\ expense[e] \in ExpenseRow
      /\ expense' = [expense EXCEPT ![e].status = status, ![e].source = source, ![e].by = u]
  BY DEF DrawerInv, CreateRequest, TypeOK
<1>2. /\ \A s \in Session : DrawerStep(s)
      /\ \A h \in Handover : HeirsKept(h)
  BY <1>1, DrawersKept
<1>3. /\ expense' \in [Expense -> ExpenseRow]
      /\ expense'[e].status = status /\ expense'[e].session = expense[e].session
      /\ \A x \in Expense \ {e} : expense'[x] = expense[x]
  BY <1>1 DEF TypeOK, ExpenseRow
<1>4. \A x \in Expense : ExpenseStep(x)
  BY <1>1, <1>3 DEF ExpenseStep, ExpenseKept, ExpenseJudged
<1>5. TypeOK'
  BY <1>1, <1>3 DEF TypeOK
<1> QED
  BY <1>1, <1>2, <1>4, <1>5, OthersKept DEF Writes

LEMMA WriteRequestWrites ==
  ASSUME DrawerInv, NEW r \in Call, WriteRequest(r) PROVE Writes
<1>1. /\ TypeOK /\ session' = session /\ handover' = handover /\ Return(r)
      /\ call[r].op = "decide"
  BY DEF DrawerInv, WriteRequest
<1>2. PICK e \in Expense, to \in {"PENDING", "APPROVED", "REJECTED", "CANCELLED"} :
        e = call[r].expense /\ to = call[r].to
  BY <1>1, Kinds
<1>3. expense' = [expense EXCEPT ![e].status = to] /\ expense[e] \in ExpenseRow
  BY <1>1, <1>2 DEF WriteRequest, TypeOK
<1>4. /\ \A s \in Session : DrawerStep(s)
      /\ \A h \in Handover : HeirsKept(h)
  BY <1>1, DrawersKept
<1>5. /\ expense' \in [Expense -> ExpenseRow]
      /\ expense'[e].status = to /\ expense'[e].session = expense[e].session
      /\ expense'[e].source = expense[e].source
      /\ \A x \in Expense \ {e} : expense'[x] = expense[x]
  BY <1>1, <1>3 DEF TypeOK, ExpenseRow
<1>6. \A x \in Expense : ExpenseStep(x)
  BY <1>5 DEF ExpenseStep, ExpenseKept, ExpenseJudged
<1>7. TypeOK'
  BY <1>1, <1>5, ReturnTyped DEF TypeOK
<1> QED
  BY <1>1, <1>4, <1>6, <1>7, OthersKept DEF Writes

LEMMA PayRequestWrites ==
  ASSUME DrawerInv, NEW r \in Call, PayRequest(r) PROVE Writes
<1>t. /\ TypeOK /\ Return(r) /\ handover' = handover /\ call[r].op = "pay" /\ Locked(r)
      /\ CallSound(r)
  BY DEF DrawerInv, PayRequest, Locked
<1>1. PICK e \in Expense, d \in Session : e = call[r].expense /\ d = call[r].session
  BY <1>t, Kinds
<1>2. Open(d) /\ session[d] \in SessionRow /\ expense[e] \in ExpenseRow
  BY <1>t, <1>1 DEF CallSound, TypeOK
<1>3. CASE UNCHANGED <<session, expense>>
  <2>1. TypeOK'
    BY <1>t, <1>3, ReturnTyped DEF TypeOK
  <2> QED
    BY <1>t, <1>3, <2>1, DrawersKept, OthersKept DEF Writes
<1>4. CASE ~UNCHANGED <<session, expense>>
  <2>1. /\ expense[e].status = "APPROVED"
        /\ expense' = [expense EXCEPT ![e].status = "PAID", ![e].session = d, ![e].payouts = @ + 1]
        /\ \/ session' = [session EXCEPT ![d].paid = @ + 1]
           \/ session' = session
    BY <1>1, <1>4 DEF PayRequest, StillApproved
  <2>2. /\ session' \in [Session -> SessionRow]
        /\ \A s \in Session : DrawerStep(s)
        /\ \A h \in Handover : HeirsKept(h)
    <3>1. CASE session' = session
      BY <1>t, <3>1, DrawersKept DEF TypeOK
    <3>2. CASE session' = [session EXCEPT ![d].paid = @ + 1]
      <4> DEFINE row == [session[d] EXCEPT !.paid = @ + 1]
      <4>1. row \in SessionRow /\ Booked(row, session[d])
        BY <1>2 DEF SessionRow, Booked
      <4>2. session' = [session EXCEPT ![d] = row]
        BY <3>2
      <4>3. ~Done(d)
        BY <1>2 DEF Done, Open
      <4> HIDE DEF row
      <4> QED
        BY <1>t, <4>1, <4>2, <4>3, BookedStep
    <3> QED
      BY <2>1, <3>1, <3>2
  <2>3. /\ expense' \in [Expense -> ExpenseRow]
        /\ expense'[e].status = "PAID" /\ expense'[e].session = d
        /\ expense'[e].source = expense[e].source
        /\ \A x \in Expense \ {e} : expense'[x] = expense[x]
    <3> DEFINE paid == [expense[e] EXCEPT !.status = "PAID", !.session = d, !.payouts = @ + 1]
    <3>1. paid \in ExpenseRow
      <4>1. expense[e].payouts + 1 \in Nat
        BY <1>2 DEF ExpenseRow
      <4> QED
        BY <1>2, <4>1 DEF ExpenseRow
    <3>2. paid.status = "PAID" /\ paid.session = d /\ paid.source = expense[e].source
      BY <1>2 DEF ExpenseRow
    <3>3. expense' = [expense EXCEPT ![e] = paid]
      BY <2>1
    <3> HIDE DEF paid
    <3> QED
      BY <1>t, <3>1, <3>2, <3>3 DEF TypeOK
  <2>4. PaidNow(e)
    BY <1>t, <1>1, <2>1, <2>3, ReturnTyped DEF PaidNow, ExpenseKept
  <2>5. \A x \in Expense : ExpenseStep(x)
    BY <2>3, <2>4 DEF ExpenseStep, ExpenseKept
  <2>6. TypeOK'
    BY <1>t, <2>2, <2>3, ReturnTyped DEF TypeOK
  <2> QED
    BY <1>t, <2>2, <2>5, <2>6, OthersKept DEF Writes
<1> QED
  BY <1>3, <1>4

------------------------------------------------------------------------------
(* Every step *)

LEMMA ContinueKeeps ==
  ASSUME DrawerInv, NEW r \in Call, Continue(r)
  PROVE  LockSession(r) \/ Writes
<1>1. \A n \in 0..MaxMoved : n \in Nat
  OBVIOUS
<1> QED
  BY <1>1, TakeCashWrites, InsertMovementWrites, CloseDrawerWrites, RequestHandoverWrites,
     ReviewDrawerWrites, SettleHandoverWrites, WriteRequestWrites, PayRequestWrites
     DEF Continue

\* A step of the drawer writes a row, or leaves every row as it is.
LEMMA StepIs ==
  ASSUME DrawerInv, Next
  PROVE  \/ Writes
         \/ \E r \in Call : LockSession(r) \/ \E u \in Staff : Begin(r, u)
BY OpenDrawerWrites, DeclineHandoverWrites, CreateRequestWrites, ContinueKeeps DEF Next, Steps

LEMMA StutterWrites == ASSUME DrawerInv, UNCHANGED vars PROVE Writes
<1>1. TypeOK /\ session' = session /\ handover' = handover /\ expense' = expense /\ call' = call
  BY DEF DrawerInv, vars
<1>2. TypeOK'
  BY <1>1 DEF TypeOK
<1> QED
  BY <1>1, <1>2, DrawersKept, OthersKept DEF Writes

LEMMA StepKeeps == DrawerInv /\ [Next]_vars => DrawerInv'
BY StepIs, StutterWrites, WritesKeep, LockKeeps, BeginKeeps

\* No step undoes a count, whether it writes rows or begins a call.
LEMMA CountStays ==
  ASSUME DrawerInv, [Next]_vars, NEW s \in Session, Done(s)
  PROVE  /\ session'[s].taken = session[s].taken /\ session'[s].paid = session[s].paid
         /\ session'[s].frozen = session[s].frozen
         /\ session'[s].counted = session[s].counted
<1>1. DrawerStep(s)
  <2>1. CASE Writes
    BY <2>1 DEF Writes
  <2>2. CASE \E r \in Call : LockSession(r) \/ \E u \in Staff : Begin(r, u)
    <3>1. session' = session
      <4>1. \A r \in Call : LockSession(r) => session' = session
        BY DEF LockSession
      <4>2. ASSUME NEW r \in Call, NEW u \in Staff, Begin(r, u) PROVE session' = session
        BY <4>2 DEF Begin, Charge, JudgeMovement, FindDrawer, JudgeClose, JudgeForce,
                    JudgeReview, JudgeHandover, JudgeAccept, JudgeReclaim, JudgeRequest, JudgePay
      <4> QED
        BY <2>2, <4>1, <4>2
    <3> QED
      BY <3>1, DrawersKept DEF DrawerInv
  <2> QED
    BY <2>1, <2>2, StepIs, StutterWrites
<1> QED
  BY <1>1 DEF DrawerStep, Settled, Kept, CountedNow, ReviewedNow, OpenedNow, Done, Open

LEMMA Begins == Init => DrawerInv
<1> SUFFICES ASSUME Init PROVE DrawerInv
  OBVIOUS
<1>1. TypeOK
  BY InitTyped
<1>2. /\ \A r \in Call : call[r] = Idle
      /\ \A s \in Session : /\ session[s].status = "NEW" /\ session[s].keyed = FALSE
                            /\ session[s].from = None
                            /\ session[s].tin = 0 /\ session[s].topped = 0
      /\ \A e \in Expense : expense[e].session = None
      /\ \A h \in Handover : handover[h].status = "NEW"
  BY DEF Init, NewSession
<1>3. \A r \in Call : CallSound(r)
  BY <1>2 DEF CallSound, Locked, Idle
<1>4. Exclusive
  BY <1>2 DEF Exclusive, Locked, Idle
<1>5. KeysMeanOpen /\ KeyedApart /\ Untouched
  BY <1>2, NoneIsNobody DEF KeysMeanOpen, KeyedApart, Untouched, Open
<1>6. FundNeverNegative
  <2> SUFFICES ASSUME NEW s \in Session PROVE Fund(s) >= 0
    BY DEF FundNeverNegative
  <2> DEFINE spent == {e \in Expense : /\ expense[e].status = "PAID" /\ expense[e].session = s
                                       /\ expense[e].source = "PETTY_FUND"}
  <2>1. spent = {}
    BY <1>2, NoneIsNobody
  <2>2. Cardinality(spent) = 0
    BY <2>1, FS_EmptySet
  <2> HIDE DEF spent
  <2> QED
    BY <1>2, <2>2 DEF Fund, SpentFromTin, spent
<1>7. \A h \in Handover : HandoverSound(h) /\ Carried(h)
  BY <1>2, NoneIsNobody DEF HandoverSound, Carried, Heirs
<1> QED
  BY <1>1, <1>3, <1>4, <1>5, <1>6, <1>7 DEF DrawerInv

------------------------------------------------------------------------------
(* The theorems *)

\* Locks exclude, what a call relies on stays true, and cash is carried once.
THEOREM DrawerInvariant == Spec => []DrawerInv
BY Begins, StepKeeps, PTL DEF Spec

\* Every row stays of its type.
THEOREM DrawerTyped == Spec => []TypeOK
<1>1. DrawerInv => TypeOK
  BY DEF DrawerInv
<1> QED
  BY <1>1, DrawerInvariant, PTL

\* One open drawer per till and per cashier, by hand or out of a handover.
THEOREM OneEach == Spec => []OneDrawerEach
<1>1. DrawerInv => OneDrawerEach
  BY DEF DrawerInv, KeysMeanOpen, KeyedApart, OneDrawerEach
<1> QED
  BY <1>1, DrawerInvariant, PTL

\* A till is locked by an open drawer, and by nothing else.
THEOREM KeysAreOpen == Spec => []KeysMeanOpen
<1>1. DrawerInv => KeysMeanOpen
  BY DEF DrawerInv
<1> QED
  BY <1>1, DrawerInvariant, PTL

\* A till and a cashier are tied to a drawer exactly as long as it is open.
THEOREM ApartAlways == Spec => []DrawersApart
<1>1. OneDrawerEach /\ KeysMeanOpen => DrawersApart
  BY DEF DrawersApart
<1> QED
  BY <1>1, OneEach, KeysAreOpen, PTL

\* The tin is never paid from beyond what is in it.
THEOREM TinHolds == Spec => []FundNeverNegative
<1>1. DrawerInv => FundNeverNegative
  BY DEF DrawerInv
<1> QED
  BY <1>1, DrawerInvariant, PTL

\* What was counted is carried into one drawer, or into none.
THEOREM CarriedOnce == Spec => []CashCarriedOnce
<1>1. DrawerInv => CashCarriedOnce
  <2> SUFFICES ASSUME DrawerInv, NEW h \in Handover
               PROVE  /\ Cardinality(Heirs(h)) =
                           IF handover[h].status \in {"ACCEPTED", "CANCELLED"} THEN 1 ELSE 0
                      /\ \A s \in Heirs(h) :
                           /\ session[s].float = handover[h].counted
                           /\ session[s].float = session[handover[h].from].counted
    BY DEF CashCarriedOnce, Heirs
  <2>1. HandoverSound(h) /\ Carried(h)
    BY DEF DrawerInv
  <2>2. CASE handover[h].status \in {"ACCEPTED", "CANCELLED"}
    <3>1. PICK s \in Session : Heirs(h) = {s}
      BY <2>1, <2>2 DEF Carried
    <3>2. Cardinality({s}) = 1
      BY FS_Singleton
    <3>3. s \in Heirs(h)
      BY <3>1
    <3> QED
      BY <2>1, <2>2, <3>1, <3>2, <3>3 DEF Carried, Heirs, HandoverSound
  <2>3. CASE handover[h].status \notin {"ACCEPTED", "CANCELLED"}
    <3>1. Heirs(h) = {}
      BY <2>1, <2>3 DEF Carried
    <3> QED
      BY <2>3, <3>1, FS_EmptySet
  <2> QED
    BY <2>2, <2>3
<1> QED
  BY <1>1, DrawerInvariant, PTL

\* Cash is not spent that is not there and not carried on twice.
THEOREM AccountedFor == Spec => []CashAccounted
<1>1. FundNeverNegative /\ CashCarriedOnce => CashAccounted
  BY DEF CashAccounted
<1> QED
  BY <1>1, TinHolds, CarriedOnce, PTL

\* Nothing lands on a drawer that was counted, and its figures stay.
THEOREM CountIsFinal == Spec => CountedTakesNoMore
<1>1. DrawerInv /\ [Next]_vars =>
        [\A s \in Session : session[s].status \in {"PENDING_REVIEW", "CLOSED"} =>
           /\ session'[s].taken = session[s].taken /\ session'[s].paid = session[s].paid
           /\ session'[s].frozen = session[s].frozen
           /\ session'[s].counted = session[s].counted]_vars
  BY CountStays DEF Done
<1> QED
  BY <1>1, DrawerInvariant, PTL DEF Spec, CountedTakesNoMore

------------------------------------------------------------------------------
(* Shifts: the inductive invariants *)

USE RotaOfPeople, SomeSite, NoneOfThese

Asking(c) == visit[c].op \in {"count", "record"}
Settling(c) == visit[c].op \in {"till", "row"}

\* A handover that is asked for is not there yet, and one call asks for it; one that is
\* being settled was asked for, and past its till the till went the same way.
HandoverInv ==
  /\ ShiftsTypeOK /\ TillFollowsShift
  /\ \A c \in Visit : Asking(c) => pass[visit[c].pass].status = "NONE"
  /\ \A c \in Visit : visit[c].op = "count" => pass[visit[c].pass].cash = "NONE"
  /\ \A c, k \in Visit : Asking(c) /\ Asking(k) /\ visit[c].pass = visit[k].pass => c = k
  /\ \A c \in Visit : Settling(c) => pass[visit[c].pass].status # "NONE"
  /\ \A c \in Visit : visit[c].op = "row" /\ Waiting(visit[c].pass) =>
       pass[visit[c].pass].cash \in {"NONE", WithIt(visit[c].as)}

Starts(c) == visit[c].op = "start"

\* A started entry has the session of its person at its site, and no other entry has one.
WorkedOnce(d) ==
  IF duty[d] \in {"STARTED", "COMPLETED"} THEN \E s \in Shift : On(d) = {s} ELSE On(d) = {}

\* An entry being started is planned still, by one call, which saw a session of its
\* person; a session is on no entry before it is opened, and closed before its entry
\* is completed.
RotaInv ==
  /\ ShiftsTypeOK
  /\ \A d \in Duty : WorkedOnce(d)
  /\ \A d \in Duty : \A s \in On(d) :
       /\ shift[s].by = Rota[d].by /\ shift[s].site = Rota[d].site
       /\ duty[d] = "COMPLETED" => shift[s].status = "CLOSED"
  /\ \A u \in Person : \A s, t \in Working(u) : s = t
  /\ \A s \in Vacant : shift[s].duty = NoDuty
  /\ \A c \in Visit : Starts(c) => duty[visit[c].duty] = "PLANNED"
  /\ \A c, k \in Visit : Starts(c) /\ Starts(k) /\ visit[c].duty = visit[k].duty => c = k
  /\ \A c \in Visit : Starts(c) /\ visit[c].seen # NoShift =>
       /\ shift[visit[c].seen].by = Rota[visit[c].duty].by
       /\ shift[visit[c].seen].status # "NONE"
  /\ \A c \in Visit : visit[c].op = "complete" => shift[visit[c].shift].status = "CLOSED"

------------------------------------------------------------------------------
(* Types *)

\* What a call of each kind carries.
LEMMA VisitKinds ==
  ASSUME ShiftsTypeOK, NEW c \in Visit
  PROVE  /\ visit[c].op \in {"signin", "create", "link"} =>
              visit[c] \in [op: {"signin", "create", "link"}, by: Person, site: Site]
         /\ visit[c].op \in {"close", "complete"} =>
              visit[c] \in [op: {"close", "complete"}, shift: Shift,
                            then: {"end", "signin", "create", "link"}, by: Person, site: Site]
         /\ visit[c].op = "start" =>
              visit[c] \in [op: {"start"}, duty: Duty, seen: Shift \cup {NoShift}]
         /\ visit[c].op \in {"count", "record"} =>
              visit[c] \in [op: {"count", "record"}, pass: Pass, from: Person, to: Person,
                            site: Site, shift: Shift \cup {NoShift}]
         /\ visit[c].op \in {"till", "row"} =>
              visit[c] \in [op: {"till", "row"}, pass: Pass,
                            as: {"COMPLETED", "REJECTED", "CANCELLED"}]
BY DEF ShiftsTypeOK, Visits, NoVisit

LEMMA VisitTyped ==
  ASSUME ShiftsTypeOK, NEW c \in Visit, NEW x \in Visits, visit' = [visit EXCEPT ![c] = x]
  PROVE  /\ visit' \in [Visit -> Visits] /\ visit'[c] = x
         /\ \A k \in Visit : k # c => visit'[k] = visit[k]
BY DEF ShiftsTypeOK

LEMMA NoVisitTyped == NoVisit \in Visits /\ NoVisit.op = "none"
BY DEF NoVisit, Visits

LEMMA ClosingTyped ==
  ASSUME NEW s \in Shift, NEW then \in {"end", "signin", "create", "link"},
         NEW u \in Person, NEW b \in Site
  PROVE  Closing(s, then, u, b) \in Visits /\ Closing(s, then, u, b).op = "close"
BY DEF Closing, Visits

LEMMA OnwardTyped ==
  ASSUME ShiftsTypeOK, NEW c \in Visit, visit[c].op \in {"close", "complete"}
  PROVE  /\ Onward(visit[c]) \in Visits
         /\ Onward(visit[c]).op \in {"none", "signin", "create", "link"}
<1>1. visit[c] \in [op: {"close", "complete"}, shift: Shift,
                    then: {"end", "signin", "create", "link"}, by: Person, site: Site]
  BY VisitKinds
<1> QED
  BY <1>1, NoVisitTyped DEF Onward, Visits

LEMMA StartingTyped ==
  ASSUME ShiftsTypeOK, NEW d \in Duty, NEW x \in Starting(d)
  PROVE  /\ x \in Visits /\ x.op = "start" /\ x.duty = d
         /\ x.seen = NoShift \/ (x.seen \in Working(Rota[d].by) /\ x.seen \in Shift)
<1>1. PICK s \in Shift \cup {NoShift} :
        /\ x = [op |-> "start", duty |-> d, seen |-> s]
        /\ s = NoShift \/ s \in Working(Rota[d].by)
  BY DEF Starting, Working
<1> QED
  BY <1>1 DEF Visits

LEMMA ClockedTyped ==
  ASSUME NEW u \in Person, NEW b \in Site, NEW d \in Duty \cup {NoDuty}
  PROVE  Clocked(u, b, d) \in ShiftRow
BY DEF Clocked, ShiftRow

\* A call that changes nothing but itself.
Turn(c, x) ==
  visit' = [visit EXCEPT ![c] = x] /\ UNCHANGED <<shift, duty, pass>>

LEMMA TurnTyped ==
  ASSUME ShiftsTypeOK, NEW c \in Visit, NEW x \in Visits, Turn(c, x)
  PROVE  ShiftsTypeOK'
BY VisitTyped DEF Turn, ShiftsTypeOK, OnShift

------------------------------------------------------------------------------
(* What the calls that change nothing but themselves become *)

LEMMA EndShiftTurn ==
  ASSUME ShiftsTypeOK, NEW c \in Visit, NEW s \in Shift, EndShift(c, s)
  PROVE  \E x \in Visits : Turn(c, x) /\ x.op = "close" /\ visit[c] = NoVisit
<1>1. shift[s].site \in Site
  BY DEF ShiftsTypeOK, ShiftRow
<1> DEFINE x == Closing(s, "end", shift[s].by, shift[s].site)
<1>2. x \in Visits /\ x.op = "close"
  BY <1>1, ClosingTyped DEF EndShift, ShiftsTypeOK
<1> HIDE DEF x
<1>3. Turn(c, x) /\ visit[c] = NoVisit
  BY DEF EndShift, Calling, Turn, x
<1> QED
  BY <1>2, <1>3

LEMMA SignInTurn ==
  ASSUME ShiftsTypeOK, NEW c \in Visit, NEW u \in Person, NEW b \in Site, SignIn(c, u, b)
  PROVE  \E x \in Visits : Turn(c, x) /\ x.op \in {"signin", "close"}
<1> DEFINE y == [op |-> "signin", by |-> u, site |-> b]
<1>1. y \in Visits /\ y.op = "signin"
  BY DEF Visits
<1> HIDE DEF y
<1>2. \A s \in Working(u) : s \in Shift
  BY DEF Working
<1>3. CASE Calling(c, y)
  <2>1. Turn(c, y)
    BY <1>3 DEF Calling, Turn, SignIn
  <2> QED
    BY <1>1, <2>1
<1>4. CASE \E s \in Working(u) : Calling(c, Closing(s, "signin", u, b))
  <2>1. PICK s \in Working(u) : Calling(c, Closing(s, "signin", u, b))
    BY <1>4
  <2> DEFINE x == Closing(s, "signin", u, b)
  <2>2. x \in Visits /\ x.op = "close"
    BY <1>2, ClosingTyped
  <2>3. Turn(c, x)
    BY <2>1 DEF Calling, Turn, SignIn
  <2> HIDE DEF x
  <2> QED
    BY <2>2, <2>3
<1> QED
  BY <1>3, <1>4 DEF SignIn, y

LEMMA FindOpenTurn ==
  ASSUME ShiftsTypeOK, NEW c \in Visit, FindOpen(c)
  PROVE  \E x \in Visits : Turn(c, x) /\ x.op \in {"create", "close", "none"}
<1> DEFINE u == visit[c].by
           b == visit[c].site
<1>1. u \in Person /\ b \in Site
  BY VisitKinds DEF FindOpen
<1> DEFINE y == [op |-> "create", by |-> u, site |-> b]
<1>2. y \in Visits /\ y.op = "create"
  BY <1>1 DEF Visits
<1> HIDE DEF y
<1>3. \A s \in Working(u) : s \in Shift
  BY DEF Working
<1>4. CASE GoOnWith(c, y)
  <2>1. Turn(c, y)
    BY <1>4 DEF GoOnWith, Turn, FindOpen
  <2> QED
    BY <1>2, <2>1
<1>5. CASE \E s \in Working(u) :
             IF shift[s].site = b THEN Leave(c) ELSE GoOnWith(c, Closing(s, "create", u, b))
  <2>1. PICK s \in Working(u) :
          Leave(c) \/ GoOnWith(c, Closing(s, "create", u, b))
    BY <1>5
  <2>2. CASE Leave(c)
    <3>1. Turn(c, NoVisit)
      BY <2>2 DEF Leave, Turn, FindOpen
    <3> QED
      BY <3>1, NoVisitTyped
  <2> DEFINE x == Closing(s, "create", u, b)
  <2>4. x \in Visits /\ x.op = "close"
    BY <1>1, <1>3, ClosingTyped
  <2> HIDE DEF x
  <2>3. CASE GoOnWith(c, x)
    <3>1. Turn(c, x)
      BY <2>3 DEF GoOnWith, Turn, FindOpen
    <3> QED
      BY <2>4, <3>1
  <2> QED
    BY <2>1, <2>2, <2>3 DEF x
<1> QED
  BY <1>4, <1>5 DEF FindOpen, y

LEMMA JudgeStartTurn ==
  ASSUME ShiftsTypeOK, NEW c \in Visit, NEW d \in Duty, JudgeStart(c, d)
  PROVE  Startable(d) /\ \E x \in Starting(d) : Turn(c, x)
<1>1. PICK x \in Starting(d) : Calling(c, x)
  BY DEF JudgeStart
<1>2. Turn(c, x)
  BY <1>1 DEF Calling, Turn, JudgeStart
<1> QED
  BY <1>2 DEF JudgeStart

LEMMA LinkReceiverTurn ==
  ASSUME ShiftsTypeOK, NEW c \in Visit, linkReceiverShift(c)
  PROVE  \/ Turn(c, NoVisit)
         \/ \E d \in Duty : Startable(d) /\ \E x \in Starting(d) : Turn(c, x)
<1> DEFINE mine == {d \in Duty : Rota[d] = [by |-> visit[c].by, site |-> visit[c].site]
                                  /\ Startable(d)}
<1>1. CASE Leave(c)
  BY <1>1 DEF Leave, Turn, linkReceiverShift
<1>2. CASE \E d \in mine : \E x \in Starting(d) : GoOnWith(c, x)
  <2>1. PICK d \in mine : \E x \in Starting(d) : GoOnWith(c, x)
    BY <1>2
  <2>2. PICK x \in Starting(d) : GoOnWith(c, x)
    BY <2>1
  <2>3. Turn(c, x)
    BY <2>2 DEF GoOnWith, Turn, linkReceiverShift
  <2> QED
    BY <2>3
<1> QED
  BY <1>1, <1>2 DEF linkReceiverShift

LEMMA StartHandoverTurn ==
  ASSUME ShiftsTypeOK, NEW c \in Visit, NEW u \in Person, NEW v \in Person, NEW b \in Site,
         NEW p \in Pass, startShiftHandover(c, u, v, b, p)
  PROVE  /\ Unused(p)
         /\ \E x \in Visits : Turn(c, x) /\ x.op \in {"count", "record"} /\ x.pass = p
<1>1. PICK s \in (IF Working(u) = {} THEN {NoShift} ELSE Working(u)), op \in {"count", "record"} :
        Calling(c, [op |-> op, pass |-> p, from |-> u, to |-> v, site |-> b, shift |-> s])
  BY DEF startShiftHandover
<1>2. s \in Shift \cup {NoShift}
  BY <1>1 DEF Working
<1> DEFINE x == [op |-> op, pass |-> p, from |-> u, to |-> v, site |-> b, shift |-> s]
<1>3. x \in Visits /\ x.op \in {"count", "record"} /\ x.pass = p
  BY <1>2 DEF Visits
<1> HIDE DEF x
<1>4. Turn(c, x)
  BY <1>1 DEF Calling, Turn, startShiftHandover, x
<1> QED
  BY <1>3, <1>4 DEF startShiftHandover

LEMMA JudgeSettleTurn ==
  ASSUME ShiftsTypeOK, NEW c \in Visit, NEW p \in Pass,
         NEW as \in {"COMPLETED", "REJECTED", "CANCELLED"}, JudgeSettle(c, p, as)
  PROVE  /\ Waiting(p)
         /\ \E x \in Visits :
              /\ Turn(c, x) /\ x.op \in {"till", "row"} /\ x.pass = p
              /\ x.op = "row" => pass[p].cash = "NONE"
<1> DEFINE x == [op |-> IF pass[p].cash = "NONE" THEN "row" ELSE "till", pass |-> p, as |-> as]
<1>1. /\ x \in Visits /\ x.op \in {"till", "row"} /\ x.pass = p
      /\ x.op = "row" => pass[p].cash = "NONE"
  BY DEF Visits
<1>2. Turn(c, x)
  BY DEF Calling, Turn, JudgeSettle
<1> HIDE DEF x
<1> QED
  BY <1>1, <1>2 DEF JudgeSettle

LEMMA AbandonTurn ==
  ASSUME ShiftsTypeOK, NEW c \in Visit, Abandon(c)
  PROVE  Turn(c, NoVisit)
BY DEF Abandon, Leave, Turn

------------------------------------------------------------------------------
(* What the others write *)

LEMMA ShiftWritten ==
  ASSUME ShiftsTypeOK, NEW s \in Shift, NEW row \in ShiftRow,
         row.status = "OPEN" => row.by \in Person, shift' = [shift EXCEPT ![s] = row]
  PROVE  /\ shift' \in [Shift -> ShiftRow] /\ shift'[s] = row
         /\ \A t \in Shift : t # s => shift'[t] = shift[t]
         /\ \A t \in Shift : shift'[t].status = "OPEN" => shift'[t].by \in Person
BY DEF ShiftsTypeOK, OnShift

LEMMA PassWritten ==
  ASSUME ShiftsTypeOK, NEW p \in Pass, NEW row \in PassRow, pass' = [pass EXCEPT ![p] = row]
  PROVE  /\ pass' \in [Pass -> PassRow] /\ pass'[p] = row
         /\ \A q \in Pass : q # p => pass'[q] = pass[q]
         /\ (row.status # "NONE" => row.to \in Person) =>
              \A q \in Pass : pass'[q].status # "NONE" => pass'[q].to \in Person
BY DEF ShiftsTypeOK

\* A handover's status and its till's move apart; the rest of it stays.
LEMMA CashWritten ==
  ASSUME NEW r \in PassRow, NEW to \in {"PENDING", "ACCEPTED", "DECLINED", "CANCELLED"}
  PROVE  /\ [r EXCEPT !.cash = to] \in PassRow /\ [r EXCEPT !.cash = to].cash = to
         /\ [r EXCEPT !.cash = to].status = r.status /\ [r EXCEPT !.cash = to].to = r.to
BY DEF PassRow

LEMMA StatusWritten ==
  ASSUME NEW r \in PassRow, NEW to \in {"COMPLETED", "REJECTED", "CANCELLED"}
  PROVE  /\ [r EXCEPT !.status = to] \in PassRow /\ [r EXCEPT !.status = to].status = to
         /\ [r EXCEPT !.status = to].cash = r.cash /\ [r EXCEPT !.status = to].to = r.to
BY DEF PassRow

LEMMA ShiftRows ==
  /\ \A r \in ShiftRow :
       /\ [r EXCEPT !.status = "CLOSED"] \in ShiftRow
       /\ [r EXCEPT !.status = "CLOSED"].status = "CLOSED"
       /\ [r EXCEPT !.status = "CLOSED"].by = r.by
       /\ [r EXCEPT !.status = "CLOSED"].site = r.site
       /\ [r EXCEPT !.status = "CLOSED"].duty = r.duty
  /\ \A r \in ShiftRow : \A d \in Duty :
       /\ [r EXCEPT !.duty = d] \in ShiftRow
       /\ [r EXCEPT !.duty = d].duty = d /\ [r EXCEPT !.duty = d].status = r.status
       /\ [r EXCEPT !.duty = d].by = r.by /\ [r EXCEPT !.duty = d].site = r.site
BY DEF ShiftRow

LEMMA OpenShiftActs ==
  ASSUME ShiftsTypeOK, NEW c \in Visit, openShift(c)
  PROVE  /\ visit' = [visit EXCEPT ![c] = NoVisit] /\ UNCHANGED <<duty, pass>>
         /\ \/ shift' = shift
            \/ \E u \in Person, b \in Site :
                 /\ Working(u) = {}
                 /\ \E s \in Vacant : shift' = [shift EXCEPT ![s] = Clocked(u, b, NoDuty)]
<1>1. visit[c].by \in Person /\ visit[c].site \in Site
  BY VisitKinds DEF openShift
<1> QED
  BY <1>1 DEF openShift, Leave

LEMMA CloseShiftActs ==
  ASSUME ShiftsTypeOK, NEW c \in Visit, closeShift(c)
  PROVE  \/ /\ UNCHANGED <<duty, pass>>
            /\ \E s \in Shift, x \in Visits :
                 /\ OnShift(s) /\ shift' = [shift EXCEPT ![s] = [shift[s] EXCEPT !.status = "CLOSED"]]
                 /\ visit' = [visit EXCEPT ![c] = x] /\ x.op = "complete" /\ x.shift = s
         \/ \E x \in Visits : Turn(c, x) /\ x.op \in {"none", "signin", "create", "link"}
<1>1. visit[c] \in [op: {"close", "complete"}, shift: Shift,
                    then: {"end", "signin", "create", "link"}, by: Person, site: Site]
  BY VisitKinds DEF closeShift
<1> DEFINE s == visit[c].shift
           x == [visit[c] EXCEPT !.op = "complete"]
<1>2. x \in Visits /\ x.op = "complete" /\ x.shift = s /\ s \in Shift
  BY <1>1 DEF Visits
<1>3. CASE OnShift(s)
  <2>1. /\ shift' = [shift EXCEPT ![s] = [shift[s] EXCEPT !.status = "CLOSED"]]
        /\ visit' = [visit EXCEPT ![c] = x]
    BY <1>3 DEF closeShift
  <2> HIDE DEF x
  <2> QED
    BY <1>2, <1>3, <2>1 DEF closeShift
<1>4. CASE ~OnShift(s)
  <2>1. Turn(c, Onward(visit[c]))
    BY <1>4 DEF closeShift, GoOnWith, Turn
  <2> QED
    BY <2>1, OnwardTyped DEF closeShift
<1> QED
  BY <1>3, <1>4

LEMMA CompleteDutyActs ==
  ASSUME ShiftsTypeOK, NEW c \in Visit, CompleteDuty(c)
  PROVE  /\ UNCHANGED <<shift, pass>> /\ visit[c].shift \in Shift
         /\ duty' = [d \in Duty |-> IF duty[d] = "STARTED" /\ shift[visit[c].shift].duty = d
                                    THEN "COMPLETED" ELSE duty[d]]
         /\ \E x \in Visits : /\ visit' = [visit EXCEPT ![c] = x]
                              /\ x.op \in {"none", "signin", "create", "link"}
<1>1. visit[c].shift \in Shift
  BY VisitKinds DEF CompleteDuty
<1> QED
  BY <1>1, OnwardTyped DEF CompleteDuty, GoOnWith

LEMMA StartActs ==
  ASSUME ShiftsTypeOK, NEW c \in Visit, startAssignedShift(c)
  PROVE  /\ visit' = [visit EXCEPT ![c] = NoVisit] /\ pass' = pass
         /\ visit[c].op = "start" /\ visit[c].duty \in Duty /\ visit[c].seen \in Shift \cup {NoShift}
         /\ \/ UNCHANGED <<shift, duty>>
            \/ /\ Linkable(visit[c].duty, visit[c].seen)
               /\ duty' = [duty EXCEPT ![visit[c].duty] = "STARTED"]
               /\ IF Elsewhere(visit[c].duty, visit[c].seen)
                  THEN LinkNew(visit[c].duty, visit[c].seen)
                  ELSE LinkOpen(visit[c].duty, visit[c].seen)
<1>1. visit[c].op = "start"
  BY DEF startAssignedShift
<1>2. visit[c] \in [op: {"start"}, duty: Duty, seen: Shift \cup {NoShift}]
  BY <1>1, VisitKinds
<1>3. visit' = [visit EXCEPT ![c] = NoVisit] /\ pass' = pass
  BY DEF startAssignedShift, Leave
<1>4. CASE Linkable(visit[c].duty, visit[c].seen)
  BY <1>1, <1>2, <1>3, <1>4 DEF startAssignedShift
<1>5. CASE ~Linkable(visit[c].duty, visit[c].seen)
  BY <1>1, <1>2, <1>3, <1>5 DEF startAssignedShift
<1> QED
  BY <1>4, <1>5

LEMMA RequestTillActs ==
  ASSUME ShiftsTypeOK, NEW c \in Visit, RequestTill(c)
  PROVE  /\ UNCHANGED <<shift, duty>> /\ visit[c].op = "count"
         /\ \E p \in Pass, x \in Visits :
              /\ p = visit[c].pass /\ pass' = [pass EXCEPT ![p] = [pass[p] EXCEPT !.cash = "PENDING"]]
              /\ visit' = [visit EXCEPT ![c] = x] /\ x.op = "record" /\ x.pass = p
<1>1. visit[c] \in [op: {"count", "record"}, pass: Pass, from: Person, to: Person,
                    site: Site, shift: Shift \cup {NoShift}]
  BY VisitKinds DEF RequestTill
<1> DEFINE p == visit[c].pass
           x == [visit[c] EXCEPT !.op = "record"]
<1>2. p \in Pass /\ x \in Visits /\ x.op = "record" /\ x.pass = p
  BY <1>1 DEF Visits
<1>3. /\ pass' = [pass EXCEPT ![p] = [pass[p] EXCEPT !.cash = "PENDING"]]
      /\ visit' = [visit EXCEPT ![c] = x]
  BY DEF RequestTill
<1> HIDE DEF x
<1> QED
  BY <1>2, <1>3 DEF RequestTill

LEMMA RecordPassActs ==
  ASSUME ShiftsTypeOK, NEW c \in Visit, RecordPass(c)
  PROVE  /\ UNCHANGED <<shift, duty>> /\ visit[c].op = "record"
         /\ visit' = [visit EXCEPT ![c] = NoVisit]
         /\ \/ pass' = pass
            \/ \E p \in Pass, row \in PassRow :
                 /\ p = visit[c].pass /\ pass' = [pass EXCEPT ![p] = row]
                 /\ row.status = "PENDING_ACCEPTANCE" /\ row.cash = pass[p].cash
                 /\ row.to \in Person
<1>1. visit[c] \in [op: {"count", "record"}, pass: Pass, from: Person, to: Person,
                    site: Site, shift: Shift \cup {NoShift}]
  BY VisitKinds DEF RecordPass
<1> DEFINE v == visit[c]
           p == v.pass
           row == [status |-> "PENDING_ACCEPTANCE", from |-> v.from, to |-> v.to,
                   site |-> v.site, shift |-> v.shift, cash |-> pass[p].cash]
<1>2. pass[p] \in PassRow
  BY <1>1 DEF ShiftsTypeOK
<1>3. p \in Pass /\ row \in PassRow /\ row.status = "PENDING_ACCEPTANCE" /\ row.cash = pass[p].cash
      /\ row.to \in Person
  BY <1>1, <1>2 DEF PassRow
<1>4. pass' = pass \/ pass' = [pass EXCEPT ![p] = row]
  BY DEF RecordPass
<1> HIDE DEF row
<1> QED
  BY <1>3, <1>4 DEF RecordPass, Leave

LEMMA SettleTillActs ==
  ASSUME ShiftsTypeOK, NEW c \in Visit, SettleTill(c)
  PROVE  \/ Turn(c, NoVisit)
         \/ /\ UNCHANGED <<shift, duty>> /\ visit[c].op = "till"
            /\ \E p \in Pass, x \in Visits :
                 /\ p = visit[c].pass /\ TillPending(p)
                 /\ pass' = [pass EXCEPT ![p] = [pass[p] EXCEPT !.cash = WithIt(x.as)]]
                 /\ visit' = [visit EXCEPT ![c] = x] /\ x.op = "row" /\ x.pass = p
                 /\ x.as \in {"COMPLETED", "REJECTED", "CANCELLED"}
<1>1. visit[c] \in [op: {"till", "row"}, pass: Pass, as: {"COMPLETED", "REJECTED", "CANCELLED"}]
  BY VisitKinds DEF SettleTill
<1> DEFINE p == visit[c].pass
           x == [visit[c] EXCEPT !.op = "row"]
<1>2. /\ p \in Pass /\ x \in Visits /\ x.op = "row" /\ x.pass = p /\ x.as = visit[c].as
      /\ x.as \in {"COMPLETED", "REJECTED", "CANCELLED"}
  BY <1>1 DEF Visits
<1>3. CASE TillPending(p)
  <2>1. /\ pass' = [pass EXCEPT ![p] = [pass[p] EXCEPT !.cash = WithIt(visit[c].as)]]
        /\ visit' = [visit EXCEPT ![c] = x]
    BY <1>3 DEF SettleTill
  <2> HIDE DEF x
  <2> QED
    BY <1>2, <1>3, <2>1 DEF SettleTill
<1>4. CASE ~TillPending(p)
  BY <1>4 DEF SettleTill, Leave, Turn
<1> QED
  BY <1>3, <1>4

LEMMA AfterPassTyped ==
  ASSUME ShiftsTypeOK, NEW p \in Pass, Waiting(p),
         NEW as \in {"COMPLETED", "REJECTED", "CANCELLED"}
  PROVE  AfterPass(p, as) \in Visits /\ AfterPass(p, as).op \in {"none", "link", "close"}
<1>1. pass[p].site \in Site /\ pass[p].shift \in Shift \cup {NoShift} /\ pass[p].to \in Person
  BY DEF ShiftsTypeOK, PassRow, Waiting
<1>2. CASE as # "COMPLETED"
  BY <1>2, NoVisitTyped DEF AfterPass
<1>3. CASE as = "COMPLETED" /\ pass[p].shift = NoShift
  BY <1>1, <1>3 DEF AfterPass, Visits
<1>4. CASE as = "COMPLETED" /\ pass[p].shift # NoShift
  BY <1>1, <1>4, ClosingTyped DEF AfterPass
<1> QED
  BY <1>2, <1>3, <1>4

LEMMA SettlePassActs ==
  ASSUME ShiftsTypeOK, NEW c \in Visit, SettlePass(c)
  PROVE  \/ Turn(c, NoVisit)
         \/ /\ UNCHANGED <<shift, duty>> /\ visit[c].op = "row"
            /\ \E p \in Pass, x \in Visits :
                 /\ p = visit[c].pass /\ Waiting(p)
                 /\ visit[c].as \in {"COMPLETED", "REJECTED", "CANCELLED"}
                 /\ pass' = [pass EXCEPT ![p] = [pass[p] EXCEPT !.status = visit[c].as]]
                 /\ visit' = [visit EXCEPT ![c] = x] /\ x.op \in {"none", "link", "close"}
<1>1. visit[c] \in [op: {"till", "row"}, pass: Pass, as: {"COMPLETED", "REJECTED", "CANCELLED"}]
  BY VisitKinds DEF SettlePass
<1> DEFINE p == visit[c].pass
           x == AfterPass(p, visit[c].as)
<1>2. p \in Pass /\ visit[c].as \in {"COMPLETED", "REJECTED", "CANCELLED"}
  BY <1>1
<1>3. CASE Waiting(p)
  <2>1. /\ pass' = [pass EXCEPT ![p] = [pass[p] EXCEPT !.status = visit[c].as]]
        /\ visit' = [visit EXCEPT ![c] = x]
    BY <1>3 DEF SettlePass, GoOnWith
  <2>2. x \in Visits /\ x.op \in {"none", "link", "close"}
    BY <1>2, <1>3, AfterPassTyped
  <2> HIDE DEF x
  <2> QED
    BY <1>2, <1>3, <2>1, <2>2 DEF SettlePass
<1>4. CASE ~Waiting(p)
  BY <1>4 DEF SettlePass, Leave, Turn
<1> QED
  BY <1>3, <1>4

LEMMA SettleTillAloneActs ==
  ASSUME ShiftsTypeOK, NEW p \in Pass, SettleTillAlone(p)
  PROVE  /\ UNCHANGED <<shift, duty, visit>> /\ TillPending(p)
         /\ \E to \in {"ACCEPTED", "DECLINED"} :
              pass' = [pass EXCEPT ![p] = [pass[p] EXCEPT !.cash = to]]
BY DEF SettleTillAlone

------------------------------------------------------------------------------
(* The types stand *)

LEMMA TurnsTyped ==
  ASSUME ShiftsTypeOK, NEW c \in Visit, NEW x \in Visits,
         visit' = [visit EXCEPT ![c] = x], duty' = duty, pass' = pass,
         shift' \in [Shift -> ShiftRow],
         \A t \in Shift : shift'[t].status = "OPEN" => shift'[t].by \in Person
  PROVE  ShiftsTypeOK'
BY VisitTyped DEF ShiftsTypeOK, OnShift

LEMMA PassTyped ==
  ASSUME ShiftsTypeOK, visit' \in [Visit -> Visits], UNCHANGED <<shift, duty>>,
         pass' \in [Pass -> PassRow],
         \A q \in Pass : pass'[q].status # "NONE" => pass'[q].to \in Person
  PROVE  ShiftsTypeOK'
BY DEF ShiftsTypeOK, OnShift

LEMMA TypesInitially == ShiftsInit => ShiftsTypeOK
<1> SUFFICES ASSUME ShiftsInit PROVE ShiftsTypeOK
  OBVIOUS
<1> DEFINE b == CHOOSE b \in Site : TRUE
<1>1. b \in Site
  OBVIOUS
<1> HIDE DEF b
<1>2. [status |-> "NONE", by |-> NoOne, site |-> b, duty |-> NoDuty] \in ShiftRow
  BY <1>1 DEF ShiftRow
<1>3. [status |-> "NONE", from |-> NoOne, to |-> NoOne, site |-> b, shift |-> NoShift,
       cash |-> "NONE"] \in PassRow
  BY <1>1 DEF PassRow
<1>4. shift \in [Shift -> ShiftRow] /\ \A s \in Shift : shift[s].status = "NONE"
  BY <1>2 DEF ShiftsInit, b
<1>5. pass \in [Pass -> PassRow] /\ \A p \in Pass : pass[p].status = "NONE"
  BY <1>3 DEF ShiftsInit, b
<1> QED
  BY <1>4, <1>5, NoVisitTyped DEF ShiftsInit, ShiftsTypeOK, OnShift

\* A new session for the entry, and the one that was seen is closed.
LEMMA LinkNewWrites ==
  ASSUME ShiftsTypeOK, NEW d \in Duty, NEW s \in Shift \cup {NoShift}, LinkNew(d, s)
  PROVE  /\ shift' \in [Shift -> ShiftRow]
         /\ \A t \in Shift : shift'[t].status = "OPEN" => shift'[t].by \in Person
         /\ \E n \in Vacant :
              /\ n \in Shift /\ shift'[n] = Clocked(Rota[d].by, Rota[d].site, d)
              /\ \A k \in Shift : k # n =>
                   shift'[k] = IF k = s THEN [shift[k] EXCEPT !.status = "CLOSED"] ELSE shift[k]
<1>1. PICK n \in Vacant : shift' =
        [k \in Shift |-> IF k = n THEN Clocked(Rota[d].by, Rota[d].site, d)
                         ELSE IF k = s THEN [shift[k] EXCEPT !.status = "CLOSED"] ELSE shift[k]]
  BY DEF LinkNew
<1>2. n \in Shift
  BY DEF Vacant
<1>3. Clocked(Rota[d].by, Rota[d].site, d) \in ShiftRow /\ Rota[d].by \in Person
  BY ClockedTyped
<1>4. Clocked(Rota[d].by, Rota[d].site, d).by = Rota[d].by
  BY DEF Clocked
<1>5. \A k \in Shift : shift[k] \in ShiftRow /\ (shift[k].status = "OPEN" => shift[k].by \in Person)
  BY DEF ShiftsTypeOK, OnShift
<1>6. \A k \in Shift :
        /\ shift'[k] \in ShiftRow
        /\ shift'[k].status = "OPEN" => shift'[k].by \in Person
  <2> SUFFICES ASSUME NEW k \in Shift
               PROVE  /\ shift'[k] \in ShiftRow
                      /\ shift'[k].status = "OPEN" => shift'[k].by \in Person
    OBVIOUS
  <2> DEFINE closed == [shift[k] EXCEPT !.status = "CLOSED"]
  <2>1. closed \in ShiftRow /\ closed.status = "CLOSED"
    BY <1>5, ShiftRows
  <2> HIDE DEF closed
  <2>2. shift'[k] = Clocked(Rota[d].by, Rota[d].site, d) \/ shift'[k] = closed \/ shift'[k] = shift[k]
    BY <1>1 DEF closed
  <2> QED
    BY <2>1, <2>2, <1>3, <1>4, <1>5
<1>7. shift' \in [Shift -> ShiftRow]
  BY <1>1, <1>6
<1>8. /\ shift'[n] = Clocked(Rota[d].by, Rota[d].site, d)
      /\ \A k \in Shift : k # n =>
           shift'[k] = IF k = s THEN [shift[k] EXCEPT !.status = "CLOSED"] ELSE shift[k]
  BY <1>1, <1>2
<1> QED
  BY <1>2, <1>6, <1>7, <1>8

LEMMA TypesStep ==
  ASSUME ShiftsTypeOK, ShiftsNext
  PROVE  ShiftsTypeOK'
<1>1. ASSUME NEW c \in Visit, NEW s \in Shift, EndShift(c, s) PROVE ShiftsTypeOK'
  BY <1>1, EndShiftTurn, TurnTyped
<1>2. ASSUME NEW c \in Visit, NEW u \in Person, NEW b \in Site, SignIn(c, u, b)
      PROVE ShiftsTypeOK'
  BY <1>2, SignInTurn, TurnTyped
<1>3. ASSUME NEW c \in Visit, FindOpen(c) PROVE ShiftsTypeOK'
  BY <1>3, FindOpenTurn, TurnTyped
<1>4. ASSUME NEW c \in Visit, openShift(c) PROVE ShiftsTypeOK'
  <2>0. shift \in [Shift -> ShiftRow] /\ \A t \in Shift : shift[t].status = "OPEN" => shift[t].by \in Person
    BY DEF ShiftsTypeOK, OnShift
  <2>1. visit' = [visit EXCEPT ![c] = NoVisit] /\ duty' = duty /\ pass' = pass
    BY <1>4, OpenShiftActs
  <2>2. CASE shift' = shift
    BY <2>0, <2>1, <2>2, NoVisitTyped, TurnsTyped
  <2>3. ASSUME NEW u \in Person, NEW b \in Site, NEW s \in Vacant,
               shift' = [shift EXCEPT ![s] = Clocked(u, b, NoDuty)]
        PROVE  ShiftsTypeOK'
    <3>1. Clocked(u, b, NoDuty) \in ShiftRow /\ Clocked(u, b, NoDuty).by \in Person
      BY ClockedTyped DEF Clocked
    <3>2. s \in Shift
      BY DEF Vacant
    <3>3. /\ shift' \in [Shift -> ShiftRow]
          /\ \A t \in Shift : shift'[t].status = "OPEN" => shift'[t].by \in Person
      BY <3>1, <3>2, <2>3, ShiftWritten
    <3> QED
      BY <3>3, <2>1, NoVisitTyped, TurnsTyped
  <2> QED
    BY <1>4, OpenShiftActs, <2>2, <2>3
<1>5. ASSUME NEW c \in Visit, closeShift(c) PROVE ShiftsTypeOK'
  <2>1. ASSUME NEW s \in Shift, NEW x \in Visits, UNCHANGED <<duty, pass>>,
               shift' = [shift EXCEPT ![s] = [shift[s] EXCEPT !.status = "CLOSED"]],
               visit' = [visit EXCEPT ![c] = x]
        PROVE  ShiftsTypeOK'
    <3> DEFINE row == [shift[s] EXCEPT !.status = "CLOSED"]
    <3>1. row \in ShiftRow /\ row.status = "CLOSED"
      BY ShiftRows DEF ShiftsTypeOK
    <3> HIDE DEF row
    <3>2. /\ shift' \in [Shift -> ShiftRow]
          /\ \A t \in Shift : shift'[t].status = "OPEN" => shift'[t].by \in Person
      BY <3>1, <2>1, ShiftWritten DEF row
    <3> QED
      BY <3>2, <2>1, TurnsTyped
  <2>2. ASSUME NEW x \in Visits, Turn(c, x) PROVE ShiftsTypeOK'
    BY <2>2, TurnTyped
  <2> QED
    BY <1>5, CloseShiftActs, <2>1, <2>2
<1>6. ASSUME NEW c \in Visit, CompleteDuty(c) PROVE ShiftsTypeOK'
  <2>1. /\ UNCHANGED <<shift, pass>>
        /\ duty' = [d \in Duty |-> IF duty[d] = "STARTED" /\ shift[visit[c].shift].duty = d
                                   THEN "COMPLETED" ELSE duty[d]]
    BY <1>6, CompleteDutyActs
  <2>2. duty' \in [Duty -> {"PLANNED", "STARTED", "COMPLETED", "CANCELLED"}]
    BY <2>1 DEF ShiftsTypeOK
  <2>3. visit' \in [Visit -> Visits]
    BY <1>6, CompleteDutyActs, VisitTyped
  <2> QED
    BY <2>1, <2>2, <2>3 DEF ShiftsTypeOK, OnShift
<1>7. ASSUME NEW c \in Visit, NEW d \in Duty, JudgeStart(c, d) PROVE ShiftsTypeOK'
  BY <1>7, JudgeStartTurn, StartingTyped, TurnTyped
<1>8. ASSUME NEW c \in Visit, linkReceiverShift(c) PROVE ShiftsTypeOK'
  BY <1>8, LinkReceiverTurn, NoVisitTyped, StartingTyped, TurnTyped
<1>9. ASSUME NEW c \in Visit, startAssignedShift(c) PROVE ShiftsTypeOK'
  <2>1. /\ visit' = [visit EXCEPT ![c] = NoVisit] /\ pass' = pass
        /\ visit[c].duty \in Duty /\ visit[c].seen \in Shift \cup {NoShift}
    BY <1>9, StartActs
  <2>2. visit' \in [Visit -> Visits]
    BY <2>1, NoVisitTyped, VisitTyped
  <2> DEFINE d == visit[c].duty
             s == visit[c].seen
  <2>3. CASE UNCHANGED <<shift, duty>>
    BY <2>1, <2>2, <2>3 DEF ShiftsTypeOK, OnShift
  <2>4. CASE /\ Linkable(d, s) /\ duty' = [duty EXCEPT ![d] = "STARTED"]
             /\ IF Elsewhere(d, s) THEN LinkNew(d, s) ELSE LinkOpen(d, s)
    <3>1. /\ shift' \in [Shift -> ShiftRow]
          /\ \A t \in Shift : shift'[t].status = "OPEN" => shift'[t].by \in Person
      <4>1. CASE Elsewhere(d, s)
        BY <4>1, <2>1, <2>4, LinkNewWrites
      <4>2. CASE ~Elsewhere(d, s)
        <5>1. s \in Shift /\ LinkOpen(d, s)
          BY <4>2, <2>1, <2>4 DEF Elsewhere
        <5> DEFINE row == [shift[s] EXCEPT !.duty = d]
        <5>2. row \in ShiftRow /\ row.status = shift[s].status /\ row.by = shift[s].by
          BY <5>1, <2>1, ShiftRows DEF ShiftsTypeOK
        <5>3. shift' = [shift EXCEPT ![s] = row]
          BY <5>1 DEF LinkOpen
        <5>4. row.status = "OPEN" => row.by \in Person
          BY <5>1, <5>2 DEF ShiftsTypeOK, OnShift
        <5> HIDE DEF row
        <5> QED
          BY <5>1, <5>2, <5>3, <5>4, ShiftWritten
      <4> QED
        BY <4>1, <4>2
    <3> QED
      BY <2>1, <2>2, <2>4, <3>1 DEF ShiftsTypeOK, OnShift
  <2> QED
    BY <1>9, StartActs, <2>3, <2>4
<1>10. ASSUME NEW c \in Visit, NEW u \in Person, NEW v \in Person, NEW b \in Site, NEW p \in Pass,
              startShiftHandover(c, u, v, b, p)
       PROVE  ShiftsTypeOK'
  BY <1>10, StartHandoverTurn, TurnTyped
<1>11. ASSUME NEW c \in Visit, RequestTill(c) PROVE ShiftsTypeOK'
  <2>1. PICK p \in Pass, x \in Visits :
          /\ pass' = [pass EXCEPT ![p] = [pass[p] EXCEPT !.cash = "PENDING"]]
          /\ visit' = [visit EXCEPT ![c] = x]
    BY <1>11, RequestTillActs
  <2> DEFINE row == [pass[p] EXCEPT !.cash = "PENDING"]
  <2>2. pass[p] \in PassRow /\ (pass[p].status # "NONE" => pass[p].to \in Person)
    BY DEF ShiftsTypeOK
  <2>3. row \in PassRow /\ (row.status # "NONE" => row.to \in Person)
    BY <2>2, CashWritten
  <2> HIDE DEF row
  <2>4. /\ pass' \in [Pass -> PassRow]
        /\ \A q \in Pass : pass'[q].status # "NONE" => pass'[q].to \in Person
    BY <2>1, <2>3, PassWritten DEF row
  <2>5. visit' \in [Visit -> Visits] /\ UNCHANGED <<shift, duty>>
    BY <1>11, <2>1, RequestTillActs, VisitTyped
  <2> QED
    BY <2>4, <2>5, PassTyped
<1>12. ASSUME NEW c \in Visit, RecordPass(c) PROVE ShiftsTypeOK'
  <2>1. UNCHANGED <<shift, duty>> /\ visit' \in [Visit -> Visits]
    BY <1>12, RecordPassActs, NoVisitTyped, VisitTyped
  <2>2. CASE pass' = pass
    BY <2>1, <2>2 DEF ShiftsTypeOK, OnShift
  <2>3. ASSUME NEW p \in Pass, NEW row \in PassRow, pass' = [pass EXCEPT ![p] = row],
               row.to \in Person
        PROVE  ShiftsTypeOK'
    <3>1. /\ pass' \in [Pass -> PassRow]
          /\ \A q \in Pass : pass'[q].status # "NONE" => pass'[q].to \in Person
      BY <2>3, PassWritten
    <3> QED
      BY <2>1, <3>1, PassTyped
  <2>4. pass' = pass \/ \E p \in Pass, row \in PassRow :
                           pass' = [pass EXCEPT ![p] = row] /\ row.to \in Person
    BY <1>12, RecordPassActs
  <2> QED
    BY ONLY <2>2, <2>3, <2>4
<1>13. ASSUME NEW c \in Visit, NEW p \in Pass, NEW as \in {"COMPLETED", "REJECTED", "CANCELLED"},
              JudgeSettle(c, p, as)
       PROVE  ShiftsTypeOK'
  <2>0. ShiftsTypeOK
    OBVIOUS
  <2>1. PICK x \in Visits : Turn(c, x)
    BY ONLY <1>13, <2>0, JudgeSettleTurn
  <2> QED
    BY <2>1, TurnTyped
<1>14. ASSUME NEW c \in Visit, SettleTill(c) PROVE ShiftsTypeOK'
  <2>1. CASE Turn(c, NoVisit)
    BY <2>1, NoVisitTyped, TurnTyped
  <2>2. ASSUME NEW p \in Pass, NEW x \in Visits,
               pass' = [pass EXCEPT ![p] = [pass[p] EXCEPT !.cash = WithIt(x.as)]],
               visit' = [visit EXCEPT ![c] = x], UNCHANGED <<shift, duty>>
        PROVE  ShiftsTypeOK'
    <3> DEFINE to == WithIt(x.as)
               row == [pass[p] EXCEPT !.cash = to]
    <3>1. pass[p] \in PassRow /\ (pass[p].status # "NONE" => pass[p].to \in Person)
      BY DEF ShiftsTypeOK
    <3>2. to \in {"PENDING", "ACCEPTED", "DECLINED", "CANCELLED"}
      BY DEF WithIt
    <3> HIDE DEF to
    <3>6. row \in PassRow /\ row.status = pass[p].status /\ row.to = pass[p].to
      BY ONLY <3>1, <3>2, CashWritten
    <3>3. row.status # "NONE" => row.to \in Person
      BY <3>1, <3>6
    <3> HIDE DEF row
    <3>4. /\ pass' \in [Pass -> PassRow]
          /\ \A q \in Pass : pass'[q].status # "NONE" => pass'[q].to \in Person
      BY <2>2, <3>3, <3>6, PassWritten DEF row, to
    <3>5. visit' \in [Visit -> Visits]
      BY <2>2, VisitTyped
    <3> QED
      BY <2>2, <3>4, <3>5, PassTyped
  <2> QED
    BY <1>14, SettleTillActs, <2>1, <2>2
<1>15. ASSUME NEW c \in Visit, SettlePass(c) PROVE ShiftsTypeOK'
  <2>1. CASE Turn(c, NoVisit)
    BY <2>1, NoVisitTyped, TurnTyped
  <2>2. ASSUME NEW p \in Pass, NEW x \in Visits, Waiting(p),
               visit[c].as \in {"COMPLETED", "REJECTED", "CANCELLED"},
               pass' = [pass EXCEPT ![p] = [pass[p] EXCEPT !.status = visit[c].as]],
               visit' = [visit EXCEPT ![c] = x], UNCHANGED <<shift, duty>>
        PROVE  ShiftsTypeOK'
    <3> DEFINE row == [pass[p] EXCEPT !.status = visit[c].as]
    <3>1. pass[p] \in PassRow /\ pass[p].to \in Person
      BY <2>2 DEF ShiftsTypeOK, Waiting
    <3>2. row \in PassRow /\ row.to \in Person
      BY ONLY <2>2, <3>1, StatusWritten
    <3> HIDE DEF row
    <3>3. /\ pass' \in [Pass -> PassRow]
          /\ \A q \in Pass : pass'[q].status # "NONE" => pass'[q].to \in Person
      BY <2>2, <3>2, PassWritten DEF row
    <3>4. visit' \in [Visit -> Visits]
      BY <2>2, VisitTyped
    <3> QED
      BY <2>2, <3>3, <3>4, PassTyped
  <2> QED
    BY <1>15, SettlePassActs, <2>1, <2>2
<1>16. ASSUME NEW c \in Visit, Abandon(c) PROVE ShiftsTypeOK'
  BY <1>16, AbandonTurn, NoVisitTyped, TurnTyped
<1>17. ASSUME NEW d \in Duty, cancelShiftAssignment(d) PROVE ShiftsTypeOK'
  BY <1>17 DEF cancelShiftAssignment, ShiftsTypeOK, OnShift
<1>18. ASSUME NEW p \in Pass, SettleTillAlone(p) PROVE ShiftsTypeOK'
  <2>1. PICK to \in {"ACCEPTED", "DECLINED"} :
          pass' = [pass EXCEPT ![p] = [pass[p] EXCEPT !.cash = to]]
    BY <1>18, SettleTillAloneActs
  <2> DEFINE row == [pass[p] EXCEPT !.cash = to]
  <2>2. pass[p] \in PassRow /\ (pass[p].status # "NONE" => pass[p].to \in Person)
    BY DEF ShiftsTypeOK
  <2>6. to \in {"PENDING", "ACCEPTED", "DECLINED", "CANCELLED"}
    OBVIOUS
  <2>7. row \in PassRow /\ row.status = pass[p].status /\ row.to = pass[p].to
    BY ONLY <2>2, <2>6, CashWritten
  <2>3. row \in PassRow /\ (row.status # "NONE" => row.to \in Person)
    BY <2>2, <2>7
  <2> HIDE DEF row
  <2>4. /\ pass' \in [Pass -> PassRow]
        /\ \A q \in Pass : pass'[q].status # "NONE" => pass'[q].to \in Person
    BY <2>1, <2>3, PassWritten DEF row
  <2>5. visit' \in [Visit -> Visits] /\ UNCHANGED <<shift, duty>>
    BY <1>18, SettleTillAloneActs DEF ShiftsTypeOK
  <2> QED
    BY <2>4, <2>5, PassTyped
<1> QED
  BY <1>1, <1>2, <1>3, <1>4, <1>5, <1>6, <1>7, <1>8, <1>9, <1>10, <1>11, <1>12, <1>13,
     <1>14, <1>15, <1>16, <1>17, <1>18 DEF ShiftsNext

------------------------------------------------------------------------------
(* The till goes with the shift *)

\* A step that leaves the handovers alone and asks for none, settles none.
LEMMA HandoverQuiet ==
  ASSUME HandoverInv, ShiftsTypeOK', pass' = pass, NEW c \in Visit, NEW x \in Visits,
         visit' = [visit EXCEPT ![c] = x], x.op \notin {"count", "record", "till", "row"}
  PROVE  HandoverInv'
<1>1. visit'[c] = x /\ \A k \in Visit : k # c => visit'[k] = visit[k]
  BY VisitTyped DEF HandoverInv
<1>2. TillFollowsShift'
  BY DEF HandoverInv, TillFollowsShift
<1> QED
  BY <1>1, <1>2 DEF HandoverInv, Asking, Settling, Waiting

LEMMA HandoverStart ==
  ASSUME HandoverInv, ShiftsTypeOK', NEW p \in Pass, Unused(p), NEW c \in Visit, NEW x \in Visits,
         Turn(c, x), x.op \in {"count", "record"}, x.pass = p
  PROVE  HandoverInv'
<1>1. visit'[c] = x /\ \A k \in Visit : k # c => visit'[k] = visit[k]
  BY VisitTyped DEF HandoverInv, Turn
<1>2. TillFollowsShift' /\ pass' = pass
  BY DEF HandoverInv, TillFollowsShift, Turn
<1>3. pass[p].status = "NONE" /\ pass[p].cash = "NONE" /\ \A k \in Visit : Asking(k) => visit[k].pass # p
  BY DEF Unused, Asking
<1> QED
  BY <1>1, <1>2, <1>3 DEF HandoverInv, Asking, Settling, Waiting

LEMMA HandoverJudge ==
  ASSUME HandoverInv, ShiftsTypeOK', NEW p \in Pass, Waiting(p), NEW c \in Visit, NEW x \in Visits,
         Turn(c, x), x.op \in {"till", "row"}, x.pass = p, x.op = "row" => pass[p].cash = "NONE"
  PROVE  HandoverInv'
<1>1. visit'[c] = x /\ \A k \in Visit : k # c => visit'[k] = visit[k]
  BY VisitTyped DEF HandoverInv, Turn
<1>2. TillFollowsShift' /\ pass' = pass
  BY DEF HandoverInv, TillFollowsShift, Turn
<1> QED
  BY <1>1, <1>2 DEF HandoverInv, Asking, Settling, Waiting

LEMMA HandoverTillAsked ==
  ASSUME HandoverInv, ShiftsTypeOK', NEW c \in Visit, RequestTill(c)
  PROVE  HandoverInv'
<1>0. ShiftsTypeOK /\ visit[c].op = "count"
  BY RequestTillActs DEF HandoverInv
<1>1. PICK p \in Pass, x \in Visits :
        /\ p = visit[c].pass /\ pass' = [pass EXCEPT ![p] = [pass[p] EXCEPT !.cash = "PENDING"]]
        /\ visit' = [visit EXCEPT ![c] = x] /\ x.op = "record" /\ x.pass = p
  BY <1>0, RequestTillActs
<1>2. visit'[c] = x /\ \A k \in Visit : k # c => visit'[k] = visit[k]
  BY <1>0, <1>1, VisitTyped
<1> DEFINE row == [pass[p] EXCEPT !.cash = "PENDING"]
<1>3. row \in PassRow /\ row.status = pass[p].status
  BY <1>0, CashWritten DEF ShiftsTypeOK
<1> HIDE DEF row
<1>4. pass'[p] = row /\ \A q \in Pass : q # p => pass'[q] = pass[q]
  BY <1>0, <1>1, <1>3, PassWritten DEF row
<1>5. pass[p].status = "NONE"
  BY <1>0, <1>1 DEF HandoverInv, Asking
<1>6. \A k \in Visit : k # c => ~(Asking(k) /\ visit[k].pass = p) /\ ~(Settling(k) /\ visit[k].pass = p)
  BY <1>0, <1>1, <1>5 DEF HandoverInv, Asking
<1>7. TillFollowsShift'
  BY <1>3, <1>4, <1>5 DEF HandoverInv, TillFollowsShift
<1>8. \A k \in Visit : Asking(k) \/ Settling(k) => visit[k].pass \in Pass
  BY <1>0, VisitKinds DEF Asking, Settling
<1>9. \A k \in Visit : k # c /\ (Asking(k) \/ Settling(k)) => pass'[visit[k].pass] = pass[visit[k].pass]
  BY <1>4, <1>6, <1>8
<1> QED
  BY <1>1, <1>2, <1>3, <1>4, <1>5, <1>6, <1>7, <1>9
     DEF HandoverInv, Asking, Settling, Waiting

LEMMA HandoverRecorded ==
  ASSUME HandoverInv, ShiftsTypeOK', NEW c \in Visit, RecordPass(c)
  PROVE  HandoverInv'
<1>0. ShiftsTypeOK /\ visit[c].op = "record" /\ visit' = [visit EXCEPT ![c] = NoVisit]
  BY RecordPassActs DEF HandoverInv
<1>1. CASE pass' = pass
  BY <1>0, <1>1, NoVisitTyped, HandoverQuiet
<1>2. ASSUME NEW p \in Pass, NEW row \in PassRow, p = visit[c].pass,
             pass' = [pass EXCEPT ![p] = row], row.status = "PENDING_ACCEPTANCE",
             row.cash = pass[p].cash
      PROVE  HandoverInv'
  <2>1. visit'[c].op = "none" /\ \A k \in Visit : k # c => visit'[k] = visit[k]
    BY <1>0, VisitTyped, NoVisitTyped
  <2>2. pass'[p] = row /\ \A q \in Pass : q # p => pass'[q] = pass[q]
    BY <1>0, <1>2, PassWritten
  <2>3. pass[p].status = "NONE"
    BY <1>0, <1>2 DEF HandoverInv, Asking
  <2>4. \A k \in Visit : k # c => ~(Asking(k) /\ visit[k].pass = p) /\ ~(Settling(k) /\ visit[k].pass = p)
    BY <1>0, <1>2, <2>3 DEF HandoverInv, Asking
  <2>5. TillFollowsShift'
    BY <1>2, <2>2 DEF HandoverInv, TillFollowsShift
  <2>6. \A k \in Visit : Asking(k) \/ Settling(k) => visit[k].pass \in Pass
    BY <1>0, VisitKinds DEF Asking, Settling
  <2>7. \A k \in Visit : k # c /\ (Asking(k) \/ Settling(k)) => pass'[visit[k].pass] = pass[visit[k].pass]
    BY <2>2, <2>4, <2>6
  <2> QED
    BY <2>1, <2>2, <2>4, <2>5, <2>7 DEF HandoverInv, Asking, Settling, Waiting
<1> QED
  BY <1>0, <1>1, <1>2, RecordPassActs

\* The till of a handover that was asked for moves, as the call that moves it has it.
LEMMA HandoverTillMoves ==
  ASSUME HandoverInv, ShiftsTypeOK', NEW p \in Pass, TillPending(p),
         NEW to \in {"ACCEPTED", "DECLINED", "CANCELLED"},
         pass' = [pass EXCEPT ![p] = [pass[p] EXCEPT !.cash = to]],
         \A k \in Visit :
           \/ visit'[k] = visit[k]
           \/ /\ visit'[k].op = "row" /\ visit'[k].pass = p /\ visit[k].op = "till"
              /\ visit[k].pass = p /\ to = WithIt(visit'[k].as)
  PROVE  HandoverInv'
<1> DEFINE row == [pass[p] EXCEPT !.cash = to]
<1>0. ShiftsTypeOK
  BY DEF HandoverInv
<1>1. row \in PassRow /\ row.status = pass[p].status /\ row.cash = to
  BY <1>0, CashWritten DEF ShiftsTypeOK
<1> HIDE DEF row
<1>2. pass'[p] = row /\ \A q \in Pass : q # p => pass'[q] = pass[q]
  BY <1>0, <1>1, PassWritten DEF row
<1>3. pass[p].status \notin {"COMPLETED", "REJECTED", "CANCELLED"}
  BY DEF HandoverInv, TillFollowsShift, TillPending, WithIt
<1>4. TillFollowsShift'
  BY <1>1, <1>2, <1>3 DEF HandoverInv, TillFollowsShift
<1>5. \A k \in Visit : Asking(k) \/ Settling(k) => visit[k].pass \in Pass
  BY <1>0, VisitKinds DEF Asking, Settling
<1>6. \A k \in Visit : visit[k].op = "count" => visit[k].pass # p
  BY DEF HandoverInv, TillPending
<1>7. \A k \in Visit : visit[k].op = "row" /\ visit[k].pass = p => ~Waiting(p)
  BY DEF HandoverInv, TillPending, WithIt
<1>8. \A q \in Pass : pass'[q].status = pass[q].status
  BY <1>1, <1>2
<1>9. \A k \in Visit : Asking(k)' => Asking(k) /\ visit'[k] = visit[k]
  BY DEF Asking
<1>10. \A k \in Visit : Settling(k)' => Settling(k) /\ visit'[k].pass = visit[k].pass
  BY DEF Settling
<1>11. \A k \in Visit : visit'[k].op = "count" => pass'[visit'[k].pass].cash = "NONE"
  BY <1>2, <1>5, <1>6, <1>9 DEF HandoverInv, Asking
<1>12. ASSUME NEW k \in Visit, visit'[k].op = "row", pass'[visit'[k].pass].status = "PENDING_ACCEPTANCE"
       PROVE  pass'[visit'[k].pass].cash \in {"NONE", WithIt(visit'[k].as)}
  <2>1. CASE visit'[k] = visit[k]
    <3>1. visit[k].pass \in Pass /\ Waiting(visit[k].pass)
      BY <1>5, <1>8, <1>12, <2>1 DEF Settling, Waiting
    <3>2. visit[k].pass # p
      BY <1>7, <1>12, <2>1, <3>1
    <3> QED
      BY <1>2, <1>12, <2>1, <3>1, <3>2 DEF HandoverInv
  <2>2. CASE visit'[k].pass = p /\ to = WithIt(visit'[k].as)
    BY <1>1, <1>2, <2>2
  <2> QED
    BY <2>1, <2>2
<1>13. \A k \in Visit : Asking(k)' => pass'[visit'[k].pass].status = "NONE"
  BY <1>5, <1>8, <1>9 DEF HandoverInv
<1>14. \A k \in Visit : Settling(k)' => pass'[visit'[k].pass].status # "NONE"
  BY <1>5, <1>8, <1>10 DEF HandoverInv
<1>15. \A k, j \in Visit : Asking(k)' /\ Asking(j)' /\ visit'[k].pass = visit'[j].pass => k = j
  BY <1>9 DEF HandoverInv
<1> QED
  BY <1>4, <1>11, <1>12, <1>13, <1>14, <1>15 DEF HandoverInv, Waiting

LEMMA HandoverTillSettled ==
  ASSUME HandoverInv, ShiftsTypeOK', NEW c \in Visit, SettleTill(c)
  PROVE  HandoverInv'
<1>0. ShiftsTypeOK
  BY DEF HandoverInv
<1>1. CASE Turn(c, NoVisit)
  BY <1>1, NoVisitTyped, HandoverQuiet DEF Turn
<1>2. ASSUME NEW p \in Pass, NEW x \in Visits, visit[c].op = "till",
             p = visit[c].pass, TillPending(p),
             pass' = [pass EXCEPT ![p] = [pass[p] EXCEPT !.cash = WithIt(x.as)]],
             visit' = [visit EXCEPT ![c] = x], x.op = "row", x.pass = p,
             x.as \in {"COMPLETED", "REJECTED", "CANCELLED"}
      PROVE  HandoverInv'
  <2>1. visit'[c] = x /\ \A k \in Visit : k # c => visit'[k] = visit[k]
    BY <1>0, <1>2, VisitTyped
  <2> DEFINE to == WithIt(x.as)
  <2>2. to \in {"ACCEPTED", "DECLINED", "CANCELLED"}
    BY <1>2 DEF WithIt
  <2>3. /\ pass' = [pass EXCEPT ![p] = [pass[p] EXCEPT !.cash = to]]
        /\ to = WithIt(visit'[c].as)
    BY <1>2, <2>1
  <2> HIDE DEF to
  <2>4. \A k \in Visit :
           \/ visit'[k] = visit[k]
           \/ /\ visit'[k].op = "row" /\ visit'[k].pass = p /\ visit[k].op = "till"
              /\ visit[k].pass = p /\ to = WithIt(visit'[k].as)
    BY <1>2, <2>1, <2>3
  <2>5. TillPending(p)
    BY <1>2
  <2> QED
    BY ONLY HandoverInv, ShiftsTypeOK', <2>2, <2>3, <2>4, <2>5, HandoverTillMoves
<1>3. CASE ~Turn(c, NoVisit)
  <2>1. visit[c].op = "till" /\ \E p \in Pass, x \in Visits :
          /\ p = visit[c].pass /\ TillPending(p)
          /\ pass' = [pass EXCEPT ![p] = [pass[p] EXCEPT !.cash = WithIt(x.as)]]
          /\ visit' = [visit EXCEPT ![c] = x] /\ x.op = "row" /\ x.pass = p
          /\ x.as \in {"COMPLETED", "REJECTED", "CANCELLED"}
    BY <1>0, <1>3, SettleTillActs
  <2> QED
    BY <1>2, <2>1
<1> QED
  BY <1>1, <1>3

LEMMA HandoverSettled ==
  ASSUME HandoverInv, ShiftsTypeOK', NEW c \in Visit, SettlePass(c)
  PROVE  HandoverInv'
<1>0. ShiftsTypeOK
  BY DEF HandoverInv
<1>1. CASE Turn(c, NoVisit)
  BY <1>1, NoVisitTyped, HandoverQuiet DEF Turn
<1>2. ASSUME NEW p \in Pass, NEW x \in Visits, visit[c].op = "row",
             p = visit[c].pass, Waiting(p), visit[c].as \in {"COMPLETED", "REJECTED", "CANCELLED"},
             pass' = [pass EXCEPT ![p] = [pass[p] EXCEPT !.status = visit[c].as]],
             visit' = [visit EXCEPT ![c] = x], x.op \in {"none", "link", "close"}
      PROVE  HandoverInv'
  <2>1. visit'[c] = x /\ \A k \in Visit : k # c => visit'[k] = visit[k]
    BY <1>0, <1>2, VisitTyped
  <2> DEFINE row == [pass[p] EXCEPT !.status = visit[c].as]
  <2>2. row \in PassRow /\ row.status = visit[c].as /\ row.cash = pass[p].cash
    BY <1>0, <1>2, StatusWritten DEF ShiftsTypeOK
  <2> HIDE DEF row
  <2>3. pass'[p] = row /\ \A q \in Pass : q # p => pass'[q] = pass[q]
    BY <1>0, <1>2, <2>2, PassWritten DEF row
  <2>4. row.cash \in {"NONE", WithIt(row.status)}
    BY <1>2, <2>2 DEF HandoverInv
  <2>5. TillFollowsShift'
    BY <2>3, <2>4 DEF HandoverInv, TillFollowsShift
  <2>6. \A k \in Visit : Asking(k) \/ Settling(k) => visit[k].pass \in Pass
    BY <1>0, VisitKinds DEF Asking, Settling
  <2>7. \A k \in Visit : Asking(k) => visit[k].pass # p
    BY <1>2 DEF HandoverInv, Waiting
  <2>8. /\ pass'[p].status # "NONE" /\ pass'[p].status # "PENDING_ACCEPTANCE"
    BY <1>2, <2>2, <2>3
  <2>9. \A k \in Visit : (Asking(k)' => Asking(k)) /\ (Settling(k)' => Settling(k))
    BY <1>2, <2>1 DEF Asking, Settling
  <2>10. \A k \in Visit : Asking(k)' \/ Settling(k)' => k # c
    BY <1>2, <2>1 DEF Asking, Settling
  <2>11. \A k \in Visit : Asking(k)' => pass'[visit'[k].pass] = pass[visit[k].pass] /\ visit'[k] = visit[k]
    BY <2>1, <2>3, <2>6, <2>7, <2>9, <2>10
  <2>12. \A k \in Visit : Settling(k)' =>
            visit'[k] = visit[k] /\ (visit[k].pass = p \/ pass'[visit'[k].pass] = pass[visit[k].pass])
    BY <2>1, <2>3, <2>6, <2>9, <2>10
  <2>13. /\ \A k \in Visit : Asking(k)' => pass'[visit'[k].pass].status = "NONE"
         /\ \A k \in Visit : visit'[k].op = "count" => pass'[visit'[k].pass].cash = "NONE"
         /\ \A k, j \in Visit : Asking(k)' /\ Asking(j)' /\ visit'[k].pass = visit'[j].pass => k = j
    BY <2>9, <2>11 DEF HandoverInv, Asking
  <2>14. \A k \in Visit : Settling(k)' => pass'[visit'[k].pass].status # "NONE"
    BY <2>8, <2>9, <2>12 DEF HandoverInv
  <2>15. \A k \in Visit : visit'[k].op = "row" /\ pass'[visit'[k].pass].status = "PENDING_ACCEPTANCE" =>
            pass'[visit'[k].pass].cash \in {"NONE", WithIt(visit'[k].as)}
    BY <2>8, <2>12 DEF HandoverInv, Settling, Waiting
  <2> QED
    BY ONLY ShiftsTypeOK', <2>5, <2>13, <2>14, <2>15 DEF HandoverInv, Waiting, Asking, Settling
<1> QED
  BY <1>0, <1>1, <1>2, SettlePassActs

LEMMA PassesStep ==
  ASSUME HandoverInv, ShiftsNext
  PROVE  HandoverInv'
<1>0. ShiftsTypeOK /\ ShiftsTypeOK'
  BY TypesStep DEF HandoverInv
<1>1. ASSUME NEW c \in Visit, NEW s \in Shift, EndShift(c, s) PROVE HandoverInv'
  BY <1>0, <1>1, EndShiftTurn, HandoverQuiet DEF Turn
<1>2. ASSUME NEW c \in Visit, NEW u \in Person, NEW b \in Site, SignIn(c, u, b)
      PROVE HandoverInv'
  BY <1>0, <1>2, SignInTurn, HandoverQuiet DEF Turn
<1>3. ASSUME NEW c \in Visit, FindOpen(c) PROVE HandoverInv'
  BY <1>0, <1>3, FindOpenTurn, HandoverQuiet DEF Turn
<1>4. ASSUME NEW c \in Visit, openShift(c) PROVE HandoverInv'
  BY <1>0, <1>4, OpenShiftActs, NoVisitTyped, HandoverQuiet
<1>5. ASSUME NEW c \in Visit, closeShift(c) PROVE HandoverInv'
  BY <1>0, <1>5, CloseShiftActs, HandoverQuiet DEF Turn
<1>6. ASSUME NEW c \in Visit, CompleteDuty(c) PROVE HandoverInv'
  BY <1>0, <1>6, CompleteDutyActs, HandoverQuiet
<1>7. ASSUME NEW c \in Visit, NEW d \in Duty, JudgeStart(c, d) PROVE HandoverInv'
  BY <1>0, <1>7, JudgeStartTurn, StartingTyped, HandoverQuiet DEF Turn
<1>8. ASSUME NEW c \in Visit, linkReceiverShift(c) PROVE HandoverInv'
  BY <1>0, <1>8, LinkReceiverTurn, NoVisitTyped, StartingTyped, HandoverQuiet DEF Turn
<1>9. ASSUME NEW c \in Visit, startAssignedShift(c) PROVE HandoverInv'
  BY <1>0, <1>9, StartActs, NoVisitTyped, HandoverQuiet
<1>10. ASSUME NEW c \in Visit, NEW u \in Person, NEW v \in Person, NEW b \in Site, NEW p \in Pass,
              startShiftHandover(c, u, v, b, p)
       PROVE  HandoverInv'
  BY <1>0, <1>10, StartHandoverTurn, HandoverStart
<1>11. ASSUME NEW c \in Visit, RequestTill(c) PROVE HandoverInv'
  BY <1>0, <1>11, HandoverTillAsked
<1>12. ASSUME NEW c \in Visit, RecordPass(c) PROVE HandoverInv'
  BY <1>0, <1>12, HandoverRecorded
<1>13. ASSUME NEW c \in Visit, NEW p \in Pass, NEW as \in {"COMPLETED", "REJECTED", "CANCELLED"},
              JudgeSettle(c, p, as)
       PROVE  HandoverInv'
  <2>1. Waiting(p)
    BY <1>13 DEF JudgeSettle
  <2>2. PICK x \in Visits :
          /\ Turn(c, x) /\ x.op \in {"till", "row"} /\ x.pass = p
          /\ x.op = "row" => pass[p].cash = "NONE"
    BY ONLY <1>0, <1>13, JudgeSettleTurn, ZenonT(40)
  <2> QED
    BY <1>0, <2>1, <2>2, HandoverJudge
<1>14. ASSUME NEW c \in Visit, SettleTill(c) PROVE HandoverInv'
  BY <1>0, <1>14, HandoverTillSettled
<1>15. ASSUME NEW c \in Visit, SettlePass(c) PROVE HandoverInv'
  BY <1>0, <1>15, HandoverSettled
<1>16. ASSUME NEW c \in Visit, Abandon(c) PROVE HandoverInv'
  BY <1>0, <1>16, AbandonTurn, NoVisitTyped, HandoverQuiet DEF Turn
<1>17. ASSUME NEW d \in Duty, cancelShiftAssignment(d) PROVE HandoverInv'
  BY <1>0, <1>17
     DEF cancelShiftAssignment, HandoverInv, TillFollowsShift, Asking, Settling, Waiting
<1>18. ASSUME NEW p \in Pass, SettleTillAlone(p) PROVE HandoverInv'
  BY <1>0, <1>18, SettleTillAloneActs, HandoverTillMoves
<1> QED
  BY <1>1, <1>2, <1>3, <1>4, <1>5, <1>6, <1>7, <1>8, <1>9, <1>10, <1>11, <1>12, <1>13,
     <1>14, <1>15, <1>16, <1>17, <1>18 DEF ShiftsNext

\* A settled handover and its till agree, whoever settles either, and in whatever order.
THEOREM TillGoesWithShift == ShiftsSpec => []TillFollowsShift
<1>1. ShiftsInit => HandoverInv
  BY TypesInitially, NoVisitTyped
     DEF ShiftsInit, HandoverInv, TillFollowsShift, Asking, Settling, Waiting
<1>2. HandoverInv /\ [ShiftsNext]_shiftVars => HandoverInv'
  <2>1. HandoverInv /\ ShiftsNext => HandoverInv'
    BY PassesStep
  <2>2. HandoverInv /\ UNCHANGED shiftVars => HandoverInv'
    BY DEF shiftVars, HandoverInv, ShiftsTypeOK, OnShift, TillFollowsShift, Asking, Settling, Waiting
  <2> QED
    BY <2>1, <2>2
<1>3. HandoverInv => TillFollowsShift
  BY DEF HandoverInv
<1> QED
  BY <1>1, <1>2, <1>3, PTL DEF ShiftsSpec

------------------------------------------------------------------------------
(* An entry is worked once *)

\* A step that leaves the sessions and the rota alone, and begins nothing on them.
LEMMA RotaQuiet ==
  ASSUME RotaInv, ShiftsTypeOK', UNCHANGED <<shift, duty>>,
         \A k \in Visit : visit'[k] = visit[k] \/ visit'[k].op \notin {"start", "complete"}
  PROVE  RotaInv'
<1>1. /\ \A d \in Duty : WorkedOnce(d)' = WorkedOnce(d) /\ On(d)' = On(d)
      /\ \A u \in Person : Working(u)' = Working(u)
      /\ Vacant' = Vacant
  BY DEF WorkedOnce, On, Working, OnShift, Vacant
<1>2. \A k \in Visit : Starts(k)' => Starts(k) /\ visit'[k] = visit[k]
  BY DEF Starts
<1>3. \A k \in Visit : visit'[k].op = "complete" => visit'[k] = visit[k]
  OBVIOUS
<1> QED
  BY <1>1, <1>2, <1>3 DEF RotaInv

LEMMA RotaTurn ==
  ASSUME RotaInv, ShiftsTypeOK', NEW c \in Visit, NEW x \in Visits, UNCHANGED <<shift, duty>>,
         visit' = [visit EXCEPT ![c] = x], x.op \notin {"start", "complete"}
  PROVE  RotaInv'
BY RotaQuiet, VisitTyped DEF RotaInv

LEMMA RotaJudged ==
  ASSUME RotaInv, ShiftsTypeOK', NEW c \in Visit, NEW d \in Duty, Startable(d),
         NEW x \in Starting(d), Turn(c, x)
  PROVE  RotaInv'
<1>0. ShiftsTypeOK /\ UNCHANGED <<shift, duty>> /\ visit' = [visit EXCEPT ![c] = x]
  BY DEF RotaInv, Turn
<1>1. /\ x \in Visits /\ x.op = "start" /\ x.duty = d
      /\ x.seen = NoShift \/ (x.seen \in Working(Rota[d].by) /\ x.seen \in Shift)
  BY <1>0, StartingTyped
<1>2. visit'[c] = x /\ \A k \in Visit : k # c => visit'[k] = visit[k]
  BY <1>0, <1>1, VisitTyped
<1>3. duty[d] = "PLANNED" /\ \A k \in Visit : Starts(k) => visit[k].duty # d
  BY DEF Startable, Undisturbed, Starts
<1>4. x.seen # NoShift => shift[x.seen].by = Rota[d].by /\ shift[x.seen].status # "NONE"
  BY <1>1 DEF Working, OnShift
<1>5. /\ \A e \in Duty : WorkedOnce(e)' = WorkedOnce(e) /\ On(e)' = On(e)
      /\ \A u \in Person : Working(u)' = Working(u)
      /\ Vacant' = Vacant
  BY <1>0 DEF WorkedOnce, On, Working, OnShift, Vacant
<1>6. \A k \in Visit : Starts(k)' => k = c \/ (Starts(k) /\ visit'[k] = visit[k])
  BY <1>2 DEF Starts
<1>7. \A k \in Visit : Starts(k)' => duty'[visit'[k].duty] = "PLANNED"
  BY <1>0, <1>1, <1>2, <1>3, <1>6 DEF RotaInv
<1>8. \A k, j \in Visit : Starts(k)' /\ Starts(j)' /\ visit'[k].duty = visit'[j].duty => k = j
  BY <1>1, <1>2, <1>3, <1>6 DEF RotaInv
<1>9. \A k \in Visit : Starts(k)' /\ visit'[k].seen # NoShift =>
        /\ shift'[visit'[k].seen].by = Rota[visit'[k].duty].by
        /\ shift'[visit'[k].seen].status # "NONE"
  BY <1>0, <1>1, <1>2, <1>4, <1>6 DEF RotaInv
<1>10. \A k \in Visit : visit'[k].op = "complete" => shift'[visit'[k].shift].status = "CLOSED"
  BY <1>0, <1>1, <1>2 DEF RotaInv
<1> QED
  BY <1>0, <1>5, <1>7, <1>8, <1>9, <1>10 DEF RotaInv

LEMMA RotaOpened ==
  ASSUME RotaInv, ShiftsTypeOK', NEW c \in Visit, openShift(c)
  PROVE  RotaInv'
<1>0. ShiftsTypeOK /\ visit' = [visit EXCEPT ![c] = NoVisit] /\ UNCHANGED <<duty, pass>>
  BY OpenShiftActs DEF RotaInv
<1>1. CASE shift' = shift
  BY <1>0, <1>1, NoVisitTyped, RotaTurn
<1>2. ASSUME NEW u \in Person, NEW b \in Site, Working(u) = {}, NEW s \in Vacant,
             shift' = [shift EXCEPT ![s] = Clocked(u, b, NoDuty)]
      PROVE  RotaInv'
  <2>1. s \in Shift /\ shift[s].status = "NONE" /\ shift[s].duty = NoDuty
    BY DEF Vacant, RotaInv
  <2> DEFINE row == Clocked(u, b, NoDuty)
  <2>2. row \in ShiftRow /\ row.status = "OPEN" /\ row.by = u /\ row.duty = NoDuty
    BY ClockedTyped DEF Clocked
  <2> HIDE DEF row
  <2>3. shift'[s] = row /\ \A t \in Shift : t # s => shift'[t] = shift[t]
    BY <1>0, <1>2, <2>1, <2>2, ShiftWritten DEF row
  <2>4. \A d \in Duty : On(d)' = On(d) /\ s \notin On(d)
    BY <2>1, <2>2, <2>3 DEF On
  <2>5. \A d \in Duty : WorkedOnce(d)'
    BY <1>0, <2>4 DEF RotaInv, WorkedOnce
  <2>6. Working(u)' = {s} /\ \A v \in Person : v # u => Working(v)' = Working(v)
    <3>1. \A t \in Shift : ~(shift[t].status = "OPEN" /\ shift[t].by = u)
      BY <1>2 DEF Working, OnShift
    <3> QED
      BY <2>1, <2>2, <2>3, <3>1 DEF Working, OnShift
  <2>7. \A v \in Person : \A t, r \in Working(v)' : t = r
    BY <2>6 DEF RotaInv
  <2>8. \A t \in Vacant' : shift'[t].duty = NoDuty
    BY <2>1, <2>2, <2>3 DEF Vacant, RotaInv
  <2>9. visit'[c].op = "none" /\ \A k \in Visit : k # c => visit'[k] = visit[k]
    BY <1>0, NoVisitTyped, VisitTyped
  <2>10. \A k \in Visit : Starts(k)' => Starts(k) /\ visit'[k] = visit[k]
    BY <2>9 DEF Starts
  <2>11. \A k \in Visit : Starts(k) => visit[k].seen \in Shift \cup {NoShift}
    BY <1>0, VisitKinds DEF Starts
  <2>12. \A k \in Visit : visit'[k].op = "complete" =>
           visit'[k] = visit[k] /\ visit[k].shift \in Shift
    BY <1>0, <2>9, VisitKinds
  <2>13. \A k \in Visit : Starts(k) /\ visit[k].seen # NoShift =>
           shift'[visit[k].seen] = shift[visit[k].seen]
    BY <2>1, <2>3, <2>11 DEF RotaInv
  <2>14. \A k \in Visit : visit'[k].op = "complete" => shift'[visit'[k].shift].status = "CLOSED"
    BY <2>1, <2>3, <2>12 DEF RotaInv
  <2>15. \A d \in Duty : \A t \in On(d)' :
           /\ shift'[t].by = Rota[d].by /\ shift'[t].site = Rota[d].site
           /\ duty'[d] = "COMPLETED" => shift'[t].status = "CLOSED"
    <3>1. \A d \in Duty : \A t \in On(d)' : t \in On(d) /\ shift'[t] = shift[t]
      BY <2>3, <2>4 DEF On
    <3> QED
      BY <1>0, <3>1 DEF RotaInv
  <2>16. /\ \A k \in Visit : Starts(k)' => duty'[visit'[k].duty] = "PLANNED"
         /\ \A k, j \in Visit : Starts(k)' /\ Starts(j)' /\ visit'[k].duty = visit'[j].duty => k = j
         /\ \A k \in Visit : Starts(k)' /\ visit'[k].seen # NoShift =>
              /\ shift'[visit'[k].seen].by = Rota[visit'[k].duty].by
              /\ shift'[visit'[k].seen].status # "NONE"
    BY <1>0, <2>10, <2>13 DEF RotaInv
  <2> QED
    BY ONLY ShiftsTypeOK', <2>5, <2>7, <2>8, <2>14, <2>15, <2>16 DEF RotaInv
<1> QED
  BY <1>0, <1>1, <1>2, OpenShiftActs

LEMMA RotaClosed ==
  ASSUME RotaInv, ShiftsTypeOK', NEW c \in Visit, closeShift(c)
  PROVE  RotaInv'
<1>0. ShiftsTypeOK
  BY DEF RotaInv
<1>1. ASSUME NEW x \in Visits, Turn(c, x), x.op \in {"none", "signin", "create", "link"}
      PROVE  RotaInv'
  BY <1>1, RotaTurn DEF Turn
<1>2. ASSUME NEW s \in Shift, NEW x \in Visits, UNCHANGED <<duty, pass>>, OnShift(s),
             shift' = [shift EXCEPT ![s] = [shift[s] EXCEPT !.status = "CLOSED"]],
             visit' = [visit EXCEPT ![c] = x], x.op = "complete", x.shift = s
      PROVE  RotaInv'
  <2> DEFINE row == [shift[s] EXCEPT !.status = "CLOSED"]
  <2>1. /\ row \in ShiftRow /\ row.status = "CLOSED" /\ row.by = shift[s].by
        /\ row.site = shift[s].site /\ row.duty = shift[s].duty
    BY <1>0, ShiftRows DEF ShiftsTypeOK
  <2> HIDE DEF row
  <2>2. shift'[s] = row /\ \A t \in Shift : t # s => shift'[t] = shift[t]
    BY <1>0, <1>2, <2>1, ShiftWritten DEF row
  <2>3. \A t \in Shift :
          /\ shift'[t].by = shift[t].by /\ shift'[t].site = shift[t].site
          /\ shift'[t].duty = shift[t].duty
          /\ shift'[t].status = IF t = s THEN "CLOSED" ELSE shift[t].status
    BY <2>1, <2>2
  <2>4. \A d \in Duty : On(d)' = On(d)
    BY <2>3 DEF On
  <2>5. \A d \in Duty : WorkedOnce(d)'
    BY <1>2, <2>4 DEF RotaInv, WorkedOnce
  <2>6. \A v \in Person : Working(v)' \subseteq Working(v)
    BY <2>3 DEF Working, OnShift
  <2>7. \A v \in Person : \A t, r \in Working(v)' : t = r
    BY <2>6 DEF RotaInv
  <2>8. \A t \in Vacant' : shift'[t].duty = NoDuty
    BY <2>3 DEF Vacant, RotaInv
  <2>9. visit'[c] = x /\ \A k \in Visit : k # c => visit'[k] = visit[k]
    BY <1>0, <1>2, VisitTyped
  <2>10. \A k \in Visit : Starts(k)' => Starts(k) /\ visit'[k] = visit[k]
    BY <1>2, <2>9 DEF Starts
  <2>11. \A k \in Visit : Starts(k) => visit[k].seen \in Shift \cup {NoShift}
    BY <1>0, VisitKinds DEF Starts
  <2>12. \A k \in Visit : visit'[k].op = "complete" =>
           \/ visit'[k].shift = s
           \/ visit'[k] = visit[k] /\ visit[k].shift \in Shift
    BY <1>0, <1>2, <2>9, VisitKinds
  <2>13. \A k \in Visit : Starts(k) /\ visit[k].seen # NoShift =>
           /\ shift'[visit[k].seen].by = shift[visit[k].seen].by
           /\ shift'[visit[k].seen].status # "NONE"
    BY <2>3, <2>11 DEF RotaInv
  <2>14. \A k \in Visit : visit'[k].op = "complete" => shift'[visit'[k].shift].status = "CLOSED"
    BY <2>3, <2>12 DEF RotaInv
  <2>15. \A d \in Duty : \A t \in On(d)' :
           /\ shift'[t].by = Rota[d].by /\ shift'[t].site = Rota[d].site
           /\ duty'[d] = "COMPLETED" => shift'[t].status = "CLOSED"
    <3>1. \A d \in Duty : \A t \in On(d)' : t \in On(d) /\ t \in Shift
      BY <2>4 DEF On
    <3> QED
      BY <1>2, <2>3, <3>1 DEF RotaInv
  <2>16. /\ \A k \in Visit : Starts(k)' => duty'[visit'[k].duty] = "PLANNED"
         /\ \A k, j \in Visit : Starts(k)' /\ Starts(j)' /\ visit'[k].duty = visit'[j].duty => k = j
         /\ \A k \in Visit : Starts(k)' /\ visit'[k].seen # NoShift =>
              /\ shift'[visit'[k].seen].by = Rota[visit'[k].duty].by
              /\ shift'[visit'[k].seen].status # "NONE"
    BY <1>2, <2>10, <2>13 DEF RotaInv
  <2> QED
    BY ONLY ShiftsTypeOK', <2>5, <2>7, <2>8, <2>14, <2>15, <2>16 DEF RotaInv
<1> QED
  BY <1>0, <1>1, <1>2, CloseShiftActs

LEMMA RotaCompleted ==
  ASSUME RotaInv, ShiftsTypeOK', NEW c \in Visit, CompleteDuty(c)
  PROVE  RotaInv'
<1> DEFINE s == visit[c].shift
<1>0. ShiftsTypeOK
  BY DEF RotaInv
<1>1. /\ UNCHANGED <<shift, pass>> /\ s \in Shift
      /\ duty' = [d \in Duty |-> IF duty[d] = "STARTED" /\ shift[s].duty = d
                                 THEN "COMPLETED" ELSE duty[d]]
  BY <1>0, CompleteDutyActs
<1>2. PICK x \in Visits : /\ visit' = [visit EXCEPT ![c] = x]
                          /\ x.op \in {"none", "signin", "create", "link"}
  BY <1>0, CompleteDutyActs
<1>3. visit'[c] = x /\ \A k \in Visit : k # c => visit'[k] = visit[k]
  BY <1>0, <1>2, VisitTyped
<1>4. shift[s].status = "CLOSED"
  BY DEF RotaInv, CompleteDuty
<1>5. \A d \in Duty : \/ duty'[d] = duty[d]
                      \/ duty[d] = "STARTED" /\ duty'[d] = "COMPLETED" /\ shift[s].duty = d
  BY <1>1
<1>6. /\ \A d \in Duty : On(d)' = On(d)
      /\ \A u \in Person : Working(u)' = Working(u)
      /\ Vacant' = Vacant
  BY <1>1 DEF On, Working, OnShift, Vacant
<1>7. \A d \in Duty : WorkedOnce(d)'
  BY <1>5, <1>6 DEF RotaInv, WorkedOnce
<1>8. ASSUME NEW d \in Duty, NEW t \in On(d)
      PROVE  duty'[d] = "COMPLETED" => shift'[t].status = "CLOSED"
  <2>1. CASE duty'[d] = duty[d]
    BY <1>1, <2>1 DEF RotaInv
  <2>2. CASE duty[d] = "STARTED" /\ shift[s].duty = d
    <3>1. s \in On(d)
      BY <1>1, <2>2 DEF On
    <3>2. t = s
      BY <2>2, <3>1 DEF RotaInv, WorkedOnce
    <3> QED
      BY <1>1, <1>4, <3>2
  <2> QED
    BY <1>5, <2>1, <2>2
<1>9. \A k \in Visit : Starts(k)' => Starts(k) /\ visit'[k] = visit[k]
  BY <1>2, <1>3 DEF Starts
<1>10. \A k \in Visit : visit'[k].op = "complete" => visit'[k] = visit[k]
  BY <1>2, <1>3
<1>11. \A k \in Visit : Starts(k) => visit[k].duty \in Duty
  BY <1>0, VisitKinds DEF Starts
<1>12. \A k \in Visit : Starts(k)' => duty'[visit'[k].duty] = "PLANNED"
  BY <1>5, <1>9, <1>11 DEF RotaInv
<1>13. \A d \in Duty : \A t \in On(d)' :
         /\ shift'[t].by = Rota[d].by /\ shift'[t].site = Rota[d].site
         /\ duty'[d] = "COMPLETED" => shift'[t].status = "CLOSED"
  BY <1>1, <1>6, <1>8 DEF RotaInv
<1> QED
  BY <1>1, <1>6, <1>7, <1>9, <1>10, <1>12, <1>13 DEF RotaInv

LEMMA RotaStarted ==
  ASSUME RotaInv, ShiftsTypeOK', NEW c \in Visit, startAssignedShift(c)
  PROVE  RotaInv'
<1>0. ShiftsTypeOK
  BY DEF RotaInv
<1>1. /\ visit' = [visit EXCEPT ![c] = NoVisit] /\ visit[c].op = "start"
      /\ visit[c].duty \in Duty /\ visit[c].seen \in Shift \cup {NoShift}
  BY <1>0, StartActs
<1>6. PICK d \in Duty, s \in Shift \cup {NoShift} : visit[c].duty = d /\ visit[c].seen = s
  BY <1>1
<1>2. CASE UNCHANGED <<shift, duty>>
  BY <1>1, <1>2, NoVisitTyped, RotaTurn
<1>3. s # NoShift => shift[s].by = Rota[d].by /\ shift[s].status # "NONE"
  BY <1>1, <1>6 DEF RotaInv, Starts
\* A start writes its entry: the others', and the calls that start them, are let be.
<1>7. ASSUME duty' = [duty EXCEPT ![d] = "STARTED"]
      PROVE  /\ duty'[d] = "STARTED" /\ duty[d] = "PLANNED"
             /\ \A e \in Duty : e # d => duty'[e] = duty[e]
             /\ \A k \in Visit : Starts(k)' => Starts(k) /\ visit'[k] = visit[k]
             /\ \A k \in Visit : Starts(k) => visit[k].seen \in Shift \cup {NoShift}
             /\ \A k \in Visit : Starts(k)' => duty'[visit'[k].duty] = "PLANNED"
             /\ \A k, j \in Visit : Starts(k)' /\ Starts(j)' /\ visit'[k].duty = visit'[j].duty => k = j
             /\ \A k \in Visit : visit'[k].op = "complete" => visit'[k] = visit[k] /\ visit[k].shift \in Shift
  <2>2. visit'[c].op = "none" /\ \A k \in Visit : k # c => visit'[k] = visit[k]
    BY <1>0, <1>1, NoVisitTyped, VisitTyped
  <2>3. /\ duty'[d] = "STARTED"
        /\ \A e \in Duty : e # d => duty'[e] = duty[e]
    BY <1>0, <1>7 DEF ShiftsTypeOK
  <2>4. duty[d] = "PLANNED"
    BY <1>1, <1>6 DEF RotaInv, Starts
  <2>5. \A k \in Visit : Starts(k)' => Starts(k) /\ visit'[k] = visit[k] /\ visit[k].duty # d
    BY <1>1, <1>6, <2>2 DEF RotaInv, Starts
  <2>6. \A k \in Visit : Starts(k) => visit[k].seen \in Shift \cup {NoShift} /\ visit[k].duty \in Duty
    BY <1>0, VisitKinds DEF Starts
  <2>7. \A k \in Visit : Starts(k)' => duty'[visit'[k].duty] = "PLANNED"
    BY <2>3, <2>5, <2>6 DEF RotaInv
  <2>8. \A k, j \in Visit : Starts(k)' /\ Starts(j)' /\ visit'[k].duty = visit'[j].duty => k = j
    BY <2>5 DEF RotaInv
  <2>9. \A k \in Visit : visit'[k].op = "complete" => visit'[k] = visit[k] /\ visit[k].shift \in Shift
    BY <1>0, <2>2, VisitKinds
  <2> QED
    BY <2>3, <2>4, <2>5, <2>6, <2>7, <2>8, <2>9
<1>4. CASE Linkable(d, s) /\ duty' = [duty EXCEPT ![d] = "STARTED"] /\ ~Elsewhere(d, s) /\ LinkOpen(d, s)
  <2>0. /\ duty'[d] = "STARTED" /\ duty[d] = "PLANNED"
        /\ \A e \in Duty : e # d => duty'[e] = duty[e]
        /\ \A k \in Visit : Starts(k)' => Starts(k) /\ visit'[k] = visit[k]
        /\ \A k \in Visit : Starts(k) => visit[k].seen \in Shift \cup {NoShift}
        /\ \A k \in Visit : Starts(k)' => duty'[visit'[k].duty] = "PLANNED"
        /\ \A k, j \in Visit : Starts(k)' /\ Starts(j)' /\ visit'[k].duty = visit'[j].duty => k = j
        /\ \A k \in Visit : visit'[k].op = "complete" => visit'[k] = visit[k] /\ visit[k].shift \in Shift
    BY <1>4, <1>7
  <2>1. /\ s \in Shift /\ shift[s].site = Rota[d].site /\ shift[s].by = Rota[d].by
        /\ shift[s].status = "OPEN" /\ shift[s].duty = NoDuty
    BY <1>1, <1>3, <1>4 DEF Elsewhere, Linkable, OnShift
  <2> DEFINE row == [shift[s] EXCEPT !.duty = d]
  <2>2. /\ row \in ShiftRow /\ row.duty = d /\ row.status = shift[s].status
        /\ row.by = shift[s].by /\ row.site = shift[s].site
    BY <1>0, <1>1, <2>1, ShiftRows DEF ShiftsTypeOK
  <2> HIDE DEF row
  <2>3. shift' = [shift EXCEPT ![s] = row]
    BY <1>4 DEF LinkOpen, row
  <2>4. shift'[s] = row /\ \A t \in Shift : t # s => shift'[t] = shift[t]
    BY <1>0, <2>1, <2>3 DEF ShiftsTypeOK
  <2>5. \A t \in Shift :
          /\ shift'[t].by = shift[t].by /\ shift'[t].site = shift[t].site
          /\ shift'[t].status = shift[t].status
          /\ shift'[t].duty = IF t = s THEN d ELSE shift[t].duty
    BY <2>2, <2>4
  <2>6. On(d) = {}
    BY <1>1, <2>0 DEF RotaInv, WorkedOnce
  <2>7. On(d)' = {s} /\ \A e \in Duty : e # d => On(e)' = On(e)
    <3>1. \A t \in Shift : shift[t].duty # d
      BY <2>6 DEF On
    <3> QED
      BY <2>1, <2>5, <3>1 DEF On
  <2>8. \A e \in Duty : WorkedOnce(e)'
    BY <2>0, <2>1, <2>7 DEF RotaInv, WorkedOnce
  <2>9. /\ \A u \in Person : Working(u)' = Working(u)
        /\ Vacant' = Vacant
    BY <2>5 DEF Working, OnShift, Vacant
  <2>10. \A t \in Vacant' : shift'[t].duty = NoDuty
    BY <2>1, <2>5, <2>9 DEF Vacant, RotaInv
  <2>11. \A e \in Duty : \A t \in On(e)' :
           /\ shift'[t].by = Rota[e].by /\ shift'[t].site = Rota[e].site
           /\ duty'[e] = "COMPLETED" => shift'[t].status = "CLOSED"
    <3> SUFFICES ASSUME NEW e \in Duty, NEW t \in On(e)'
                 PROVE  /\ shift'[t].by = Rota[e].by /\ shift'[t].site = Rota[e].site
                        /\ duty'[e] = "COMPLETED" => shift'[t].status = "CLOSED"
      OBVIOUS
    <3>1. CASE e = d
      BY <2>0, <2>1, <2>5, <2>7, <3>1
    <3>2. CASE e # d
      <4>1. t \in On(e) /\ t \in Shift
        BY <2>7, <3>2 DEF On
      <4> QED
        BY <2>0, <2>5, <3>2, <4>1 DEF RotaInv
    <3> QED
      BY <3>1, <3>2
  <2>12. \A k \in Visit : Starts(k)' /\ visit'[k].seen # NoShift =>
           /\ shift'[visit'[k].seen].by = Rota[visit'[k].duty].by
           /\ shift'[visit'[k].seen].status # "NONE"
    BY <2>0, <2>5 DEF RotaInv
  <2>13. \A k \in Visit : visit'[k].op = "complete" => shift'[visit'[k].shift].status = "CLOSED"
    BY <2>0, <2>5 DEF RotaInv
  <2>14. \A u \in Person : \A t, r \in Working(u)' : t = r
    BY <2>9 DEF RotaInv
  <2> QED
    BY ONLY ShiftsTypeOK', <2>0, <2>8, <2>10, <2>11, <2>12, <2>13, <2>14 DEF RotaInv
<1>5. CASE Linkable(d, s) /\ duty' = [duty EXCEPT ![d] = "STARTED"] /\ Elsewhere(d, s) /\ LinkNew(d, s)
  <2>0. /\ duty'[d] = "STARTED" /\ duty[d] = "PLANNED"
        /\ \A e \in Duty : e # d => duty'[e] = duty[e]
        /\ \A k \in Visit : Starts(k)' => Starts(k) /\ visit'[k] = visit[k]
        /\ \A k \in Visit : Starts(k) => visit[k].seen \in Shift \cup {NoShift}
        /\ \A k \in Visit : Starts(k)' => duty'[visit'[k].duty] = "PLANNED"
        /\ \A k, j \in Visit : Starts(k)' /\ Starts(j)' /\ visit'[k].duty = visit'[j].duty => k = j
        /\ \A k \in Visit : visit'[k].op = "complete" => visit'[k] = visit[k] /\ visit[k].shift \in Shift
    BY <1>5, <1>7
  <2>1. PICK n \in Vacant :
          /\ n \in Shift /\ shift'[n] = Clocked(Rota[d].by, Rota[d].site, d)
          /\ \A k \in Shift : k # n =>
               shift'[k] = IF k = s THEN [shift[k] EXCEPT !.status = "CLOSED"] ELSE shift[k]
    BY <1>0, <1>1, <1>5, LinkNewWrites
  <2>2. /\ shift[n].status = "NONE" /\ shift[n].duty = NoDuty /\ n # s
    BY <1>1, <1>3 DEF Vacant, RotaInv
  <2>3. /\ shift'[n].status = "OPEN" /\ shift'[n].by = Rota[d].by
        /\ shift'[n].site = Rota[d].site /\ shift'[n].duty = d
    BY <2>1 DEF Clocked
  <2>4. ASSUME NEW t \in Shift, t # n
        PROVE  /\ shift'[t].by = shift[t].by /\ shift'[t].site = shift[t].site
               /\ shift'[t].duty = shift[t].duty
               /\ shift'[t].status = IF t = s THEN "CLOSED" ELSE shift[t].status
    <3>1. shift[t] \in ShiftRow
      BY <1>0 DEF ShiftsTypeOK
    <3>2. CASE t = s
      <4> DEFINE row == [shift[t] EXCEPT !.status = "CLOSED"]
      <4>1. /\ row.status = "CLOSED" /\ row.by = shift[t].by
            /\ row.site = shift[t].site /\ row.duty = shift[t].duty
        BY <3>1, ShiftRows
      <4>2. shift'[t] = row
        BY <2>1, <2>4, <3>2
      <4> HIDE DEF row
      <4> QED
        BY <4>1, <4>2, <3>2
    <3>3. CASE t # s
      BY <2>1, <2>4, <3>3
    <3> QED
      BY <3>2, <3>3
  <2>5. Working(Rota[d].by) \subseteq {s}
    BY <1>5 DEF Linkable
  <2>6. On(d) = {} /\ d # NoDuty
    BY <1>1, <2>0 DEF RotaInv, WorkedOnce
  <2>7. On(d)' = {n} /\ \A e \in Duty : e # d => On(e)' = On(e)
    <3>1. \A t \in Shift : shift[t].duty # d
      BY <2>6 DEF On
    <3> QED
      BY <2>1, <2>2, <2>3, <2>4, <3>1 DEF On
  <2>8. \A e \in Duty : WorkedOnce(e)'
    BY <2>0, <2>1, <2>7 DEF RotaInv, WorkedOnce
  <2>9. \A u \in Person : \A t, r \in Working(u)' : t = r
    <3>1. \A u \in Person : \A t \in Working(u)' : t # n => t \in Working(u) /\ t # s
      BY <2>4 DEF Working, OnShift
    <3>2. \A t \in Working(Rota[d].by)' : t = n
      BY <1>1, <2>5, <3>1
    <3>3. \A u \in Person : u # Rota[d].by => n \notin Working(u)'
      BY <2>3 DEF Working
    <3> QED
      BY <3>1, <3>2, <3>3 DEF RotaInv
  <2>10. \A t \in Vacant' : shift'[t].duty = NoDuty
    BY <2>3, <2>4 DEF Vacant, RotaInv
  <2>11. \A e \in Duty : \A t \in On(e)' :
           /\ shift'[t].by = Rota[e].by /\ shift'[t].site = Rota[e].site
           /\ duty'[e] = "COMPLETED" => shift'[t].status = "CLOSED"
    <3> SUFFICES ASSUME NEW e \in Duty, NEW t \in On(e)'
                 PROVE  /\ shift'[t].by = Rota[e].by /\ shift'[t].site = Rota[e].site
                        /\ duty'[e] = "COMPLETED" => shift'[t].status = "CLOSED"
      OBVIOUS
    <3>1. CASE e = d
      BY <2>0, <2>3, <2>7, <3>1
    <3>2. CASE e # d
      <4>1. t \in On(e) /\ t \in Shift
        BY <2>7, <3>2 DEF On
      <4>2. t # n
        BY <2>2, <4>1 DEF On
      <4> QED
        BY <2>0, <2>4, <3>2, <4>1, <4>2 DEF RotaInv
    <3> QED
      BY <3>1, <3>2
  <2>12. \A k \in Visit : Starts(k)' /\ visit'[k].seen # NoShift =>
           /\ shift'[visit'[k].seen].by = Rota[visit'[k].duty].by
           /\ shift'[visit'[k].seen].status # "NONE"
    <3> SUFFICES ASSUME NEW k \in Visit, Starts(k)', visit'[k].seen # NoShift
                 PROVE  /\ shift'[visit'[k].seen].by = Rota[visit'[k].duty].by
                        /\ shift'[visit'[k].seen].status # "NONE"
      OBVIOUS
    <3>1. /\ visit'[k] = visit[k] /\ visit[k].seen \in Shift
          /\ shift[visit[k].seen].by = Rota[visit[k].duty].by
          /\ shift[visit[k].seen].status # "NONE"
      BY <2>0 DEF RotaInv
    <3>2. visit[k].seen # n
      BY <2>2, <3>1
    <3> QED
      BY <2>4, <3>1, <3>2
  <2>13. \A k \in Visit : visit'[k].op = "complete" => shift'[visit'[k].shift].status = "CLOSED"
    BY <2>0, <2>2, <2>4 DEF RotaInv
  <2> QED
    BY ONLY ShiftsTypeOK', <2>0, <2>8, <2>9, <2>10, <2>11, <2>12, <2>13 DEF RotaInv
<1> QED
  BY <1>0, <1>2, <1>4, <1>5, <1>6, StartActs

LEMMA RotaStep ==
  ASSUME RotaInv, ShiftsNext
  PROVE  RotaInv'
<1>0. ShiftsTypeOK /\ ShiftsTypeOK'
  BY TypesStep DEF RotaInv
<1>1. ASSUME NEW c \in Visit, NEW s \in Shift, EndShift(c, s) PROVE RotaInv'
  BY <1>0, <1>1, EndShiftTurn, RotaTurn DEF Turn
<1>2. ASSUME NEW c \in Visit, NEW u \in Person, NEW b \in Site, SignIn(c, u, b)
      PROVE RotaInv'
  BY <1>0, <1>2, SignInTurn, RotaTurn DEF Turn
<1>3. ASSUME NEW c \in Visit, FindOpen(c) PROVE RotaInv'
  BY <1>0, <1>3, FindOpenTurn, RotaTurn DEF Turn
<1>4. ASSUME NEW c \in Visit, openShift(c) PROVE RotaInv'
  BY <1>0, <1>4, RotaOpened
<1>5. ASSUME NEW c \in Visit, closeShift(c) PROVE RotaInv'
  BY <1>0, <1>5, RotaClosed
<1>6. ASSUME NEW c \in Visit, CompleteDuty(c) PROVE RotaInv'
  BY <1>0, <1>6, RotaCompleted
<1>7. ASSUME NEW c \in Visit, NEW d \in Duty, JudgeStart(c, d) PROVE RotaInv'
  BY <1>0, <1>7, JudgeStartTurn, RotaJudged
<1>8. ASSUME NEW c \in Visit, linkReceiverShift(c) PROVE RotaInv'
  <2>1. CASE Turn(c, NoVisit)
    BY <1>0, <2>1, NoVisitTyped, RotaTurn DEF Turn
  <2>2. CASE \E d \in Duty : Startable(d) /\ \E x \in Starting(d) : Turn(c, x)
    BY <1>0, <2>2, RotaJudged
  <2> QED
    BY <1>0, <1>8, <2>1, <2>2, LinkReceiverTurn
<1>9. ASSUME NEW c \in Visit, startAssignedShift(c) PROVE RotaInv'
  BY <1>0, <1>9, RotaStarted
<1>10. ASSUME NEW c \in Visit, NEW u \in Person, NEW v \in Person, NEW b \in Site, NEW p \in Pass,
              startShiftHandover(c, u, v, b, p)
       PROVE  RotaInv'
  BY <1>0, <1>10, StartHandoverTurn, RotaTurn DEF Turn
<1>11. ASSUME NEW c \in Visit, RequestTill(c) PROVE RotaInv'
  BY <1>0, <1>11, RequestTillActs, RotaTurn
<1>12. ASSUME NEW c \in Visit, RecordPass(c) PROVE RotaInv'
  BY <1>0, <1>12, RecordPassActs, NoVisitTyped, RotaTurn
<1>13. ASSUME NEW c \in Visit, NEW p \in Pass, NEW as \in {"COMPLETED", "REJECTED", "CANCELLED"},
              JudgeSettle(c, p, as)
       PROVE  RotaInv'
  <2>1. PICK x \in Visits : Turn(c, x) /\ x.op \in {"till", "row"}
    BY ONLY <1>0, <1>13, JudgeSettleTurn, ZenonT(40)
  <2> QED
    BY <1>0, <2>1, RotaTurn DEF Turn
<1>14. ASSUME NEW c \in Visit, SettleTill(c) PROVE RotaInv'
  BY <1>0, <1>14, SettleTillActs, NoVisitTyped, RotaTurn DEF Turn
<1>15. ASSUME NEW c \in Visit, SettlePass(c) PROVE RotaInv'
  BY <1>0, <1>15, SettlePassActs, NoVisitTyped, RotaTurn DEF Turn
<1>16. ASSUME NEW c \in Visit, Abandon(c) PROVE RotaInv'
  BY <1>0, <1>16, AbandonTurn, NoVisitTyped, RotaTurn DEF Turn
<1>17. ASSUME NEW d \in Duty, cancelShiftAssignment(d) PROVE RotaInv'
  <2>1. /\ UNCHANGED <<shift, pass, visit>> /\ duty[d] = "PLANNED" /\ duty'[d] = "CANCELLED"
        /\ \A e \in Duty : e # d => duty'[e] = duty[e]
        /\ \A c \in Visit : Starts(c) => visit[c].duty # d
    BY <1>0, <1>17 DEF cancelShiftAssignment, ShiftsTypeOK, Undisturbed, Starts
  <2>2. /\ \A e \in Duty : On(e)' = On(e)
        /\ \A u \in Person : Working(u)' = Working(u)
        /\ Vacant' = Vacant
        /\ \A c \in Visit : Starts(c)' = Starts(c)
    BY <2>1 DEF On, Working, OnShift, Vacant, Starts
  <2>3. \A e \in Duty : WorkedOnce(e)'
    BY <2>1, <2>2 DEF RotaInv, WorkedOnce
  <2>4. \A c \in Visit : Starts(c) => visit[c].duty \in Duty
    BY <1>0, VisitKinds DEF Starts
  <2> QED
    BY <1>0, <2>1, <2>2, <2>3, <2>4 DEF RotaInv
<1>18. ASSUME NEW p \in Pass, SettleTillAlone(p) PROVE RotaInv'
  BY <1>0, <1>18, SettleTillAloneActs, RotaQuiet
<1> QED
  BY <1>1, <1>2, <1>3, <1>4, <1>5, <1>6, <1>7, <1>8, <1>9, <1>10, <1>11, <1>12, <1>13,
     <1>14, <1>15, <1>16, <1>17, <1>18 DEF ShiftsNext

\* One session is on an entry that was started and none on one that was not, it is its
\* person's at its site, a completed entry's has ended, and a person has one open session.
THEOREM EntriesWorkedOnce == ShiftsSpec => []RotaWorkedOnce
<1>1. ShiftsInit => RotaInv
  <2> SUFFICES ASSUME ShiftsInit PROVE RotaInv
    OBVIOUS
  <2>1. \A s \in Shift : shift[s].status = "NONE" /\ shift[s].duty = NoDuty
    BY DEF ShiftsInit
  <2>2. /\ \A d \in Duty : duty[d] = "PLANNED" /\ On(d) = {}
        /\ \A u \in Person : Working(u) = {}
    BY <2>1 DEF ShiftsInit, On, Working, OnShift
  <2>3. \A c \in Visit : visit[c].op = "none"
    BY NoVisitTyped DEF ShiftsInit
  <2> QED
    BY <2>1, <2>2, <2>3, TypesInitially DEF RotaInv, WorkedOnce, Vacant, Starts
<1>2. RotaInv /\ [ShiftsNext]_shiftVars => RotaInv'
  <2>1. RotaInv /\ ShiftsNext => RotaInv'
    BY RotaStep
  <2>2. ASSUME RotaInv, UNCHANGED shiftVars PROVE RotaInv'
    <3>1. ShiftsTypeOK'
      BY <2>2 DEF shiftVars, RotaInv, ShiftsTypeOK, OnShift
    <3> QED
      BY <2>2, <3>1, RotaQuiet DEF shiftVars
  <2> QED
    BY <2>1, <2>2
<1>3. RotaInv => RotaWorkedOnce
  <2> SUFFICES ASSUME RotaInv PROVE RotaWorkedOnce
    OBVIOUS
  <2>1. Cardinality({}) = 0 /\ \A s \in Shift : Cardinality({s}) = 1
    BY FS_EmptySet, FS_Singleton
  <2>2. \A d \in Duty : Cardinality(On(d)) = IF duty[d] \in {"STARTED", "COMPLETED"} THEN 1 ELSE 0
    BY <2>1 DEF RotaInv, WorkedOnce
  <2>3. ASSUME NEW u \in Person PROVE Cardinality(Working(u)) <= 1
    <3>1. Working(u) = {} \/ \E s \in Shift : Working(u) = {s}
      BY DEF RotaInv, Working
    <3> QED
      BY ONLY <2>1, <3>1, Z3
  <2> QED
    BY <2>2, <2>3 DEF RotaInv, RotaWorkedOnce
<1> QED
  BY <1>1, <1>2, <1>3, PTL DEF ShiftsSpec
==============================================================================
