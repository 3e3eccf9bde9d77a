------------------------------- MODULE Shifts --------------------------------
(***************************************************************************)
(* Who is on shift: a person's sessions, the rota they work, and the        *)
(* handing of a shift to a colleague, with the till inside it               *)
(* (features/attendance, features/shifts, features/handover).               *)
(*                                                                          *)
(* Every statement is a step unless a transaction holds several: closing a  *)
(* session and completing its rota entry are two, and so are the till and   *)
(* the shift of a handover.  A call may end between any two of its steps,   *)
(* refused or killed (Abandon).  The hours, the days of the rota, who may   *)
(* take over from whom and the making and moving of rota entries are left   *)
(* out; the till is in the module Drawer, of it only its handover's status  *)
(* is here.                                                                 *)
(***************************************************************************)
EXTENDS Integers, FiniteSets

CONSTANTS
  Person, Site,
  Duty,      \* rows of shift_assignments
  Rota,      \* whose each is, and where
  Shift,     \* rows of staff_shifts
  Pass,      \* rows of shift_handovers, with their cash_handovers
  Visit,     \* calls in flight
  NoDuty, NoShift, NoOne

ASSUME RotaOfPeople == Rota \in [Duty -> [by: Person, site: Site]]
ASSUME SomeSite == Site # {}
ASSUME NoneOfThese == NoDuty \notin Duty /\ NoShift \notin Shift /\ NoOne \notin Person

VARIABLES shift, duty, pass, visit
shiftVars == <<shift, duty, pass, visit>>

------------------------------------------------------------------------------
(* The rows *)

\* A session is OPEN while activeShiftKey is its person's.
ShiftRow ==
  [status: {"NONE", "OPEN", "CLOSED"}, by: Person \cup {NoOne},
   site: Site, duty: Duty \cup {NoDuty}]

\* cash is the status of the till's own handover.
PassRow ==
  [status: {"NONE", "PENDING_ACCEPTANCE", "COMPLETED", "REJECTED", "CANCELLED"},
   from: Person \cup {NoOne}, to: Person \cup {NoOne}, site: Site,
   shift: Shift \cup {NoShift},
   cash: {"NONE", "PENDING", "ACCEPTED", "DECLINED", "CANCELLED"}]

NoVisit == [op |-> "none"]
Visits ==
  {NoVisit}
    \cup [op: {"signin", "create", "link"}, by: Person, site: Site]
    \cup [op: {"close", "complete"}, shift: Shift, then: {"end", "signin", "create", "link"},
          by: Person, site: Site]
    \cup [op: {"start"}, duty: Duty, seen: Shift \cup {NoShift}]
    \cup [op: {"count", "record"}, pass: Pass, from: Person, to: Person, site: Site,
          shift: Shift \cup {NoShift}]
    \cup [op: {"till", "row"}, pass: Pass, as: {"COMPLETED", "REJECTED", "CANCELLED"}]

OnShift(s) == shift[s].status = "OPEN"

ShiftsTypeOK ==
  /\ shift \in [Shift -> ShiftRow]
  /\ duty \in [Duty -> {"PLANNED", "STARTED", "COMPLETED", "CANCELLED"}]
  /\ pass \in [Pass -> PassRow]
  /\ visit \in [Visit -> Visits]
  /\ \A s \in Shift : OnShift(s) => shift[s].by \in Person
  /\ \A p \in Pass : pass[p].status # "NONE" => pass[p].to \in Person

Working(u) == {s \in Shift : OnShift(s) /\ shift[s].by = u}
Vacant == {s \in Shift : shift[s].status = "NONE"}
Clocked(u, b, d) == [status |-> "OPEN", by |-> u, site |-> b, duty |-> d]

Calling(c, x) == visit[c] = NoVisit /\ visit' = [visit EXCEPT ![c] = x]
GoOnWith(c, x) == visit' = [visit EXCEPT ![c] = x]
Leave(c) == visit' = [visit EXCEPT ![c] = NoVisit]
Closing(s, then, u, b) == [op |-> "close", shift |-> s, then |-> then, by |-> u, site |-> b]

------------------------------------------------------------------------------
(* Sessions (attendance/service.ts) *)

\* Ending a session: signing out, or the sweep of those nobody works in.
EndShift(c, s) ==
  /\ OnShift(s)
  /\ Calling(c, Closing(s, "end", shift[s].by, shift[s].site))
  /\ UNCHANGED <<shift, duty, pass>>

\* Signing in: a session left open too long is closed first.
SignIn(c, u, b) ==
  /\ \/ Calling(c, [op |-> "signin", by |-> u, site |-> b])
     \/ \E s \in Working(u) : Calling(c, Closing(s, "signin", u, b))
  /\ UNCHANGED <<shift, duty, pass>>

\* The open session is worked on in, or closed if it is at another site.
FindOpen(c) ==
  /\ visit[c].op = "signin"
  /\ LET u == visit[c].by
         b == visit[c].site
     IN  \/ /\ Working(u) = {}
            /\ GoOnWith(c, [op |-> "create", by |-> u, site |-> b])
         \/ \E s \in Working(u) :
              IF shift[s].site = b THEN Leave(c) ELSE GoOnWith(c, Closing(s, "create", u, b))
  /\ UNCHANGED <<shift, duty, pass>>

\* activeShiftKey lets one sign-in create the session; the other finds it.
openShift(c) ==
  /\ visit[c].op = "create"
  /\ LET u == visit[c].by
     IN  IF Working(u) = {}
         THEN \E s \in Vacant : shift' = [shift EXCEPT ![s] = Clocked(u, visit[c].site, NoDuty)]
         ELSE shift' = shift
  /\ Leave(c)
  /\ UNCHANGED <<duty, pass>>

\* What the caller of closeShift goes on with.
Onward(v) ==
  IF v.then = "end" THEN NoVisit ELSE [op |-> v.then, by |-> v.by, site |-> v.site]

\* The key is let go of, once; whoever did completes the rota entry.
closeShift(c) ==
  /\ visit[c].op = "close"
  /\ LET s == visit[c].shift
     IN  IF OnShift(s)
         THEN /\ shift' = [shift EXCEPT ![s].status = "CLOSED"]
              /\ visit' = [visit EXCEPT ![c].op = "complete"]
         ELSE shift' = shift /\ GoOnWith(c, Onward(visit[c]))
  /\ UNCHANGED <<duty, pass>>

CompleteDuty(c) ==
  /\ visit[c].op = "complete"
  /\ duty' = [d \in Duty |-> IF duty[d] = "STARTED" /\ shift[visit[c].shift].duty = d
                             THEN "COMPLETED" ELSE duty[d]]
  /\ GoOnWith(c, Onward(visit[c]))
  /\ UNCHANGED <<shift, pass>>

------------------------------------------------------------------------------
(* The rota (shifts/service.ts) *)

\* The row of the entry is locked from its judging to the end of the transaction.
Undisturbed(d) == \A c \in Visit : visit[c].op = "start" => visit[c].duty # d

\* An entry is started once, by its person, who is on no other.
Startable(d) ==
  /\ duty[d] = "PLANNED" /\ Undisturbed(d)
  /\ \A s \in Working(Rota[d].by) : shift[s].duty = NoDuty
Starting(d) ==
  LET open == Working(Rota[d].by)
  IN  {[op |-> "start", duty |-> d, seen |-> s] : s \in IF open = {} THEN {NoShift} ELSE open}
JudgeStart(c, d) ==
  /\ Startable(d)
  /\ \E x \in Starting(d) : Calling(c, x)
  /\ UNCHANGED <<shift, duty, pass>>

\* After a handover: the receiver's own entry there, if there is one.
linkReceiverShift(c) ==
  /\ visit[c].op = "link"
  /\ LET mine == {d \in Duty : Rota[d] = [by |-> visit[c].by, site |-> visit[c].site] /\ Startable(d)}
     IN  \/ mine = {} /\ Leave(c)
         \/ \E d \in mine : \E x \in Starting(d) : GoOnWith(c, x)
  /\ UNCHANGED <<shift, duty, pass>>

\* The session read is linked, or closed for one at the entry's site; what no
\* longer fits the unique keys is rolled back.
Elsewhere(d, s) == s = NoShift \/ (s # NoShift /\ shift[s].site # Rota[d].site)
LinkOpen(d, s) == shift' = [shift EXCEPT ![s].duty = d]
LinkNew(d, s) ==
  \E n \in Vacant : shift' =
    [k \in Shift |-> IF k = n THEN Clocked(Rota[d].by, Rota[d].site, d)
                     ELSE IF k = s THEN [shift[k] EXCEPT !.status = "CLOSED"] ELSE shift[k]]
LinkableTwice(d, s) ==                         \* mutant: without "assignmentId: null"
  IF Elsewhere(d, s) THEN Working(Rota[d].by) \subseteq {s} ELSE OnShift(s)
Linkable(d, s) ==
  IF Elsewhere(d, s) THEN Working(Rota[d].by) \subseteq {s}
  ELSE OnShift(s) /\ shift[s].duty = NoDuty
startAssignedShift(c) ==
  /\ visit[c].op = "start"
  /\ LET d == visit[c].duty
         s == visit[c].seen
     IN  IF Linkable(d, s)
         THEN /\ IF Elsewhere(d, s) THEN LinkNew(d, s) ELSE LinkOpen(d, s)
              /\ duty' = [duty EXCEPT ![d] = "STARTED"]
         ELSE UNCHANGED <<shift, duty>>
  /\ Leave(c)
  /\ UNCHANGED pass

cancelShiftAssignment(d) ==
  /\ duty[d] = "PLANNED" /\ Undisturbed(d)
  /\ duty' = [duty EXCEPT ![d] = "CANCELLED"]
  /\ UNCHANGED <<shift, pass, visit>>

------------------------------------------------------------------------------
(* Handing a shift over (handover/shift-service.ts) *)

Waiting(p) == pass[p].status = "PENDING_ACCEPTANCE"
\* pendingFromKey and pendingToKey: one in flight for either of them.
InFlight(u, v) == \E p \in Pass : Waiting(p) /\ (pass[p].from = u \/ pass[p].to = v)
Unused(p) ==
  /\ pass[p].status = "NONE" /\ pass[p].cash = "NONE"
  /\ \A c \in Visit : visit[c].op \in {"count", "record"} => visit[c].pass # p

\* The giver's session is the one open now; with a drawer open, its till goes along.
startShiftHandover(c, u, v, b, p) ==
  /\ u # v /\ Unused(p) /\ ~InFlight(u, v)
  /\ \E s \in (IF Working(u) = {} THEN {NoShift} ELSE Working(u)), op \in {"count", "record"} :
       Calling(c, [op |-> op, pass |-> p, from |-> u, to |-> v, site |-> b, shift |-> s])
  /\ UNCHANGED <<shift, duty, pass>>

\* The till's own handover is asked for first.
RequestTill(c) ==
  /\ visit[c].op = "count"
  /\ pass' = [pass EXCEPT ![visit[c].pass].cash = "PENDING"]
  /\ visit' = [visit EXCEPT ![c].op = "record"]
  /\ UNCHANGED <<shift, duty>>

\* The row, unless another took either key; then the till stands alone.
RecordPass(c) ==
  /\ visit[c].op = "record"
  /\ LET v == visit[c]
     IN  pass' = IF InFlight(v.from, v.to) THEN pass
                 ELSE [pass EXCEPT ![v.pass] =
                         [status |-> "PENDING_ACCEPTANCE", from |-> v.from, to |-> v.to,
                          site |-> v.site, shift |-> v.shift, cash |-> @.cash]]
  /\ Leave(c)
  /\ UNCHANGED <<shift, duty>>

TillEitherWay(p) == TRUE                       \* mutant: whatever became of it
\* A till is settled once.
TillPending(p) == pass[p].cash = "PENDING"

\* On the session screen a till is settled whether or not a shift goes with it.
SettleTillAlone(p) ==
  /\ TillPending(p)
  /\ \E to \in {"ACCEPTED", "DECLINED"} : pass' = [pass EXCEPT ![p].cash = to]
  /\ UNCHANGED <<shift, duty, visit>>

\* Accepting, rejecting and withdrawing: the till first where there is one.
JudgeSettle(c, p, as) ==
  /\ Waiting(p)
  /\ Calling(c, [op |-> IF pass[p].cash = "NONE" THEN "row" ELSE "till", pass |-> p, as |-> as])
  /\ UNCHANGED <<shift, duty, pass>>

\* What the till becomes with the shift.
WithIt(as) ==
  IF as = "COMPLETED" THEN "ACCEPTED" ELSE IF as = "REJECTED" THEN "DECLINED" ELSE "CANCELLED"
SettleTill(c) ==
  /\ visit[c].op = "till"
  /\ LET p == visit[c].pass
     IN  IF TillPending(p)
         THEN /\ pass' = [pass EXCEPT ![p].cash = WithIt(visit[c].as)]
              /\ visit' = [visit EXCEPT ![c].op = "row"]
         ELSE pass' = pass /\ Leave(c)
  /\ UNCHANGED <<shift, duty>>

\* One decision lands; a completed handover goes on to end the giver's session.
AfterPass(p, as) ==
  IF as # "COMPLETED" THEN NoVisit
  ELSE IF pass[p].shift = NoShift THEN [op |-> "link", by |-> pass[p].to, site |-> pass[p].site]
  ELSE Closing(pass[p].shift, "link", pass[p].to, pass[p].site)
SettlePass(c) ==
  /\ visit[c].op = "row"
  /\ LET p == visit[c].pass
     IN  IF Waiting(p)
         THEN /\ pass' = [pass EXCEPT ![p].status = visit[c].as]
              /\ GoOnWith(c, AfterPass(p, visit[c].as))
         ELSE pass' = pass /\ Leave(c)
  /\ UNCHANGED <<shift, duty>>

\* A call may end between its steps: its process is killed, or a step fails.
Abandon(c) ==
  /\ visit[c] # NoVisit /\ Leave(c)
  /\ UNCHANGED <<shift, duty, pass>>

------------------------------------------------------------------------------
ShiftsInit ==
  /\ shift = [s \in Shift |-> [status |-> "NONE", by |-> NoOne,
                               site |-> CHOOSE b \in Site : TRUE, duty |-> NoDuty]]
  /\ duty = [d \in Duty |-> "PLANNED"]
  /\ pass = [p \in Pass |-> [status |-> "NONE", from |-> NoOne, to |-> NoOne,
                             site |-> CHOOSE b \in Site : TRUE, shift |-> NoShift, cash |-> "NONE"]]
  /\ visit = [c \in Visit |-> NoVisit]

ShiftsNext ==
  \/ \E c \in Visit :
       \/ \E s \in Shift : EndShift(c, s)
       \/ \E u \in Person, b \in Site : SignIn(c, u, b)
       \/ FindOpen(c) \/ openShift(c) \/ closeShift(c) \/ CompleteDuty(c)
       \/ \E d \in Duty : JudgeStart(c, d)
       \/ linkReceiverShift(c) \/ startAssignedShift(c)
       \/ \E u, v \in Person, b \in Site, p \in Pass : startShiftHandover(c, u, v, b, p)
       \/ RequestTill(c) \/ RecordPass(c)
       \/ \E p \in Pass, as \in {"COMPLETED", "REJECTED", "CANCELLED"} : JudgeSettle(c, p, as)
       \/ SettleTill(c) \/ SettlePass(c) \/ Abandon(c)
  \/ \E d \in Duty : cancelShiftAssignment(d)
  \/ \E p \in Pass : SettleTillAlone(p)

ShiftsSpec == ShiftsInit /\ [][ShiftsNext]_shiftVars

------------------------------------------------------------------------------
(* Properties *)

(***************************************************************************)
(* However starts, sign-ins, handovers and cancellations fall together, one *)
(* session is on an entry that was started and none on one that was not,    *)
(* it is its person's at its site, and a completed entry's has ended        *)
(* ("never two rows and never a session on a cancelled shift",              *)
(* shifts/service.ts).  A person has one open session.                      *)
(***************************************************************************)
On(d) == {s \in Shift : shift[s].duty = d}
RotaWorkedOnce ==
  /\ \A d \in Duty :
       /\ Cardinality(On(d)) = IF duty[d] \in {"STARTED", "COMPLETED"} THEN 1 ELSE 0
       /\ \A s \in On(d) :
            /\ shift[s].by = Rota[d].by /\ shift[s].site = Rota[d].site
            /\ duty[d] = "COMPLETED" => shift[s].status = "CLOSED"
  /\ \A u \in Person : Cardinality(Working(u)) <= 1

(***************************************************************************)
(* A settled handover and its till agree, whoever else settles either at    *)
(* the same time ("neither can end with a taken till on a cancelled shift", *)
(* handover/shift-service.ts).                                              *)
(***************************************************************************)
TillFollowsShift ==
  \A p \in Pass :
    pass[p].status \in {"COMPLETED", "REJECTED", "CANCELLED"} /\ pass[p].cash # "NONE" =>
      pass[p].cash = WithIt(pass[p].status)

(***************************************************************************)
(* Not so: "the two move together".  A till settled on the session screen,  *)
(* or by a call that ends before its second write, leaves the shift waiting *)
(* with no way to settle it.                                                *)
(***************************************************************************)
MovesTogether ==
  (\A c \in Visit : visit[c] = NoVisit) =>
    \A p \in Pass : Waiting(p) => pass[p].cash \in {"NONE", "PENDING"}

==============================================================================
