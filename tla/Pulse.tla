------------------------------- MODULE Pulse --------------------------------
(***************************************************************************)
(* Live updates without a socket.  A write stamps its row, may record an    *)
(* event under the next number, and is seen when it commits.  A screen      *)
(* polls: it is answered with a token (the newest stamp, a count) and the   *)
(* events after its cursor, and reloads when the token is another one.      *)
(*                                                                          *)
(* The number and the stamp are taken before the commit: neither says what  *)
(* has been committed since.                                                *)
(***************************************************************************)
EXTENDS Integers, FiniteSets, FiniteSetsExt

CONSTANTS
  Change,    \* the writes, each of a row of its own
  Past,      \* the one that was made, and told of, before anything here
  Counting,  \* those that move a count besides
  Screen,
  Page,      \* events one answer may carry
  NoToken,
  MaxClock,  \* bound: ticks of the clock that stamps
  MaxLost    \* bound: answers a screen loses

ASSUME PageHoldsOne == Page \in Nat \ {0}
ASSUME PastIsAChange == Past \in Change /\ Counting \subseteq Change \ {Past}

ASSUME PulseBounds == MaxClock \in Nat \ {0} /\ MaxLost \in Nat

VARIABLES clock, change, screen
pulseVars == <<clock, change, screen>>

------------------------------------------------------------------------------
(* The rows and the screens *)

\* moves is a history: whether its commit moved the token.
ChangeRow == [state: {"idle", "open", "done", "undone"}, stamp: Nat, seq: Nat, moves: BOOLEAN]

Done == {c \in Change : change[c].state = "done"}

Token == [stamp: Nat, count: Nat]
ASSUME NoneIsNoToken == NoToken \notin Token

MaxStamp == Max({change[c].stamp : c \in Done} \cup {0})
TokenNow == [stamp |-> MaxStamp, count |-> Cardinality(Done \cap Counting)]

\* since is the cursor and seq the one an answer brings, 0 for none.  Histories:
\* unseen is what was committed between the page and its first token, behind what
\* was before there was a cursor, late what it had passed at the commit.
ScreenRow ==
  [fetch: {"away", "none", "asked", "read"}, visible: BOOLEAN, timer: BOOLEAN,
   token: Token \cup {NoToken}, v: Token \cup {NoToken}, since: Nat, seq: Nat,
   events: SUBSET Change, seen: SUBSET Change, shown: SUBSET Change, stale: BOOLEAN,
   lost: 0..MaxLost, unseen: SUBSET Change, behind: SUBSET Change, late: SUBSET Change]

Away ==
  [fetch |-> "away", visible |-> FALSE, timer |-> FALSE, token |-> NoToken, v |-> NoToken,
   since |-> 0, seq |-> 0, events |-> {}, seen |-> {}, shown |-> {}, stale |-> FALSE,
   lost |-> 0, unseen |-> {}, behind |-> {}, late |-> {}]

PulseTypeOK ==
  /\ clock \in 1..MaxClock
  /\ change \in [Change -> ChangeRow]
  /\ screen \in [Screen -> ScreenRow]
  /\ \A s \in Screen : screen[s].fetch # "read" => screen[s].seq = 0 /\ screen[s].events = {}

------------------------------------------------------------------------------
(* Writing *)

ClockTicks == clock < MaxClock /\ clock' = clock + 1 /\ UNCHANGED <<change, screen>>

StampRow(c) ==
  /\ change[c].state = "idle"
  /\ change' = [change EXCEPT ![c].state = "open", ![c].stamp = clock]
  /\ UNCHANGED <<clock, screen>>

NextSeq == Max({change[c].seq : c \in Change}) + 1
emitOutbox(c) ==
  /\ change[c].state = "open" /\ change[c].seq = 0
  /\ change' = [change EXCEPT ![c].seq = NextSeq]
  /\ UNCHANGED <<clock, screen>>

\* As far as a screen has read, or is about to have.
Reach(s) == Max({screen[s].since, screen[s].seq})

Commit(c) ==
  /\ change[c].state = "open"
  /\ change' = [change EXCEPT ![c].state = "done",
                              ![c].moves = change[c].stamp > MaxStamp \/ c \in Counting]
  /\ screen' = [s \in Screen |->
       IF change[c].seq \in 1..Reach(s)
       THEN [screen[s] EXCEPT !.late = @ \cup {c}] ELSE screen[s]]
  /\ UNCHANGED clock

Rollback(c) ==
  /\ change[c].state = "open"
  /\ change' = [change EXCEPT ![c].state = "undone"]
  /\ UNCHANGED <<clock, screen>>

------------------------------------------------------------------------------
(* Polling *)

\* The page is rendered and its poller set off.
Mount(s) ==
  /\ screen[s].fetch = "away"
  /\ screen' = [screen EXCEPT ![s].fetch = "none", ![s].visible = TRUE,
                              ![s].timer = TRUE, ![s].shown = Done]
  /\ UNCHANGED <<clock, change>>

\* A request goes out and reads the token first.
Asked(row) ==
  [row EXCEPT !.fetch = "asked", !.v = TokenNow,
              !.unseen = IF row.token = NoToken THEN Done \ row.shown ELSE @]

tick(s) ==
  /\ screen[s].timer
  /\ screen' = [screen EXCEPT ![s] =
       LET row == [screen[s] EXCEPT !.timer = FALSE]
       IN  IF row.visible /\ row.fetch = "none" THEN Asked(row) ELSE row]
  /\ UNCHANGED <<clock, change>>

NewestDone == {c \in Done : change[c].seq > 0 /\ \A d \in Done : change[d].seq <= change[c].seq}
Waiting(s) == {c \in Done : change[c].seq > screen[s].since}
FirstPage(s) ==
  {c \in Waiting(s) : Cardinality({d \in Waiting(s) : change[d].seq < change[c].seq}) < Page}
SeqOf(S) == Max({change[c].seq : c \in S} \cup {0})
CursorNewest(s) == SeqOf(Waiting(s))           \* mutant: past what the page held
CursorAfter(s) == SeqOf(FirstPage(s))

\* Then the events: none, and where the stream is, for a screen without a cursor.
readOutbox(s) ==
  /\ screen[s].fetch = "asked"
  /\ screen' = [screen EXCEPT ![s] =
       IF screen[s].since = 0
       THEN [@ EXCEPT !.fetch = "read", !.seq = SeqOf(NewestDone), !.events = {}, !.behind = Done]
       ELSE [@ EXCEPT !.fetch = "read", !.seq = CursorAfter(s), !.events = FirstPage(s)]]
  /\ UNCHANGED <<clock, change>>

Scheduled(row) ==
  [row EXCEPT !.fetch = "none", !.timer = TRUE, !.v = row.token, !.seq = 0, !.events = {}]
NotScheduled(row) ==                           \* mutant: a failure ends the polling
  [Scheduled(row) EXCEPT !.timer = row.timer]
Rescheduled(row) == Scheduled(row)

Advanced(row) == IF row.seq = 0 THEN row.since ELSE row.seq

\* The first token is only what later ones are compared with.
Answer(s) ==
  /\ screen[s].fetch = "read"
  /\ LET row == screen[s]
     IN  screen' = [screen EXCEPT ![s] =
           Scheduled([row EXCEPT !.since = Advanced(row), !.seen = @ \cup row.events,
                                 !.token = row.v,
                                 !.stale = @ \/ row.token \notin {NoToken, row.v}])]
  /\ UNCHANGED <<clock, change>>

LoseAnswer(s) ==
  /\ screen[s].fetch \in {"asked", "read"} /\ screen[s].lost < MaxLost
  /\ screen' = [screen EXCEPT ![s] = Rescheduled([screen[s] EXCEPT !.lost = @ + 1])]
  /\ UNCHANGED <<clock, change>>

\* The page is rendered again.
Reload(s) ==
  /\ screen[s].stale
  /\ screen' = [screen EXCEPT ![s].stale = FALSE, ![s].shown = Done]
  /\ UNCHANGED <<clock, change>>

Hide(s) ==
  /\ screen[s].visible
  /\ screen' = [screen EXCEPT ![s].visible = FALSE, ![s].timer = FALSE]
  /\ UNCHANGED <<clock, change>>

\* Looking at it again polls at once, unless a poll is under way.
Show(s) ==
  /\ screen[s].fetch # "away" /\ ~screen[s].visible
  /\ screen' = [screen EXCEPT ![s] =
       LET row == [screen[s] EXCEPT !.visible = TRUE]
       IN  IF row.fetch = "none" THEN Asked(row) ELSE row]
  /\ UNCHANGED <<clock, change>>

------------------------------------------------------------------------------
(* Specification *)

PulseInit ==
  /\ clock = 1
  /\ change = [c \in Change |->
       IF c = Past THEN [state |-> "done", stamp |-> 1, seq |-> 1, moves |-> TRUE]
       ELSE [state |-> "idle", stamp |-> 0, seq |-> 0, moves |-> FALSE]]
  /\ screen = [s \in Screen |-> Away]

Poll(s) == tick(s) \/ readOutbox(s) \/ Answer(s)
PulseNext ==
  \/ ClockTicks
  \/ \E c \in Change : StampRow(c) \/ emitOutbox(c) \/ Commit(c) \/ Rollback(c)
  \/ \E s \in Screen : Mount(s) \/ Poll(s) \/ LoseAnswer(s) \/ Reload(s) \/ Hide(s) \/ Show(s)

\* Timers fire, answers come but for those that are lost, a reload is done.
PulseFairness == \A s \in Screen : WF_pulseVars(Poll(s)) /\ WF_pulseVars(Reload(s))
PulseSpec == PulseInit /\ [][PulseNext]_pulseVars /\ PulseFairness

------------------------------------------------------------------------------
(* What must hold *)

\* A screen whose token is the latest shows everything but what was committed
\* before its first token, and what moved no token when it was committed
\* (tick, staffToken): a skipped event alone costs no refresh.
MissedOnlyUnmoved ==
  \A s \in Screen :
    screen[s].token = TokenNow /\ ~screen[s].stale =>
      \A c \in Done \ screen[s].shown : ~change[c].moves \/ c \in screen[s].unseen

\* A cursor passes an event it has not delivered only if the event was committed
\* after it had passed (readOutbox, however full its pages).
SkippedOnlyLate ==
  \A s \in Screen : \A c \in Done :
    change[c].seq \in 1..screen[s].since =>
      c \in screen[s].seen \cup screen[s].behind \cup screen[s].late

\* Together: what a screen has missed is what nobody moved or what committed late,
\* whatever answers were lost.
ScreensSound == PulseTypeOK /\ MissedOnlyUnmoved /\ SkippedOnlyLate

\* A change that moves the token comes to be shown on every screen somebody looks
\* at, whatever answers were lost and however it was hidden meanwhile (schedule,
\* onVisibility).
EventuallyShown ==
  \A s \in Screen, c \in Change :
    (screen[s].fetch # "away" /\ c \in Done /\ change[c].moves)
      ~> (c \in screen[s].shown \cup screen[s].unseen \/ ~screen[s].visible)

------------------------------------------------------------------------------
(* What comments say, and the code breaks *)

\* "the pulse token, derived from MAX(updatedAt), cannot MISS a change".
TokenMissesNothing ==
  \A s \in Screen :
    screen[s].token = TokenNow /\ ~screen[s].stale =>
      Done \subseteq screen[s].shown \cup screen[s].unseen
==============================================================================
