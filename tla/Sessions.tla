------------------------------ MODULE Sessions -------------------------------
(***************************************************************************)
(* One person's sign-ins.  A row per refresh token; a browser's cookies     *)
(* name a row each for its refresh and its access token.  A request looks   *)
(* its token up, may find it due and replace it, and answers with cookies   *)
(* that arrive later, after others, or never.  Meanwhile the person signs   *)
(* out, ends the other sessions, or resets the password.                    *)
(*                                                                          *)
(* A rotation and a reset take the person's advisory lock; a sign-in, a     *)
(* sign-out and the ending of other sessions do not.                        *)
(***************************************************************************)
EXTENDS Naturals, FiniteSets

CONSTANTS
  Row, Browser, Request,
  Nobody,
  MaxResets  \* bound: password resets

ASSUME NobodyIsNoRow == Nobody \notin Row /\ MaxResets \in Nat

VARIABLES row, jar, request, resets
sessionVars == <<row, jar, request, resets>>

\* due is whether it is a day old, grace whether it was replaced moments ago.
\* Histories: root is the sign-in a row descends from, born how many resets there
\* had been when that was made.
SessionRow == [status: {"none", "live", "rotated", "ended"}, replacedBy: Row \cup {Nobody},
               due: BOOLEAN, grace: BOOLEAN, root: Row \cup {Nobody}, born: 0..MaxResets]

Unused == [status |-> "none", replacedBy |-> Nobody, due |-> FALSE, grace |-> FALSE,
           root |-> Nobody, born |-> 0]

Cookies == [refresh: Row \cup {Nobody}, access: Row \cup {Nobody}]
NoCookies == [refresh |-> Nobody, access |-> Nobody]

Awaited == [op |-> "waiting"]
\* clears: the refresh endpoint drops the cookies of a request it refuses, a page
\* that renews on the way does not.  sets is what an answer changes.
Requests ==
  {Awaited}
    \cup [op: {"refresh"}, at: {"sent", "due", "lost"}, browser: Browser, token: Row,
          clears: BOOLEAN]
    \cup [op: {"signin", "signout"}, browser: Browser, token: Row \cup {Nobody}]
    \cup [op: {"others"}, keep: Row]
    \cup [op: {"ending"}, keep: Row, rows: SUBSET Row]
    \cup [op: {"answer"}, browser: Browser, sets: Cookies \cup {NoCookies},
          what: {"both", "access", "clear"}]

SessionsTypeOK ==
  /\ row \in [Row -> SessionRow]
  /\ jar \in [Browser -> Cookies]
  /\ request \in [Request -> Requests]
  /\ resets \in 0..MaxResets
  /\ \A t \in Row : row[t].status = "rotated" <=> row[t].replacedBy # Nobody

Live(t) == row[t].status = "live"
Begin(r, q) == request[r] = Awaited /\ request' = [request EXCEPT ![r] = q]
Reply(r, b, what, sets) ==
  request' = [request EXCEPT ![r] = [op |-> "answer", browser |-> b, what |-> what,
                                     sets |-> sets]]
Finish(r) == request' = [request EXCEPT ![r] = Awaited]
Access(t) == [NoCookies EXCEPT !.access = t]

------------------------------------------------------------------------------
(* Time *)

\* A token is never a day old within the half minute that its predecessor is
\* still answered for.
GrowsDue(t) ==
  /\ Live(t) /\ ~row[t].due
  /\ \A p \in Row : row[p].replacedBy = t => ~row[p].grace
  /\ row' = [row EXCEPT ![t].due = TRUE]
  /\ UNCHANGED <<jar, request, resets>>

GraceEnds(t) ==
  /\ row[t].grace
  /\ row' = [row EXCEPT ![t].grace = FALSE]
  /\ UNCHANGED <<jar, request, resets>>

------------------------------------------------------------------------------
(* Signing in and out *)

Judge(r, b) ==
  /\ Begin(r, [op |-> "signin", browser |-> b, token |-> Nobody])
  /\ UNCHANGED <<row, jar, resets>>

createSession(r) ==
  /\ request[r].op = "signin"
  /\ \E t \in Row :
       /\ row[t].status = "none"
       /\ row' = [row EXCEPT ![t] = [Unused EXCEPT !.status = "live", !.root = t,
                                                   !.born = resets]]
       /\ Reply(r, request[r].browser, "both", [refresh |-> t, access |-> t])
  /\ UNCHANGED <<jar, resets>>

SignOut(r, b) ==
  /\ jar[b].refresh # Nobody
  /\ Begin(r, [op |-> "signout", browser |-> b, token |-> jar[b].refresh])
  /\ UNCHANGED <<row, jar, resets>>

\* Revoked without a successor, if it is still there to be revoked.
Ended(t) == [row[t] EXCEPT !.status = IF @ = "live" THEN "ended" ELSE @]
destroySession(r) ==
  /\ request[r].op = "signout"
  /\ row' = [row EXCEPT ![request[r].token] = Ended(request[r].token)]
  /\ Reply(r, request[r].browser, "clear", NoCookies)
  /\ UNCHANGED <<jar, resets>>

------------------------------------------------------------------------------
(* Refreshing *)

SendRefresh(r, b, clears) ==
  /\ jar[b].refresh # Nobody
  /\ Begin(r, [op |-> "refresh", at |-> "sent", browser |-> b, token |-> jar[b].refresh,
               clears |-> clears])
  /\ UNCHANGED <<row, jar, resets>>

\* One hop, within the grace window, to a successor that is live.
LookupStrict(t) == IF Live(t) THEN t ELSE Nobody        \* mutant: the loser is refused
Lookup(t) ==
  IF Live(t) THEN t
  ELSE IF row[t].status = "rotated" /\ row[t].grace /\ Live(row[t].replacedBy)
       THEN row[t].replacedBy ELSE Nobody

Refused(r) ==
  IF request[r].clears THEN Reply(r, request[r].browser, "clear", NoCookies) ELSE Finish(r)
Renewed(r, t) == Reply(r, request[r].browser, "access", Access(t))

lookupRefreshSession(r) ==
  /\ request[r].op = "refresh" /\ request[r].at \in {"sent", "lost"}
  /\ LET t == request[r].token
         found == Lookup(t)
     IN  IF found = Nobody THEN Refused(r)
         ELSE IF found = t /\ row[t].due /\ request[r].at = "sent"
              THEN request' = [request EXCEPT ![r].at = "due"]
              ELSE Renewed(r, found)
  /\ UNCHANGED <<row, jar, resets>>

StillTheirs(t) == row[t].status # "none"       \* mutant: revoked by id alone
StillLive(t) == Live(t)

Replaced(t, s) == [row[t] EXCEPT !.status = "rotated", !.replacedBy = s, !.grace = TRUE]

\* The successor and the mark on its predecessor, or neither.
rotateSessionRecord(r) ==
  /\ request[r].op = "refresh" /\ request[r].at = "due"
  /\ LET t == request[r].token
     IN  IF StillLive(t)
         THEN \E s \in Row :
                /\ row[s].status = "none"
                /\ row' = [row EXCEPT
                     ![s] = [Unused EXCEPT !.status = "live", !.root = row[t].root,
                                           !.born = row[t].born],
                     ![t] = Replaced(t, s)]
                /\ Reply(r, request[r].browser, "both", [refresh |-> s, access |-> s])
         ELSE request' = [request EXCEPT ![r].at = "lost"] /\ UNCHANGED row
  /\ UNCHANGED <<jar, resets>>

\* What a browser does with the cookies of an answer; it may come too late.
Deliver(r) ==
  /\ request[r].op = "answer"
  /\ jar' = [jar EXCEPT ![request[r].browser] =
       IF request[r].what = "access" THEN [@ EXCEPT !.access = request[r].sets.access]
       ELSE request[r].sets]
  /\ Finish(r)
  /\ UNCHANGED <<row, resets>>

Lose(r) ==
  /\ request[r].op = "answer"
  /\ Finish(r)
  /\ UNCHANGED <<row, jar, resets>>

------------------------------------------------------------------------------
(* Ending sessions *)

\* Signed out everywhere else, or the password changed: the caller's own session
\* is the one its access token names.
SendEndOthers(r, b) ==
  /\ jar[b].access # Nobody /\ Live(jar[b].access)
  /\ Begin(r, [op |-> "others", keep |-> jar[b].access])
  /\ UNCHANGED <<row, jar, resets>>

\* One statement without the lock: what a rotation replaces after the rows were
\* found is skipped, and what it puts in their place was not found.
FindOthers(r) ==
  /\ request[r].op = "others"
  /\ request' = [request EXCEPT ![r] =
       [op |-> "ending", keep |-> request[r].keep,
        rows |-> {t \in Row : Live(t) /\ t # request[r].keep}]]
  /\ UNCHANGED <<row, jar, resets>>

EndOthers(r) ==
  /\ request[r].op = "ending"
  /\ row' = [t \in Row |-> IF t \in request[r].rows THEN Ended(t) ELSE row[t]]
  /\ Finish(r)
  /\ UNCHANGED <<jar, resets>>

\* A reset revokes under the lock, in one transaction with the new password.
completeReset ==
  /\ resets < MaxResets
  /\ resets' = resets + 1
  /\ row' = [t \in Row |-> Ended(t)]
  /\ UNCHANGED <<jar, request>>

------------------------------------------------------------------------------
(* Specification *)

SessionsInit ==
  /\ row = [t \in Row |-> Unused]
  /\ jar = [b \in Browser |-> NoCookies]
  /\ request = [r \in Request |-> Awaited]
  /\ resets = 0

SessionsNext ==
  \/ \E t \in Row : GrowsDue(t) \/ GraceEnds(t)
  \/ \E r \in Request, b \in Browser :
       \/ Judge(r, b) \/ SignOut(r, b) \/ SendEndOthers(r, b)
       \/ \E clears \in BOOLEAN : SendRefresh(r, b, clears)
  \/ \E r \in Request :
       \/ createSession(r) \/ destroySession(r) \/ lookupRefreshSession(r)
       \/ rotateSessionRecord(r) \/ FindOthers(r) \/ EndOthers(r) \/ Deliver(r) \/ Lose(r)
  \/ completeReset

SessionsSpec == SessionsInit /\ [][SessionsNext]_sessionVars

------------------------------------------------------------------------------
(* What must hold *)

\* However many requests find one token due, a sign-in has one live session: the
\* losers' successors are never kept (rotateSessionRecord).
OneHeadEach ==
  \A s, t \in Row : Live(s) /\ Live(t) /\ row[s].root = row[t].root => s = t

\* After a reset nothing lives that was signed in before it, not even what a
\* rotation in flight puts in its place (lockUserSessions).
ResetEndsAll == \A t \in Row : Live(t) => row[t].born = resets

\* Together: a refresh neither forks a sign-in nor carries it past a reset.
OneLiveEach == OneHeadEach /\ ResetEndsAll

Turned(q) == q = Awaited \/ (q.op = "answer" /\ q.what = "clear")
\* A request whose sign-in still has a live session is refused only if its token
\* was replaced longer ago than the grace window: no race signs anybody out.
RefusedOnlyLate ==
  [][\A r \in Request :
       /\ request[r].op = "refresh"
       /\ request'[r] # request[r] /\ Turned(request'[r])
       => LET t == request[r].token
          IN  (\E s \in Row : Live(s) /\ row[s].root = row[t].root)
                => row[t].status = "rotated" /\ ~row[t].grace]_sessionVars

------------------------------------------------------------------------------
(* What comments say, and the code breaks *)

\* "Keep the current session, drop everything else."
CurrentIsKept ==
  [][\A r \in Request, s \in Row :
       /\ request[r].op = "ending" /\ request'[r] = Awaited
       /\ Live(s) /\ row'[s].status = "ended"
       => row[s].root # row[request[r].keep].root]_sessionVars
==============================================================================
