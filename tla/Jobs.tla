-------------------------------- MODULE Jobs ---------------------------------
(***************************************************************************)
(* The queue of background jobs.  Every invocation of the scheduler is a    *)
(* runner: it queues again what has been running too long, claims a batch   *)
(* of due jobs in one transaction, and runs them one by one, each result    *)
(* written by the job's id alone.  A runner may die with its batch.         *)
(*                                                                          *)
(* One row per key: the unique dedupeKey makes the first ask the only one.  *)
(***************************************************************************)
EXTENDS Naturals, FiniteSets

CONSTANTS
  Job, Runner,
  Limit,        \* jobs one invocation claims
  MaxAttempts,  \* maxAttempts of each job
  Watched,      \* bound: the jobs an operator looks after
  MaxDeaths     \* bound: invocations that die

ASSUME JobBounds == /\ Limit \in Nat \ {0} /\ MaxDeaths \in Nat
                    /\ MaxAttempts \in [Job -> Nat \ {0}]

VARIABLES job, runner, deaths
jobsVars == <<job, runner, deaths>>

\* due is whether runAt has come, stale whether startedAt is long past.  retry
\* and requeued are histories: whether an operator has seen it failed and asked for
\* it again (once: a bound), how often it was queued again without its runner.
JobRow == [status: {"NONE", "QUEUED", "RUNNING", "DONE", "FAILED"}, attempts: Nat,
           due: BOOLEAN, stale: BOOLEAN, retry: {"never", "offered", "used"}, requeued: Nat]

\* attempts is as it was when the batch was claimed.
RunnerRow == [at: {"idle", "reclaimed", "running"}, batch: SUBSET Job,
              attempts: [Job -> Nat]]

Idle == [at |-> "idle", batch |-> {}, attempts |-> [j \in Job |-> 0]]

JobsTypeOK ==
  /\ job \in [Job -> JobRow]
  /\ runner \in [Runner -> RunnerRow]
  /\ deaths \in 0..MaxDeaths
  /\ \A r \in Runner : runner[r].batch # {} => runner[r].at = "running"
  /\ \A j \in Job : job[j].status \in {"NONE", "QUEUED"} => ~job[j].stale

------------------------------------------------------------------------------
(* Time, and asking for work *)

enqueue(j) ==
  /\ job[j].status = "NONE"
  /\ job' = [job EXCEPT ![j].status = "QUEUED", ![j].due = TRUE]
  /\ UNCHANGED <<runner, deaths>>

ComesDue(j) ==
  /\ job[j].status = "QUEUED" /\ ~job[j].due
  /\ job' = [job EXCEPT ![j].due = TRUE]
  /\ UNCHANGED <<runner, deaths>>

GrowsStale(j) ==
  /\ job[j].status = "RUNNING" /\ ~job[j].stale
  /\ job' = [job EXCEPT ![j].stale = TRUE]
  /\ UNCHANGED <<runner, deaths>>

Queued(row, due) == [row EXCEPT !.status = "QUEUED", !.due = due, !.stale = FALSE]
Requeued(row) == [Queued(row, TRUE) EXCEPT !.requeued = @ + 1]
Retried(row) == [Requeued(row) EXCEPT !.attempts = 0, !.retry = "used"]

\* A retry of what an operator saw failed, whatever it has become meanwhile.
retryJob(j) ==
  /\ job[j].retry = "offered"
  /\ job' = [job EXCEPT ![j] = Retried(job[j])]
  /\ UNCHANGED <<runner, deaths>>

------------------------------------------------------------------------------
(* One invocation *)

StaleNever(j) == FALSE                         \* mutant: nothing is reclaimed
Stale(j) == job[j].status = "RUNNING" /\ job[j].stale

\* Queued again as due as it was; its attempts are not looked at.
Reclaim(r) ==
  /\ runner[r].at = "idle"
  /\ job' = [j \in Job |-> IF Stale(j) THEN Requeued(job[j]) ELSE job[j]]
  /\ runner' = [runner EXCEPT ![r].at = "reclaimed"]
  /\ UNCHANGED deaths

ClaimableRunning(j) == job[j].status \in {"QUEUED", "RUNNING"} /\ job[j].due
Claimable(j) == job[j].status = "QUEUED" /\ job[j].due
Claimed(row) == [row EXCEPT !.status = "RUNNING", !.stale = FALSE, !.attempts = @ + 1]

Claim(r) ==
  /\ runner[r].at = "reclaimed"
  /\ \E batch \in SUBSET {j \in Job : Claimable(j)} :
       /\ Cardinality(batch) <= Limit
       /\ \/ Cardinality(batch) = Limit
          \/ batch = {j \in Job : Claimable(j)}
       /\ job' = [j \in Job |-> IF j \in batch THEN Claimed(job[j]) ELSE job[j]]
       /\ runner' = [runner EXCEPT ![r] =
            [at |-> IF batch = {} THEN "idle" ELSE "running", batch |-> batch,
             attempts |-> [j \in Job |-> IF j \in batch THEN Claimed(job[j]).attempts ELSE 0]]]
  /\ UNCHANGED deaths

\* The next one, when j's result is written.
Next1(r, j) ==
  runner' = [runner EXCEPT ![r] =
    IF runner[r].batch = {j} THEN Idle
    ELSE [runner[r] EXCEPT !.batch = runner[r].batch \ {j}, !.attempts[j] = 0]]

Succeed(r, j) ==
  /\ j \in runner[r].batch
  /\ job' = [job EXCEPT ![j].status = "DONE"]
  /\ Next1(r, j)
  /\ UNCHANGED deaths

Exhausted(r, j) == runner[r].attempts[j] >= MaxAttempts[j]

\* Given up, and offered for a retry the first time.
Failed(j) ==
  [job[j] EXCEPT !.status = "FAILED",
                 !.retry = IF @ = "never" /\ j \in Watched THEN "offered" ELSE @]

\* Out of attempts it stops; otherwise it waits, the longer the oftener it failed.
Throw(r, j) ==
  /\ j \in runner[r].batch
  /\ job' = [job EXCEPT ![j] = IF Exhausted(r, j) THEN Failed(j) ELSE Queued(job[j], FALSE)]
  /\ Next1(r, j)
  /\ UNCHANGED deaths

Die(r) ==
  /\ runner[r].at # "idle" /\ deaths < MaxDeaths
  /\ runner' = [runner EXCEPT ![r] = Idle]
  /\ deaths' = deaths + 1
  /\ UNCHANGED job

------------------------------------------------------------------------------
(* Specification *)

JobsInit ==
  /\ job = [j \in Job |-> [status |-> "NONE", attempts |-> 0, due |-> FALSE, stale |-> FALSE,
                           retry |-> "never", requeued |-> 0]]
  /\ runner = [r \in Runner |-> Idle]
  /\ deaths = 0

Proceed(r) ==
  Reclaim(r) \/ Claim(r) \/ \E j \in Job : Succeed(r, j) \/ Throw(r, j)
JobsNext ==
  \/ \E j \in Job : enqueue(j) \/ ComesDue(j) \/ GrowsStale(j) \/ retryJob(j)
  \/ \E r \in Runner : Proceed(r) \/ Die(r)

\* Time passes, the scheduler goes on firing, and what it starts comes to an end.
JobsFairness ==
  /\ \A j \in Job : WF_jobsVars(ComesDue(j)) /\ WF_jobsVars(GrowsStale(j))
  /\ \A r \in Runner : WF_jobsVars(Proceed(r))
JobsSpec == JobsInit /\ [][JobsNext]_jobsVars /\ JobsFairness

------------------------------------------------------------------------------
(* What must hold *)

\* Two runners have the same job only if it was queued again behind the back of
\* one of them: claiming never hands it out twice (SKIP LOCKED).
HandedOutOnce ==
  \A j \in Job : Cardinality({r \in Runner : j \in runner[r].batch}) <= 1 + job[j].requeued

\* A job that gives up was tried as often as it may be, unless an operator's retry
\* has set the count back.
GivesUpExhausted ==
  \A j \in Job : job[j].status = "FAILED" /\ job[j].retry # "used" =>
    job[j].attempts >= MaxAttempts[j]

\* Together: runners that overlap, die and are replaced neither share a job nor cost
\* it a try it had left.
QueueSound == JobsTypeOK /\ HandedOutOnce /\ GivesUpExhausted

\* Whatever dies or is overtaken, every job comes to rest: none waits or runs for
\* ever, and none is run again and again.
EventuallySettled ==
  \A j \in Job : <>[](job[j].status \in {"NONE", "DONE", "FAILED"})

------------------------------------------------------------------------------
(* What a comment says, and the code breaks *)

\* "attempts/maxAttempts still bound how many times it comes back".
AttemptsBounded == \A j \in Job : job[j].attempts <= MaxAttempts[j]
==============================================================================
