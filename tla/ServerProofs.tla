---------------------------- MODULE ServerProofs -----------------------------
(***************************************************************************)
(* The queue of background jobs, for every number of jobs, runners, deaths  *)
(* and attempts; the polling of live updates, for every number of writes,   *)
(* screens, ticks of the clock and lost answers, and every size of page;    *)
(* and one live session for each sign-in, none after a reset, and no        *)
(* refusal but a late one, for every number of rows, browsers and requests. *)
(***************************************************************************)
EXTENDS Jobs, Pulse, Sessions, FiniteSetTheorems, TLAPS

USE JobBounds, PageHoldsOne, PastIsAChange, PulseBounds, NoneIsNoToken

------------------------------------------------------------------------------
(* Jobs: types *)

LEMMA JobsInitTyped == JobsInit => JobsTypeOK
BY DEF JobsInit, JobsTypeOK, JobRow, RunnerRow, Idle

\* A job queued again is a job, and is not stale.
LEMMA QueuedTyped ==
  ASSUME NEW entry \in JobRow, NEW due \in BOOLEAN
  PROVE  /\ Queued(entry, due) \in JobRow
         /\ Queued(entry, due).status = "QUEUED"
         /\ Queued(entry, due).stale = FALSE
         /\ Queued(entry, due).attempts = entry.attempts
         /\ Queued(entry, due).retry = entry.retry
         /\ Queued(entry, due).requeued = entry.requeued
BY DEF Queued, JobRow

\* The same, counted as queued again.
LEMMA RequeuedTyped ==
  ASSUME NEW entry \in JobRow
  PROVE  /\ Requeued(entry) \in JobRow
         /\ Requeued(entry).status = "QUEUED" /\ Requeued(entry).stale = FALSE
         /\ Requeued(entry).attempts = entry.attempts /\ Requeued(entry).retry = entry.retry
         /\ Requeued(entry).requeued = entry.requeued + 1
<1>1. \A q \in JobRow : q.requeued + 1 \in Nat
  BY DEF JobRow
<1>2. \A q \in JobRow : \A n \in Nat : [q EXCEPT !.requeued = n] \in JobRow
  BY DEF JobRow
<1>3. Requeued(entry) \in JobRow
  BY <1>1, <1>2, QueuedTyped DEF Requeued
<1> QED
  BY <1>3 DEF Requeued, Queued, JobRow

\* A retry sets the attempts back, and says so.
LEMMA RetriedTyped ==
  ASSUME NEW entry \in JobRow
  PROVE  /\ Retried(entry) \in JobRow
         /\ Retried(entry).status = "QUEUED" /\ Retried(entry).stale = FALSE
         /\ Retried(entry).retry = "used" /\ Retried(entry).requeued = entry.requeued + 1
<1>1. \A q \in JobRow : [q EXCEPT !.attempts = 0, !.retry = "used"] \in JobRow
  BY DEF JobRow
<1>2. Retried(entry) \in JobRow
  BY <1>1, RequeuedTyped DEF Retried
<1> QED
  BY <1>2 DEF Retried, Requeued, Queued, JobRow

LEMMA ClaimedTyped ==
  ASSUME NEW entry \in JobRow
  PROVE  /\ Claimed(entry) \in JobRow
         /\ Claimed(entry).status = "RUNNING" /\ Claimed(entry).attempts = entry.attempts + 1
         /\ Claimed(entry).retry = entry.retry /\ Claimed(entry).requeued = entry.requeued
<1>1. entry.attempts + 1 \in Nat
  BY DEF JobRow
<1>2. \A n \in Nat, f \in BOOLEAN :
        [entry EXCEPT !.status = "RUNNING", !.stale = f, !.attempts = n] \in JobRow
  BY DEF JobRow
<1>3. Claimed(entry) \in JobRow
  BY <1>1, <1>2 DEF Claimed
<1> QED
  BY <1>3 DEF Claimed, JobRow

LEMMA FailedTyped ==
  ASSUME NEW j \in Job, job[j] \in JobRow
  PROVE  /\ Failed(j) \in JobRow /\ Failed(j).status = "FAILED"
         /\ Failed(j).attempts = job[j].attempts /\ Failed(j).requeued = job[j].requeued
         /\ job[j].retry = "used" => Failed(j).retry = "used"
BY DEF Failed, JobRow

\* The runner that goes on to the next job, or is through with its batch.
LEMMA NextTyped ==
  ASSUME JobsTypeOK, NEW r \in Runner, NEW j \in Job, j \in runner[r].batch, Next1(r, j)
  PROVE  /\ runner' \in [Runner -> RunnerRow]
         /\ runner'[r].batch = runner[r].batch \ {j}
         /\ \A k \in runner'[r].batch : runner'[r].attempts[k] = runner[r].attempts[k]
         /\ \A x \in Runner : x # r => runner'[x] = runner[x]
         /\ \A x \in Runner : runner'[x].batch # {} => runner'[x].at = "running"
<1> DEFINE entry == [runner[r] EXCEPT !.batch = runner[r].batch \ {j}, !.attempts[j] = 0]
           next == IF runner[r].batch = {j} THEN Idle ELSE entry
<1>1. runner \in [Runner -> RunnerRow] /\ runner[r] \in RunnerRow /\ runner[r].at = "running"
  BY DEF JobsTypeOK
<1>2. runner' = [runner EXCEPT ![r] = next]
  BY DEF Next1
<1>3. /\ entry \in RunnerRow /\ entry.batch = runner[r].batch \ {j} /\ entry.at = runner[r].at
      /\ \A k \in Job : k # j => entry.attempts[k] = runner[r].attempts[k]
  BY <1>1 DEF RunnerRow
<1>4. Idle \in RunnerRow /\ Idle.batch = {}
  BY DEF Idle, RunnerRow
<1>5. entry.batch \subseteq Job
  BY <1>3 DEF RunnerRow
<1> HIDE DEF entry
<1>6. /\ next \in RunnerRow /\ next.batch = runner[r].batch \ {j}
      /\ next.batch # {} => next.at = "running"
      /\ \A k \in next.batch : next.attempts[k] = runner[r].attempts[k]
  BY <1>1, <1>3, <1>4, <1>5
<1> HIDE DEF next
<1>7. runner'[r] = next /\ \A x \in Runner : x # r => runner'[x] = runner[x]
  BY <1>1, <1>2
<1>8. runner' \in [Runner -> RunnerRow]
  BY <1>1, <1>2, <1>6
<1> QED
  BY <1>6, <1>7, <1>8 DEF JobsTypeOK

LEMMA QueueTyped == JobsTypeOK /\ [JobsNext]_jobsVars => JobsTypeOK'
<1> SUFFICES ASSUME JobsTypeOK, [JobsNext]_jobsVars PROVE JobsTypeOK'
  OBVIOUS
<1>0. job \in [Job -> JobRow] /\ runner \in [Runner -> RunnerRow] /\ deaths \in 0..MaxDeaths
  BY DEF JobsTypeOK
<1>1. CASE UNCHANGED jobsVars
  BY <1>1 DEF JobsTypeOK, jobsVars
<1>2. ASSUME NEW j \in Job, enqueue(j) PROVE JobsTypeOK'
  <2> DEFINE entry == [job[j] EXCEPT !.status = "QUEUED", !.due = TRUE]
  <2>1. job' = [job EXCEPT ![j] = entry]
    BY <1>2 DEF enqueue
  <2>2. entry \in JobRow /\ entry.stale = job[j].stale
    BY <1>0 DEF JobRow
  <2> QED
    BY <1>0, <1>2, <2>1, <2>2 DEF enqueue, JobsTypeOK
<1>3. ASSUME NEW j \in Job, ComesDue(j) PROVE JobsTypeOK'
  <2>1. [job[j] EXCEPT !.due = TRUE] \in JobRow
    BY <1>0 DEF JobRow
  <2> QED
    BY <1>0, <1>3, <2>1 DEF ComesDue, JobsTypeOK
<1>4. ASSUME NEW j \in Job, GrowsStale(j) PROVE JobsTypeOK'
  <2>1. [job[j] EXCEPT !.stale = TRUE] \in JobRow /\ [job[j] EXCEPT !.stale = TRUE].status = "RUNNING"
    BY <1>0, <1>4 DEF JobRow, GrowsStale
  <2> QED
    BY <1>0, <1>4, <2>1 DEF GrowsStale, JobsTypeOK
<1>5. ASSUME NEW j \in Job, retryJob(j) PROVE JobsTypeOK'
  BY <1>0, <1>5, RetriedTyped DEF retryJob, JobsTypeOK
<1>6. ASSUME NEW r \in Runner, Reclaim(r) PROVE JobsTypeOK'
  <2>1. job' \in [Job -> JobRow] /\ \A j \in Job : job'[j].status \in {"NONE", "QUEUED"} => ~job'[j].stale
    BY <1>0, <1>6, RequeuedTyped DEF Reclaim, JobsTypeOK
  <2>2. [runner[r] EXCEPT !.at = "reclaimed"] \in RunnerRow /\ runner[r].batch = {}
    BY <1>0, <1>6 DEF RunnerRow, JobsTypeOK, Reclaim
  <2> QED
    BY <1>0, <1>6, <2>1, <2>2 DEF Reclaim, JobsTypeOK
<1>7. ASSUME NEW r \in Runner, Claim(r) PROVE JobsTypeOK'
  <2>1. PICK batch \in SUBSET Job :
          /\ \A j \in batch : Claimable(j)
          /\ job' = [j \in Job |-> IF j \in batch THEN Claimed(job[j]) ELSE job[j]]
          /\ runner' = [runner EXCEPT ![r] =
               [at |-> IF batch = {} THEN "idle" ELSE "running", batch |-> batch,
                attempts |-> [j \in Job |-> IF j \in batch THEN Claimed(job[j]).attempts ELSE 0]]]
    BY <1>7 DEF Claim
  <2>2. job' \in [Job -> JobRow] /\ \A j \in Job : job'[j].status \in {"NONE", "QUEUED"} => ~job'[j].stale
    BY <1>0, <2>1, ClaimedTyped DEF JobsTypeOK
  <2>3. [j \in Job |-> IF j \in batch THEN Claimed(job[j]).attempts ELSE 0] \in [Job -> Nat]
    <3>1. \A j \in Job : Claimed(job[j]) \in JobRow
      BY <1>0, ClaimedTyped
    <3> QED
      BY <3>1 DEF JobRow
  <2>4. [at |-> IF batch = {} THEN "idle" ELSE "running", batch |-> batch,
         attempts |-> [j \in Job |-> IF j \in batch THEN Claimed(job[j]).attempts ELSE 0]]
          \in RunnerRow
    BY <2>3 DEF RunnerRow
  <2>5. runner' \in [Runner -> RunnerRow]
    BY <1>0, <2>1, <2>4
  <2>6. \A x \in Runner : runner'[x].batch # {} => runner'[x].at = "running"
    BY <1>0, <2>1 DEF JobsTypeOK
  <2> QED
    BY <1>0, <1>7, <2>2, <2>5, <2>6 DEF Claim, JobsTypeOK
<1>8. ASSUME NEW r \in Runner, NEW j \in Job, Succeed(r, j) PROVE JobsTypeOK'
  <2>1. [job[j] EXCEPT !.status = "DONE"] \in JobRow /\ [job[j] EXCEPT !.status = "DONE"].status = "DONE"
    BY <1>0 DEF JobRow
  <2> QED
    BY <1>0, <1>8, <2>1, NextTyped DEF Succeed, JobsTypeOK
<1>9. ASSUME NEW r \in Runner, NEW j \in Job, Throw(r, j) PROVE JobsTypeOK'
  <2>1. /\ Failed(j) \in JobRow /\ Failed(j).status = "FAILED"
        /\ Queued(job[j], FALSE) \in JobRow /\ ~Queued(job[j], FALSE).stale
    BY <1>0, FailedTyped, QueuedTyped
  <2> QED
    BY <1>0, <1>9, <2>1, NextTyped DEF Throw, JobsTypeOK
<1>10. ASSUME NEW r \in Runner, Die(r) PROVE JobsTypeOK'
  <2>1. Idle \in RunnerRow /\ Idle.batch = {}
    BY DEF Idle, RunnerRow
  <2> QED
    BY <1>0, <1>10, <2>1 DEF Die, JobsTypeOK
<1> QED
  BY <1>1, <1>2, <1>3, <1>4, <1>5, <1>6, <1>7, <1>8, <1>9, <1>10 DEF JobsNext, Proceed

------------------------------------------------------------------------------
(* Jobs: who has which *)

Holders(j) == {r \in Runner : j \in runner[r].batch}

\* One holder for each time a job was queued again, and one more while it runs: a job
\* that waits has no holder but those it was taken from.
Held ==
  \A j \in Job : /\ IsFiniteSet(Holders(j))
                 /\ Cardinality(Holders(j)) <=
                      job[j].requeued + (IF job[j].status = "RUNNING" THEN 1 ELSE 0)

\* What a runner remembers of a job's attempts is not more than the row says, unless
\* a retry has set that back.
Remembered ==
  \A r \in Runner : \A j \in runner[r].batch :
    job[j].retry # "used" => runner[r].attempts[j] <= job[j].attempts

QueueInv == JobsTypeOK /\ Held /\ Remembered /\ GivesUpExhausted

LEMMA QueueInit == JobsInit => QueueInv
<1> SUFFICES ASSUME JobsInit PROVE QueueInv
  OBVIOUS
<1>1. \A r \in Runner : runner[r].batch = {}
  BY DEF JobsInit, Idle
<1>2. \A j \in Job : Holders(j) = {} /\ job[j].requeued = 0 /\ job[j].status = "NONE"
  BY <1>1 DEF Holders, JobsInit
<1>3. IsFiniteSet({}) /\ Cardinality({}) = 0
  BY FS_EmptySet
<1>4. Held
  BY <1>2, <1>3 DEF Held
<1> QED
  BY <1>1, <1>2, <1>4, JobsInitTyped DEF QueueInv, Remembered, GivesUpExhausted

\* No runner takes or leaves, and no job stops running but to be queued again.
LEMMA HeldStill ==
  ASSUME Held, \A r \in Runner : runner'[r].batch = runner[r].batch,
         job \in [Job -> JobRow], job' \in [Job -> JobRow],
         \A j \in Job :
           \/ job'[j].requeued = job[j].requeued /\ job'[j].status = job[j].status
           \/ job'[j].requeued = job[j].requeued /\ job[j].status # "RUNNING"
           \/ job'[j].requeued = job[j].requeued + 1
  PROVE  Held'
<1> SUFFICES ASSUME NEW j \in Job
             PROVE  /\ IsFiniteSet(Holders(j)')
                    /\ Cardinality(Holders(j)') <=
                         job'[j].requeued + (IF job'[j].status = "RUNNING" THEN 1 ELSE 0)
  BY DEF Held
<1>1. Holders(j)' = Holders(j)
  BY DEF Holders
<1>2. IsFiniteSet(Holders(j)) /\ Cardinality(Holders(j)) \in Nat
  BY FS_CardinalityType DEF Held
<1>3. job[j].requeued \in Nat /\ job'[j].requeued \in Nat
  BY DEF JobRow
<1> QED
  BY <1>1, <1>2, <1>3 DEF Held

\* A runner writes the result of a job it holds, and holds it no longer.
LEMMA HeldLess ==
  ASSUME Held, job \in [Job -> JobRow], job' \in [Job -> JobRow],
         NEW r \in Runner, NEW j \in runner[r].batch, j \in Job,
         \A x \in Runner : x # r => runner'[x].batch = runner[x].batch,
         runner'[r].batch = runner[r].batch \ {j},
         \A k \in Job : k # j => job'[k] = job[k],
         job'[j].requeued = job[j].requeued
  PROVE  Held'
<1>1. Holders(j)' = Holders(j) \ {r} /\ r \in Holders(j)
  BY DEF Holders
<1>2. \A k \in Job : k # j => Holders(k)' = Holders(k)
  BY DEF Holders
<1>3. IsFiniteSet(Holders(j)) /\ Cardinality(Holders(j)) \in Nat
  BY FS_CardinalityType DEF Held
<1>4. IsFiniteSet(Holders(j)') /\ Cardinality(Holders(j)') = Cardinality(Holders(j)) - 1
  BY <1>1, <1>3, FS_RemoveElement
<1>5. job[j].requeued \in Nat
  BY DEF JobRow
<1>6. Cardinality(Holders(j)) <= job[j].requeued + 1
  BY <1>3, <1>5 DEF Held
<1>7. Cardinality(Holders(j)') <=
        job'[j].requeued + (IF job'[j].status = "RUNNING" THEN 1 ELSE 0)
  BY <1>3, <1>4, <1>5, <1>6
<1> QED
  BY <1>2, <1>4, <1>7 DEF Held

\* An invocation takes a batch of jobs that wait.
LEMMA HeldMore ==
  ASSUME Held, job \in [Job -> JobRow], job' \in [Job -> JobRow],
         NEW r \in Runner, NEW batch \in SUBSET Job, runner[r].batch = {},
         runner'[r].batch = batch,
         \A x \in Runner : x # r => runner'[x].batch = runner[x].batch,
         \A j \in batch : job[j].status = "QUEUED" /\ job'[j].status = "RUNNING",
         \A j \in Job : job'[j].requeued = job[j].requeued,
         \A j \in Job \ batch : job'[j].status = job[j].status
  PROVE  Held'
<1> SUFFICES ASSUME NEW j \in Job
             PROVE  /\ IsFiniteSet(Holders(j)')
                    /\ Cardinality(Holders(j)') <=
                         job'[j].requeued + (IF job'[j].status = "RUNNING" THEN 1 ELSE 0)
  BY DEF Held
<1>1. IsFiniteSet(Holders(j)) /\ Cardinality(Holders(j)) \in Nat /\ job[j].requeued \in Nat
  BY FS_CardinalityType DEF Held, JobRow
<1>2. CASE j \in batch
  <2>1. Holders(j)' = Holders(j) \cup {r} /\ r \notin Holders(j)
    BY <1>2 DEF Holders
  <2>2. IsFiniteSet(Holders(j)') /\ Cardinality(Holders(j)') = Cardinality(Holders(j)) + 1
    BY <1>1, <2>1, FS_AddElement
  <2>3. Cardinality(Holders(j)) <= job[j].requeued
    BY <1>1, <1>2 DEF Held
  <2> QED
    BY <1>1, <1>2, <2>2, <2>3
<1>3. CASE j \notin batch
  <2>1. Holders(j)' = Holders(j)
    BY <1>3 DEF Holders
  <2> QED
    BY <1>1, <1>3, <2>1 DEF Held
<1> QED
  BY <1>2, <1>3

\* A runner that dies holds nothing.
LEMMA HeldDead ==
  ASSUME Held, job' = job, job \in [Job -> JobRow],
         NEW r \in Runner, runner'[r].batch = {},
         \A x \in Runner : x # r => runner'[x].batch = runner[x].batch
  PROVE  Held'
<1> SUFFICES ASSUME NEW j \in Job
             PROVE  /\ IsFiniteSet(Holders(j)')
                    /\ Cardinality(Holders(j)') <=
                         job[j].requeued + (IF job[j].status = "RUNNING" THEN 1 ELSE 0)
  BY DEF Held
<1>1. IsFiniteSet(Holders(j)) /\ Cardinality(Holders(j)) \in Nat /\ job[j].requeued \in Nat
  BY FS_CardinalityType DEF Held, JobRow
<1>2. Holders(j)' = Holders(j) \ {r}
  BY DEF Holders
<1> DEFINE H == Holders(j)
<1>3. /\ IsFiniteSet(H \ {r}) /\ Cardinality(H \ {r}) \in Nat
      /\ Cardinality(H \ {r}) <= Cardinality(H)
  <2>1. H \ {r} \in SUBSET H
    OBVIOUS
  <2> HIDE DEF H
  <2>2. IsFiniteSet(H \ {r}) /\ Cardinality(H \ {r}) <= Cardinality(H)
    BY <1>1, <2>1, FS_Subset DEF H
  <2> QED
    BY <2>2, FS_CardinalityType
<1> QED
  BY <1>1, <1>2, <1>3 DEF Held

\* Rows that keep what a runner remembers, and are given up only when exhausted.
LEMMA RowsKept ==
  ASSUME JobsTypeOK, JobsTypeOK', Remembered, GivesUpExhausted,
         \A r \in Runner : \A j \in runner'[r].batch :
           j \in runner[r].batch /\ runner'[r].attempts[j] = runner[r].attempts[j],
         \A j \in Job :
           \/ job'[j].retry = "used"
           \/ /\ job[j].retry # "used" /\ job'[j].attempts = job[j].attempts
              /\ job'[j].status = "FAILED" =>
                   job[j].status = "FAILED" \/ job[j].attempts >= MaxAttempts[j]
  PROVE  Remembered' /\ GivesUpExhausted'
<1>1. Remembered'
  <2> SUFFICES ASSUME NEW r \in Runner, NEW j \in runner'[r].batch, job'[j].retry # "used"
               PROVE  runner'[r].attempts[j] <= job'[j].attempts
    BY DEF Remembered
  <2>1. j \in runner[r].batch /\ j \in Job
    BY DEF JobsTypeOK, RunnerRow
  <2> QED
    BY <2>1 DEF Remembered
<1>2. GivesUpExhausted'
  BY DEF GivesUpExhausted
<1> QED
  BY <1>1, <1>2

LEMMA QueueStep == QueueInv /\ [JobsNext]_jobsVars => QueueInv'
<1> SUFFICES ASSUME QueueInv, [JobsNext]_jobsVars PROVE QueueInv'
  OBVIOUS
<1> USE DEF QueueInv
<1>0. /\ job \in [Job -> JobRow] /\ job' \in [Job -> JobRow] /\ JobsTypeOK'
      /\ runner \in [Runner -> RunnerRow] /\ runner' \in [Runner -> RunnerRow]
  BY QueueTyped DEF JobsTypeOK
<1> DEFINE Same == UNCHANGED runner
           Kept(j) == /\ job'[j].attempts = job[j].attempts /\ job'[j].retry = job[j].retry
                      /\ job'[j].requeued = job[j].requeued
<1>1. CASE UNCHANGED jobsVars
  <2>1. Held'
    BY <1>0, <1>1, HeldStill DEF jobsVars
  <2> QED
    BY <1>0, <1>1, <2>1, RowsKept DEF jobsVars
<1>2. ASSUME NEW j \in Job, enqueue(j) \/ ComesDue(j) \/ GrowsStale(j) PROVE QueueInv'
  <2>1. /\ runner' = runner /\ \A k \in Job : k # j => job'[k] = job[k]
        /\ Kept(j) /\ job'[j].status # "FAILED"
        /\ job'[j].status = job[j].status \/ job[j].status # "RUNNING"
    BY <1>0, <1>2 DEF enqueue, ComesDue, GrowsStale, JobRow
  <2>2. Held'
    BY <1>0, <2>1, HeldStill
  <2> QED
    BY <1>0, <2>1, <2>2, RowsKept
<1>3. ASSUME NEW j \in Job, retryJob(j) PROVE QueueInv'
  <2>1. /\ runner' = runner /\ \A k \in Job : k # j => job'[k] = job[k]
        /\ job'[j].retry = "used" /\ job'[j].requeued = job[j].requeued + 1
    BY <1>0, <1>3, RetriedTyped DEF retryJob
  <2>2. Held'
    BY <1>0, <2>1, HeldStill
  <2> QED
    BY <1>0, <2>1, <2>2, RowsKept
<1>4. ASSUME NEW r \in Runner, Reclaim(r) PROVE QueueInv'
  <2>1. \A x \in Runner : /\ runner'[x].batch = runner[x].batch
                          /\ runner'[x].attempts = runner[x].attempts
    BY <1>0, <1>4 DEF Reclaim, RunnerRow
  <2>2. \A j \in Job :
          \/ job'[j] = job[j]
          \/ /\ job'[j].requeued = job[j].requeued + 1 /\ job'[j].status = "QUEUED"
             /\ job'[j].attempts = job[j].attempts /\ job'[j].retry = job[j].retry
    BY <1>0, <1>4, RequeuedTyped DEF Reclaim
  <2>3. Held'
    BY <1>0, <2>1, <2>2, HeldStill
  <2> QED
    BY <1>0, <2>1, <2>2, <2>3, RowsKept
<1>5. ASSUME NEW r \in Runner, Claim(r) PROVE QueueInv'
  <2>1. PICK batch \in SUBSET Job :
          /\ \A j \in batch : Claimable(j)
          /\ job' = [j \in Job |-> IF j \in batch THEN Claimed(job[j]) ELSE job[j]]
          /\ runner' = [runner EXCEPT ![r] =
               [at |-> IF batch = {} THEN "idle" ELSE "running", batch |-> batch,
                attempts |-> [j \in Job |-> IF j \in batch THEN Claimed(job[j]).attempts ELSE 0]]]
    BY <1>5 DEF Claim
  <2>2. /\ \A x \in Runner : x # r => runner'[x] = runner[x]
        /\ runner'[r].batch = batch
        /\ \A j \in batch : runner'[r].attempts[j] = Claimed(job[j]).attempts
    BY <1>0, <2>1
  <2>3. \A j \in Job \ batch : job'[j] = job[j]
    BY <2>1
  <2>4. \A j \in batch : /\ job[j].status = "QUEUED" /\ job'[j].status = "RUNNING"
                         /\ job'[j].attempts = Claimed(job[j]).attempts
                         /\ job'[j].attempts = job[j].attempts + 1
                         /\ job'[j].requeued = job[j].requeued /\ job'[j].retry = job[j].retry
    BY <1>0, <2>1, ClaimedTyped DEF Claimable
  <2>5. runner[r].batch = {}
    BY <1>0, <1>5 DEF Claim, JobsTypeOK, RunnerRow
  <2>6. Held'
    BY <1>0, <2>2, <2>3, <2>4, <2>5, HeldMore
  <2>7. Remembered'
    <3> SUFFICES ASSUME NEW x \in Runner, NEW j \in runner'[x].batch, job'[j].retry # "used"
                 PROVE  runner'[x].attempts[j] <= job'[j].attempts
      BY DEF Remembered
    <3>1. j \in Job /\ job[j].attempts \in Nat /\ job'[j].attempts \in Nat
      BY <1>0 DEF RunnerRow, JobRow
    <3>2. CASE x = r
      BY <2>2, <2>4, <3>1, <3>2
    <3>3. CASE x # r
      <4>1. runner'[x] = runner[x] /\ j \in runner[x].batch /\ runner[x].attempts[j] \in Nat
        BY <1>0, <2>2, <3>1, <3>3 DEF RunnerRow
      <4>2. job[j].retry # "used" /\ job'[j].attempts >= job[j].attempts
        BY <2>3, <2>4, <3>1
      <4> QED
        BY <3>1, <4>1, <4>2 DEF Remembered
    <3> QED
      BY <3>2, <3>3
  <2>8. GivesUpExhausted'
    BY <2>3, <2>4 DEF GivesUpExhausted
  <2> QED
    BY <1>0, <2>6, <2>7, <2>8
<1>6. ASSUME NEW r \in Runner, NEW j \in Job, Succeed(r, j) PROVE QueueInv'
  <2>1. j \in runner[r].batch /\ Next1(r, j)
    BY <1>6 DEF Succeed
  <2>2. Kept(j) /\ job'[j].status = "DONE" /\ \A k \in Job : k # j => job'[k] = job[k]
    BY <1>0, <1>6 DEF Succeed, JobRow
  <2>3. Held'
    BY <1>0, <2>1, <2>2, NextTyped, HeldLess
  <2> QED
    BY <1>0, <2>1, <2>2, <2>3, NextTyped, RowsKept
<1>7. ASSUME NEW r \in Runner, NEW j \in Job, Throw(r, j) PROVE QueueInv'
  <2>1. j \in runner[r].batch /\ Next1(r, j) /\ \A k \in Job : k # j => job'[k] = job[k]
    BY <1>0, <1>7 DEF Throw
  <2>2. job'[j] = IF Exhausted(r, j) THEN Failed(j) ELSE Queued(job[j], FALSE)
    BY <1>0, <1>7 DEF Throw
  <2>3. /\ job'[j].attempts = job[j].attempts /\ job'[j].requeued = job[j].requeued
        /\ job[j].retry = "used" => job'[j].retry = "used"
    <3>1. CASE Exhausted(r, j)
      BY <1>0, <2>2, <3>1, FailedTyped
    <3>2. CASE ~Exhausted(r, j)
      <4>1. job'[j] = Queued(job[j], FALSE) /\ job[j] \in JobRow
        BY <1>0, <2>2, <3>2
      <4> QED
        BY <4>1, QueuedTyped
    <3> QED
      BY <3>1, <3>2
  <2>4. job'[j].status = "FAILED" => Exhausted(r, j)
    BY <1>0, <2>2, QueuedTyped
  <2>5. Exhausted(r, j) /\ job[j].retry # "used" => job[j].attempts >= MaxAttempts[j]
    <3>1. job[j].attempts \in Nat /\ runner[r].attempts[j] \in Nat /\ MaxAttempts[j] \in Nat
      BY <1>0 DEF JobRow, RunnerRow
    <3>2. job[j].retry # "used" => runner[r].attempts[j] <= job[j].attempts
      BY <2>1 DEF Remembered
    <3> QED
      BY <3>1, <3>2 DEF Exhausted
  <2>6. Held'
    BY <1>0, <2>1, <2>3, NextTyped, HeldLess
  <2> QED
    BY <1>0, <2>1, <2>3, <2>4, <2>5, <2>6, NextTyped, RowsKept
<1>8. ASSUME NEW r \in Runner, Die(r) PROVE QueueInv'
  <2>1. job' = job /\ runner'[r].batch = {} /\ \A x \in Runner : x # r => runner'[x] = runner[x]
    BY <1>0, <1>8 DEF Die, Idle
  <2>2. Held'
    BY <1>0, <2>1, HeldDead
  <2> QED
    BY <1>0, <2>1, <2>2, RowsKept
<1> QED
  BY <1>1, <1>2, <1>3, <1>4, <1>5, <1>6, <1>7, <1>8 DEF JobsNext, Proceed

\* Runners that overlap, die and are replaced: a job is in two batches only as often as
\* it was queued again (claiming hands nothing out twice), and is given up only after
\* all its tries, but for what an operator retried (runJobs, retryJob).
THEOREM QueueIsSound == JobsSpec => []QueueSound
<1>1. JobsInit => QueueInv
  BY QueueInit
<1>2. QueueInv /\ [JobsNext]_jobsVars => QueueInv'
  BY QueueStep
<1>3. QueueInv => QueueSound
  <2> SUFFICES ASSUME QueueInv, NEW j \in Job
               PROVE  Cardinality(Holders(j)) <= 1 + job[j].requeued
    BY DEF QueueInv, QueueSound, HandedOutOnce, Holders
  <2>1. job[j].requeued \in Nat /\ Cardinality(Holders(j)) \in Nat
    BY FS_CardinalityType DEF QueueInv, Held, JobsTypeOK, JobRow
  <2> QED
    BY <2>1 DEF QueueInv, Held
<1> QED
  BY <1>1, <1>2, <1>3, PTL DEF JobsSpec

------------------------------------------------------------------------------
(* Pulse: what a maximum is *)

\* A set of naturals that something bounds has a greatest element.
LEMMA MaxOf ==
  ASSUME NEW S \in SUBSET Nat, S # {}, NEW n \in Nat, \A x \in S : x <= n
  PROVE  Max(S) \in S /\ \A x \in S : x <= Max(S)
<1> DEFINE T == {n - x : x \in S}
           R == OpToRel(<, Nat)
<1>5. \A x \in S : n - x \in T
  OBVIOUS
<1>6. T # {}
  BY <1>5
<1>7. T \subseteq Nat
  OBVIOUS
<1>1. T \subseteq Nat /\ T # {}
  BY <1>6, <1>7
<1>2. PICK t \in T : \A u \in T : <<u, t>> \notin R
  BY <1>1, WFMin, NatLessThanWellFounded
<1>3. \A u \in T : ~(u < t)
  BY <1>1, <1>2 DEF OpToRel
<1>4. PICK m \in S : t = n - m
  OBVIOUS
<1> HIDE DEF T
<1>8. \A x \in S : m >= x
  BY <1>3, <1>4, <1>5
<1>9. Max(S) \in S /\ \A x \in S : Max(S) >= x
  BY <1>8 DEF Max
<1> QED
  BY <1>9

\* The numbers given out are bounded, and so are the stamps.
Numbered ==
  /\ \A c \in Change : change[c].stamp <= clock
  /\ \E n \in Nat : \A c \in Change : change[c].seq <= n

\* What was made before anything here stays told.
PastTold == change[Past].state = "done" /\ change[Past].seq = 1 /\ IsFiniteSet(Done)

ChangesOK ==
  clock \in 1..MaxClock /\ change \in [Change -> ChangeRow] /\ Numbered /\ PastTold

NewestStamp ==
  /\ MaxStamp \in Nat /\ \A c \in Done : change[c].stamp <= MaxStamp
  /\ MaxStamp = 0 \/ \E c \in Done : change[c].stamp = MaxStamp

LEMMA MaxStampIs == ChangesOK => NewestStamp
<1> SUFFICES ASSUME ChangesOK PROVE NewestStamp
  OBVIOUS
<1> DEFINE S == {change[c].stamp : c \in Done} \cup {0}
<1>1. S \in SUBSET Nat /\ \A x \in S : x <= clock /\ clock \in Nat
  BY DEF ChangesOK, Numbered, Done, ChangeRow
<1>2. 0 \in S /\ \A c \in Done : change[c].stamp \in S
  OBVIOUS
<1>3. \A x \in S : x = 0 \/ \E c \in Done : change[c].stamp = x
  OBVIOUS
<1>4. MaxStamp = Max(S)
  BY DEF MaxStamp
<1> HIDE DEF S
<1>5. Max(S) \in S /\ \A x \in S : x <= Max(S)
  <2>1. S # {} /\ clock \in Nat
    BY <1>1, <1>2
  <2> QED
    BY <1>1, <2>1, MaxOf
<1> QED
  BY <1>1, <1>2, <1>3, <1>4, <1>5 DEF NewestStamp

LEMMA SeqOfIs ==
  ASSUME ChangesOK, NEW S \in SUBSET Change
  PROVE  /\ SeqOf(S) \in Nat /\ \A c \in S : change[c].seq <= SeqOf(S)
         /\ SeqOf(S) = 0 \/ \E c \in S : change[c].seq = SeqOf(S)
<1> DEFINE T == {change[c].seq : c \in S} \cup {0}
<1>1. PICK n \in Nat : \A c \in Change : change[c].seq <= n
  BY DEF ChangesOK, Numbered
<1>2. T \in SUBSET Nat /\ \A x \in T : x <= n
  BY <1>1 DEF ChangesOK, ChangeRow
<1>3. 0 \in T /\ \A c \in S : change[c].seq \in T
  OBVIOUS
<1>4. \A x \in T : x = 0 \/ \E c \in S : change[c].seq = x
  OBVIOUS
<1>5. SeqOf(S) = Max(T)
  BY DEF SeqOf
<1> HIDE DEF T
<1>6. T # {}
  BY <1>3
<1>7. Max(T) \in T /\ \A x \in T : x <= Max(T)
  BY <1>2, <1>6, MaxOf
<1> QED
  BY <1>2, <1>3, <1>4, <1>5, <1>7

LEMMA NextSeqIs ==
  ASSUME ChangesOK
  PROVE  NextSeq \in Nat \ {0} /\ \A c \in Change : change[c].seq < NextSeq
<1> DEFINE T == {change[c].seq : c \in Change}
<1>1. PICK n \in Nat : \A c \in Change : change[c].seq <= n
  BY DEF ChangesOK, Numbered
<1>2. T \in SUBSET Nat /\ \A x \in T : x <= n
  BY <1>1 DEF ChangesOK, ChangeRow
<1>3. \A c \in Change : change[c].seq \in T
  OBVIOUS
<1>6. T # {}
  BY <1>3
<1>4. NextSeq = Max(T) + 1
  BY DEF NextSeq
<1> HIDE DEF T
<1> HIDE DEF T
<1>5. Max(T) \in T /\ \A x \in T : x <= Max(T)
  BY <1>2, <1>6, MaxOf
<1>7. Max(T) \in Nat
  BY <1>2, <1>5
<1>8. \A c \in Change : change[c].seq \in Nat /\ change[c].seq <= Max(T)
  BY <1>2, <1>3, <1>5
<1> QED
  BY <1>4, <1>7, <1>8

------------------------------------------------------------------------------
(* Pulse: the token *)

NotAfter(t, u) == t.stamp <= u.stamp /\ t.count <= u.count

LEMMA TokenTyped == ChangesOK => TokenNow \in Token /\ TokenNow # NoToken
<1> SUFFICES ASSUME ChangesOK PROVE TokenNow \in Token /\ TokenNow # NoToken
  OBVIOUS
<1>1. IsFiniteSet(Done \cap Counting)
  BY FS_Intersection DEF ChangesOK, PastTold
<1>2. Cardinality(Done \cap Counting) \in Nat
  BY <1>1, FS_CardinalityType
<1> QED
  BY <1>2, MaxStampIs DEF TokenNow, Token, NewestStamp

\* The token stands while nothing is committed.
LEMMA TokenStands ==
  ASSUME Done' = Done, \A c \in Done : change'[c].stamp = change[c].stamp
  PROVE  TokenNow' = TokenNow
<1>1. {change'[c].stamp : c \in Done'} = {change[c].stamp : c \in Done}
  OBVIOUS
<1>2. MaxStamp' = MaxStamp
  BY <1>1 DEF MaxStamp
<1> QED
  BY <1>2 DEF TokenNow

\* A commit moves it on, or leaves it where it is.
LEMMA TokenMoves ==
  ASSUME ChangesOK, ChangesOK', NEW c \in Change, change[c].state = "open",
         Done' = Done \cup {c}, \A d \in Change : change'[d].stamp = change[d].stamp,
         change'[c].moves = (change[c].stamp > MaxStamp \/ c \in Counting)
  PROVE  /\ NotAfter(TokenNow, TokenNow')
         /\ change'[c].moves => ~NotAfter(TokenNow', TokenNow)
         /\ ~change'[c].moves => TokenNow' = TokenNow
<1>1. c \notin Done
  BY DEF Done
<1>2. MaxStamp' = IF change[c].stamp > MaxStamp THEN change[c].stamp ELSE MaxStamp
  <2>1. /\ MaxStamp' \in Nat /\ \A d \in Done' : change'[d].stamp <= MaxStamp'
        /\ MaxStamp' = 0 \/ \E d \in Done' : change'[d].stamp = MaxStamp'
    <3>1. NewestStamp'
      BY MaxStampIs, PTL
    <3> QED
      BY <3>1 DEF NewestStamp
  <2>2. change[c].stamp \in Nat /\ \A d \in Done : d \in Change /\ change[d].stamp \in Nat
    BY DEF ChangesOK, ChangeRow, Done
  <2> QED
    BY <2>1, <2>2, MaxStampIs DEF NewestStamp
<1> DEFINE K == Done \cap Counting
<1>3. IsFiniteSet(K) /\ Cardinality(K) \in Nat
  BY FS_Intersection, FS_CardinalityType DEF ChangesOK, PastTold
<1>4. Cardinality(K') = IF c \in Counting THEN Cardinality(K) + 1 ELSE Cardinality(K)
  <2>1. CASE c \in Counting
    <3>1. K' = K \cup {c} /\ c \notin K
      BY <1>1, <2>1
    <3> HIDE DEF K
    <3> QED
      BY <1>3, <2>1, <3>1, FS_AddElement
  <2>2. CASE c \notin Counting
    BY <2>2
  <2> QED
    BY <2>1, <2>2
<1>5. /\ TokenNow = [stamp |-> MaxStamp, count |-> Cardinality(K)]
      /\ TokenNow' = [stamp |-> MaxStamp', count |-> Cardinality(K')]
  BY DEF TokenNow
<1>6. MaxStamp \in Nat /\ change[c].stamp \in Nat
  BY MaxStampIs DEF ChangesOK, ChangeRow, NewestStamp
<1>7. /\ TokenNow.stamp = MaxStamp /\ TokenNow.count = Cardinality(K)
      /\ TokenNow'.stamp = MaxStamp' /\ TokenNow'.count = Cardinality(K')
  BY <1>5
<1> HIDE DEF K
<1>8. NotAfter(TokenNow, TokenNow')
  BY <1>2, <1>3, <1>4, <1>6, <1>7 DEF NotAfter
<1>9. change'[c].moves => ~NotAfter(TokenNow', TokenNow)
  <2> SUFFICES ASSUME change'[c].moves PROVE ~NotAfter(TokenNow', TokenNow)
    OBVIOUS
  <2>1. change[c].stamp > MaxStamp \/ c \in Counting
    BY Zenon
  <2> QED
    BY <2>1, <1>2, <1>3, <1>4, <1>6, <1>7 DEF NotAfter
<1>10. ~change'[c].moves => TokenNow' = TokenNow
  BY <1>2, <1>4, <1>5
<1> QED
  BY <1>8, <1>9, <1>10

------------------------------------------------------------------------------
(* Pulse: the rows *)

\* What a write may do to its row, with the fields it writes as parameters.
LEMMA ChangeTyped ==
  ASSUME NEW entry \in ChangeRow, NEW n \in Nat, NEW m \in BOOLEAN,
         NEW st \in {"idle", "open", "done", "undone"}
  PROVE  /\ [entry EXCEPT !.state = st, !.stamp = n] \in ChangeRow
         /\ [entry EXCEPT !.seq = n] \in ChangeRow
         /\ [entry EXCEPT !.state = st, !.moves = m] \in ChangeRow
         /\ [entry EXCEPT !.state = st] \in ChangeRow
BY DEF ChangeRow

\* Numbers and stamps stay bounded when one row is written within the bounds.
LEMMA ChangeKept ==
  ASSUME ChangesOK, NEW c \in Change, NEW entry \in ChangeRow,
         change' = [change EXCEPT ![c] = entry], clock' = clock,
         entry.stamp <= clock, c # Past, entry.state # "done" \/ change[c].state = "open",
         change[c].state # "done"
  PROVE  ChangesOK' /\ (entry.state # "done" => Done' = Done) /\ (entry.state = "done" => Done' = Done \cup {c})
<1>1. change' \in [Change -> ChangeRow] /\ change'[c] = entry
      /\ \A d \in Change : d # c => change'[d] = change[d]
  BY DEF ChangesOK
<1>2. Numbered'
  <2>1. \A d \in Change : change'[d].stamp <= clock
    BY <1>1 DEF ChangesOK, Numbered
  <2>2. PICK n \in Nat : \A d \in Change : change[d].seq <= n
    BY DEF ChangesOK, Numbered
  <2>3. entry.seq \in Nat /\ \A d \in Change : change[d].seq \in Nat
    BY DEF ChangeRow, ChangesOK
  <2>4. n + entry.seq \in Nat /\ \A d \in Change : change'[d].seq <= n + entry.seq
    BY <1>1, <2>2, <2>3
  <2> QED
    BY <2>1, <2>4 DEF Numbered
<1>3. (entry.state # "done" => Done' = Done) /\ (entry.state = "done" => Done' = Done \cup {c})
  BY <1>1 DEF Done
<1>4. IsFiniteSet(Done')
  <2>1. IsFiniteSet(Done)
    BY DEF ChangesOK, PastTold
  <2>2. IsFiniteSet(Done \cup {c})
    BY <2>1, FS_AddElement
  <2> QED
    BY <1>3, <2>1, <2>2
<1>5. PastTold'
  BY <1>1, <1>4 DEF PastTold, ChangesOK
<1> QED
  BY <1>1, <1>2, <1>3, <1>5 DEF ChangesOK

Told(entry) == entry.seen \cup entry.behind \cup entry.late
Explained(entry, done, ch) == \A c \in done \ entry.shown : ~ch[c].moves \/ c \in entry.unseen

\* A screen holds no token from the future; one with the latest shows what moved it;
\* what a cursor has passed was told, or about to be.
Sound(entry, done, ch, now) ==
  /\ entry.fetch \in {"asked", "read"} => entry.v \in Token
  /\ entry.token = NoToken => ~entry.stale
  /\ entry.token # NoToken => NotAfter(entry.token, now)
  /\ entry.v # NoToken => NotAfter(entry.v, now)
  /\ entry.token = now /\ ~entry.stale => Explained(entry, done, ch)
  /\ entry.fetch \in {"asked", "read"} /\ entry.token = NoToken /\ entry.v = now =>
       Explained(entry, done, ch)
  /\ \A c \in done : ch[c].seq \in 1..entry.since => c \in Told(entry)
  /\ \A c \in done : ch[c].seq \in 1..entry.seq => c \in Told(entry) \cup entry.events
  /\ entry.fetch # "read" => entry.seq = 0 /\ entry.events = {}

PulseInv ==
  /\ ChangesOK /\ screen \in [Screen -> ScreenRow]
  /\ \A s \in Screen : Sound(screen[s], Done, change, TokenNow)

\* A step that writes one screen's row, and no change.
LEMMA ScreenStep ==
  ASSUME PulseInv, UNCHANGED <<clock, change>>, NEW s \in Screen,
         NEW entry \in ScreenRow, Sound(entry, Done, change, TokenNow),
         screen' = [screen EXCEPT ![s] = entry]
  PROVE  PulseInv'
<1>1. Done' = Done
  BY DEF Done
<1>2. TokenNow' = TokenNow
  BY <1>1, TokenStands
<1>3. ChangesOK'
  BY <1>1 DEF PulseInv, ChangesOK, Numbered, PastTold
<1>4. screen' \in [Screen -> ScreenRow]
  BY DEF PulseInv
<1>5. \A x \in Screen : Sound(screen'[x], Done, change, TokenNow)
  BY DEF PulseInv
<1> QED
  BY <1>1, <1>2, <1>3, <1>4, <1>5 DEF PulseInv

\* Looking, hiding and the timer are nobody else's business.
Alike(a, b) ==
  /\ a.fetch = b.fetch /\ a.token = b.token /\ a.v = b.v /\ a.since = b.since
  /\ a.seq = b.seq /\ a.events = b.events /\ a.seen = b.seen /\ a.shown = b.shown
  /\ a.unseen = b.unseen /\ a.behind = b.behind /\ a.late = b.late
  /\ a.stale = b.stale

LEMMA AlikeSound ==
  ASSUME NEW a, NEW b, Alike(a, b), NEW done, NEW ch, NEW now, Sound(a, done, ch, now)
  PROVE  Sound(b, done, ch, now)
BY DEF Alike, Sound, Told, Explained

LEMMA LookTyped ==
  ASSUME NEW entry \in ScreenRow, NEW f \in BOOLEAN, NEW g \in BOOLEAN
  PROVE  /\ [entry EXCEPT !.timer = f] \in ScreenRow
         /\ [entry EXCEPT !.visible = g] \in ScreenRow
         /\ [entry EXCEPT !.visible = g, !.timer = f] \in ScreenRow
BY DEF ScreenRow

LEMMA LookAlike ==
  ASSUME NEW entry \in ScreenRow, NEW f \in BOOLEAN, NEW g \in BOOLEAN
  PROVE  /\ Alike(entry, [entry EXCEPT !.timer = f])
         /\ Alike(entry, [entry EXCEPT !.visible = g])
         /\ Alike(entry, [entry EXCEPT !.visible = g, !.timer = f])
BY DEF ScreenRow, Alike

LEMMA AskedSound ==
  ASSUME ChangesOK, NEW entry \in ScreenRow, entry.fetch = "none", Sound(entry, Done, change, TokenNow)
  PROVE  Asked(entry) \in ScreenRow /\ Sound(Asked(entry), Done, change, TokenNow)
<1>1. TokenNow \in Token /\ TokenNow # NoToken /\ Done \subseteq Change
  BY TokenTyped DEF Done
<1> DEFINE un == IF entry.token = NoToken THEN Done \ entry.shown ELSE entry.unseen
           now == TokenNow
<1>2. un \in SUBSET Change
  BY <1>1 DEF ScreenRow
<1>3. Asked(entry) = [entry EXCEPT !.fetch = "asked", !.v = now, !.unseen = un]
  BY DEF Asked
<1>4. NotAfter(now, now)
  BY <1>1 DEF NotAfter, Token
<1> HIDE DEF un, now
<1> DEFINE new == [entry EXCEPT !.fetch = "asked", !.v = now, !.unseen = un]
<1>5. new \in ScreenRow
  BY <1>1, <1>2 DEF ScreenRow, now
<1>6. /\ new.fetch = "asked" /\ new.v = now /\ new.unseen = un /\ new.token = entry.token
      /\ new.stale = entry.stale /\ new.seen = entry.seen /\ new.behind = entry.behind
      /\ new.late = entry.late /\ new.shown = entry.shown /\ new.since = entry.since
      /\ new.seq = entry.seq /\ new.events = entry.events
  BY DEF ScreenRow
<1> HIDE DEF new
<1>7. entry.token # NoToken => un = entry.unseen
  BY DEF un
<1>8. entry.token = NoToken => un = Done \ entry.shown
  BY DEF un
<1>9. Sound(new, Done, change, now)
  BY <1>1, <1>4, <1>6, <1>7, <1>8 DEF Sound, Told, Explained, now
<1> QED
  BY <1>3, <1>5, <1>9 DEF new, now

LEMMA TickStep == ASSUME PulseInv, NEW s \in Screen, tick(s) PROVE PulseInv'
<1> DEFINE entry == [screen[s] EXCEPT !.timer = FALSE]
<1>1. screen[s] \in ScreenRow /\ Sound(screen[s], Done, change, TokenNow) /\ ChangesOK
  BY DEF PulseInv
<1>2. entry \in ScreenRow /\ Alike(screen[s], entry)
  BY <1>1, LookTyped, LookAlike
<1>3. Sound(entry, Done, change, TokenNow)
  BY <1>1, <1>2, AlikeSound
<1>4. screen' = [screen EXCEPT ![s] = IF entry.visible /\ entry.fetch = "none" THEN Asked(entry) ELSE entry]
  BY DEF tick
<1>5. UNCHANGED <<clock, change>>
  BY DEF tick
<1> HIDE DEF entry
<1>6. CASE entry.visible /\ entry.fetch = "none"
  <2>1. Asked(entry) \in ScreenRow /\ Sound(Asked(entry), Done, change, TokenNow)
    BY <1>1, <1>2, <1>3, <1>6, AskedSound
  <2>2. screen' = [screen EXCEPT ![s] = Asked(entry)]
    BY <1>4, <1>6
  <2> QED
    BY <1>5, <2>1, <2>2, ScreenStep
<1>7. CASE ~(entry.visible /\ entry.fetch = "none")
  <2>1. screen' = [screen EXCEPT ![s] = entry]
    BY <1>4, <1>7
  <2> QED
    BY <1>2, <1>3, <1>5, <2>1, ScreenStep
<1> QED
  BY <1>6, <1>7

LEMMA ShowStep == ASSUME PulseInv, NEW s \in Screen, Show(s) PROVE PulseInv'
<1> DEFINE entry == [screen[s] EXCEPT !.visible = TRUE]
<1>1. screen[s] \in ScreenRow /\ Sound(screen[s], Done, change, TokenNow) /\ ChangesOK
  BY DEF PulseInv
<1>2. entry \in ScreenRow /\ Alike(screen[s], entry)
  BY <1>1, LookTyped, LookAlike
<1>3. Sound(entry, Done, change, TokenNow)
  BY <1>1, <1>2, AlikeSound
<1>4. screen' = [screen EXCEPT ![s] = IF entry.fetch = "none" THEN Asked(entry) ELSE entry]
  BY DEF Show
<1>5. UNCHANGED <<clock, change>>
  BY DEF Show
<1> HIDE DEF entry
<1>6. CASE entry.fetch = "none"
  <2>1. Asked(entry) \in ScreenRow /\ Sound(Asked(entry), Done, change, TokenNow)
    BY <1>1, <1>2, <1>3, <1>6, AskedSound
  <2>2. screen' = [screen EXCEPT ![s] = Asked(entry)]
    BY <1>4, <1>6
  <2> QED
    BY <1>5, <2>1, <2>2, ScreenStep
<1>7. CASE entry.fetch # "none"
  <2>1. screen' = [screen EXCEPT ![s] = entry]
    BY <1>4, <1>7
  <2> QED
    BY <1>2, <1>3, <1>5, <2>1, ScreenStep
<1> QED
  BY <1>6, <1>7

LEMMA HideStep == ASSUME PulseInv, NEW s \in Screen, Hide(s) PROVE PulseInv'
<1> DEFINE entry == [screen[s] EXCEPT !.visible = FALSE, !.timer = FALSE]
<1>1. screen[s] \in ScreenRow /\ Sound(screen[s], Done, change, TokenNow)
  BY DEF PulseInv
<1>2. entry \in ScreenRow /\ Alike(screen[s], entry)
  BY <1>1, LookTyped, LookAlike
<1>3. Sound(entry, Done, change, TokenNow)
  BY <1>1, <1>2, AlikeSound
<1>4. screen' = [screen EXCEPT ![s] = entry] /\ UNCHANGED <<clock, change>>
  BY DEF Hide
<1> HIDE DEF entry
<1> QED
  BY <1>2, <1>3, <1>4, ScreenStep

\* A page holds every event its cursor passes.
LEMMA PageFull ==
  ASSUME ChangesOK, NEW s \in Screen, NEW c \in Waiting(s),
         change[c].seq <= CursorAfter(s)
  PROVE  c \in FirstPage(s)
<1> DEFINE Ahead(x) == {d \in Waiting(s) : change[d].seq < change[x].seq}
<1>0. Waiting(s) \subseteq Done /\ FirstPage(s) \subseteq Waiting(s) /\ Done \subseteq Change
  BY DEF Waiting, FirstPage, Done
<1>1. \A x \in Change : change[x].seq \in Nat
  BY DEF ChangesOK, ChangeRow
<1>2. CASE CursorAfter(s) = 0
  <2>1. change[c].seq = 0 /\ c \in Change
    BY <1>0, <1>1, <1>2
  <2>2. Ahead(c) = {}
    BY <1>0, <1>1, <2>1
  <2>3. Cardinality(Ahead(c)) = 0
    BY <2>2, FS_EmptySet
  <2> QED
    BY <2>3 DEF FirstPage
<1>3. CASE CursorAfter(s) # 0
  <2>1. PICK d \in FirstPage(s) : change[d].seq = CursorAfter(s)
    BY <1>0, <1>3, SeqOfIs DEF CursorAfter
  <2>2. Ahead(c) \subseteq Ahead(d)
    BY <1>0, <1>1, <2>1
  <2>3. IsFiniteSet(Ahead(d))
    <3>1. Ahead(d) \in SUBSET Done /\ IsFiniteSet(Done)
      BY <1>0 DEF ChangesOK, PastTold
    <3> HIDE DEF Ahead
    <3> QED
      BY <3>1, FS_Subset
  <2>4. Cardinality(Ahead(d)) < Page
    BY <2>1 DEF FirstPage
  <2> HIDE DEF Ahead
  <2>5. Cardinality(Ahead(c)) <= Cardinality(Ahead(d))
    BY <2>2, <2>3, FS_Subset
  <2>6. Cardinality(Ahead(c)) \in Nat /\ Cardinality(Ahead(d)) \in Nat
    BY <2>2, <2>3, FS_Subset, FS_CardinalityType
  <2>7. Cardinality(Ahead(c)) < Page
    BY <2>4, <2>5, <2>6
  <2> QED
    BY <2>7 DEF FirstPage, Ahead
<1> QED
  BY <1>2, <1>3

LEMMA ReadStep == ASSUME PulseInv, NEW s \in Screen, readOutbox(s) PROVE PulseInv'
<1> DEFINE entry == screen[s]
           n == IF entry.since = 0 THEN SeqOf(NewestDone) ELSE CursorAfter(s)
           ev == IF entry.since = 0 THEN {} ELSE FirstPage(s)
           bh == IF entry.since = 0 THEN Done ELSE entry.behind
           new == [entry EXCEPT !.fetch = "read", !.seq = n, !.events = ev, !.behind = bh]
<1>1. entry \in ScreenRow /\ Sound(entry, Done, change, TokenNow) /\ ChangesOK /\ entry.fetch = "asked"
  BY DEF PulseInv, readOutbox
<1>2. /\ FirstPage(s) \subseteq Waiting(s) /\ Waiting(s) \subseteq Done /\ Done \subseteq Change
      /\ NewestDone \subseteq Change
  BY DEF FirstPage, Waiting, Done, NewestDone
<1>3. n \in Nat /\ ev \in SUBSET Change /\ bh \in SUBSET Change
  BY <1>1, <1>2, SeqOfIs DEF CursorAfter, ScreenRow
<1>4. UNCHANGED <<clock, change>> /\ screen' = [screen EXCEPT ![s] = new]
  <2>1. CASE entry.since = 0
    <3>1. [entry EXCEPT !.fetch = "read", !.seq = SeqOf(NewestDone), !.events = {}, !.behind = Done] = new
      BY <2>1
    <3> QED
      BY <2>1, <3>1 DEF readOutbox
  <2>2. CASE entry.since # 0
    <3>1. [entry EXCEPT !.fetch = "read", !.seq = CursorAfter(s), !.events = FirstPage(s)] = new
      BY <1>1, <2>2 DEF ScreenRow
    <3> QED
      BY <2>2, <3>1 DEF readOutbox
  <2> QED
    BY <2>1, <2>2
<1>5. \A c \in Done : change[c].seq \in 1..n => c \in entry.seen \cup bh \cup entry.late \cup ev
  <2>1. CASE entry.since = 0
    BY <2>1
  <2>2. CASE entry.since # 0
    <3> SUFFICES ASSUME NEW c \in Done, change[c].seq \in 1..CursorAfter(s)
                 PROVE  c \in entry.seen \cup entry.behind \cup entry.late \cup FirstPage(s)
      BY <2>2
    <3>1. entry.since \in Nat /\ change[c].seq \in Nat
      BY <1>1, <1>2 DEF ScreenRow, ChangesOK, ChangeRow
    <3>2. CASE change[c].seq <= entry.since
      BY <1>1, <3>1, <3>2 DEF Sound, Told
    <3>3. CASE change[c].seq > entry.since
      <4>1. c \in Waiting(s)
        BY <3>3 DEF Waiting
      <4>2. CursorAfter(s) \in Nat
        BY <1>1, <1>2, SeqOfIs DEF CursorAfter
      <4>3. c \in FirstPage(s)
        BY <1>1, <3>1, <4>1, <4>2, PageFull
      <4> QED
        BY <4>3
    <3> QED
      BY <3>1, <3>2, <3>3
  <2> QED
    BY <2>1, <2>2
<1>6. \A c \in Done : change[c].seq \in 1..entry.since => c \in entry.seen \cup bh \cup entry.late
  BY <1>1 DEF Sound, Told
<1> HIDE DEF n, ev, bh
<1>7. new \in ScreenRow
  BY <1>1, <1>3 DEF ScreenRow
<1>8. /\ new.fetch = "read" /\ new.v = entry.v /\ new.unseen = entry.unseen /\ new.token = entry.token
      /\ new.stale = entry.stale /\ new.seen = entry.seen /\ new.behind = bh
      /\ new.late = entry.late /\ new.shown = entry.shown /\ new.since = entry.since
      /\ new.seq = n /\ new.events = ev
  BY <1>1 DEF ScreenRow
<1> HIDE DEF new, entry
<1>9. Sound(new, Done, change, TokenNow)
  BY <1>1, <1>5, <1>6, <1>8 DEF Sound, Told, Explained
<1> QED
  BY <1>4, <1>7, <1>9, ScreenStep

\* The answer is taken: the row it makes, field by field.
Took(entry) ==
  Scheduled([entry EXCEPT !.since = Advanced(entry), !.seen = @ \cup entry.events,
                        !.token = entry.v,
                        !.stale = @ \/ entry.token \notin {NoToken, entry.v}])

LEMMA TookTyped ==
  ASSUME NEW entry \in ScreenRow
  PROVE  /\ Took(entry) \in ScreenRow
         /\ Took(entry).fetch = "none" /\ Took(entry).token = entry.v /\ Took(entry).v = entry.v
         /\ Took(entry).since = Advanced(entry) /\ Took(entry).seen = entry.seen \cup entry.events
         /\ Took(entry).behind = entry.behind /\ Took(entry).late = entry.late
         /\ Took(entry).shown = entry.shown /\ Took(entry).unseen = entry.unseen
         /\ Took(entry).seq = 0 /\ Took(entry).events = {}
         /\ Took(entry).stale <=> (entry.stale \/ entry.token \notin {NoToken, entry.v})
<1> DEFINE st == entry.stale \/ entry.token \notin {NoToken, entry.v}
           mid == [entry EXCEPT !.since = Advanced(entry), !.seen = entry.seen \cup entry.events,
                              !.token = entry.v, !.stale = st]
<1>1. st \in BOOLEAN /\ Advanced(entry) \in Nat /\ entry.seen \cup entry.events \in SUBSET Change
  BY DEF ScreenRow, Advanced
<1>2. Took(entry) = Scheduled(mid)
  BY DEF Took
<1> HIDE DEF st
<1>3. mid \in ScreenRow
  BY <1>1 DEF ScreenRow
<1>4. /\ mid.since = Advanced(entry) /\ mid.seen = entry.seen \cup entry.events /\ mid.token = entry.v
      /\ mid.behind = entry.behind /\ mid.late = entry.late /\ mid.shown = entry.shown
      /\ mid.unseen = entry.unseen /\ mid.stale = st
  BY DEF ScreenRow
<1> HIDE DEF mid
<1>5. Scheduled(mid) \in ScreenRow
  BY <1>3 DEF ScreenRow, Scheduled
<1>6. LET q == Scheduled(mid)
      IN  /\ q.fetch = "none" /\ q.token = mid.token /\ q.v = mid.token
          /\ q.since = mid.since /\ q.seen = mid.seen /\ q.behind = mid.behind
          /\ q.late = mid.late /\ q.shown = mid.shown /\ q.unseen = mid.unseen
          /\ q.seq = 0 /\ q.events = {} /\ q.stale = mid.stale
  BY <1>3 DEF ScreenRow, Scheduled
<1>7. Took(entry).stale <=> (entry.stale \/ entry.token \notin {NoToken, entry.v})
  BY <1>2, <1>4, <1>6, Zenon DEF st
<1> QED
  BY <1>2, <1>4, <1>5, <1>6, <1>7

LEMMA AnswerStep == ASSUME PulseInv, NEW s \in Screen, Answer(s) PROVE PulseInv'
<1> DEFINE entry == screen[s]
           new == Took(entry)
<1>1. entry \in ScreenRow /\ Sound(entry, Done, change, TokenNow) /\ ChangesOK /\ entry.fetch = "read"
  BY DEF PulseInv, Answer
<1>2. UNCHANGED <<clock, change>> /\ screen' = [screen EXCEPT ![s] = new]
  BY DEF Answer, Took
<1>3. entry.v \in Token /\ entry.v # NoToken /\ TokenNow # NoToken
  BY <1>1, TokenTyped DEF Sound
<1> HIDE DEF entry
<1>4. /\ new \in ScreenRow /\ new.fetch = "none" /\ new.token = entry.v /\ new.v = entry.v
      /\ new.since = Advanced(entry) /\ new.seen = entry.seen \cup entry.events
      /\ new.behind = entry.behind /\ new.late = entry.late
      /\ new.shown = entry.shown /\ new.unseen = entry.unseen
      /\ new.seq = 0 /\ new.events = {}
  BY <1>1, TookTyped
<1>5. new.stale <=> (entry.stale \/ entry.token \notin {NoToken, entry.v})
  BY <1>1, TookTyped
<1> HIDE DEF new
<1>6. new.token = TokenNow /\ ~new.stale => Explained(new, Done, change)
  <2> SUFFICES ASSUME entry.v = TokenNow, ~entry.stale, entry.token \in {NoToken, entry.v}
               PROVE  Explained(entry, Done, change)
    BY <1>4, <1>5 DEF Explained
  <2> QED
    BY <1>1 DEF Sound
<1>7. \A c \in Done : change[c].seq \in 1..new.since => c \in Told(new)
  BY <1>1, <1>4 DEF Sound, Told, Advanced
<1>8. NotAfter(entry.v, TokenNow)
  BY <1>1, <1>3 DEF Sound
<1>9. Sound(new, Done, change, TokenNow)
  BY <1>3, <1>4, <1>6, <1>7, <1>8 DEF Sound
<1> QED
  BY <1>2, <1>4, <1>9, ScreenStep

LEMMA LoseStep == ASSUME PulseInv, NEW s \in Screen, LoseAnswer(s) PROVE PulseInv'
<1> DEFINE entry == screen[s]
           mid == [entry EXCEPT !.lost = @ + 1]
           new == Scheduled(mid)
<1>1. entry \in ScreenRow /\ Sound(entry, Done, change, TokenNow) /\ entry.lost < MaxLost
  BY DEF PulseInv, LoseAnswer
<1>2. UNCHANGED <<clock, change>> /\ screen' = [screen EXCEPT ![s] = new]
  BY DEF LoseAnswer, Rescheduled
<1>3. mid \in ScreenRow
  <2>1. entry.lost + 1 \in 0..MaxLost
    BY <1>1 DEF ScreenRow
  <2>2. \A n \in 0..MaxLost : [entry EXCEPT !.lost = n] \in ScreenRow
    BY <1>1 DEF ScreenRow
  <2> QED
    BY <2>1, <2>2
<1>4. Alike(entry, mid)
  BY <1>1 DEF ScreenRow, Alike
<1>5. Sound(mid, Done, change, TokenNow)
  BY <1>1, <1>4, AlikeSound
<1> HIDE DEF mid
<1>6. new \in ScreenRow
  BY <1>3 DEF ScreenRow, Scheduled
<1>7. /\ new.fetch = "none" /\ new.token = mid.token /\ new.v = mid.token
      /\ new.since = mid.since /\ new.seen = mid.seen /\ new.behind = mid.behind
      /\ new.late = mid.late /\ new.shown = mid.shown /\ new.unseen = mid.unseen
      /\ new.seq = 0 /\ new.events = {} /\ new.stale = mid.stale
  BY <1>3 DEF ScreenRow, Scheduled
<1> HIDE DEF new
<1>8. Sound(new, Done, change, TokenNow)
  BY <1>5, <1>7 DEF Sound, Told, Explained
<1> QED
  BY <1>2, <1>6, <1>8, ScreenStep

LEMMA ReloadStep == ASSUME PulseInv, NEW s \in Screen, Reload(s) PROVE PulseInv'
<1> DEFINE entry == screen[s]
           new == [entry EXCEPT !.stale = FALSE, !.shown = Done]
<1>1. entry \in ScreenRow /\ Sound(entry, Done, change, TokenNow) /\ Done \subseteq Change
  BY DEF PulseInv, Done
<1>2. UNCHANGED <<clock, change>> /\ screen' = [screen EXCEPT ![s] = new]
  BY DEF Reload
<1>3. new \in ScreenRow
  BY <1>1 DEF ScreenRow
<1>4. /\ new.fetch = entry.fetch /\ new.token = entry.token /\ new.v = entry.v
      /\ new.since = entry.since /\ new.seen = entry.seen /\ new.behind = entry.behind
      /\ new.late = entry.late /\ new.shown = Done /\ new.unseen = entry.unseen
      /\ new.seq = entry.seq /\ new.events = entry.events /\ ~new.stale
  BY <1>1 DEF ScreenRow
<1> HIDE DEF new, entry
<1>5. Explained(new, Done, change)
  BY <1>4 DEF Explained
<1>6. Sound(new, Done, change, TokenNow)
  BY <1>1, <1>4, <1>5 DEF Sound, Told
<1> QED
  BY <1>2, <1>3, <1>6, ScreenStep

LEMMA MountStep == ASSUME PulseInv, NEW s \in Screen, Mount(s) PROVE PulseInv'
<1> DEFINE entry == screen[s]
           new == [entry EXCEPT !.fetch = "none", !.visible = TRUE, !.timer = TRUE, !.shown = Done]
<1>1. /\ entry \in ScreenRow /\ Sound(entry, Done, change, TokenNow) /\ Done \subseteq Change
      /\ entry.fetch = "away"
  BY DEF PulseInv, Done, Mount
<1>2. UNCHANGED <<clock, change>> /\ screen' = [screen EXCEPT ![s] = new]
  BY DEF Mount
<1>3. new \in ScreenRow
  BY <1>1 DEF ScreenRow
<1>4. /\ new.fetch = "none" /\ new.token = entry.token /\ new.v = entry.v
      /\ new.since = entry.since /\ new.seen = entry.seen /\ new.behind = entry.behind
      /\ new.late = entry.late /\ new.shown = Done /\ new.unseen = entry.unseen
      /\ new.seq = entry.seq /\ new.events = entry.events /\ new.stale = entry.stale
  BY <1>1 DEF ScreenRow
<1> HIDE DEF new, entry
<1>5. Explained(new, Done, change)
  BY <1>4 DEF Explained
<1>6. Sound(new, Done, change, TokenNow)
  BY <1>1, <1>4, <1>5 DEF Sound, Told
<1> QED
  BY <1>2, <1>3, <1>6, ScreenStep

\* A write that is not a commit is nobody's business yet.
LEMMA WriteStep ==
  ASSUME PulseInv, NEW c \in Change, NEW entry \in ChangeRow, UNCHANGED <<clock, screen>>,
         change' = [change EXCEPT ![c] = entry], entry.stamp <= clock,
         entry.state # "done", change[c].state # "done"
  PROVE  PulseInv'
<1>1. c # Past
  BY DEF PulseInv, ChangesOK, PastTold
<1>2. ChangesOK' /\ Done' = Done
  BY <1>1, ChangeKept DEF PulseInv
<1>3. \A d \in Done : change'[d] = change[d]
  BY DEF Done, PulseInv, ChangesOK
<1>4. TokenNow' = TokenNow
  BY <1>2, <1>3, TokenStands
<1>5. \A s \in Screen : Sound(screen'[s], Done, change', TokenNow)
  BY <1>3 DEF PulseInv, Sound, Explained
<1> QED
  BY <1>2, <1>4, <1>5 DEF PulseInv

LEMMA CommitStep == ASSUME PulseInv, NEW c \in Change, Commit(c) PROVE PulseInv'
<1> DEFINE moved == change[c].stamp > MaxStamp \/ c \in Counting
           entry == [change[c] EXCEPT !.state = "done", !.moves = moved]
           passed(s) == change[c].seq \in 1..Reach(s)
<1>0. /\ ChangesOK /\ screen \in [Screen -> ScreenRow] /\ clock' = clock
      /\ change[c] \in ChangeRow /\ change[c].state = "open"
  BY DEF PulseInv, ChangesOK, Commit
<1>1. change' = [change EXCEPT ![c] = entry]
  BY DEF Commit
<1>2. moved \in BOOLEAN
  OBVIOUS
<1>3. /\ entry \in ChangeRow /\ entry.state = "done" /\ entry.stamp = change[c].stamp
      /\ entry.seq = change[c].seq /\ entry.moves = moved
  BY <1>0, <1>2 DEF ChangeRow
<1> HIDE DEF entry, moved
<1>4. c # Past /\ entry.stamp <= clock
  BY <1>0, <1>3 DEF ChangesOK, PastTold, Numbered
<1>5. ChangesOK' /\ Done' = Done \cup {c} /\ c \notin Done
  BY <1>0, <1>1, <1>3, <1>4, ChangeKept DEF Done
<1>6. change'[c] = entry /\ \A d \in Change : d # c => change'[d] = change[d]
  BY <1>0, <1>1 DEF ChangesOK
<1>7. /\ NotAfter(TokenNow, TokenNow')
      /\ change'[c].moves => ~NotAfter(TokenNow', TokenNow)
      /\ ~change'[c].moves => TokenNow' = TokenNow
  <2>1. change'[c].moves = (change[c].stamp > MaxStamp \/ c \in Counting)
    BY <1>3, <1>6 DEF moved
  <2>2. \A d \in Change : change'[d].stamp = change[d].stamp
    BY <1>3, <1>6
  <2> QED
    BY <1>0, <1>5, <2>1, <2>2, TokenMoves
<1>8. TokenNow \in Token /\ TokenNow' \in Token
  <2>1. (ChangesOK => TokenNow \in Token /\ TokenNow # NoToken)'
    BY TokenTyped, PTL
  <2> QED
    BY <1>0, <1>5, <2>1, TokenTyped
<1>9. screen' = [s \in Screen |-> IF passed(s) THEN [screen[s] EXCEPT !.late = @ \cup {c}]
                                  ELSE screen[s]]
  BY DEF Commit
<1>10. ASSUME NEW s \in Screen
       PROVE  screen'[s] \in ScreenRow /\ Sound(screen'[s], Done', change', TokenNow')
  <2> DEFINE old == screen[s]
             new == screen'[s]
  <2>1. /\ new \in ScreenRow /\ Done \subseteq Change
        /\ new.fetch = old.fetch /\ new.token = old.token /\ new.v = old.v
        /\ new.since = old.since /\ new.seen = old.seen /\ new.behind = old.behind
        /\ new.shown = old.shown /\ new.unseen = old.unseen /\ new.stale = old.stale
        /\ new.seq = old.seq /\ new.events = old.events
    BY <1>0, <1>9 DEF ScreenRow, Done
  <2>2. /\ old.late \subseteq new.late
        /\ passed(s) => c \in new.late
    BY <1>0, <1>9 DEF ScreenRow
  <2>3. Sound(old, Done, change, TokenNow) /\ old \in ScreenRow
    BY DEF PulseInv
  <2>4. change[c].seq \in 1..old.since \/ change[c].seq \in 1..old.seq => passed(s)
    <3>1. old.since \in Nat /\ old.seq \in Nat /\ change[c].seq \in Nat
      BY <1>0, <2>3 DEF ScreenRow, ChangeRow
    <3> DEFINE S == {old.since, old.seq}
    <3>2. S \in SUBSET Nat /\ S # {} /\ \A x \in S : x <= old.since + old.seq
      BY <3>1
    <3>3. Reach(s) = Max(S) /\ old.since \in S /\ old.seq \in S
      BY DEF Reach
    <3>4. old.since + old.seq \in Nat
      BY <3>1
    <3> HIDE DEF S
    <3>5. Max(S) \in S /\ \A x \in S : x <= Max(S)
      BY <3>2, <3>4, MaxOf
    <3>6. Reach(s) \in Nat /\ old.since <= Reach(s) /\ old.seq <= Reach(s)
      BY <3>2, <3>3, <3>5
    <3> QED
      BY <3>1, <3>6
  <2> HIDE DEF passed, old, new
  <2>5. \A d \in Done' : change'[d].seq \in 1..new.since => d \in Told(new)
    <3> SUFFICES ASSUME NEW d \in Done', change'[d].seq \in 1..new.since
                 PROVE  d \in Told(new)
      OBVIOUS
    <3>1. CASE d = c
      BY <1>3, <1>6, <2>1, <2>2, <2>4, <3>1 DEF Told
    <3>2. CASE d # c
      <4>1. d \in Done /\ change'[d] = change[d]
        BY <1>5, <1>6, <2>1, <3>2
      <4> QED
        BY <2>1, <2>2, <2>3, <4>1 DEF Sound, Told
    <3> QED
      BY <3>1, <3>2
  <2>6. \A d \in Done' : change'[d].seq \in 1..new.seq => d \in Told(new) \cup new.events
    <3> SUFFICES ASSUME NEW d \in Done', change'[d].seq \in 1..new.seq
                 PROVE  d \in Told(new) \cup new.events
      OBVIOUS
    <3>1. CASE d = c
      BY <1>3, <1>6, <2>1, <2>2, <2>4, <3>1 DEF Told
    <3>2. CASE d # c
      <4>1. d \in Done /\ change'[d] = change[d]
        BY <1>5, <1>6, <2>1, <3>2
      <4> QED
        BY <2>1, <2>2, <2>3, <4>1 DEF Sound, Told
    <3> QED
      BY <3>1, <3>2
  <2>7. \A t \in Token : NotAfter(t, TokenNow) => NotAfter(t, TokenNow')
    BY <1>7, <1>8 DEF NotAfter, Token
  <2>8. \A t \in Token : NotAfter(t, TokenNow) /\ t = TokenNow' =>
          ~change'[c].moves /\ t = TokenNow
    BY <1>7
  <2>9. Explained(old, Done, change) /\ ~change'[c].moves => Explained(new, Done', change')
    BY <1>5, <1>6, <2>1 DEF Explained
  <2>10. old.token \in Token \cup {NoToken} /\ old.v \in Token \cup {NoToken}
    BY <2>3 DEF ScreenRow
  <2>11. TokenNow' # NoToken
    BY <1>8
  <2>12. /\ new.token # NoToken => NotAfter(new.token, TokenNow')
         /\ new.v # NoToken => NotAfter(new.v, TokenNow')
    BY <2>1, <2>3, <2>7, <2>10 DEF Sound
  <2>13. new.token = TokenNow' /\ ~new.stale => Explained(new, Done', change')
    BY <2>1, <2>3, <2>8, <2>9, <2>10, <2>11 DEF Sound
  <2>14. new.fetch \in {"asked", "read"} /\ new.token = NoToken /\ new.v = TokenNow' =>
           Explained(new, Done', change')
    BY <2>1, <2>3, <2>8, <2>9, <2>10, <2>11 DEF Sound
  <2>15. /\ new.fetch \in {"asked", "read"} => new.v \in Token
         /\ new.token = NoToken => ~new.stale
         /\ new.fetch # "read" => new.seq = 0 /\ new.events = {}
    BY <2>1, <2>3 DEF Sound
  <2>16. Sound(new, Done', change', TokenNow')
    BY <2>5, <2>6, <2>12, <2>13, <2>14, <2>15 DEF Sound
  <2> QED
    BY <2>1, <2>16 DEF new
<1>11. screen' \in [Screen -> ScreenRow]
  <2>1. \A s \in Screen : screen'[s] \in ScreenRow
    BY <1>10
  <2> QED
    BY <2>1, <1>9
<1> QED
  BY <1>5, <1>10, <1>11 DEF PulseInv

LEMMA PulseStart == PulseInit => PulseInv
<1> SUFFICES ASSUME PulseInit PROVE PulseInv
  OBVIOUS
<1>1. /\ change \in [Change -> ChangeRow] /\ clock = 1
      /\ \A c \in Change : change[c].stamp <= 1 /\ change[c].seq <= 1
      /\ change[Past].state = "done" /\ change[Past].seq = 1
      /\ \A c \in Change : c # Past => change[c].state = "idle"
  BY DEF PulseInit, ChangeRow
<1>2. Done = {Past}
  BY <1>1 DEF Done
<1>3. ChangesOK
  <2>1. Numbered
    BY <1>1 DEF Numbered
  <2>2. PastTold
    BY <1>1, <1>2, FS_Singleton DEF PastTold
  <2> QED
    BY <1>1, <2>1, <2>2 DEF ChangesOK
<1>4. Away \in ScreenRow /\ screen = [s \in Screen |-> Away]
  BY DEF PulseInit, Away, ScreenRow
<1>5. Sound(Away, Done, change, TokenNow)
  <2>1. TokenNow # NoToken
    BY <1>3, TokenTyped
  <2> QED
    BY <2>1 DEF Sound, Away
<1> QED
  BY <1>3, <1>4, <1>5 DEF PulseInv

LEMMA PulseStep == PulseInv /\ [PulseNext]_pulseVars => PulseInv'
<1> SUFFICES ASSUME PulseInv, [PulseNext]_pulseVars PROVE PulseInv'
  OBVIOUS
<1>0. ChangesOK /\ change \in [Change -> ChangeRow] /\ clock \in 1..MaxClock
  BY DEF PulseInv, ChangesOK
<1>1. CASE UNCHANGED <<clock, change, screen>>
  <2>1. Done' = Done /\ TokenNow' = TokenNow
    BY <1>1 DEF Done, TokenNow, MaxStamp
  <2> QED
    BY <1>1, <2>1 DEF PulseInv, ChangesOK, Numbered, PastTold
<1>2. CASE ClockTicks
  <2>1. Done' = Done /\ change' = change /\ screen' = screen
    BY <1>2 DEF ClockTicks, Done
  <2>2. TokenNow' = TokenNow
    BY <2>1, TokenStands
  <2>3. clock' \in 1..MaxClock /\ clock' >= clock /\ clock' \in Nat /\ clock \in Nat
    BY <1>0, <1>2 DEF ClockTicks
  <2>4. \A c \in Change : change[c].stamp \in Nat
    BY <1>0 DEF ChangeRow
  <2>5. ChangesOK'
    BY <1>0, <2>1, <2>3, <2>4 DEF ChangesOK, Numbered, PastTold
  <2> QED
    BY <2>1, <2>2, <2>5 DEF PulseInv
<1>3. ASSUME NEW c \in Change, StampRow(c) PROVE PulseInv'
  <2> DEFINE entry == [change[c] EXCEPT !.state = "open", !.stamp = clock]
  <2>0. clock \in Nat /\ clock <= clock /\ change[c] \in ChangeRow
    BY <1>0
  <2>1. entry \in ChangeRow /\ entry.state = "open" /\ entry.stamp = clock
    BY ONLY <2>0 DEF ChangeRow
  <2>2. change' = [change EXCEPT ![c] = entry] /\ UNCHANGED <<clock, screen>>
    BY <1>3 DEF StampRow
  <2>3. change[c].state = "idle"
    BY <1>3 DEF StampRow
  <2> HIDE DEF entry
  <2> QED
    BY <2>0, <2>1, <2>2, <2>3, WriteStep
<1>4. ASSUME NEW c \in Change, emitOutbox(c) PROVE PulseInv'
  <2> DEFINE entry == [change[c] EXCEPT !.seq = NextSeq]
  <2>1. NextSeq \in Nat
    BY <1>0, NextSeqIs
  <2>2. entry \in ChangeRow /\ entry.state = change[c].state /\ entry.stamp = change[c].stamp
    BY <1>0, <2>1 DEF ChangeRow
  <2>3. change' = [change EXCEPT ![c] = entry] /\ UNCHANGED <<clock, screen>>
    BY <1>4 DEF emitOutbox
  <2>4. change[c].state = "open" /\ change[c].stamp <= clock
    BY <1>0, <1>4 DEF emitOutbox, ChangesOK, Numbered
  <2> HIDE DEF entry
  <2> QED
    BY <2>2, <2>3, <2>4, WriteStep
<1>5. ASSUME NEW c \in Change, Commit(c) PROVE PulseInv'
  BY <1>5, CommitStep
<1>6. ASSUME NEW c \in Change, Rollback(c) PROVE PulseInv'
  <2> DEFINE entry == [change[c] EXCEPT !.state = "undone"]
  <2>1. entry \in ChangeRow /\ entry.state = "undone" /\ entry.stamp = change[c].stamp
    BY <1>0 DEF ChangeRow
  <2>2. change' = [change EXCEPT ![c] = entry] /\ UNCHANGED <<clock, screen>>
    BY <1>6 DEF Rollback
  <2>3. change[c].state = "open" /\ change[c].stamp <= clock
    BY <1>0, <1>6 DEF Rollback, ChangesOK, Numbered
  <2> HIDE DEF entry
  <2> QED
    BY <2>1, <2>2, <2>3, WriteStep
<1>7. ASSUME NEW s \in Screen,
             Mount(s) \/ Poll(s) \/ LoseAnswer(s) \/ Reload(s) \/ Hide(s) \/ Show(s)
      PROVE  PulseInv'
  BY <1>7, MountStep, TickStep, ReadStep, AnswerStep, LoseStep, ReloadStep, HideStep, ShowStep
  DEF Poll
<1> QED
  BY <1>1, <1>2, <1>3, <1>4, <1>5, <1>6, <1>7 DEF PulseNext, pulseVars

\* Whatever answers are lost, however the commits of stamped and numbered writes fall
\* between a poll's two reads: a screen with the latest token shows all that moved it
\* since its first, and its cursor has passed nothing it was not told but what
\* committed late (tick, readOutbox, staffToken).
THEOREM ScreensAreSound == PulseSpec => []ScreensSound
<1>1. PulseInit => PulseInv
  BY PulseStart
<1>2. PulseInv /\ [PulseNext]_pulseVars => PulseInv'
  BY PulseStep
<1>3. PulseInv => ScreensSound
  <2> SUFFICES ASSUME PulseInv PROVE ScreensSound
    OBVIOUS
  <2>1. PulseTypeOK
    BY DEF PulseInv, ChangesOK, PulseTypeOK, Sound
  <2>2. MissedOnlyUnmoved
    BY DEF PulseInv, MissedOnlyUnmoved, Sound, Explained
  <2>3. SkippedOnlyLate
    BY DEF PulseInv, SkippedOnlyLate, Sound, Told
  <2> QED
    BY <2>1, <2>2, <2>3 DEF ScreensSound
<1> QED
  BY <1>1, <1>2, <1>3, PTL DEF PulseSpec

------------------------------------------------------------------------------
(* Sessions: types *)

USE NobodyIsNoRow

\* What a request of each kind carries.
LEMMA CallTyped ==
  ASSUME SessionsTypeOK, NEW r \in Request
  PROVE  /\ request[r].op = "refresh" =>
              request[r] \in [op: {"refresh"}, at: {"sent", "due", "lost"}, browser: Browser,
                              token: Row, clears: BOOLEAN]
         /\ request[r].op \in {"signin", "signout"} =>
              request[r] \in [op: {"signin", "signout"}, browser: Browser,
                              token: Row \cup {Nobody}]
         /\ request[r].op = "others" => request[r] \in [op: {"others"}, keep: Row]
         /\ request[r].op = "ending" =>
              request[r] \in [op: {"ending"}, keep: Row, rows: SUBSET Row]
         /\ request[r].op = "answer" =>
              request[r] \in [op: {"answer"}, browser: Browser, sets: Cookies \cup {NoCookies},
                              what: {"both", "access", "clear"}]
BY DEF SessionsTypeOK, Requests, Awaited

LEMMA RequestTyped ==
  ASSUME SessionsTypeOK, NEW r \in Request, NEW q \in Requests,
         request' = [request EXCEPT ![r] = q]
  PROVE  request' \in [Request -> Requests]
BY DEF SessionsTypeOK

LEMMA ReplyTyped ==
  ASSUME SessionsTypeOK, NEW r \in Request, NEW b \in Browser,
         NEW what \in {"both", "access", "clear"}, NEW sets \in Cookies, Reply(r, b, what, sets)
  PROVE  request' \in [Request -> Requests]
<1>1. [op |-> "answer", browser |-> b, what |-> what, sets |-> sets] \in Requests
  BY DEF Requests
<1> QED
  BY <1>1, RequestTyped DEF Reply

LEMMA FinishTyped ==
  ASSUME SessionsTypeOK, NEW r \in Request, Finish(r)
  PROVE  request' \in [Request -> Requests]
<1>1. Awaited \in Requests
  BY DEF Requests
<1> QED
  BY <1>1, RequestTyped DEF Finish

\* Ending a row keeps it well formed.
LEMMA EndedTyped ==
  ASSUME SessionsTypeOK, NEW t \in Row
  PROVE  Ended(t) \in SessionRow /\ (Ended(t).status = "rotated" <=> Ended(t).replacedBy # Nobody)
BY DEF SessionsTypeOK, SessionRow, Ended

LEMMA SessionsInitTyped == SessionsInit => SessionsTypeOK
BY DEF SessionsInit, SessionsTypeOK, SessionRow, Unused, Cookies, NoCookies, Requests

------------------------------------------------------------------------------
(* Sessions: what a step may do to the rows *)

\* The row that a sign-in or a rotation makes.
Fresh(root, b) == [Unused EXCEPT !.status = "live", !.root = root, !.born = b]

SignsIn(t) == row[t].status = "none" /\ row' = [row EXCEPT ![t] = Fresh(t, resets)]
Rotates(t, s) ==
  /\ Live(t) /\ row[t].due /\ row[s].status = "none"
  /\ row' = [row EXCEPT ![s] = Fresh(row[t].root, row[t].born), ![t] = Replaced(t, s)]
Ends(gone) == row' = [t \in Row |-> IF t \in gone THEN Ended(t) ELSE row[t]]

RowStep ==
  \/ UNCHANGED row /\ resets' = resets
  \/ \E t \in Row : GrowsDue(t) \/ GraceEnds(t)
  \/ \E t \in Row : SignsIn(t) /\ resets' = resets
  \/ \E t, s \in Row : Rotates(t, s) /\ resets' = resets
  \/ \E gone \in SUBSET Row : Ends(gone) /\ resets' = resets
  \/ Ends(Row) /\ resets' = resets + 1 /\ resets < MaxResets

LEMMA FreshTyped ==
  ASSUME NEW t \in Row, NEW b \in 0..MaxResets
  PROVE  /\ Fresh(t, b) \in SessionRow
         /\ Fresh(t, b).status = "live" /\ Fresh(t, b).replacedBy = Nobody
         /\ Fresh(t, b).root = t /\ Fresh(t, b).born = b
         /\ ~Fresh(t, b).due /\ ~Fresh(t, b).grace
BY DEF Fresh, Unused, SessionRow

\* A request that is due to be rotated found its row due.
DueAsked ==
  \A r \in Request : request[r].op = "refresh" /\ request[r].at = "due" => row[request[r].token].due

\* Every row that was ever made descends from one that was.
Rooted ==
  \A t \in Row : IF row[t].status = "none" THEN row[t] = Unused
                 ELSE row[t].root \in Row /\ row[row[t].root].status # "none"

LEMMA RotatesTyped ==
  ASSUME SessionsTypeOK, Rooted, NEW t \in Row, NEW s \in Row, Rotates(t, s)
  PROVE  /\ row' \in [Row -> SessionRow] /\ t # s
         /\ row'[s] = Fresh(row[t].root, row[t].born)
         /\ row'[t] = [row[t] EXCEPT !.status = "rotated", !.replacedBy = s, !.grace = TRUE]
         /\ \A x \in Row \ {s, t} : row'[x] = row[x]
         /\ \A x \in Row : row'[x].status = "rotated" <=> row'[x].replacedBy # Nobody
<1>1. row[t] \in SessionRow /\ row[t].root \in Row /\ row[t].born \in 0..MaxResets
  BY DEF SessionsTypeOK, Rotates, Live, Rooted, SessionRow
<1>2. t # s
  BY DEF Rotates, Live
<1>3. /\ row'[s] = Fresh(row[t].root, row[t].born)
      /\ row'[t] = [row[t] EXCEPT !.status = "rotated", !.replacedBy = s, !.grace = TRUE]
      /\ \A x \in Row \ {s, t} : row'[x] = row[x]
      /\ DOMAIN row' = Row /\ row' = [x \in Row |-> row'[x]]
  BY <1>2 DEF Rotates, Replaced, SessionsTypeOK
<1>4. row'[s] \in SessionRow /\ row'[s].status = "live" /\ row'[s].replacedBy = Nobody
  BY <1>1, <1>3, FreshTyped
<1>5. row'[t] \in SessionRow /\ row'[t].status = "rotated" /\ row'[t].replacedBy # Nobody
  BY <1>1, <1>3 DEF SessionRow
<1>6. \A x \in Row : row'[x] \in SessionRow
  BY <1>3, <1>4, <1>5 DEF SessionsTypeOK
<1>7. \A x \in Row : row'[x].status = "rotated" <=> row'[x].replacedBy # Nobody
  <2> TAKE x \in Row
  <2>1. CASE x = s
    BY <1>4, <2>1
  <2>2. CASE x = t
    BY <1>5, <2>2
  <2>3. CASE x \in Row \ {s, t}
    BY <1>3, <2>3 DEF SessionsTypeOK
  <2> QED
    BY <2>1, <2>2, <2>3
<1> QED
  BY <1>2, <1>3, <1>6, <1>7

LEMMA SignsInTyped ==
  ASSUME SessionsTypeOK, NEW t \in Row, SignsIn(t)
  PROVE  /\ row' \in [Row -> SessionRow]
         /\ row'[t] = Fresh(t, resets)
         /\ \A x \in Row \ {t} : row'[x] = row[x]
         /\ \A x \in Row : row'[x].status = "rotated" <=> row'[x].replacedBy # Nobody
BY FreshTyped DEF SignsIn, SessionsTypeOK

LEMMA EndsTyped ==
  ASSUME SessionsTypeOK, NEW gone \in SUBSET Row, Ends(gone)
  PROVE  /\ row' \in [Row -> SessionRow]
         /\ \A x \in Row : row'[x] = IF x \in gone THEN Ended(x) ELSE row[x]
         /\ \A x \in Row : row'[x].status = "rotated" <=> row'[x].replacedBy # Nobody
BY EndedTyped DEF Ends, SessionsTypeOK

\* Every step moves the rows in one of these ways and keeps the types.
LEMMA RowsMove ==
  ASSUME SessionsTypeOK, DueAsked, [SessionsNext]_sessionVars
  PROVE  RowStep
<1>0. CASE UNCHANGED sessionVars
  BY <1>0 DEF sessionVars, RowStep
<1>1. ASSUME NEW r \in Request, createSession(r) PROVE RowStep
  BY <1>1 DEF createSession, RowStep, SignsIn, Fresh
<1>2. ASSUME NEW r \in Request, rotateSessionRecord(r) PROVE RowStep
  <2>1. request[r].token \in Row
    BY <1>2, CallTyped DEF rotateSessionRecord
  <2>2. row[request[r].token].due
    BY <1>2 DEF rotateSessionRecord, DueAsked
  <2> QED
    BY <1>2, <2>1, <2>2 DEF rotateSessionRecord, RowStep, Rotates, Fresh, StillLive
<1>3. ASSUME NEW r \in Request, destroySession(r) PROVE RowStep
  <2>1. Ends({request[r].token} \cap Row)
    BY <1>3 DEF destroySession, Ends, SessionsTypeOK
  <2> QED
    BY <1>3, <2>1 DEF destroySession, RowStep
<1>4. ASSUME NEW r \in Request, EndOthers(r) PROVE RowStep
  <2>1. request[r].rows \in SUBSET Row
    BY <1>4, CallTyped DEF EndOthers
  <2> QED
    BY <1>4, <2>1 DEF EndOthers, Ends, RowStep
<1>5. CASE completeReset
  BY <1>5 DEF completeReset, Ends, RowStep
<1>6. ASSUME NEW t \in Row, GrowsDue(t) \/ GraceEnds(t) PROVE RowStep
  BY <1>6 DEF RowStep
<1>7. ASSUME NEW r \in Request, lookupRefreshSession(r) \/ FindOthers(r) \/ Deliver(r) \/ Lose(r)
      PROVE  RowStep
  BY <1>7 DEF lookupRefreshSession, FindOthers, Deliver, Lose, RowStep
<1>8. ASSUME NEW r \in Request, NEW b \in Browser, NEW clears \in BOOLEAN,
             Judge(r, b) \/ SignOut(r, b) \/ SendEndOthers(r, b) \/ SendRefresh(r, b, clears)
      PROVE  RowStep
  BY <1>8 DEF Judge, SignOut, SendEndOthers, SendRefresh, RowStep
<1> QED
  BY <1>0, <1>1, <1>2, <1>3, <1>4, <1>5, <1>6, <1>7, <1>8 DEF SessionsNext

LEMMA RowsTyped ==
  ASSUME SessionsTypeOK, Rooted, RowStep
  PROVE  /\ row' \in [Row -> SessionRow] /\ resets' \in 0..MaxResets
         /\ \A t \in Row : row'[t].status = "rotated" <=> row'[t].replacedBy # Nobody
<1>1. CASE UNCHANGED row /\ resets' = resets
  BY <1>1 DEF SessionsTypeOK
<1>2. ASSUME NEW t \in Row, GrowsDue(t) \/ GraceEnds(t)
      PROVE  /\ row' \in [Row -> SessionRow] /\ resets' = resets
             /\ \A x \in Row : row'[x].status = "rotated" <=> row'[x].replacedBy # Nobody
  <2>1. /\ row' \in [Row -> SessionRow] /\ resets' = resets
    <3>1. row[t] \in SessionRow
      BY DEF SessionsTypeOK
    <3>2. [row[t] EXCEPT !.due = TRUE] \in SessionRow /\ [row[t] EXCEPT !.grace = FALSE] \in SessionRow
      BY <3>1 DEF SessionRow
    <3>3. \/ row' = [row EXCEPT ![t] = [row[t] EXCEPT !.due = TRUE]]
          \/ row' = [row EXCEPT ![t] = [row[t] EXCEPT !.grace = FALSE]]
      BY <1>2 DEF GrowsDue, GraceEnds
    <3> QED
      BY <1>2, <3>2, <3>3 DEF GrowsDue, GraceEnds, SessionsTypeOK
  <2>2. \A x \in Row : /\ row'[x].status = row[x].status
                        /\ row'[x].replacedBy = row[x].replacedBy
    BY <1>2 DEF GrowsDue, GraceEnds, SessionsTypeOK, SessionRow
  <2> QED
    BY <2>1, <2>2 DEF SessionsTypeOK
<1>3. resets \in 0..MaxResets /\ (resets < MaxResets => resets + 1 \in 0..MaxResets)
  BY DEF SessionsTypeOK
<1> QED
  BY <1>1, <1>2, <1>3, SignsInTyped, RotatesTyped, EndsTyped DEF RowStep

\* The requests and the cookies that they bring home.
LEMMA AskedTyped ==
  ASSUME SessionsTypeOK, Rooted, SessionsNext
  PROVE  request' \in [Request -> Requests] /\ jar' \in [Browser -> Cookies]
<1>1. ASSUME NEW r \in Request, createSession(r) PROVE request' \in [Request -> Requests] /\ UNCHANGED jar
  <2>1. request[r].browser \in Browser
    BY <1>1, CallTyped DEF createSession
  <2> QED
    BY <1>1, <2>1, ReplyTyped DEF createSession, Cookies
<1>2. ASSUME NEW r \in Request, rotateSessionRecord(r)
      PROVE  request' \in [Request -> Requests] /\ UNCHANGED jar
  <2>1. request[r] \in [op: {"refresh"}, at: {"sent", "due", "lost"}, browser: Browser,
                        token: Row, clears: BOOLEAN]
    BY <1>2, CallTyped DEF rotateSessionRecord
  <2>2. [request[r] EXCEPT !.at = "lost"] \in Requests
    BY <2>1 DEF Requests
  <2> QED
    BY <1>2, <2>1, <2>2, RequestTyped, ReplyTyped DEF rotateSessionRecord, Cookies
<1>3. ASSUME NEW r \in Request, lookupRefreshSession(r)
      PROVE  request' \in [Request -> Requests] /\ UNCHANGED jar
  <2>1. request[r] \in [op: {"refresh"}, at: {"sent", "due", "lost"}, browser: Browser,
                        token: Row, clears: BOOLEAN]
    BY <1>3, CallTyped DEF lookupRefreshSession
  <2>2. [request[r] EXCEPT !.at = "due"] \in Requests
    BY <2>1 DEF Requests
  <2>3. Lookup(request[r].token) \in Row \cup {Nobody}
    BY <2>1 DEF Lookup, SessionsTypeOK, SessionRow
  <2>4. CASE Refused(r)
    BY <1>3, <2>1, <2>4, ReplyTyped, FinishTyped DEF Refused, lookupRefreshSession, Cookies, NoCookies
  <2>5. ASSUME NEW t \in Row, Renewed(r, t) PROVE request' \in [Request -> Requests]
    BY <2>1, <2>5, ReplyTyped DEF Renewed, Access, Cookies, NoCookies
  <2> QED
    BY <1>3, <2>1, <2>2, <2>3, <2>4, <2>5, RequestTyped DEF lookupRefreshSession
<1>4. ASSUME NEW r \in Request, destroySession(r)
      PROVE  request' \in [Request -> Requests] /\ UNCHANGED jar
  <2>1. request[r].browser \in Browser
    BY <1>4, CallTyped DEF destroySession
  <2> QED
    BY <1>4, <2>1, ReplyTyped DEF destroySession, Cookies, NoCookies
<1>5. ASSUME NEW r \in Request, FindOthers(r)
      PROVE  request' \in [Request -> Requests] /\ UNCHANGED jar
  <2>1. request[r].keep \in Row
    BY <1>5, CallTyped DEF FindOthers
  <2>2. [op |-> "ending", keep |-> request[r].keep,
         rows |-> {t \in Row : Live(t) /\ t # request[r].keep}] \in Requests
    BY <2>1 DEF Requests
  <2> QED
    BY <1>5, <2>2, RequestTyped DEF FindOthers
<1>6. ASSUME NEW r \in Request, EndOthers(r) \/ Lose(r)
      PROVE  request' \in [Request -> Requests] /\ UNCHANGED jar
  BY <1>6, FinishTyped DEF EndOthers, Lose
<1>7. ASSUME NEW r \in Request, Deliver(r)
      PROVE  request' \in [Request -> Requests] /\ jar' \in [Browser -> Cookies]
  <2>1. request[r].browser \in Browser /\ request[r].sets \in Cookies
    BY <1>7, CallTyped DEF Deliver, Cookies, NoCookies
  <2>2. request[r].sets.access \in Row \cup {Nobody}
    BY <2>1 DEF Cookies
  <2>3. [jar[request[r].browser] EXCEPT !.access = request[r].sets.access] \in Cookies
    BY <2>1, <2>2 DEF SessionsTypeOK, Cookies
  <2> QED
    BY <1>7, <2>1, <2>3, FinishTyped DEF Deliver, SessionsTypeOK
<1>8. ASSUME NEW r \in Request, NEW b \in Browser, NEW clears \in BOOLEAN,
             Judge(r, b) \/ SignOut(r, b) \/ SendEndOthers(r, b) \/ SendRefresh(r, b, clears)
      PROVE  request' \in [Request -> Requests] /\ UNCHANGED jar
  <2>1. jar[b] \in Cookies
    BY DEF SessionsTypeOK
  <2>2. CASE Judge(r, b) \/ SignOut(r, b)
    <3>1. \A t \in Row \cup {Nobody}, op \in {"signin", "signout"} :
            [op |-> op, browser |-> b, token |-> t] \in Requests
      BY DEF Requests
    <3> QED
      BY <2>1, <2>2, <3>1, RequestTyped DEF Judge, SignOut, Begin, Cookies
  <2>3. CASE SendEndOthers(r, b)
    <3>1. [op |-> "others", keep |-> jar[b].access] \in Requests
      BY <2>1, <2>3 DEF SendEndOthers, Requests, Cookies
    <3> QED
      BY <2>3, <3>1, RequestTyped DEF SendEndOthers, Begin
  <2>4. CASE SendRefresh(r, b, clears)
    <3>1. [op |-> "refresh", at |-> "sent", browser |-> b, token |-> jar[b].refresh,
           clears |-> clears] \in Requests
      BY <2>1, <2>4 DEF SendRefresh, Requests, Cookies
    <3> QED
      BY <2>4, <3>1, RequestTyped DEF SendRefresh, Begin
  <2> QED
    BY <1>8, <2>2, <2>3, <2>4
<1>9. CASE completeReset \/ \E t \in Row : GrowsDue(t) \/ GraceEnds(t)
  BY <1>9 DEF completeReset, GrowsDue, GraceEnds, SessionsTypeOK
<1>a. UNCHANGED jar => jar' \in [Browser -> Cookies]
  BY DEF SessionsTypeOK
<1> QED
  BY <1>1, <1>2, <1>3, <1>4, <1>5, <1>6, <1>7, <1>8, <1>9, <1>a DEF SessionsNext

------------------------------------------------------------------------------
(* Sessions: the invariant *)

\* A sign-in whose row was ended has no live session any more.
Over == \A s, t \in Row : Live(s) /\ row[t].status = "ended" => row[s].root # row[t].root

\* Within its grace window a row was replaced by one that is not due, so by one
\* that cannot itself have been replaced, of the same sign-in.
Young ==
  \A p \in Row : row[p].grace =>
    /\ row[p].status = "rotated" /\ row[p].replacedBy \in Row
    /\ ~row[row[p].replacedBy].due
    /\ row[row[p].replacedBy].status \in {"live", "ended"}
    /\ row[row[p].replacedBy].root = row[p].root

RowsSound == Rooted /\ OneHeadEach /\ Over /\ Young /\ ResetEndsAll
SessionsInv == SessionsTypeOK /\ RowsSound /\ DueAsked

\* Time moves nothing but the two marks, each one way.
LEMMA TimeMoves ==
  ASSUME SessionsTypeOK, NEW t \in Row, GrowsDue(t) \/ GraceEnds(t), NEW x \in Row
  PROVE  /\ row'[x].status = row[x].status /\ row'[x].root = row[x].root
         /\ row'[x].born = row[x].born /\ row'[x].replacedBy = row[x].replacedBy
         /\ row[x].due => row'[x].due
         /\ row'[x].grace => row[x].grace
         /\ x # t => row'[x] = row[x]
<1>1. row[x] \in SessionRow
  BY DEF SessionsTypeOK
<1>2. CASE x # t
  BY <1>2 DEF GrowsDue, GraceEnds, SessionsTypeOK
<1>3. CASE x = t /\ GrowsDue(t)
  <2>1. row'[x] = [row[x] EXCEPT !.due = TRUE]
    BY <1>3 DEF GrowsDue, SessionsTypeOK
  <2>2. /\ row'[x].status = row[x].status /\ row'[x].root = row[x].root
        /\ row'[x].born = row[x].born /\ row'[x].replacedBy = row[x].replacedBy
        /\ row'[x].grace = row[x].grace
    BY <1>1, <2>1 DEF SessionRow
  <2>3. row'[x].due = TRUE
    BY <1>1, <2>1 DEF SessionRow
  <2> QED
    BY <1>3, <2>2, <2>3
<1>4. CASE x = t /\ GraceEnds(t)
  <2>1. row'[x] = [row[x] EXCEPT !.grace = FALSE]
    BY <1>4 DEF GraceEnds, SessionsTypeOK
  <2>2. /\ row'[x].status = row[x].status /\ row'[x].root = row[x].root
        /\ row'[x].born = row[x].born /\ row'[x].replacedBy = row[x].replacedBy
        /\ row'[x].due = row[x].due
    BY <1>1, <2>1 DEF SessionRow
  <2>3. row'[x].grace = FALSE
    BY <1>1, <2>1 DEF SessionRow
  <2> QED
    BY <1>4, <2>2, <2>3
<1> QED
  BY <1>2, <1>3, <1>4

\* What ending leaves of a row.
LEMMA EndedKeeps ==
  ASSUME SessionsTypeOK, NEW x \in Row
  PROVE  /\ Ended(x).status = IF Live(x) THEN "ended" ELSE row[x].status
         /\ Ended(x).root = row[x].root /\ Ended(x).born = row[x].born
         /\ Ended(x).replacedBy = row[x].replacedBy
         /\ Ended(x).due = row[x].due /\ Ended(x).grace = row[x].grace
<1>1. row[x] \in SessionRow
  BY DEF SessionsTypeOK
<1> QED
  BY <1>1 DEF Ended, Live, SessionRow

\* What a step leaves of a row: nobody un-makes one, moves it to another sign-in,
\* or makes it less than a day old.
LEMMA SignInsKept ==
  ASSUME SessionsTypeOK, RowsSound, RowStep, NEW t \in Row
  PROVE  /\ row[t].status # "none" => /\ row'[t].status # "none" /\ row'[t].root = row[t].root
                                      /\ row'[t].born = row[t].born
         /\ row[t].due => row'[t].due
<1>0. row[t] \in SessionRow /\ (row[t].status = "none" => ~row[t].due)
  BY DEF SessionsTypeOK, RowsSound, Rooted, Unused
<1>1. ASSUME NEW x \in Row, GrowsDue(x) \/ GraceEnds(x)
      PROVE  /\ row'[t].status = row[t].status /\ row'[t].root = row[t].root
             /\ row'[t].born = row[t].born /\ (row[t].due => row'[t].due)
  BY <1>1, TimeMoves
<1>2. ASSUME NEW x \in Row, SignsIn(x), x # t PROVE row'[t] = row[t]
  BY <1>2, SignsInTyped
<1>3. ASSUME NEW x \in Row, NEW s \in Row, Rotates(x, s), s # t
      PROVE  /\ row[t].status # "none" => row'[t].status # "none"
             /\ row'[t].root = row[t].root
             /\ row'[t].born = row[t].born /\ (row[t].due => row'[t].due)
  <2>1. CASE x = t
    <3>1. row'[t] = [row[t] EXCEPT !.status = "rotated", !.replacedBy = s, !.grace = TRUE]
      BY <1>3, <2>1, RotatesTyped DEF RowsSound
    <3>2. /\ row'[t].status = "rotated" /\ row'[t].root = row[t].root
          /\ row'[t].born = row[t].born /\ row'[t].due = row[t].due
      BY <1>0, <3>1 DEF SessionRow
    <3> QED
      BY <3>2
  <2>2. CASE x # t
    <3>1. row'[t] = row[t]
      <4>1. t \in Row \ {s, x}
        BY <1>3, <2>2
      <4> QED
        BY <1>3, <4>1, RotatesTyped DEF RowsSound
    <3> QED
      BY <3>1
  <2> QED
    BY <2>1, <2>2
<1>4. ASSUME NEW gone \in SUBSET Row, Ends(gone)
      PROVE  /\ row[t].status # "none" => row'[t].status # "none"
             /\ row'[t].root = row[t].root
             /\ row'[t].born = row[t].born /\ (row[t].due => row'[t].due)
  <2>1. /\ Ended(t).root = row[t].root /\ Ended(t).born = row[t].born
        /\ Ended(t).due = row[t].due /\ (row[t].status # "none" => Ended(t).status # "none")
    BY EndedKeeps DEF Live
  <2>2. CASE t \in gone
    <3>1. row'[t] = Ended(t)
      BY <1>4, <2>2, EndsTyped
    <3> QED
      BY <2>1, <3>1
  <2>3. CASE t \notin gone
    <3>1. row'[t] = row[t]
      BY <1>4, <2>3, EndsTyped
    <3> QED
      BY <3>1
  <2> QED
    BY <2>2, <2>3
<1>5. ASSUME NEW x \in Row, row[x].status = "none", t = x
      PROVE  row[t].status = "none" /\ ~row[t].due
  BY <1>0, <1>5
<1> QED
  BY <1>1, <1>2, <1>3, <1>4, <1>5 DEF RowStep, SignsIn, Rotates

LEMMA SignInSound ==
  ASSUME SessionsTypeOK, RowsSound, NEW n \in Row, SignsIn(n), resets' = resets
  PROVE  RowsSound'
<1>1. /\ row'[n].status = "live" /\ row'[n].root = n /\ row'[n].born = resets
      /\ ~row'[n].grace /\ ~row'[n].due
      /\ \A x \in Row \ {n} : row'[x] = row[x]
  BY SignsInTyped, FreshTyped DEF SessionsTypeOK
<1>2. row[n].status = "none" /\ \A x \in Row : row[x].status # "none" => row[x].root # n
  BY DEF SignsIn, RowsSound, Rooted
<1>3. Rooted'
  BY <1>1 DEF RowsSound, Rooted
<1>4. OneHeadEach'
  BY <1>1, <1>2 DEF RowsSound, OneHeadEach, Live
<1>5. Over'
  BY <1>1, <1>2 DEF RowsSound, Over, Live
<1>6. Young'
  <2> SUFFICES ASSUME NEW p \in Row, row'[p].grace
               PROVE  /\ row'[p].status = "rotated" /\ row'[p].replacedBy \in Row
                      /\ ~row'[row'[p].replacedBy].due
                      /\ row'[row'[p].replacedBy].status \in {"live", "ended"}
                      /\ row'[row'[p].replacedBy].root = row'[p].root
    BY DEF Young
  <2>1. p # n /\ row'[p] = row[p]
    BY <1>1
  <2>2. row[p].replacedBy \in Row \ {n}
    BY <1>2, <2>1 DEF RowsSound, Young
  <2> QED
    BY <1>1, <2>1, <2>2 DEF RowsSound, Young
<1>7. ResetEndsAll'
  BY <1>1 DEF RowsSound, ResetEndsAll, Live
<1> QED
  BY <1>3, <1>4, <1>5, <1>6, <1>7 DEF RowsSound

LEMMA RotationSound ==
  ASSUME SessionsTypeOK, RowsSound, NEW t \in Row, NEW n \in Row, Rotates(t, n), resets' = resets
  PROVE  RowsSound'
<1>0. /\ row[t].root \in Row /\ row[t].born = resets /\ row[t].status = "live"
      /\ row[row[t].root].status # "none" /\ row[t].due /\ row[t] \in SessionRow
      /\ row[n].status = "none" /\ ~row[n].grace
  BY DEF Rotates, Live, RowsSound, Rooted, ResetEndsAll, SessionsTypeOK, Unused
<1>1. /\ t # n
      /\ row'[n].status = "live" /\ row'[n].root = row[t].root /\ row'[n].born = resets
      /\ ~row'[n].grace /\ ~row'[n].due
      /\ \A x \in Row \ {n, t} : row'[x] = row[x]
      /\ row'[t] = [row[t] EXCEPT !.status = "rotated", !.replacedBy = n, !.grace = TRUE]
  <2>1. /\ t # n /\ row'[n] = Fresh(row[t].root, row[t].born)
        /\ \A x \in Row \ {n, t} : row'[x] = row[x]
        /\ row'[t] = [row[t] EXCEPT !.status = "rotated", !.replacedBy = n, !.grace = TRUE]
    BY RotatesTyped DEF RowsSound
  <2>2. resets \in 0..MaxResets
    BY DEF SessionsTypeOK
  <2> QED
    BY <1>0, <2>1, <2>2, FreshTyped
<1>2. row'[t].status = "rotated" /\ row'[t].replacedBy = n /\ row'[t].root = row[t].root
  BY <1>0, <1>1 DEF SessionRow
<1>8. \A x \in Row \ {n} : /\ row'[x].root = row[x].root
                           /\ row[x].status # "none" => row'[x].status # "none"
                           /\ row[x].status = "none" => row'[x] = row[x]
                           /\ row'[x].status = "live" => x # t /\ row[x].status = "live"
                           /\ row'[x].status = "ended" => x # t /\ row[x].status = "ended"
  <2> TAKE x \in Row \ {n}
  <2>1. CASE x = t
    BY <1>0, <1>2, <2>1
  <2>2. CASE x # t
    BY <1>1, <2>2
  <2> QED
    BY <2>1, <2>2
<1>a. row'[n].status = "live" /\ row'[n].root = row[t].root /\ t # n
  BY <1>1
<1>3. Rooted'
  <2> SUFFICES ASSUME NEW x \in Row
               PROVE  IF row'[x].status = "none" THEN row'[x] = Unused
                      ELSE row'[x].root \in Row /\ row'[row'[x].root].status # "none"
    BY DEF Rooted
  <2>1. CASE x = n
    BY <1>0, <1>8, <1>a, <2>1
  <2>2. CASE x # n
    <3>1. IF row[x].status = "none" THEN row[x] = Unused
          ELSE row[x].root \in Row \ {n} /\ row[row[x].root].status # "none"
      BY <1>0 DEF RowsSound, Rooted
    <3> QED
      BY <1>8, <2>2, <3>1
  <2> QED
    BY <2>1, <2>2
<1>4. OneHeadEach'
  <2>1. \A x \in Row \ {n} : row'[x].status = "live" => row[x].root # row[t].root
    BY <1>0, <1>8 DEF RowsSound, OneHeadEach, Live
  <2> QED
    BY <1>8, <1>a, <2>1 DEF RowsSound, OneHeadEach, Live
<1>5. Over'
  BY <1>0, <1>8, <1>a DEF RowsSound, Over, Live
<1>6. Young'
  <2> SUFFICES ASSUME NEW p \in Row, row'[p].grace
               PROVE  /\ row'[p].status = "rotated" /\ row'[p].replacedBy \in Row
                      /\ ~row'[row'[p].replacedBy].due
                      /\ row'[row'[p].replacedBy].status \in {"live", "ended"}
                      /\ row'[row'[p].replacedBy].root = row'[p].root
    BY DEF Young
  <2>1. CASE p = t
    BY <1>1, <1>2, <2>1
  <2>2. CASE p # t
    <3>1. p # n /\ row'[p] = row[p]
      BY <1>1, <2>2
    <3>2. row[p].replacedBy \in Row \ {n, t}
      BY <1>0, <3>1 DEF RowsSound, Young
    <3> QED
      BY <1>1, <3>1, <3>2 DEF RowsSound, Young
  <2> QED
    BY <2>1, <2>2
<1>7. ResetEndsAll'
  BY <1>1, <1>2 DEF RowsSound, ResetEndsAll, Live
<1> QED
  BY <1>3, <1>4, <1>5, <1>6, <1>7 DEF RowsSound

LEMMA EndingSound ==
  ASSUME SessionsTypeOK, RowsSound, NEW gone \in SUBSET Row, Ends(gone),
         resets' = resets \/ gone = Row
  PROVE  RowsSound'
<1>1. \A x \in Row : /\ row'[x].status = IF x \in gone /\ Live(x) THEN "ended" ELSE row[x].status
                     /\ row'[x].root = row[x].root /\ row'[x].born = row[x].born
                     /\ row'[x].replacedBy = row[x].replacedBy
                     /\ row'[x].due = row[x].due /\ row'[x].grace = row[x].grace
  BY EndsTyped, EndedKeeps
<1>2. \A x \in Row : row[x].status = "none" => row'[x] = Unused
  <2> TAKE x \in Row
  <2> HAVE row[x].status = "none"
  <2>1. row[x] = Unused
    BY DEF RowsSound, Rooted
  <2>2. Ended(x) = row[x]
    BY <2>1 DEF Ended, Unused
  <2> QED
    BY <2>1, <2>2, EndsTyped
<1>3. Rooted'
  BY <1>1, <1>2 DEF RowsSound, Rooted
<1>4. OneHeadEach'
  BY <1>1 DEF RowsSound, OneHeadEach, Live
<1>5. Over'
  BY <1>1 DEF RowsSound, Over, OneHeadEach, Live
<1>6. Young'
  BY <1>1 DEF RowsSound, Young, Live
<1>7. ResetEndsAll'
  BY <1>1 DEF RowsSound, ResetEndsAll, Live
<1> QED
  BY <1>3, <1>4, <1>5, <1>6, <1>7 DEF RowsSound

LEMMA TimeSound ==
  ASSUME SessionsTypeOK, RowsSound, NEW t \in Row, GrowsDue(t) \/ GraceEnds(t)
  PROVE  RowsSound'
<1>0. row[t] \in SessionRow /\ row[t].status # "none"
  BY DEF SessionsTypeOK, GrowsDue, GraceEnds, Live, RowsSound, Rooted, Unused
<1>1. \A x \in Row : /\ row'[x].status = row[x].status
                     /\ row'[x].root = row[x].root /\ row'[x].born = row[x].born
                     /\ row'[x].replacedBy = row[x].replacedBy
                     /\ row'[x].grace => row[x].grace
                     /\ x # t => row'[x] = row[x]
  BY TimeMoves
<1>2. Rooted'
  BY <1>0, <1>1 DEF RowsSound, Rooted
<1>3. OneHeadEach' /\ Over'
  BY <1>1 DEF RowsSound, OneHeadEach, Over, Live
<1>4. ResetEndsAll'
  BY <1>1 DEF RowsSound, ResetEndsAll, Live, GrowsDue, GraceEnds
<1>5. Young'
  <2>1. \A p \in Row : row'[p].grace => ~row'[row[p].replacedBy].due
    BY <1>0, <1>1 DEF RowsSound, Young, GrowsDue, GraceEnds, SessionsTypeOK, SessionRow
  <2> QED
    BY <1>1, <2>1 DEF RowsSound, Young
<1> QED
  BY <1>2, <1>3, <1>4, <1>5 DEF RowsSound

LEMMA RowsStaySound ==
  ASSUME SessionsTypeOK, RowsSound, RowStep
  PROVE  RowsSound'
<1>1. CASE UNCHANGED row /\ resets' = resets
  BY <1>1 DEF RowsSound, Rooted, OneHeadEach, Over, Young, ResetEndsAll, Live
<1>2. Row \in SUBSET Row
  OBVIOUS
<1> QED
  BY <1>1, <1>2, TimeSound, SignInSound, RotationSound, EndingSound DEF RowStep

\* A lookup sends on to the rotation only a row that it finds due.
LEMMA DueAskedStep ==
  ASSUME SessionsInv, SessionsNext, RowStep
  PROVE  DueAsked'
<1> USE DEF SessionsInv
<1> SUFFICES ASSUME NEW r \in Request, request'[r].op = "refresh", request'[r].at = "due"
             PROVE  row'[request'[r].token].due
  BY DEF DueAsked
<1>1. CASE request'[r] = request[r]
  <2>1. request[r].token \in Row /\ row[request[r].token].due
    BY <1>1, CallTyped DEF DueAsked
  <2> QED
    BY <1>1, <2>1, SignInsKept
<1>2. ASSUME request'[r] # request[r]
      PROVE  /\ request[r].op = "refresh" /\ request'[r].token = request[r].token
             /\ request[r].token \in Row /\ row[request[r].token].due
  <2>1. ASSUME NEW x \in Request, lookupRefreshSession(x)
        PROVE  /\ request[r].op = "refresh" /\ request'[r].token = request[r].token
               /\ request[r].token \in Row /\ row[request[r].token].due
    <3>1. x = r
      BY <1>2, <2>1 DEF lookupRefreshSession, Refused, Renewed, Reply, Finish, SessionsTypeOK
    <3>2. request[r] \in [op: {"refresh"}, at: {"sent", "due", "lost"}, browser: Browser,
                          token: Row, clears: BOOLEAN]
      BY <2>1, <3>1, CallTyped DEF lookupRefreshSession
    <3>3. row[request[r].token].due /\ request' = [request EXCEPT ![r].at = "due"]
      BY <2>1, <3>1 DEF lookupRefreshSession, Refused, Renewed, Reply, Finish, Awaited, SessionsTypeOK
    <3>4. request'[r] = [request[r] EXCEPT !.at = "due"]
      BY <3>3 DEF SessionsTypeOK
    <3> QED
      BY <3>2, <3>3, <3>4
  <2>2. ASSUME NEW x \in Request, createSession(x) \/ destroySession(x) \/ rotateSessionRecord(x)
                                    \/ FindOthers(x) \/ EndOthers(x) \/ Deliver(x) \/ Lose(x)
        PROVE  FALSE
    <3>1. x = r
      BY <1>2, <2>2 DEF createSession, destroySession, rotateSessionRecord, FindOthers, EndOthers,
                        Deliver, Lose, Reply, Finish, SessionsTypeOK
    <3>2. CASE rotateSessionRecord(r) /\ request' = [request EXCEPT ![r].at = "lost"]
      BY <3>2, CallTyped DEF rotateSessionRecord, SessionsTypeOK
    <3>3. CASE rotateSessionRecord(r) /\ request' # [request EXCEPT ![r].at = "lost"]
      BY <3>3 DEF rotateSessionRecord, Reply, SessionsTypeOK
    <3>4. CASE createSession(r) \/ destroySession(r)
      <4>1. PICK b, what, sets : Reply(r, b, what, sets)
        BY <3>4 DEF createSession, destroySession
      <4>2. request'[r].op = "answer"
        BY <4>1 DEF Reply, SessionsTypeOK
      <4> QED
        BY <4>2
    <3>5. CASE FindOthers(r)
      <4> DEFINE rows == {t \in Row : Live(t) /\ t # request[r].keep}
      <4>1. request' = [request EXCEPT ![r] = [op |-> "ending", keep |-> request[r].keep, rows |-> rows]]
        BY <3>5 DEF FindOthers
      <4> HIDE DEF rows
      <4>2. request'[r].op = "ending"
        BY <4>1 DEF SessionsTypeOK
      <4> QED
        BY <4>2
    <3>6. CASE EndOthers(r) \/ Deliver(r) \/ Lose(r)
      <4>1. request' = [request EXCEPT ![r] = Awaited]
        BY <3>6 DEF EndOthers, Deliver, Lose, Finish
      <4>2. request'[r] = Awaited
        BY <4>1 DEF SessionsTypeOK
      <4> QED
        BY <4>2 DEF Awaited
    <3> QED
      BY <2>2, <3>1, <3>2, <3>3, <3>4, <3>5, <3>6
  <2>3. ASSUME NEW x \in Request, NEW b \in Browser, NEW clears \in BOOLEAN,
               Judge(x, b) \/ SignOut(x, b) \/ SendEndOthers(x, b) \/ SendRefresh(x, b, clears)
        PROVE  FALSE
    BY <1>2, <2>3 DEF Judge, SignOut, SendEndOthers, SendRefresh, Begin, SessionsTypeOK
  <2>4. CASE completeReset \/ \E t \in Row : GrowsDue(t) \/ GraceEnds(t)
    BY <1>2, <2>4 DEF completeReset, GrowsDue, GraceEnds
  <2> QED
    BY <2>1, <2>2, <2>3, <2>4 DEF SessionsNext
<1> QED
  BY <1>1, <1>2, SignInsKept

THEOREM SessionsInvariant == SessionsSpec => []SessionsInv
<1>1. SessionsInit => SessionsInv
  BY SessionsInitTyped DEF SessionsInit, SessionsInv, RowsSound, Rooted, OneHeadEach, Over, Young,
     ResetEndsAll, DueAsked, Live, Unused, Awaited
<1>2. SessionsInv /\ [SessionsNext]_sessionVars => SessionsInv'
  <2> SUFFICES ASSUME SessionsInv, [SessionsNext]_sessionVars PROVE SessionsInv'
    OBVIOUS
  <2>1. RowStep
    BY RowsMove DEF SessionsInv
  <2>2. RowsSound'
    BY <2>1, RowsStaySound DEF SessionsInv
  <2>3. CASE SessionsNext
    <3>1. SessionsTypeOK'
      BY <2>1, <2>3, RowsTyped, AskedTyped DEF SessionsInv, RowsSound, SessionsTypeOK
    <3> QED
      BY <2>1, <2>2, <2>3, <3>1, DueAskedStep DEF SessionsInv
  <2>4. CASE UNCHANGED sessionVars
    BY <2>2, <2>4 DEF sessionVars, SessionsInv, SessionsTypeOK, DueAsked
  <2> QED
    BY <2>3, <2>4
<1> QED
  BY <1>1, <1>2, PTL DEF SessionsSpec

\* Every row, cookie and request keeps its type.
THEOREM SessionsTyped == SessionsSpec => []SessionsTypeOK
<1>1. SessionsInv => SessionsTypeOK
  BY DEF SessionsInv
<1> QED
  BY <1>1, SessionsInvariant, PTL

\* One live session for each sign-in, however many requests rotate it at once
\* (rotateSessionRecord).
THEOREM OneHead == SessionsSpec => []OneHeadEach
<1>1. SessionsInv => OneHeadEach
  BY DEF SessionsInv, RowsSound
<1> QED
  BY <1>1, SessionsInvariant, PTL

\* Nothing that was signed in before a reset outlives it (completeReset, against
\* rotateSessionRecord in flight).
THEOREM ResetIsTotal == SessionsSpec => []ResetEndsAll
<1>1. SessionsInv => ResetEndsAll
  BY DEF SessionsInv, RowsSound
<1> QED
  BY <1>1, SessionsInvariant, PTL

\* A refresh neither forks a sign-in nor carries it past a reset.
THEOREM OneLiveAlways == SessionsSpec => []OneLiveEach
<1>1. OneHeadEach /\ ResetEndsAll => OneLiveEach
  BY DEF OneLiveEach
<1> QED
  BY <1>1, OneHead, ResetIsTotal, PTL

\* A request is refused only with a token replaced longer ago than the grace
\* window, or whose sign-in is over (lookupRefreshSession).
THEOREM NobodyRacedOut == SessionsSpec => RefusedOnlyLate
<1> DEFINE Fair ==
      \A r \in Request :
        /\ request[r].op = "refresh"
        /\ request'[r] # request[r] /\ Turned(request'[r])
        => LET t == request[r].token
           IN  (\E s \in Row : Live(s) /\ row[s].root = row[t].root)
                 => row[t].status = "rotated" /\ ~row[t].grace
<1>1. SessionsInv /\ [SessionsNext]_sessionVars => [Fair]_sessionVars
  <2> SUFFICES ASSUME SessionsInv, SessionsNext, NEW r \in Request, request[r].op = "refresh",
                      request'[r] # request[r], Turned(request'[r]),
                      NEW s \in Row, Live(s), row[s].root = row[request[r].token].root
               PROVE  row[request[r].token].status = "rotated" /\ ~row[request[r].token].grace
    BY DEF Fair
  <2> DEFINE t == request[r].token
  <2>1. request[r] \in [op: {"refresh"}, at: {"sent", "due", "lost"}, browser: Browser,
                        token: Row, clears: BOOLEAN]
    BY CallTyped DEF SessionsInv
  <2>2. lookupRefreshSession(r) /\ Lookup(t) = Nobody
    <3>1. ASSUME NEW x \in Request, lookupRefreshSession(x)
          PROVE  lookupRefreshSession(r) /\ Lookup(t) = Nobody
      <4>1. x = r
        BY <3>1 DEF lookupRefreshSession, Refused, Renewed, Reply, Finish, SessionsInv, SessionsTypeOK
      <4>2. CASE request' = [request EXCEPT ![r].at = "due"]
        <5>1. request'[r] = [request[r] EXCEPT !.at = "due"]
          BY <4>2 DEF SessionsInv, SessionsTypeOK
        <5> QED
          BY <2>1, <5>1 DEF Turned, Awaited
      <4>3. ASSUME NEW x1, Renewed(r, x1) PROVE FALSE
        BY <4>3 DEF Renewed, Reply, Turned, Awaited, SessionsInv, SessionsTypeOK
      <4> QED
        BY <3>1, <4>1, <4>2, <4>3 DEF lookupRefreshSession
    <3>2. ASSUME NEW x \in Request, rotateSessionRecord(x) PROVE FALSE
      <4>1. x = r
        BY <3>2 DEF rotateSessionRecord, Reply, SessionsInv, SessionsTypeOK
      <4>2. CASE request' = [request EXCEPT ![r].at = "lost"]
        <5>1. request'[r] = [request[r] EXCEPT !.at = "lost"]
          BY <4>2 DEF SessionsInv, SessionsTypeOK
        <5> QED
          BY <2>1, <5>1 DEF Turned, Awaited
      <4> QED
        BY <3>2, <4>1, <4>2 DEF rotateSessionRecord, Reply, Turned, Awaited, SessionsInv, SessionsTypeOK
    <3>3. ASSUME NEW x \in Request, createSession(x) \/ destroySession(x)
                                      \/ FindOthers(x) \/ EndOthers(x) \/ Deliver(x) \/ Lose(x)
          PROVE  FALSE
      BY <3>3 DEF createSession, destroySession, FindOthers, EndOthers, Deliver, Lose,
                  Reply, Finish, SessionsInv, SessionsTypeOK
    <3>4. ASSUME NEW x \in Request, NEW b \in Browser, NEW clears \in BOOLEAN,
                 Judge(x, b) \/ SignOut(x, b) \/ SendEndOthers(x, b) \/ SendRefresh(x, b, clears)
          PROVE  FALSE
      BY <3>4 DEF Judge, SignOut, SendEndOthers, SendRefresh, Begin, Awaited, SessionsInv, SessionsTypeOK
    <3>5. CASE completeReset \/ \E x \in Row : GrowsDue(x) \/ GraceEnds(x)
      BY <3>5 DEF completeReset, GrowsDue, GraceEnds
    <3> QED
      BY <3>1, <3>2, <3>3, <3>4, <3>5 DEF SessionsNext
  <2>3. t \in Row /\ ~Live(t)
    BY <2>1, <2>2 DEF Lookup
  <2>4. row[s].root \in Row /\ row[t].status # "none"
    BY <2>3 DEF Live, SessionsInv, RowsSound, Rooted, Unused
  <2>5. row[t].status = "rotated"
    BY <2>3, <2>4 DEF Live, SessionsInv, RowsSound, Over, SessionsTypeOK, SessionRow
  <2>6. ~row[t].grace
    <3> SUFFICES ASSUME row[t].grace PROVE FALSE
      OBVIOUS
    <3>1. /\ row[t].replacedBy \in Row /\ row[row[t].replacedBy].status \in {"live", "ended"}
          /\ row[row[t].replacedBy].root = row[s].root
      BY <2>3 DEF SessionsInv, RowsSound, Young
    <3>2. Live(row[t].replacedBy)
      BY <3>1 DEF Live, SessionsInv, RowsSound, Over
    <3> QED
      BY <2>2, <2>3, <2>5, <3>1, <3>2 DEF Lookup
  <2> QED
    BY <2>5, <2>6
<1> QED
  BY <1>1, SessionsInvariant, PTL DEF SessionsSpec, RefusedOnlyLate
==============================================================================
