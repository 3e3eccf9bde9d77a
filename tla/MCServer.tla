------------------------------ MODULE MCServer -------------------------------
(***************************************************************************)
(* What goes on by itself behind the screens: the queue of jobs, or the     *)
(* polling of live updates.  They share nothing, so a behaviour is one of   *)
(* them and the other stands still.                                         *)
(***************************************************************************)
EXTENDS Jobs, Pulse

CONSTANTS j1, j2, c1, c2, c3
VARIABLE part

\* One job may be tried twice, the other once.
OnceOrTwice == [j \in Job |-> IF j = j1 THEN 2 ELSE 1]

Init == part \in {"jobs", "pulse"} /\ JobsInit /\ PulseInit
RunJobs(A) == part = "jobs" /\ UNCHANGED <<part, pulseVars>> /\ A
RunPulse(A) == part = "pulse" /\ UNCHANGED <<part, jobsVars>> /\ A
Next == RunJobs(JobsNext) \/ RunPulse(PulseNext)

vars == <<part, jobsVars, pulseVars>>
\* The fairness of either module, of the behaviours that are its own.
Spec ==
  /\ Init /\ [][Next]_vars
  /\ \A j \in Job : WF_vars(RunJobs(ComesDue(j))) /\ WF_vars(RunJobs(GrowsStale(j)))
  /\ \A r \in Runner : WF_vars(RunJobs(Proceed(r)))
  /\ \A s \in Screen : WF_vars(RunPulse(Poll(s))) /\ WF_vars(RunPulse(Reload(s)))
==============================================================================
