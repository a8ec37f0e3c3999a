---------------------------- MODULE JudgeSandbox ----------------------------
(***************************************************************************)
(* The job list and the warm pools together: what SandboxPool leaves open, *)
(* which container a worker asks for and why, is decided here by the jobs  *)
(* in the list, and what Judge leaves open, when a worker gets a sandbox,  *)
(* by the pools.  Jobs of all languages go through the one list; a worker  *)
(* that gets no container in time puts its job back at the end.            *)
(*                                                                         *)
(* A worker's steps are those of SandboxPool, joined with what they do to  *)
(* the job in hand; the steps of a worker between them, and the workers'   *)
(* own failures, are the subject of Judge.                                 *)
(***************************************************************************)
EXTENDS SandboxPool, Functions

CONSTANTS
  Submission,
  language,    \* submissions.language
  None         \* no job in hand

ASSUME JobAssumption ==
  language \in [Submission -> Language] /\ None \notin Submission

VARIABLES
  job_list,    \* Redis list: LPUSH appends here, BRPOP takes the head
  hand,        \* the job each worker has in hand
  verdict,     \* submissions.verdict: "absent", "PD" or "final"
  lost         \* history: jobs that ended with the worker that had them

jobs == <<job_list, hand, verdict, lost>>
pools == vars
service == <<pools, jobs>>

\* The worker is free for the next job.
Free(w) == hand' = [hand EXCEPT ![w] = None]
-----------------------------------------------------------------------------
(* One job through a worker *)

Submit(s) ==
  /\ verdict[s] = "absent" /\ verdict' = [verdict EXCEPT ![s] = "PD"]
  /\ job_list' = Append(job_list, s)
  /\ UNCHANGED <<pools, hand, lost>>

\* The worker pops a job and asks for a container of its language.
TakeJob(w) ==
  /\ job_list # <<>>
  /\ Ask(w, language[Head(job_list)])
  /\ hand' = [hand EXCEPT ![w] = Head(job_list)] /\ job_list' = Tail(job_list)
  /\ UNCHANGED <<verdict, lost>>

GetSandbox(w) == Acquire(w) /\ UNCHANGED jobs

Announce(w) == Publish(w) /\ UNCHANGED jobs

\* Mutant: pushes where BRPOP takes.
RetryJob_first(w) ==
  Free(w) /\ job_list' = <<hand[w]>> \o job_list /\ UNCHANGED <<verdict, lost>>

\* The handler of any exception puts the job back at the end of the list.
RetryJob(w) ==
  Free(w) /\ job_list' = Append(job_list, hand[w]) /\ UNCHANGED <<verdict, lost>>

\* Mutant: takes TimeoutError for a reason to drop the job, as ValueError is.
NoSandbox_drops(w) ==
  AcquireTimesOut(w) /\ Free(w) /\ UNCHANGED <<job_list, verdict, lost>>

\* TimeoutError: no warm sandbox available.
NoSandbox(w) == AcquireTimesOut(w) /\ RetryJob(w)

\* PUBLISH raises, and the job goes back, or the worker dies with its job.
LeaseLost(w) ==
  /\ EventLost(w)
  /\ \/ RetryJob(w)
     \/ Free(w) /\ lost' = lost \cup {hand[w]} /\ UNCHANGED <<job_list, verdict>>

\* The container is stopped and the verdict written.
JobJudged(w) ==
  /\ Release(w)
  /\ verdict' = [verdict EXCEPT ![hand[w]] = "final"] /\ Free(w)
  /\ UNCHANGED <<job_list, lost>>

\* Docker, MinIO or the database raised while the job was judged.
JobFails(w) == Release(w) /\ RetryJob(w)

JobStep(w) ==
  TakeJob(w) \/ GetSandbox(w) \/ NoSandbox(w) \/ Announce(w) \/ JobJudged(w) \/ JobFails(w)

\* What the manager, its creators and the orchestrator do meanwhile.
PoolStep ==
  \/ \E c \in Creator : CreatorStep(c) \/ PushReplyLost(c)
  \/ ManagerStep \/ ManagerFails \/ CleanPoolFails \/ RequestShutdown
-----------------------------------------------------------------------------
ServiceInit ==
  /\ Init
  /\ job_list = <<>> /\ hand = [w \in Worker |-> None]
  /\ verdict = [s \in Submission |-> "absent"] /\ lost = {}

ServiceNext ==
  \/ \E s \in Submission : Submit(s)
  \/ \E w \in Worker : JobStep(w) \/ LeaseLost(w)
  \/ PoolStep /\ UNCHANGED jobs

ServiceSpec == ServiceInit /\ [][ServiceNext]_service

\* Threads and processes run, and no job fails for ever once it has a sandbox.
ServiceFairness ==
  /\ WF_service(ManagerStep /\ UNCHANGED jobs)
  /\ \A c \in Creator : WF_service(CreatorStep(c) /\ UNCHANGED jobs)
  /\ \A w \in Worker : WF_service(JobStep(w))
  /\ \A s \in Submission : SF_service(\E w \in Worker : hand[w] = s /\ JobJudged(w))

FairService == ServiceSpec /\ ServiceFairness
-----------------------------------------------------------------------------
(* Properties *)

\* Every variable of the jobs has its type.
JobTypeOK ==
  /\ job_list \in Seq(Submission) /\ hand \in [Worker -> Submission \cup {None}]
  /\ verdict \in [Submission -> {"absent", "PD", "final"}]
  /\ lost \subseteq Submission

Pending(s) == verdict[s] = "PD"

\* No pending job is starved out of the system, though nobody restarts a
\* manager that has ended and no container may ever come: it is in the list or
\* with a worker that waits for, or has, a container of the job's language.
StarvedJobsKept ==
  /\ \A s \in Submission : Pending(s) =>
       s \in Range(job_list) \/ s \in lost \/ \E w \in Worker : hand[w] = s
  /\ \A w \in Worker :
       IF hand[w] = None THEN wpc[w] = "idle"
       ELSE wpc[w] # "idle" /\ wants[w] = language[hand[w]]

\* As long as the manager's main thread lives, a job whose image is sound is
\* judged, behind jobs that can never get a container in the one list and with
\* creations of their image that fail for ever in the one task queue.
ServedWhileManaged ==
  \A s \in Submission : language[s] \notin BrokenImage =>
    (Pending(s) ~> (~ Pending(s) \/ s \in lost \/ manager \notin {"starting", "loop"}))
=============================================================================
