------------------------------- MODULE Judge -------------------------------
(***************************************************************************)
(* The judging service of ByteBattles: the API handler that commits a      *)
(* submission and enqueues its id, the job list and worker keys in Redis,  *)
(* the judge worker processes, and the orchestrator that spawns, watches,  *)
(* scales and stops them (src/judge/run.py, src/judge/judge_worker).       *)
(*                                                                         *)
(* One worker step is one call that other processes can observe.  Time is  *)
(* abstracted: a heartbeat key is "fresh" until the worker stalls for      *)
(* longer than JUDGE_WORKER_TIMEOUT, from then on it is "stale".           *)
(***************************************************************************)
EXTENDS Integers, Sequences, FiniteSets, Functions

CONSTANTS
  Submission,      \* primary keys of submissions
  Malformed,       \* submissions whose judging raises ValueError
  Broken,          \* submissions whose judging raises another exception
  FinalVerdict,    \* the verdicts other than PENDING
  None,            \* no submission: an unset key, an unbound variable
  MinWorkers,      \* MINIMUM_JUDGE_WORKER
  MaxWorkers,      \* MAXIMUM_JUDGE_WORKER
  JobsPerWorker,   \* the divisor in scale(), 5 in the code
  LastIdentifier,  \* bound: worker identifiers that may be used
  Faults           \* bound: how often each kind of fault happens

FaultKind == {"crash", "stall", "redis", "api", "commit", "delete", "interrupt"}
Identifier == 1..LastIdentifier
RowState == {"absent", "PD", "gone"}

ASSUME JudgeAssumption ==
  /\ Malformed \subseteq Submission /\ Broken \subseteq Submission
  /\ None \notin Submission
  /\ FinalVerdict \cap RowState = {}
  /\ FinalVerdict \cap {"pending", "abandoned", "deleted"} = {}
  /\ MinWorkers \in Nat \ {0} /\ MaxWorkers \in Nat /\ MinWorkers <= MaxWorkers
  /\ JobsPerWorker \in Nat \ {0} /\ LastIdentifier \in Nat
  /\ Faults \in [FaultKind -> Nat]

VARIABLES
  job_list,            \* Redis list: LPUSH appends here, BRPOP takes the head
  shutdown_key,        \* SHUTDOWN_KEY
  local_shutdown,      \* worker:<id>:shutdown
  heartbeat,           \* worker:<id>:heartbeat
  current_submission,  \* worker:<id>:submission
  verdict,             \* submissions.verdict, with "absent" and "gone" for no row
  unsent,              \* submissions committed by a handler that has not enqueued
  pc,                  \* where each worker process is
  submission_id,       \* the local variable of each worker
  lost,                \* history: ids dropped by the process that had them
  repeated,            \* history: ids an accident sends to the list once more
  opc,                 \* where the orchestrator is
  workers,             \* self.workers
  global_worker_id,    \* self.global_worker_id
  rest,                \* the part of self.workers check_heartbeat has left
  alive_workers,       \* local variable of check_heartbeat
  stuck,               \* current_submission_id in check_heartbeat
  focus,               \* the worker stop_worker popped
  todo,                \* iterations left in the loop of scale()
  stray,               \* history: the worker only a local variable knew when the loop ended
  manager,             \* the sandbox manager process
  budget               \* faults still allowed

redis == <<job_list, shutdown_key, local_shutdown, heartbeat, current_submission>>
rows == <<verdict, unsent>>
processes == <<pc, submission_id>>
sweep == <<rest, alive_workers, stuck>>
scaling == <<global_worker_id, focus, todo>>
orchestrator == <<opc, workers, sweep, scaling, stray>>
vars == <<redis, rows, processes, lost, repeated, orchestrator, manager, budget>>

-----------------------------------------------------------------------------
(* Where a worker can be *)

Holding == {"popped", "reading", "running", "failed"}
InTry == {"waiting", "popped", "reading", "running", "written"}
Living == Holding \cup InTry \cup {"loop", "exiting"}

Alive(w) == pc[w] \in Living
Holds(w, s) == pc[w] \in Holding /\ submission_id[w] = s
InHand(w) == IF pc[w] \in Holding THEN {submission_id[w]} ELSE {}
Queued(s) == s \in Range(job_list)
QueuedTwice(s) ==
  \E i, j \in DOMAIN job_list : i # j /\ job_list[i] = s /\ job_list[j] = s
Nowhere(s) == s \notin unsent /\ ~ Queued(s) /\ \A w \in Identifier : ~ Holds(w, s)

Spend(k) == budget[k] > 0 /\ budget' = [budget EXCEPT ![k] = @ - 1]

(* Redis lists: every producer pushes left, every consumer pops right *)
\* Mutant: pushes where BRPOP takes.
lpush_as_rpush(s) == job_list' = <<s>> \o job_list

lpush(s) == job_list' = Append(job_list, s)

\* The process ends with whatever submission it had in hand.
Kill(w) ==
  /\ pc' = [pc EXCEPT ![w] = "dead"]
  /\ lost' = lost \cup InHand(w)

Goto(w, where) == pc' = [pc EXCEPT ![w] = where]
-----------------------------------------------------------------------------
(* The API: create_submission, and the deletions that cascade to the row *)

Commit(s) ==
  /\ verdict[s] = "absent"
  /\ verdict' = [verdict EXCEPT ![s] = "PD"]
  /\ unsent' = unsent \cup {s}
  /\ UNCHANGED <<redis, processes, lost, repeated, orchestrator, manager, budget>>

Enqueue(s) ==
  /\ s \in unsent
  /\ unsent' = unsent \ {s}
  /\ lpush(s)
  /\ UNCHANGED <<shutdown_key, local_shutdown, heartbeat, current_submission,
                 verdict, processes, lost, repeated, orchestrator, manager, budget>>

\* The handler ends between the commit and the push, or the push raises.
EnqueueFails(s) ==
  /\ s \in unsent
  /\ Spend("api")
  /\ unsent' = unsent \ {s}
  /\ lost' = lost \cup {s}
  /\ UNCHANGED <<redis, verdict, processes, repeated, orchestrator, manager>>

DeleteRow(s) ==
  /\ verdict[s] \notin {"absent", "gone"}
  /\ Spend("delete")
  /\ verdict' = [verdict EXCEPT ![s] = "gone"]
  /\ UNCHANGED <<redis, unsent, processes, lost, repeated, orchestrator, manager>>
-----------------------------------------------------------------------------
(* A judge worker: _consume_from_list, one action per observable step *)

BetweenJobs == <<shutdown_key, local_shutdown, rows, orchestrator, manager>>

LoopAgain(w) ==
  /\ pc[w] = "loop"
  /\ shutdown_key # "1" /\ local_shutdown[w] # "1"
  /\ heartbeat' = [heartbeat EXCEPT ![w] = "fresh"]
  /\ Goto(w, "waiting")
  /\ UNCHANGED <<BetweenJobs, job_list, current_submission, submission_id, lost, repeated, budget>>

\* Mutant: looks at its own flag only.
LeaveLoop_local(w) ==
  /\ pc[w] = "loop"
  /\ local_shutdown[w] = "1"
  /\ Goto(w, "exiting")
  /\ UNCHANGED <<redis, rows, submission_id, lost, repeated, orchestrator, manager, budget>>

LeaveLoop(w) ==
  /\ pc[w] = "loop"
  /\ shutdown_key = "1" \/ local_shutdown[w] = "1"
  /\ Goto(w, "exiting")
  /\ UNCHANGED <<redis, rows, submission_id, lost, repeated, orchestrator, manager, budget>>

Pop(w) ==
  /\ pc[w] = "waiting"
  /\ job_list # <<>>
  /\ submission_id' = [submission_id EXCEPT ![w] = Head(job_list)]
  /\ job_list' = Tail(job_list)
  /\ Goto(w, "popped")
  /\ UNCHANGED <<BetweenJobs, heartbeat, current_submission, lost, repeated, budget>>

PopTimesOut(w) ==
  /\ pc[w] = "waiting"
  /\ job_list = <<>>
  /\ Goto(w, "loop")
  /\ UNCHANGED <<redis, rows, submission_id, lost, repeated, orchestrator, manager, budget>>

SetSubmission(w) ==
  /\ pc[w] = "popped"
  /\ current_submission' = [current_submission EXCEPT ![w] = submission_id[w]]
  /\ Goto(w, "reading")
  /\ UNCHANGED <<BetweenJobs, job_list, heartbeat, submission_id, lost, repeated, budget>>

\* Drops the submission of w, as the handler of ValueError does: it only logs.
Drop(w) ==
  /\ Goto(w, "loop")
  /\ lost' = lost \cup {submission_id[w]}
  /\ UNCHANGED <<redis, rows, submission_id, repeated, orchestrator, manager, budget>>

GetSubmission(w) ==
  /\ pc[w] = "reading"
  /\ verdict[submission_id[w]] # "gone"
  /\ Goto(w, "running")
  /\ UNCHANGED <<redis, rows, submission_id, lost, repeated, orchestrator, manager, budget>>

SubmissionNotFound(w) ==
  /\ pc[w] = "reading"
  /\ verdict[submission_id[w]] = "gone"
  /\ Drop(w)

\* Mutant: merges the row into the session, which inserts a deleted one again.
WriteVerdict_merges(w, v) ==
  /\ pc[w] = "running"
  /\ submission_id[w] \notin Malformed \cup Broken
  /\ verdict' = [verdict EXCEPT ![submission_id[w]] = v]

\* The testcases ran; the result is written unless the row has been deleted.
WriteVerdict(w, v) ==
  /\ pc[w] = "running"
  /\ submission_id[w] \notin Malformed \cup Broken
  /\ verdict' = [verdict EXCEPT ![submission_id[w]] = IF @ = "gone" THEN @ ELSE v]

\* Mutant: writes the result before the container is stopped, which may raise.
UpdateResult_unstopped(w, v) ==
  /\ WriteVerdict(w, v)
  /\ \E outcome \in {"written", "failed"} : Goto(w, outcome)
  /\ UNCHANGED <<redis, unsent, submission_id, lost, repeated, orchestrator, manager, budget>>

UpdateResult(w, v) ==
  /\ WriteVerdict(w, v)
  /\ Goto(w, "written")
  /\ UNCHANGED <<redis, unsent, submission_id, lost, repeated, orchestrator, manager, budget>>

\* The database commits the result, but the commit raises: its answer is lost.
UpdateUnanswered(w, v) ==
  /\ WriteVerdict(w, v)
  /\ Spend("commit")
  /\ Goto(w, "failed")
  /\ repeated' = repeated \cup {submission_id[w]}
  /\ UNCHANGED <<redis, unsent, submission_id, lost, orchestrator, manager>>

JudgingRejects(w) ==
  /\ pc[w] = "running"
  /\ submission_id[w] \in Malformed
  /\ Drop(w)

\* No warm sandbox in time, or Docker, MinIO or the database raised before the
\* result was committed.
JudgingFails(w) ==
  /\ pc[w] = "running"
  /\ Goto(w, "failed")
  /\ UNCHANGED <<redis, rows, submission_id, lost, repeated, orchestrator, manager, budget>>

\* Mutant: logs "Attempting Retry" and pushes nothing.
Retry_forgets(w) ==
  /\ pc[w] = "failed"
  /\ Goto(w, "loop")
  /\ UNCHANGED <<redis, rows, submission_id, lost, repeated, orchestrator, manager, budget>>

Retry(w) ==
  /\ pc[w] = "failed"
  /\ lpush(submission_id[w])
  /\ Goto(w, "loop")
  /\ UNCHANGED <<BetweenJobs, heartbeat, current_submission, submission_id, lost, repeated, budget>>

DeleteSubmission(w) ==
  /\ pc[w] = "written"
  /\ current_submission' = [current_submission EXCEPT ![w] = None]
  /\ Goto(w, "loop")
  /\ UNCHANGED <<BetweenJobs, job_list, heartbeat, submission_id, lost, repeated, budget>>

Exit(w) ==
  /\ pc[w] = "exiting"
  /\ local_shutdown' = [local_shutdown EXCEPT ![w] = "unset"]
  /\ heartbeat' = [heartbeat EXCEPT ![w] = "unset"]
  /\ Goto(w, "dead")
  /\ UNCHANGED <<job_list, shutdown_key, current_submission, rows, submission_id,
                 lost, repeated, orchestrator, manager, budget>>

WorkerStep(w) ==
  \/ LoopAgain(w) \/ LeaveLoop(w) \/ Pop(w) \/ PopTimesOut(w) \/ SetSubmission(w)
  \/ GetSubmission(w) \/ SubmissionNotFound(w)
  \/ \E v \in FinalVerdict : UpdateResult(w, v) \/ UpdateUnanswered(w, v)
  \/ JudgingRejects(w) \/ JudgingFails(w) \/ Retry(w)
  \/ DeleteSubmission(w) \/ Exit(w)
-----------------------------------------------------------------------------
(* What happens to a worker *)

\* The process is killed from outside (out of memory, a signal).
Crash(w) ==
  /\ Alive(w)
  /\ Spend("crash")
  /\ Kill(w)
  /\ UNCHANGED <<redis, rows, submission_id, repeated, orchestrator, manager>>

\* JUDGE_WORKER_TIMEOUT passes before w is at the top of its loop again.
Stall(w) ==
  /\ Alive(w) /\ heartbeat[w] = "fresh"
  /\ Spend("stall")
  /\ heartbeat' = [heartbeat EXCEPT ![w] = "stale"]
  /\ UNCHANGED <<job_list, shutdown_key, local_shutdown, current_submission, rows,
                 processes, lost, repeated, orchestrator, manager>>

\* What the handler of Exception pushes: whatever submission_id is bound to,
\* outside Holding the id of a job that is done.
Repeats(w) ==
  repeated' = IF pc[w] \in Holding THEN repeated ELSE repeated \cup {submission_id[w]}

\* A call to Redis raises.  Inside the try the handler retries, an unbound name
\* ends the process, as does an exception outside the try.
Raise(w) ==
  IF pc[w] \in InTry /\ submission_id[w] # None
    THEN Goto(w, "failed") /\ Repeats(w) /\ UNCHANGED lost
    ELSE Kill(w) /\ UNCHANGED repeated

RedisError(w) ==
  /\ pc[w] \in {"loop", "waiting", "popped", "written", "failed", "exiting"}
  /\ Spend("redis")
  /\ Raise(w)
  /\ UNCHANGED <<redis, rows, submission_id, orchestrator, manager>>

\* BRPOP removed an id but its reply did not arrive.
ReplyLost(w) ==
  /\ pc[w] = "waiting" /\ job_list # <<>>
  /\ Spend("redis")
  /\ job_list' = Tail(job_list)
  /\ lost' = lost \cup {Head(job_list)}
  /\ IF submission_id[w] = None
       THEN Goto(w, "dead") /\ UNCHANGED repeated
       ELSE Goto(w, "failed") /\ Repeats(w)
  /\ UNCHANGED <<shutdown_key, local_shutdown, heartbeat, current_submission, rows,
                 submission_id, orchestrator, manager>>
-----------------------------------------------------------------------------
(* The orchestrator: check_heartbeat *)

Advance(from, to) == opc = from /\ opc' = to

\* What no step of the orchestrator's own changes.
Elsewhere == <<rows, submission_id, stray, manager, budget>>

StartCheck ==
  /\ Advance("sleep", "sweep")
  /\ rest' = workers /\ alive_workers' = <<>>
  /\ UNCHANGED <<Elsewhere, redis, pc, lost, repeated, workers, stuck, scaling>>

\* p.join() on a worker that is dead, and on one without a heartbeat key,
\* which blocks until that worker ends.
Reap ==
  /\ Advance("sweep", "sweep")
  /\ rest # <<>> /\ ~ Alive(Head(rest))
  /\ rest' = Tail(rest)
  /\ UNCHANGED <<Elsewhere, redis, pc, lost, repeated, workers, alive_workers, stuck, scaling>>

FoundHealthy ==
  /\ Advance("sweep", "sweep")
  /\ rest # <<>> /\ Alive(Head(rest)) /\ heartbeat[Head(rest)] = "fresh"
  /\ alive_workers' = Append(alive_workers, Head(rest))
  /\ rest' = Tail(rest)
  /\ UNCHANGED <<Elsewhere, redis, pc, lost, repeated, workers, stuck, scaling>>

FoundFrozen ==
  /\ Advance("sweep", "stuck")
  /\ rest # <<>> /\ Alive(Head(rest)) /\ heartbeat[Head(rest)] = "stale"
  /\ UNCHANGED <<Elsewhere, redis, pc, lost, repeated, workers, sweep, scaling>>

ReadStuck ==
  /\ opc = "stuck"
  /\ stuck' = current_submission[Head(rest)]
  /\ opc' = IF stuck' = None THEN "clear" ELSE "requeue"
  /\ UNCHANGED <<Elsewhere, redis, pc, lost, repeated, workers, rest, alive_workers, scaling>>

\* Mutant: logs "Attempting retry" and pushes nothing.
RequeueStuck_forgets ==
  /\ Advance("requeue", "clear")
  /\ UNCHANGED <<Elsewhere, redis, pc, lost, repeated, workers, sweep, scaling>>

RequeueStuck ==
  /\ Advance("requeue", "clear")
  /\ lpush(stuck)
  /\ repeated' = repeated \cup {stuck}
  /\ UNCHANGED <<Elsewhere, shutdown_key, local_shutdown, heartbeat, current_submission,
                 pc, lost, workers, sweep, scaling>>

ClearKeys ==
  /\ Advance("clear", "terminate")
  /\ local_shutdown' = [local_shutdown EXCEPT ![Head(rest)] = "unset"]
  /\ heartbeat' = [heartbeat EXCEPT ![Head(rest)] = "unset"]
  /\ current_submission' = [current_submission EXCEPT ![Head(rest)] = None]
  /\ UNCHANGED <<Elsewhere, job_list, shutdown_key, pc, lost, repeated, workers, sweep, scaling>>

\* Mutant: drops the frozen worker without ending it.
TerminateFrozen_detaches ==
  /\ Advance("terminate", "sweep")
  /\ rest' = Tail(rest) /\ stuck' = None
  /\ UNCHANGED <<Elsewhere, redis, pc, lost, repeated, workers, alive_workers, scaling>>

\* Mutant: joins the frozen worker without ending it.
TerminateFrozen_waits ==
  /\ TerminateFrozen_detaches
  /\ ~ Alive(Head(rest))

TerminateFrozen ==
  /\ Advance("terminate", "sweep")
  /\ Kill(Head(rest))
  /\ rest' = Tail(rest) /\ stuck' = None
  /\ UNCHANGED <<Elsewhere, redis, repeated, workers, alive_workers, scaling>>

\* Mutant: keeps the workers it has just reaped.
EndCheck_keeps_dead ==
  /\ Advance("sweep", "scale")
  /\ rest = <<>>
  /\ alive_workers' = <<>>
  /\ UNCHANGED <<Elsewhere, redis, pc, lost, repeated, workers, rest, stuck, scaling>>

EndCheck ==
  /\ Advance("sweep", "scale")
  /\ rest = <<>>
  /\ workers' = alive_workers /\ alive_workers' = <<>>
  /\ UNCHANGED <<Elsewhere, redis, pc, lost, repeated, rest, stuck, scaling>>
-----------------------------------------------------------------------------
(* The orchestrator: scale, spawn_worker, stop_worker *)

AtLeast(m, n) == IF m > n THEN m ELSE n
AtMost(m, n) == IF m < n THEN m ELSE n

Desired ==
  AtMost(MaxWorkers, AtLeast(MinWorkers, (Len(job_list) \div JobsPerWorker) + 1))

Scale ==
  /\ opc = "scale"
  /\ LET current == Len(workers) IN
       \/ Desired > current /\ opc' = "spawn" /\ todo' = Desired - current
       \/ Desired < current /\ opc' = "stop" /\ todo' = current - Desired
       \/ Desired = current /\ opc' = "sleep" /\ todo' = 0
  /\ UNCHANGED <<Elsewhere, redis, pc, lost, repeated, workers, sweep, global_worker_id, focus>>

\* Mutant: one iteration too many.
NextOf_late(where) ==
  /\ todo' = todo - 1
  /\ opc' = IF todo = 0 THEN "sleep" ELSE where

\* One iteration of the loop in scale() is over.
NextOf(where) ==
  /\ todo' = todo - 1
  /\ opc' = IF todo = 1 THEN "sleep" ELSE where

StartProcess ==
  /\ Advance("spawn", "append")
  /\ global_worker_id <= LastIdentifier
  /\ Goto(global_worker_id, "loop")
  /\ global_worker_id' = global_worker_id + 1
  /\ UNCHANGED <<Elsewhere, redis, lost, repeated, workers, sweep, focus, todo>>

Newest == global_worker_id - 1

AppendWorker ==
  /\ Advance("append", "register")
  /\ workers' = Append(workers, Newest)
  /\ UNCHANGED <<Elsewhere, redis, pc, lost, repeated, sweep, scaling>>

\* Mutant: leaves the first heartbeat to the worker.
RegisterWorker_silent ==
  /\ opc = "register" /\ NextOf("spawn")
  /\ local_shutdown' = [local_shutdown EXCEPT ![Newest] = "0"]
  /\ UNCHANGED <<Elsewhere, job_list, shutdown_key, heartbeat, current_submission, pc,
                 lost, repeated, workers, sweep, global_worker_id, focus>>

RegisterWorker ==
  /\ opc = "register" /\ NextOf("spawn")
  /\ local_shutdown' = [local_shutdown EXCEPT ![Newest] = "0"]
  /\ heartbeat' = [heartbeat EXCEPT ![Newest] = "fresh"]
  /\ UNCHANGED <<Elsewhere, job_list, shutdown_key, current_submission, pc, lost, repeated,
                 workers, sweep, global_worker_id, focus>>

PopWorker ==
  /\ Advance("stop", "flag")
  /\ workers # <<>>
  /\ focus' = workers[Len(workers)]
  /\ workers' = SubSeq(workers, 1, Len(workers) - 1)
  /\ UNCHANGED <<Elsewhere, redis, pc, lost, repeated, sweep, global_worker_id, todo>>

FlagWorker ==
  /\ Advance("flag", "grace")
  /\ local_shutdown' = [local_shutdown EXCEPT ![focus] = "1"]
  /\ UNCHANGED <<Elsewhere, job_list, shutdown_key, heartbeat, current_submission, pc,
                 lost, repeated, workers, sweep, scaling>>

WorkerStopped ==
  /\ opc = "grace" /\ NextOf("stop")
  /\ ~ Alive(focus) /\ focus' = 0
  /\ UNCHANGED <<Elsewhere, redis, pc, lost, repeated, workers, sweep, global_worker_id>>

\* Mutant: gives up after the five seconds.
ForceKill_gives_up ==
  /\ opc = "grace" /\ NextOf("stop")
  /\ Alive(focus) /\ focus' = 0
  /\ UNCHANGED <<Elsewhere, redis, pc, lost, repeated, workers, sweep, global_worker_id>>

\* Mutant: requeues what the worker's key says, which a failed job leaves set.
ForceKill_requeues ==
  /\ opc = "grace" /\ NextOf("stop")
  /\ Alive(focus) /\ current_submission[focus] # None
  /\ Kill(focus) /\ focus' = 0
  /\ lpush(current_submission[focus])
  /\ UNCHANGED <<Elsewhere, shutdown_key, local_shutdown, heartbeat, current_submission,
                 repeated, workers, sweep, global_worker_id>>

\* The worker is still alive after the five seconds of p.join(timeout=5).
ForceKill ==
  /\ opc = "grace" /\ NextOf("stop")
  /\ Alive(focus)
  /\ Kill(focus) /\ focus' = 0
  /\ UNCHANGED <<Elsewhere, redis, repeated, workers, sweep, global_worker_id>>
-----------------------------------------------------------------------------
(* The orchestrator: the end of run(), shutdown *)

InLoop == {"sleep", "sweep", "stuck", "requeue", "clear", "terminate", "scale", "spawn",
           "append", "register", "stop", "flag", "grace"}
InShutdown == {"shutdown", "join"}

\* The worker that only a local variable of spawn_worker or stop_worker holds,
\* 0 if there is none.
InLocal ==
  IF opc = "append" THEN Newest ELSE IF opc \in {"flag", "grace"} THEN focus ELSE 0

\* An exception ends the loop, and run() calls shutdown(); one in shutdown()
\* itself leaves run().
Interrupted ==
  /\ opc' = IF opc \in InLoop THEN "shutdown" ELSE "failed"
  /\ stray' = IF opc \in InLoop THEN InLocal ELSE stray

\* Ctrl-C reaches every process of the group.  A worker leaves its loop from
\* inside the try and ends with a traceback from anywhere else.
KeyboardInterrupt ==
  /\ opc \in InLoop \cup InShutdown
  /\ Spend("interrupt")
  /\ Interrupted
  /\ pc' = [w \in Identifier |->
              IF pc[w] \in InTry THEN "exiting"
              ELSE IF Alive(w) THEN "dead" ELSE pc[w]]
  /\ lost' = lost \cup UNION {InHand(w) : w \in Identifier}
  /\ manager' = IF manager = "running" THEN "interrupted" ELSE manager
  /\ UNCHANGED <<redis, rows, submission_id, repeated, workers, sweep, scaling>>

\* A call raises in the orchestrator, before it took effect or, where the next
\* step is at hand already, after it did.  Nothing between start() and the
\* append can raise, nor can pop().
OrchestratorError ==
  /\ opc \in (InLoop \ {"append", "stop"}) \cup InShutdown
  /\ Spend("redis")
  /\ Interrupted
  /\ UNCHANGED <<redis, rows, processes, lost, repeated, workers, sweep, scaling, manager>>

Shutdown ==
  /\ Advance("shutdown", "join")
  /\ shutdown_key' = "1"
  /\ UNCHANGED <<Elsewhere, job_list, local_shutdown, heartbeat, current_submission, pc,
                 lost, repeated, workers, sweep, scaling>>

\* Mutant: waits for the manager only.
JoinAll_manager ==
  /\ Advance("join", "done")
  /\ manager = "stopped"
  /\ shutdown_key' = "unset"
  /\ UNCHANGED <<Elsewhere, job_list, local_shutdown, heartbeat, current_submission, pc,
                 lost, repeated, workers, sweep, scaling>>

JoinAll ==
  /\ Advance("join", "done")
  /\ \A w \in Range(workers) : ~ Alive(w)
  /\ manager = "stopped"
  /\ shutdown_key' = "unset"
  /\ UNCHANGED <<Elsewhere, job_list, local_shutdown, heartbeat, current_submission, pc,
                 lost, repeated, workers, sweep, scaling>>

\* The manager's loop ends on the shutdown key or on its own Ctrl-C.
ManagerStops ==
  /\ manager = "interrupted" \/ (manager = "running" /\ shutdown_key = "1")
  /\ manager' = "stopped"
  /\ UNCHANGED <<redis, rows, processes, lost, repeated, orchestrator, budget>>

OrchestratorStep ==
  \/ StartCheck \/ Reap \/ FoundHealthy \/ FoundFrozen \/ ReadStuck \/ RequeueStuck
  \/ ClearKeys \/ TerminateFrozen \/ EndCheck
  \/ Scale \/ StartProcess \/ AppendWorker \/ RegisterWorker
  \/ PopWorker \/ FlagWorker \/ WorkerStopped \/ ForceKill
  \/ Shutdown \/ JoinAll
-----------------------------------------------------------------------------
Init ==
  /\ job_list = <<>> /\ shutdown_key = "0"
  /\ local_shutdown = [w \in Identifier |-> "unset"]
  /\ heartbeat = [w \in Identifier |-> "unset"]
  /\ current_submission = [w \in Identifier |-> None]
  /\ verdict = [s \in Submission |-> "absent"] /\ unsent = {}
  /\ pc = [w \in Identifier |-> "unborn"]
  /\ submission_id = [w \in Identifier |-> None]
  /\ lost = {} /\ repeated = {}
  /\ opc = "sleep" /\ workers = <<>> /\ global_worker_id = 1
  /\ rest = <<>> /\ alive_workers = <<>> /\ stuck = None
  /\ focus = 0 /\ todo = 0 /\ stray = 0
  /\ manager = "running"
  /\ budget = Faults

ApiStep == \E s \in Submission : Commit(s) \/ Enqueue(s) \/ EnqueueFails(s) \/ DeleteRow(s)

Accident ==
  \/ \E w \in Identifier : Crash(w) \/ Stall(w) \/ RedisError(w) \/ ReplyLost(w)
  \/ KeyboardInterrupt \/ OrchestratorError

Next ==
  \/ ApiStep
  \/ \E w \in Identifier : WorkerStep(w)
  \/ Accident
  \/ OrchestratorStep \/ ManagerStops

Spec == Init /\ [][Next]_vars

Finishes(s) ==
  \E w \in Identifier, v \in FinalVerdict : submission_id[w] = s /\ UpdateResult(w, v)

\* Every process runs; a transient failure of judging does not repeat for ever.
\* Nothing is assumed of the accidents.
Fairness ==
  /\ WF_vars(OrchestratorStep) /\ WF_vars(ManagerStops)
  /\ \A w \in Identifier : WF_vars(WorkerStep(w))
  /\ \A s \in Submission : WF_vars(Enqueue(s)) /\ SF_vars(Finishes(s))

FairSpec == Spec /\ Fairness
-----------------------------------------------------------------------------
(* Properties *)

\* Every variable has its type.
TypeOK ==
  /\ job_list \in Seq(Submission) /\ shutdown_key \in {"unset", "0", "1"}
  /\ local_shutdown \in [Identifier -> {"unset", "0", "1"}]
  /\ heartbeat \in [Identifier -> {"unset", "fresh", "stale"}]
  /\ current_submission \in [Identifier -> Submission \cup {None}]
  /\ verdict \in [Submission -> RowState \cup FinalVerdict]
  /\ unsent \in SUBSET Submission
  /\ pc \in [Identifier -> Living \cup {"unborn", "dead"}]
  /\ submission_id \in [Identifier -> Submission \cup {None}]
  /\ lost \in SUBSET Submission /\ repeated \in SUBSET Submission
  /\ opc \in InLoop \cup InShutdown \cup {"done", "failed"}
  /\ workers \in Seq(Identifier) /\ rest \in Seq(Identifier)
  /\ alive_workers \in Seq(Identifier)
  /\ global_worker_id \in 1..(LastIdentifier + 1)
  /\ stuck \in Submission \cup {None}
  /\ focus \in Identifier \cup {0} /\ todo \in Nat /\ stray \in Identifier \cup {0}
  /\ manager \in {"running", "interrupted", "stopped"}
  /\ budget \in [FaultKind -> Nat]

Pending(s) == verdict[s] = "PD"

\* A pending submission is never out of everyone's sight: its handler has yet to
\* enqueue it, it is in the job list, a live worker has it in hand, or the
\* process that had it dropped it (a kill, a crash, the ValueError handler).
JobAccounted ==
  \A s \in Submission : Pending(s) =>
    \/ s \in unsent \/ Queued(s) \/ s \in lost
    \/ \E w \in Identifier : Holds(w, s)

\* When the orchestrator kills a frozen worker, the submission it read from the
\* worker's key does not die with that worker: it is judged, back in the list,
\* with another worker, or a process other than this one had dropped it.
StuckRequeued ==
  opc \in {"clear", "terminate"} /\ stuck # None /\ Pending(stuck) =>
    \/ Queued(stuck) \/ stuck \in lost
    \/ \E w \in Identifier \ {Head(rest)} : Holds(w, stuck)

\* Every live worker is one the orchestrator can still reach, through
\* self.workers or a local variable; an exception that strikes while one is in
\* a local variable only leaves that one behind, and there is never a second.
NoOrphanWorker ==
  \A w \in Identifier : Alive(w) => w \in Range(workers) \cup {InLocal, stray}

\* At no time do more than MAXIMUM_JUDGE_WORKER worker processes run, although
\* workers are replaced and stopped while others start.
WorkerLimit == Cardinality({w \in Identifier : Alive(w)}) <= MaxWorkers

\* check_heartbeat joins a worker without a heartbeat key for as long as it
\* lives: the worker it looks at is dead or has one, so the sweep cannot block.
SweepNeverBlocks ==
  opc = "sweep" /\ rest # <<>> /\ Alive(Head(rest)) => heartbeat[Head(rest)] # "unset"

\* An id is in one place only, and nowhere once it is judged or dropped, as long
\* as no accident has sent it to the list once more: whatever crash, forced kill
\* or retry it goes through, and whatever befalls the others.
AtMostOnce ==
  \A s \in Submission \ repeated :
    /\ ~ QueuedTwice(s)
    /\ Queued(s) \/ s \in unsent => \A w \in Identifier : ~ Holds(w, s)
    /\ Queued(s) => s \notin unsent
    /\ \A w, u \in Identifier : Holds(w, s) /\ Holds(u, s) => w = u
    /\ verdict[s] \in FinalVerdict \/ s \in lost => Nowhere(s)

\* Only such a submission ever gets a second verdict.
JudgedOnce ==
  [][\A s \in Submission \ repeated :
       verdict[s] \in FinalVerdict => verdict'[s] \in {verdict[s], "gone"}]_verdict

\* What a user sees of a submission.
Shown ==
  [s \in Submission |->
     IF verdict[s] = "absent" THEN "absent"
     ELSE IF verdict[s] = "gone" THEN "deleted"
     ELSE IF ~ Pending(s) THEN verdict[s]
     ELSE IF s \in lost THEN "abandoned" ELSE "pending"]

Promise == INSTANCE JobService WITH status <- Shown, again <- repeated

\* The processes, the list and the keys together do what JobService says: one
\* verdict or none, and a submission that a process has dropped stays pending
\* for good, unless an accident sends it to the list once more.
KeepsPromise == Promise!Spec

\* When run() returns, no worker is left but the one an exception caught in a
\* local variable.
CleanShutdown == opc = "done" => \A w \in Identifier : Alive(w) => w = stray

\* A submission that can be judged is judged, deleted or lost with a process,
\* however often judging it, or another submission, fails.
SoundIsJudged ==
  \A s \in Submission \ (Malformed \cup Broken) :
    Pending(s) ~> (~ Pending(s) \/ s \in lost)

\* The orchestrator's loop comes round again and again: no join blocks it.
OrchestratorLoops == []<>(opc = "sleep")

\* Whatever worker dies or freezes, the minimum is running again.
WorkersRestored == []<>(Cardinality({w \in Identifier : Alive(w)}) >= MinWorkers)

\* Once begun, shutdown() returns, for every worker sees the key and ends,
\* unless an error or another Ctrl-C strikes inside shutdown() itself.
ShutdownCompletes == (opc = "shutdown") ~> (opc \in {"done", "failed"})

\* How many accidents can still keep a submission from its verdict.
Accidents(b) == b["crash"] + b["stall"] + b["redis"] + b["interrupt"]


\* README:15, "retrying stuck or failed submissions": when a dead worker leaves
\* self.workers, the pending submission its key announces is back in the list.
DeadIsRetried ==
  \A w \in Identifier, s \in Submission :
    /\ pc[w] = "dead" /\ current_submission[w] = s /\ Pending(s)
    /\ w \notin Range(workers) /\ ~ (opc = "append" /\ w = Newest)
    => Queued(s) \/ \E u \in Identifier : Holds(u, s)
=============================================================================
