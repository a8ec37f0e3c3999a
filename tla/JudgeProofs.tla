---------------------------- MODULE JudgeProofs ----------------------------
(***************************************************************************)
(* Theorems about Judge, for every set of submissions, every number of     *)
(* workers and every budget of faults.                                     *)
(***************************************************************************)
EXTENDS Judge, SequenceTheorems, TLAPS

(* What the local variables of a process hold, given where it is *)

\* A worker writes a verdict, whether or not it hears that it did.
Writes(w, v) == UpdateResult(w, v) \/ UpdateUnanswered(w, v)

Bound == {"popped", "reading", "running", "written", "failed"}

WorkerLocals == \A w \in Identifier : pc[w] \in Bound => submission_id[w] \in Submission

OrchestratorLocals ==
  /\ opc \in {"stuck", "requeue", "clear", "terminate"} => rest # <<>>
  /\ opc = "requeue" => stuck # None
  /\ opc \in {"append", "register"} => Newest \in Identifier
  /\ opc \in {"flag", "grace"} => focus \in Identifier
  /\ opc \in {"spawn", "append", "register", "stop", "flag", "grace"} => todo > 0

TypeInv == TypeOK /\ WorkerLocals /\ OrchestratorLocals

LEMMA HeadTail ==
  ASSUME NEW S, NEW q \in Seq(S), q # <<>>
  PROVE  Head(q) \in S /\ Tail(q) \in Seq(S)
  BY HeadTailProperties

LEMMA DesiredIsNat == job_list \in Seq(Submission) => Desired \in Nat
<1> SUFFICES ASSUME job_list \in Seq(Submission)
             PROVE  Desired \in Nat
  OBVIOUS
<1>1. (Len(job_list) \div JobsPerWorker) + 1 \in Nat
  BY LenProperties, JudgeAssumption
<1> QED
  BY <1>1, JudgeAssumption DEF Desired, AtLeast, AtMost

LEMMA TypeInit == Init => TypeInv
<1>1. \A x \in {<<>>} : x \in Seq(Submission) /\ x \in Seq(Identifier)
  OBVIOUS
<1> QED
  BY <1>1, JudgeAssumption
  DEF Init, TypeInv, TypeOK, WorkerLocals, OrchestratorLocals, RowState, Living, Holding,
      InTry, InLoop, InShutdown, Bound, Identifier

LEMMA TypeApi == TypeInv /\ ApiStep => TypeInv'
<1> SUFFICES ASSUME TypeInv, NEW s \in Submission,
                    Commit(s) \/ Enqueue(s) \/ EnqueueFails(s) \/ DeleteRow(s)
             PROVE  TypeInv'
  BY DEF ApiStep
<1> USE DEF TypeInv, TypeOK, WorkerLocals, OrchestratorLocals, RowState, Newest,
            redis, rows, processes, sweep, scaling, orchestrator
<1>1. CASE Commit(s)
  BY <1>1 DEF Commit
<1>2. CASE Enqueue(s)
  BY <1>2 DEF Enqueue, lpush
<1>3. CASE EnqueueFails(s)
  BY <1>3 DEF EnqueueFails, Spend, FaultKind
<1>4. CASE DeleteRow(s)
  BY <1>4 DEF DeleteRow, Spend, FaultKind
<1> QED
  BY <1>1, <1>2, <1>3, <1>4

LEMMA TypeWorker == TypeInv /\ (\E w \in Identifier : WorkerStep(w)) => TypeInv'
<1> SUFFICES ASSUME TypeInv, NEW w \in Identifier, WorkerStep(w)
             PROVE  TypeInv'
  OBVIOUS
<1> USE DEF TypeInv, TypeOK, WorkerLocals, OrchestratorLocals, RowState, Newest, Bound,
            redis, rows, processes, sweep, scaling, orchestrator, Goto, Holding, InTry, Living
<1>1. CASE LoopAgain(w)
  BY <1>1 DEF LoopAgain, BetweenJobs
<1>2. CASE LeaveLoop(w)
  BY <1>2 DEF LeaveLoop
<1>3. CASE Pop(w)
  BY <1>3, HeadTail DEF Pop, BetweenJobs
<1>4. CASE PopTimesOut(w)
  BY <1>4 DEF PopTimesOut
<1>5. CASE SetSubmission(w)
  BY <1>5 DEF SetSubmission, BetweenJobs
<1>6. CASE GetSubmission(w)
  BY <1>6 DEF GetSubmission
<1>7. CASE SubmissionNotFound(w)
  BY <1>7 DEF SubmissionNotFound, Drop
<1>8. CASE \E v \in FinalVerdict : Writes(w, v)
  <2>1. PICK v \in FinalVerdict : Writes(w, v)
    BY <1>8
  <2>2. /\ WriteVerdict(w, v) /\ submission_id[w] \in Submission
        /\ UNCHANGED <<redis, unsent, submission_id, lost, orchestrator, manager>>
    BY <2>1 DEF Writes, UpdateResult, UpdateUnanswered, WriteVerdict
  <2>3. verdict' \in [Submission -> RowState \cup FinalVerdict]
    BY <2>2 DEF WriteVerdict
  <2>4. budget' \in [FaultKind -> Nat]
    BY <2>1 DEF Writes, UpdateResult, UpdateUnanswered, Spend, FaultKind
  <2>5. repeated' \in SUBSET Submission
    BY <2>1, <2>2 DEF Writes, UpdateResult, UpdateUnanswered
  <2>6. pc' \in [Identifier -> Living \cup {"unborn", "dead"}] /\ WorkerLocals'
    BY <2>1, <2>2 DEF Writes, UpdateResult, UpdateUnanswered
  <2> QED
    BY <2>2, <2>3, <2>4, <2>5, <2>6
<1>9. CASE JudgingRejects(w)
  BY <1>9 DEF JudgingRejects, Drop
<1>10. CASE JudgingFails(w)
  BY <1>10 DEF JudgingFails
<1>11. CASE Retry(w)
  BY <1>11 DEF Retry, BetweenJobs, lpush
<1>12. CASE DeleteSubmission(w)
  BY <1>12 DEF DeleteSubmission, BetweenJobs
<1>13. CASE Exit(w)
  BY <1>13 DEF Exit
<1> QED
  BY <1>1, <1>2, <1>3, <1>4, <1>5, <1>6, <1>7, <1>8, <1>9, <1>10, <1>11, <1>12, <1>13
     DEF WorkerStep, Writes

LEMMA KillType ==
  ASSUME TypeInv, NEW w \in Identifier, Kill(w)
  PROVE  /\ pc' \in [Identifier -> Living \cup {"unborn", "dead"}]
         /\ lost' \in SUBSET Submission
         /\ \A u \in Identifier : pc'[u] \in Bound => pc[u] \in Bound
BY DEF TypeInv, TypeOK, WorkerLocals, Kill, InHand, Holding, Bound, Living

LEMMA TypeMishap ==
  TypeInv /\ (\E w \in Identifier : Crash(w) \/ Stall(w) \/ RedisError(w) \/ ReplyLost(w))
    => TypeInv'
<1> SUFFICES ASSUME TypeInv, NEW w \in Identifier,
                    Crash(w) \/ Stall(w) \/ RedisError(w) \/ ReplyLost(w)
             PROVE  TypeInv'
  OBVIOUS
<1> USE DEF TypeInv, TypeOK, WorkerLocals, OrchestratorLocals, RowState, Newest, Bound,
            redis, rows, processes, sweep, scaling, orchestrator
<1>1. CASE Crash(w)
  BY <1>1, KillType DEF Crash, Spend, FaultKind
<1>2. CASE Stall(w)
  BY <1>2 DEF Stall, Spend, FaultKind
<1>3. CASE RedisError(w)
  <2>1. UNCHANGED <<redis, rows, submission_id, orchestrator, manager>>
        /\ budget' \in [FaultKind -> Nat]
    BY <1>3 DEF RedisError, Spend, FaultKind
  <2>2. CASE submission_id[w] # None /\ Goto(w, "failed") /\ Repeats(w) /\ UNCHANGED lost
    BY <2>1, <2>2 DEF Goto, Holding, Living, Repeats
  <2>3. CASE Kill(w) /\ UNCHANGED repeated
    BY <2>1, <2>3, KillType
  <2> QED
    BY <1>3, <2>2, <2>3 DEF RedisError, Raise
<1>4. CASE ReplyLost(w)
  <2>1. /\ job_list # <<>> /\ job_list' = Tail(job_list) /\ lost' = lost \cup {Head(job_list)}
        /\ UNCHANGED <<shutdown_key, local_shutdown, heartbeat, current_submission, rows,
                       submission_id, orchestrator, manager>>
    BY <1>4 DEF ReplyLost
  <2>2. job_list' \in Seq(Submission) /\ lost' \in SUBSET Submission
    BY <2>1, HeadTail
  <2>3. budget' \in [FaultKind -> Nat]
    BY <1>4 DEF ReplyLost, Spend, FaultKind
  <2>4. \/ submission_id[w] = None /\ Goto(w, "dead") /\ UNCHANGED repeated
        \/ submission_id[w] # None /\ Goto(w, "failed") /\ Repeats(w)
    BY <1>4 DEF ReplyLost
  <2>5. repeated' \in SUBSET Submission
    BY <2>4 DEF Repeats
  <2>6. /\ pc' \in [Identifier -> Living \cup {"unborn", "dead"}]
        /\ \A u \in Identifier : pc'[u] \in Bound => pc[u] \in Bound \/ submission_id[u] # None
    BY <2>4 DEF Goto, Living, Holding, InTry
  <2> QED
    BY <2>1, <2>2, <2>3, <2>5, <2>6
<1> QED
  BY <1>1, <1>2, <1>3, <1>4

LEMMA TypeCheck ==
  ASSUME TypeInv,
         StartCheck \/ Reap \/ FoundHealthy \/ FoundFrozen \/ ReadStuck
           \/ RequeueStuck \/ ClearKeys \/ TerminateFrozen \/ EndCheck
  PROVE  TypeInv'
<1> USE DEF TypeInv, TypeOK, WorkerLocals, OrchestratorLocals, RowState, Newest, Bound,
            redis, rows, processes, sweep, scaling, orchestrator,
            Elsewhere, Advance, InLoop, InShutdown
<1>1. CASE StartCheck
  BY <1>1 DEF StartCheck
<1>2. CASE Reap
  BY <1>2, HeadTail DEF Reap
<1>3. CASE FoundHealthy
  BY <1>3, HeadTail DEF FoundHealthy
<1>4. CASE FoundFrozen
  BY <1>4 DEF FoundFrozen
<1>5. CASE ReadStuck
  BY <1>5, HeadTail DEF ReadStuck
<1>6. CASE RequeueStuck
  BY <1>6 DEF RequeueStuck, lpush
<1>7. CASE ClearKeys
  BY <1>7, HeadTail DEF ClearKeys
<1>8. CASE TerminateFrozen
  BY <1>8, HeadTail, KillType DEF TerminateFrozen
<1>9. CASE EndCheck
  BY <1>9 DEF EndCheck
<1> QED
  BY <1>1, <1>2, <1>3, <1>4, <1>5, <1>6, <1>7, <1>8, <1>9

LEMMA TypeScale ==
  ASSUME TypeInv,
         Scale \/ StartProcess \/ AppendWorker \/ RegisterWorker \/ PopWorker \/ FlagWorker
           \/ WorkerStopped \/ ForceKill
  PROVE  TypeInv'
<1> USE DEF TypeInv, TypeOK, WorkerLocals, OrchestratorLocals, RowState, Newest, Bound,
            redis, rows, processes, sweep, scaling, orchestrator,
            Elsewhere, Advance, InLoop, InShutdown
<1>1. CASE Scale
  <2>1. Desired \in Nat /\ Len(workers) \in Nat
    BY DesiredIsNat, LenProperties
  <2> HIDE DEF Newest
  <2> QED
    BY <1>1, <2>1 DEF Scale
<1>2. CASE StartProcess
  <2>1. /\ global_worker_id \in Identifier
        /\ global_worker_id' \in 1..(LastIdentifier + 1)
        /\ Newest' \in Identifier
    BY <1>2, JudgeAssumption DEF StartProcess, Identifier
  <2> HIDE DEF Newest
  <2> QED
    BY <1>2, <2>1 DEF StartProcess, Goto, Living
<1>3. CASE AppendWorker
  BY <1>3 DEF AppendWorker
<1>4. CASE RegisterWorker
  BY <1>4 DEF RegisterWorker, NextOf
<1>5. CASE PopWorker
  BY <1>5 DEF PopWorker
<1>6. CASE FlagWorker
  BY <1>6 DEF FlagWorker
<1>7. CASE WorkerStopped
  BY <1>7 DEF WorkerStopped, NextOf
<1>8. CASE ForceKill
  BY <1>8, KillType DEF ForceKill, NextOf
<1> QED
  BY <1>1, <1>2, <1>3, <1>4, <1>5, <1>6, <1>7, <1>8

LEMMA InLocalType == TypeInv => InLocal \in Identifier \cup {0}
  BY DEF TypeInv, OrchestratorLocals, InLocal

LEMMA TypeEnd ==
  ASSUME TypeInv,
         KeyboardInterrupt \/ OrchestratorError \/ Shutdown \/ JoinAll \/ ManagerStops
  PROVE  TypeInv'
<1> USE DEF TypeInv, TypeOK, WorkerLocals, OrchestratorLocals, RowState, Newest, Bound,
            redis, rows, processes, sweep, scaling, orchestrator,
            Elsewhere, Advance, InLoop, InShutdown
<1>1. CASE KeyboardInterrupt
  BY <1>1, InLocalType
  DEF KeyboardInterrupt, Interrupted, InHand, Alive, Living, Holding, InTry, Spend, FaultKind
<1>2. CASE OrchestratorError
  BY <1>2, InLocalType DEF OrchestratorError, Interrupted, Spend, FaultKind
<1>3. CASE Shutdown
  BY <1>3 DEF Shutdown
<1>4. CASE JoinAll
  BY <1>4 DEF JoinAll
<1>5. CASE ManagerStops
  BY <1>5 DEF ManagerStops
<1> QED
  BY <1>1, <1>2, <1>3, <1>4, <1>5

LEMMA TypeStep == TypeInv /\ [Next]_vars => TypeInv'
<1> SUFFICES ASSUME TypeInv, [Next]_vars
             PROVE  TypeInv'
  OBVIOUS
<1>1. CASE UNCHANGED vars
  BY <1>1 DEF TypeInv, TypeOK, WorkerLocals, OrchestratorLocals, Newest, vars, redis, rows,
              processes, sweep, scaling, orchestrator
<1>2. CASE Accident
  BY <1>2, TypeMishap, TypeEnd DEF Accident
<1>3. CASE OrchestratorStep \/ ManagerStops
  BY <1>3, TypeCheck, TypeScale, TypeEnd DEF OrchestratorStep
<1> QED
  BY <1>1, <1>2, <1>3, TypeApi, TypeWorker DEF Next

\* Every variable keeps its type; in particular a retry never pushes an unset
\* key or an unbound name, and scale() never counts below zero.
THEOREM TypeCorrect == Spec => []TypeOK
<1>1. TypeInv => TypeOK
  BY DEF TypeInv
<1> QED
  BY <1>1, TypeInit, TypeStep, PTL DEF Spec

THEOREM TypeInvariant == Spec => []TypeInv
  BY TypeInit, TypeStep, PTL DEF Spec
-----------------------------------------------------------------------------
(* The elements of a list after a push and a pop *)

LEMMA RangeAppend ==
  ASSUME NEW S, NEW q \in Seq(S), NEW e \in S
  PROVE  Range(Append(q, e)) = Range(q) \cup {e}
<1>1. /\ Append(q, e) \in Seq(S) /\ Len(Append(q, e)) = Len(q) + 1 /\ Len(q) \in Nat
      /\ \A i \in 1..Len(q) : Append(q, e)[i] = q[i]
      /\ Append(q, e)[Len(q) + 1] = e
      /\ DOMAIN q = 1..Len(q) /\ DOMAIN Append(q, e) = 1..(Len(q) + 1)
  BY AppendProperties, LenProperties
<1>2. 1..(Len(q) + 1) = 1..Len(q) \cup {Len(q) + 1}
  BY <1>1
<1> QED
  BY <1>1, <1>2 DEF Range

LEMMA RangePop ==
  ASSUME NEW S, NEW q \in Seq(S), q # <<>>
  PROVE  Range(q) = {Head(q)} \cup Range(Tail(q))
<1>1. /\ Len(q) \in Nat /\ Len(q) > 0 /\ DOMAIN q = 1..Len(q) /\ Head(q) = q[1]
      /\ Tail(q) \in Seq(S) /\ Len(Tail(q)) = Len(q) - 1
      /\ \A i \in 1..Len(Tail(q)) : Tail(q)[i] = q[i + 1]
      /\ DOMAIN Tail(q) = 1..(Len(q) - 1)
  BY HeadTailProperties, LenProperties, EmptySeq
<1>2. \A i \in 2..Len(q) : q[i] = Tail(q)[i - 1] /\ i - 1 \in DOMAIN Tail(q)
  BY <1>1
<1>3. \A i \in DOMAIN Tail(q) : Tail(q)[i] = q[i + 1] /\ i + 1 \in DOMAIN q
  BY <1>1
<1>4. 1 \in DOMAIN q /\ DOMAIN q = {1} \cup 2..Len(q)
  BY <1>1
<1>5. ASSUME NEW x \in Range(q)
      PROVE  x \in {Head(q)} \cup Range(Tail(q))
  <2>1. PICK i \in DOMAIN q : x = q[i]
    BY DEF Range
  <2> QED
    BY <2>1, <1>1, <1>2, <1>4 DEF Range
<1>6. ASSUME NEW x \in {Head(q)} \cup Range(Tail(q))
      PROVE  x \in Range(q)
  BY <1>1, <1>3, <1>4 DEF Range
<1> QED
  BY <1>5, <1>6

LEMMA RangeFront ==
  ASSUME NEW S, NEW q \in Seq(S), q # <<>>
  PROVE  /\ q[Len(q)] \in S
         /\ Range(q) = Range(SubSeq(q, 1, Len(q) - 1)) \cup {q[Len(q)]}
<1>1. Len(q) \in Nat /\ Len(q) > 0 /\ DOMAIN q = 1..Len(q)
  BY LenProperties, EmptySeq
<1>2. SubSeq(q, 1, Len(q) - 1) = Restrict(q, 1..(Len(q) - 1))
  BY <1>1, SubSeqRestrict
<1>3. 1..Len(q) = 1..(Len(q) - 1) \cup {Len(q)} /\ q[Len(q)] \in S
  BY <1>1
<1>4. PICK n \in Nat : n = Len(q) /\ DOMAIN q = 1..n /\ 1..n = 1..(n - 1) \cup {n}
  BY <1>1, <1>3
<1>5. Range(Restrict(q, 1..(n - 1))) = {q[i] : i \in 1..(n - 1)}
  BY DEF Range, Restrict
<1>6. Range(q) = {q[i] : i \in 1..(n - 1)} \cup {q[n]}
  BY <1>4, Zenon DEF Range
<1> QED
  BY <1>2, <1>3, <1>4, <1>5, <1>6
-----------------------------------------------------------------------------
(* Identifiers are handed out in order *)

Tracked == Range(workers) \cup Range(rest) \cup Range(alive_workers)

Started ==
  /\ \A w \in Identifier : w >= global_worker_id => pc[w] = "unborn"
  /\ \A w \in Tracked : w < global_worker_id

LEMMA RangeEmpty == Range(<<>>) = {}
  BY DEF Range

LEMMA StartedInit == Init => Started
  BY RangeEmpty DEF Init, Started, Tracked

\* The steps that leave the lists of the orchestrator alone and start no process.
LEMMA StartedElsewhere ==
  ASSUME TypeInv, Started, UNCHANGED <<workers, rest, alive_workers, global_worker_id>>,
         \A w \in Identifier : pc[w] = "unborn" => pc'[w] = "unborn"
  PROVE  Started'
BY DEF Started, Tracked

LEMMA StartedTakesBack ==
  ASSUME TypeInv, Started, Tracked' \subseteq Tracked, UNCHANGED <<pc, global_worker_id>>
  PROVE  Started'
BY DEF Started

LEMMA StartedOthers ==
  ASSUME TypeInv, Started,
         ApiStep \/ ManagerStops \/ Accident \/ \E w \in Identifier : WorkerStep(w)
  PROVE  Started'
<1> USE DEF sweep, scaling, orchestrator, processes, TypeInv, TypeOK
<1>1. CASE ApiStep \/ ManagerStops
  BY <1>1, StartedElsewhere
  DEF ApiStep, Commit, Enqueue, EnqueueFails, DeleteRow, ManagerStops
<1>2. ASSUME NEW w \in Identifier, WorkerStep(w)
      PROVE  Started'
  <2>1. pc[w] # "unborn" /\ \E x : Goto(w, x)
    BY <1>2 DEF WorkerStep, LoopAgain, LeaveLoop, Pop, PopTimesOut, SetSubmission,
       GetSubmission, SubmissionNotFound, Writes, UpdateResult, UpdateUnanswered,
       WriteVerdict, JudgingRejects, JudgingFails, Retry,
       DeleteSubmission, Exit, Drop
  <2>2. UNCHANGED orchestrator
    BY <1>2 DEF WorkerStep, LoopAgain, LeaveLoop, Pop, PopTimesOut, SetSubmission,
       GetSubmission, SubmissionNotFound, Writes, UpdateResult, UpdateUnanswered,
       WriteVerdict, JudgingRejects, JudgingFails, Retry,
       DeleteSubmission, Exit, Drop, BetweenJobs
  <2> QED
    BY <2>1, <2>2, StartedElsewhere DEF Goto
<1>3. CASE Accident
  BY <1>3, StartedElsewhere
  DEF Accident, Crash, Stall, RedisError, ReplyLost, KeyboardInterrupt, OrchestratorError,
      Raise, Goto, Kill, Alive, Living, Holding, InTry
<1> QED
  BY <1>1, <1>2, <1>3

LEMMA StartedOrchestrator ==
  ASSUME TypeInv, Started, OrchestratorStep
  PROVE  Started'
<1> USE DEF Elsewhere, Advance, scaling
<1>1. CASE UNCHANGED <<pc, workers, rest, alive_workers, global_worker_id>>
  BY <1>1, StartedElsewhere
<1>2. CASE StartCheck
  BY <1>2, StartedTakesBack, RangeEmpty DEF StartCheck, Tracked
<1>3. CASE Reap \/ FoundHealthy
  <2>1. rest \in Seq(Identifier) /\ rest # <<>> /\ rest' = Tail(rest)
    BY <1>3 DEF Reap, FoundHealthy, TypeInv, TypeOK
  <2>2. Head(rest) \in Identifier /\ Range(rest) = {Head(rest)} \cup Range(rest')
    BY <2>1, RangePop, HeadTail
  <2>3. \/ alive_workers' = alive_workers
        \/ Range(alive_workers') = Range(alive_workers) \cup {Head(rest)}
    <3>1. alive_workers \in Seq(Identifier)
      BY DEF TypeInv, TypeOK
    <3>2. Range(Append(alive_workers, Head(rest))) = Range(alive_workers) \cup {Head(rest)}
      BY <3>1, <2>2, RangeAppend
    <3> QED
      BY <1>3, <3>2 DEF Reap, FoundHealthy
  <2> QED
    BY <1>3, <2>2, <2>3, StartedTakesBack DEF Reap, FoundHealthy, Tracked
<1>4. CASE TerminateFrozen
  <2>1. rest \in Seq(Identifier) /\ rest # <<>> /\ rest' = Tail(rest)
    BY <1>4 DEF TerminateFrozen, TypeInv, TypeOK, OrchestratorLocals
  <2>2. Head(rest) \in Identifier /\ Range(rest) = {Head(rest)} \cup Range(rest')
    BY <2>1, RangePop, HeadTail
  <2>3. Head(rest) < global_worker_id
    BY <2>2 DEF Started, Tracked
  <2>4. /\ pc' = [pc EXCEPT ![Head(rest)] = "dead"]
        /\ pc \in [Identifier -> Living \cup {"unborn", "dead"}]
    BY <1>4 DEF TerminateFrozen, Kill, TypeInv, TypeOK
  <2>5. Head(rest) \in Nat /\ global_worker_id \in Nat
    <3>1. LastIdentifier \in Nat /\ global_worker_id \in 1..(LastIdentifier + 1)
      BY JudgeAssumption DEF TypeInv, TypeOK
    <3> QED
      BY <2>2, <3>1 DEF Identifier
  <2>6. UNCHANGED <<workers, alive_workers, global_worker_id>>
    BY <1>4 DEF TerminateFrozen
  <2> QED
    BY <2>2, <2>3, <2>4, <2>5, <2>6 DEF Started, Tracked, Identifier
<1>5. CASE EndCheck
  BY <1>5, StartedTakesBack, RangeEmpty DEF EndCheck, Tracked
<1>6. CASE StartProcess
  <2>1. global_worker_id \in Nat /\ global_worker_id' = global_worker_id + 1
    BY <1>6, JudgeAssumption DEF StartProcess, TypeInv, TypeOK
  <2>2. Tracked \subseteq Identifier /\ UNCHANGED Tracked
    BY <1>6, LenProperties DEF StartProcess, Tracked, Range, TypeInv, TypeOK, sweep
  <2>3. \A w \in Identifier : w >= global_worker_id + 1 => pc'[w] = pc[w]
    BY <1>6, <2>1 DEF StartProcess, Goto, Identifier, TypeInv, TypeOK
  <2> QED
    BY <2>1, <2>2, <2>3 DEF Started, Identifier
<1>7. CASE AppendWorker
  <2>1. Newest \in Identifier /\ workers \in Seq(Identifier) /\ Newest < global_worker_id
    BY <1>7 DEF AppendWorker, Newest, TypeInv, TypeOK, OrchestratorLocals
  <2>2. Range(workers') = Range(workers) \cup {Newest}
    BY <1>7, <2>1, RangeAppend DEF AppendWorker
  <2> QED
    BY <1>7, <2>1, <2>2 DEF AppendWorker, Started, Tracked, sweep
<1>8. CASE PopWorker
  <2>1. Range(workers') \subseteq Range(workers)
    BY <1>8, RangeFront DEF PopWorker, TypeInv, TypeOK
  <2> QED
    BY <1>8, <2>1, StartedTakesBack DEF PopWorker, Tracked, sweep
<1>9. CASE ForceKill
  <2>1. focus \in Identifier /\ pc[focus] # "unborn"
    BY <1>9 DEF ForceKill, TypeInv, OrchestratorLocals, Alive, Living, Holding, InTry
  <2> QED
    BY <1>9, <2>1, StartedElsewhere DEF ForceKill, Kill, TypeInv, TypeOK, sweep
<1> QED
  BY <1>1, <1>2, <1>3, <1>4, <1>5, <1>6, <1>7, <1>8, <1>9
  DEF OrchestratorStep, FoundFrozen, ReadStuck, RequeueStuck, ClearKeys, Scale,
      RegisterWorker, FlagWorker, WorkerStopped, Shutdown, JoinAll, sweep

LEMMA StartedInvariant == Spec => []Started
<1>1. TypeInv /\ Started /\ [Next]_vars => Started'
  <2>1. TypeInv /\ Started /\ UNCHANGED vars => Started'
    BY DEF vars, orchestrator, processes, sweep, scaling, Started, Tracked
  <2> QED
    BY <2>1, StartedOthers, StartedOrchestrator DEF Next
<1> QED
  BY <1>1, StartedInit, TypeInvariant, PTL DEF Spec

-----------------------------------------------------------------------------
(* No submission drops out of sight: JobAccounted is inductive given types *)

LEMMA AccountedApi ==
  ASSUME TypeInv, JobAccounted, ApiStep
  PROVE  JobAccounted'
<1> SUFFICES ASSUME NEW t \in Submission,
                    Commit(t) \/ Enqueue(t) \/ EnqueueFails(t) \/ DeleteRow(t)
             PROVE  JobAccounted'
  BY DEF ApiStep
<1> USE DEF JobAccounted, Pending, Queued, Holds, TypeInv, TypeOK, redis, rows, processes
<1>1. CASE Commit(t)
  BY <1>1 DEF Commit
<1>2. CASE Enqueue(t)
  <2>1. Range(job_list') = Range(job_list) \cup {t}
    BY <1>2, RangeAppend DEF Enqueue, lpush
  <2> QED
    BY <1>2, <2>1 DEF Enqueue
<1>3. CASE EnqueueFails(t)
  BY <1>3 DEF EnqueueFails
<1>4. CASE DeleteRow(t)
  BY <1>4 DEF DeleteRow
<1> QED
  BY <1>1, <1>2, <1>3, <1>4

\* A worker moves and the submission it has in hand, if any, stays or is dropped.
LEMMA AccountedMove ==
  ASSUME TypeInv, JobAccounted, NEW w \in Identifier, NEW x, Goto(w, x),
         pc[w] \notin Holding \/ submission_id[w] \in lost',
         lost \subseteq lost', UNCHANGED <<rows, job_list, submission_id>>
  PROVE  JobAccounted'
<1> SUFFICES ASSUME NEW s \in Submission, Pending(s),
                    s \notin unsent, ~ Queued(s), s \notin lost'
             PROVE  \E u \in Identifier : Holds(u, s)'
  BY DEF JobAccounted, Pending, Queued, rows
<1>1. PICK u \in Identifier : Holds(u, s)
  BY DEF JobAccounted
<1>2. u # w
  BY <1>1 DEF Holds
<1> QED
  BY <1>1, <1>2 DEF Holds, Goto, TypeInv, TypeOK

LEMMA AccountedWorker ==
  ASSUME TypeInv, JobAccounted, NEW w \in Identifier, WorkerStep(w)
  PROVE  JobAccounted'
<1>1. CASE LoopAgain(w) \/ LeaveLoop(w) \/ PopTimesOut(w)
  <2>1. pc[w] \notin Holding /\ UNCHANGED <<rows, job_list, submission_id, lost>>
    BY <1>1 DEF LoopAgain, LeaveLoop, PopTimesOut, Holding, BetweenJobs, redis
  <2>2. PICK x : Goto(w, x)
    BY <1>1 DEF LoopAgain, LeaveLoop, PopTimesOut
  <2> QED
    BY <2>1, <2>2, AccountedMove
<1>2. CASE Pop(w)
  <2>0. job_list \in Seq(Submission) /\ job_list # <<>> /\ job_list' = Tail(job_list)
    BY <1>2 DEF Pop, TypeInv, TypeOK
  <2> DEFINE taken == submission_id'[w]
  <2>1. Range(job_list) = {taken} \cup Range(job_list')
    BY <1>2, <2>0, RangePop DEF Pop, TypeInv, TypeOK
  <2>2. pc'[w] \in Holding
    BY <1>2, <2>0 DEF Pop, Holds, Holding, Goto, TypeInv, TypeOK
  <2>3. \A u \in Identifier, s \in Submission : Holds(u, s) => Holds(u, s)'
    BY <1>2 DEF Pop, Holds, Holding, Goto, TypeInv, TypeOK
  <2>4. UNCHANGED <<rows, lost>>
    BY <1>2 DEF Pop, BetweenJobs
  <2> QED
    BY <2>1, <2>2, <2>3, <2>4 DEF JobAccounted, Pending, Queued, Holds, rows
<1>3. CASE SetSubmission(w) \/ GetSubmission(w)
  <2>1. UNCHANGED <<rows, job_list, lost>>
    BY <1>3 DEF SetSubmission, GetSubmission, BetweenJobs, redis
  <2>2. \A u \in Identifier, s \in Submission : Holds(u, s) => Holds(u, s)'
    BY <1>3 DEF SetSubmission, GetSubmission, Holds, Holding, Goto, TypeInv, TypeOK
  <2> QED
    BY <2>1, <2>2 DEF JobAccounted, Pending, Queued, rows
<1>4. CASE SubmissionNotFound(w) \/ JudgingRejects(w)
  <2>1. submission_id[w] \in lost' /\ lost \subseteq lost'
    BY <1>4 DEF SubmissionNotFound, JudgingRejects, Drop
  <2>2. UNCHANGED <<rows, job_list, submission_id>> /\ Goto(w, "loop")
    BY <1>4 DEF SubmissionNotFound, JudgingRejects, Drop, redis
  <2> QED
    BY <2>1, <2>2, AccountedMove
<1>5. CASE \E v \in FinalVerdict : Writes(w, v)
  <2>1. PICK v \in FinalVerdict : Writes(w, v)
    BY <1>5
  <2>2. submission_id[w] \in Submission /\ v # "PD"
    BY <2>1, JudgeAssumption
    DEF Writes, UpdateResult, UpdateUnanswered, WriteVerdict, TypeInv, WorkerLocals, Bound, RowState
  <2>3. verdict'[submission_id[w]] # "PD"
    BY <2>1, <2>2 DEF Writes, UpdateResult, UpdateUnanswered, WriteVerdict, Pending, TypeInv, TypeOK
  <2>4. \A s \in Submission : s # submission_id[w] /\ Pending(s)' => Pending(s)
    BY <2>1 DEF Writes, UpdateResult, UpdateUnanswered, WriteVerdict, Pending, TypeInv, TypeOK
  <2>5. \A u \in Identifier, s \in Submission :
          Holds(u, s) /\ s # submission_id[w] => Holds(u, s)'
    BY <2>1 DEF Writes, UpdateResult, UpdateUnanswered, WriteVerdict, Holds, Goto, TypeInv, TypeOK
  <2>6. UNCHANGED <<job_list, unsent, lost>>
    BY <2>1 DEF Writes, UpdateResult, UpdateUnanswered, redis
  <2> QED
    BY <2>3, <2>4, <2>5, <2>6 DEF JobAccounted, Queued, Pending
<1>6. CASE JudgingFails(w)
  <2>1. UNCHANGED <<rows, job_list, lost>>
    BY <1>6 DEF JudgingFails, redis
  <2>2. \A u \in Identifier, s \in Submission : Holds(u, s) => Holds(u, s)'
    BY <1>6 DEF JudgingFails, Holds, Holding, Goto, TypeInv, TypeOK
  <2> QED
    BY <2>1, <2>2 DEF JobAccounted, Pending, Queued, rows
<1>7. CASE Retry(w)
  <2>1. Range(job_list') = Range(job_list) \cup {submission_id[w]}
    BY <1>7, RangeAppend DEF Retry, lpush, TypeInv, TypeOK, WorkerLocals, Bound
  <2>2. \A u \in Identifier, s \in Submission :
          Holds(u, s) /\ s # submission_id[w] => Holds(u, s)'
    BY <1>7 DEF Retry, Holds, Goto, TypeInv, TypeOK
  <2>3. UNCHANGED <<rows, lost>>
    BY <1>7 DEF Retry, BetweenJobs
  <2> QED
    BY <2>1, <2>2, <2>3 DEF JobAccounted, Pending, Queued, rows
<1>8. CASE DeleteSubmission(w) \/ Exit(w)
  <2>1. pc[w] \notin Holding /\ UNCHANGED <<rows, job_list, submission_id, lost>>
    BY <1>8 DEF DeleteSubmission, Exit, Holding, BetweenJobs
  <2>2. PICK x : Goto(w, x)
    BY <1>8 DEF DeleteSubmission, Exit
  <2> QED
    BY <2>1, <2>2, AccountedMove
<1> QED
  BY <1>1, <1>2, <1>3, <1>4, <1>5, <1>6, <1>7, <1>8 DEF WorkerStep, Writes

\* A process that ends moves what it had in hand to lost.
LEMMA AccountedKill ==
  ASSUME TypeInv, JobAccounted, NEW w \in Identifier, Kill(w),
         UNCHANGED <<rows, job_list, submission_id>>
  PROVE  JobAccounted'
BY DEF JobAccounted, Pending, Queued, Holds, Holding, Kill, InHand, TypeInv, TypeOK, rows

LEMMA AccountedAccident ==
  ASSUME TypeInv, JobAccounted, Accident
  PROVE  JobAccounted'
<1> USE DEF redis, processes
<1>1. CASE \E w \in Identifier : Crash(w)
  BY <1>1, AccountedKill DEF Crash
<1>2. CASE \E w \in Identifier : Stall(w)
  BY <1>2 DEF Stall, JobAccounted, Pending, Queued, Holds, rows
<1>3. CASE \E w \in Identifier : RedisError(w)
  <2>1. PICK w \in Identifier : RedisError(w)
    BY <1>3
  <2>2. CASE Kill(w)
    BY <2>1, <2>2, AccountedKill DEF RedisError
  <2>3. CASE Goto(w, "failed") /\ UNCHANGED lost
    BY <2>1, <2>3 DEF RedisError, Goto, JobAccounted, Pending, Queued, Holds, Holding,
       TypeInv, TypeOK, rows
  <2> QED
    BY <2>1, <2>2, <2>3 DEF RedisError, Raise
<1>4. CASE \E w \in Identifier : ReplyLost(w)
  <2>1. PICK w \in Identifier : ReplyLost(w)
    BY <1>4
  <2>2. Range(job_list) = {Head(job_list)} \cup Range(job_list')
    BY <2>1, RangePop DEF ReplyLost, TypeInv, TypeOK
  <2> QED
    BY <2>1, <2>2 DEF ReplyLost, Goto, JobAccounted, Pending, Queued, Holds, Holding,
       TypeInv, TypeOK, rows
<1>5. CASE KeyboardInterrupt
  BY <1>5 DEF KeyboardInterrupt, JobAccounted, Pending, Queued, Holds, Holding, InHand, rows
<1>6. CASE OrchestratorError
  BY <1>6 DEF OrchestratorError, JobAccounted, Pending, Queued, Holds, rows
<1> QED
  BY <1>1, <1>2, <1>3, <1>4, <1>5, <1>6 DEF Accident

LEMMA AccountedOrchestrator ==
  ASSUME TypeInv, Started, JobAccounted, OrchestratorStep \/ ManagerStops
  PROVE  JobAccounted'
<1> USE DEF Elsewhere, redis, processes
<1>1. CASE UNCHANGED <<rows, job_list, pc, submission_id, lost>>
  BY <1>1 DEF JobAccounted, Pending, Queued, Holds, rows
<1>2. CASE RequeueStuck
  <2>1. stuck \in Submission /\ job_list \in Seq(Submission)
    BY <1>2 DEF RequeueStuck, Advance, TypeInv, TypeOK, OrchestratorLocals
  <2>2. Range(job_list') = Range(job_list) \cup {stuck}
    BY <1>2, <2>1, RangeAppend DEF RequeueStuck, lpush
  <2> QED
    BY <1>2, <2>2 DEF RequeueStuck, JobAccounted, Pending, Queued, Holds, rows
<1>3. CASE TerminateFrozen
  <2>1. Head(rest) \in Identifier
    BY <1>3, HeadTail DEF TerminateFrozen, Advance, TypeInv, TypeOK, OrchestratorLocals
  <2> QED
    BY <1>3, <2>1, AccountedKill DEF TerminateFrozen
<1>4. CASE ForceKill
  <2>1. focus \in Identifier
    BY <1>4 DEF ForceKill, TypeInv, OrchestratorLocals
  <2> QED
    BY <1>4, <2>1, AccountedKill DEF ForceKill
<1>5. CASE StartProcess
  <2>1. global_worker_id \in Identifier /\ pc[global_worker_id] \notin Holding
    BY <1>5, JudgeAssumption
    DEF StartProcess, TypeInv, TypeOK, Started, Identifier, Holding
  <2> QED
    BY <1>5, <2>1, AccountedMove DEF StartProcess
<1> QED
  BY <1>1, <1>2, <1>3, <1>4, <1>5
  DEF OrchestratorStep, StartCheck, Reap, FoundHealthy, FoundFrozen, ReadStuck, ClearKeys,
      EndCheck, Scale, AppendWorker, RegisterWorker, PopWorker, FlagWorker, WorkerStopped,
      Shutdown, JoinAll, ManagerStops

\* Whatever crashes, stalls, fails or is stopped, a pending submission is known
\* to its handler, queued or in a live worker's hands, or one of the places
\* where the code lets go of an id has let go of it.
THEOREM JobsAccounted == Spec => []JobAccounted
<1>1. Init => JobAccounted
  BY DEF Init, JobAccounted, Pending
<1>2. TypeInv /\ Started /\ JobAccounted /\ [Next]_vars => JobAccounted'
  <2> SUFFICES ASSUME TypeInv, Started, JobAccounted, [Next]_vars
               PROVE  JobAccounted'
    OBVIOUS
  <2>1. CASE UNCHANGED vars
    BY <2>1 DEF vars, redis, rows, processes, JobAccounted, Pending, Queued, Holds
  <2> QED
    BY <2>1, AccountedApi, AccountedWorker, AccountedAccident, AccountedOrchestrator DEF Next
<1> QED
  BY <1>1, <1>2, TypeInvariant, StartedInvariant, PTL DEF Spec
-----------------------------------------------------------------------------
(* An id that any process, key or list mentions has been sent *)

Mentions(s) ==
  \/ Queued(s) \/ stuck = s \/ s \in lost \cup repeated
  \/ \E w \in Identifier : submission_id[w] = s \/ current_submission[w] = s

Sent ==
  \A s \in Submission : s \in unsent \/ Mentions(s) =>
    verdict[s] # "absent" /\ (Mentions(s) => s \notin unsent)

\* Steps that move ids between the places that mention them already.
LEMMA SentElsewhere ==
  ASSUME Sent, unsent' \subseteq unsent,
         \A s \in Submission : verdict'[s] = "absent" => verdict[s] = "absent",
         \A s \in Submission : Mentions(s)' => Mentions(s)
  PROVE  Sent'
BY DEF Sent

LEMMA SentApi ==
  ASSUME TypeInv, Sent, ApiStep
  PROVE  Sent'
<1> SUFFICES ASSUME NEW t \in Submission,
                    Commit(t) \/ Enqueue(t) \/ EnqueueFails(t) \/ DeleteRow(t)
             PROVE  Sent'
  BY DEF ApiStep
<1> USE DEF redis, processes, orchestrator, sweep, TypeInv, TypeOK
<1>1. CASE Commit(t)
  <2>1. \A s \in Submission : Mentions(s)' <=> Mentions(s)
    BY <1>1 DEF Commit, Mentions, Queued
  <2> QED
    BY <1>1, <2>1 DEF Commit, Sent
<1>2. CASE Enqueue(t) \/ EnqueueFails(t)
  <2>1. CASE Enqueue(t)
    <3>1. Range(job_list') = Range(job_list) \cup {t}
      BY <2>1, RangeAppend DEF Enqueue, lpush
    <3> QED
      BY <2>1, <3>1 DEF Enqueue, Mentions, Queued, Sent
  <2>2. CASE EnqueueFails(t)
    BY <2>2 DEF EnqueueFails, Mentions, Queued, Sent
  <2> QED
    BY <1>2, <2>1, <2>2
<1>3. CASE DeleteRow(t)
  <2>1. \A s \in Submission : Mentions(s)' => Mentions(s)
    BY <1>3 DEF DeleteRow, Mentions, Queued
  <2> QED
    BY <1>3, <2>1, SentElsewhere DEF DeleteRow
<1> QED
  BY <1>1, <1>2, <1>3

LEMMA SentWorker ==
  ASSUME TypeInv, Sent, NEW w \in Identifier, WorkerStep(w)
  PROVE  Sent'
<1> USE DEF redis, rows, orchestrator, sweep, TypeInv, TypeOK
<1>1. CASE Pop(w)
  <2>1. job_list \in Seq(Submission) /\ job_list # <<>> /\ job_list' = Tail(job_list)
    BY <1>1 DEF Pop
  <2>2. Range(job_list) = {Head(job_list)} \cup Range(job_list')
    BY <2>1, RangePop
  <2>3. \A s \in Submission : Mentions(s)' => Mentions(s)
    BY <1>1, <2>2 DEF Pop, Mentions, Queued, BetweenJobs
  <2> QED
    BY <1>1, <2>3, SentElsewhere DEF Pop, BetweenJobs
<1>2. CASE Retry(w)
  <2>1. Range(job_list') = Range(job_list) \cup {submission_id[w]}
    BY <1>2, RangeAppend DEF Retry, lpush, WorkerLocals, Bound
  <2>2. \A s \in Submission : Mentions(s)' => Mentions(s)
    BY <1>2, <2>1 DEF Retry, Mentions, Queued, BetweenJobs
  <2> QED
    BY <1>2, <2>2, SentElsewhere DEF Retry, BetweenJobs
<1>3. CASE SetSubmission(w) \/ DeleteSubmission(w)
  <2>1. \A s \in Submission : Mentions(s)' => Mentions(s)
    BY <1>3, JudgeAssumption DEF SetSubmission, DeleteSubmission, Mentions, Queued, BetweenJobs
  <2> QED
    BY <1>3, <2>1, SentElsewhere DEF SetSubmission, DeleteSubmission, BetweenJobs
<1>4. CASE \E v \in FinalVerdict : Writes(w, v)
  <2>1. PICK v \in FinalVerdict : Writes(w, v)
    BY <1>4
  <2>2. /\ WriteVerdict(w, v) /\ repeated' \subseteq repeated \cup {submission_id[w]}
        /\ UNCHANGED <<redis, unsent, submission_id, lost, orchestrator>>
    BY <2>1 DEF Writes, UpdateResult, UpdateUnanswered
  <2>3. \A s \in Submission : Mentions(s)' => Mentions(s)
    BY <2>2 DEF Mentions, Queued
  <2>4. \A s \in Submission : verdict'[s] = "absent" => verdict[s] = "absent"
    BY <2>2, JudgeAssumption DEF WriteVerdict, RowState
  <2> QED
    BY <2>2, <2>3, <2>4, SentElsewhere
<1>5. CASE \/ LoopAgain(w) \/ LeaveLoop(w) \/ PopTimesOut(w) \/ GetSubmission(w)
           \/ SubmissionNotFound(w) \/ JudgingRejects(w) \/ JudgingFails(w) \/ Exit(w)
  <2>1. /\ UNCHANGED <<job_list, current_submission, submission_id, stuck, rows, repeated>>
        /\ lost' \subseteq lost \cup {submission_id[w]}
    BY <1>5 DEF LoopAgain, LeaveLoop, PopTimesOut, GetSubmission, SubmissionNotFound,
       JudgingRejects, JudgingFails, Exit, Drop, BetweenJobs
  <2> QED
    BY <2>1, SentElsewhere DEF Mentions, Queued
<1> QED
  BY <1>1, <1>2, <1>3, <1>4, <1>5 DEF WorkerStep, Writes

LEMMA SentAccident ==
  ASSUME TypeInv, Sent, Accident
  PROVE  Sent'
<1> USE DEF redis, rows, processes, orchestrator, sweep, TypeInv, TypeOK
<1>1. CASE \E w \in Identifier : ReplyLost(w)
  <2>1. PICK w \in Identifier : ReplyLost(w)
    BY <1>1
  <2>2. Range(job_list) = {Head(job_list)} \cup Range(job_list')
    BY <2>1, RangePop DEF ReplyLost
  <2>3. /\ lost' = lost \cup {Head(job_list)}
        /\ repeated' \subseteq repeated \cup {submission_id[w]}
        /\ UNCHANGED <<current_submission, submission_id, stuck, rows>>
    BY <2>1 DEF ReplyLost, Repeats
  <2>4. \A s \in Submission : Mentions(s)' => Mentions(s)
    BY <2>2, <2>3 DEF Mentions, Queued
  <2> QED
    BY <2>3, <2>4, SentElsewhere
<1>2. CASE \/ \E w \in Identifier : Crash(w) \/ Stall(w) \/ RedisError(w)
           \/ KeyboardInterrupt \/ OrchestratorError
  <2>1. UNCHANGED <<job_list, current_submission, submission_id, stuck, rows>>
    BY <1>2 DEF Crash, Stall, RedisError, KeyboardInterrupt, OrchestratorError
  <2>2. \A s \in lost' \cup repeated' :
          s \in lost \cup repeated \/ \E u \in Identifier : submission_id[u] = s
    BY <1>2 DEF Crash, Stall, RedisError, KeyboardInterrupt, OrchestratorError, Raise, Repeats,
       Kill, InHand
  <2> QED
    BY <2>1, <2>2, SentElsewhere DEF Mentions, Queued
<1> QED
  BY <1>1, <1>2 DEF Accident

LEMMA SentOrchestrator ==
  ASSUME TypeInv, Sent, OrchestratorStep \/ ManagerStops
  PROVE  Sent'
<1> USE DEF redis, rows, processes, orchestrator, sweep, Elsewhere, Advance
<1>1. CASE UNCHANGED <<job_list, current_submission, submission_id, stuck, rows, lost, repeated>>
  BY <1>1, SentElsewhere DEF Mentions, Queued
<1>2. CASE ReadStuck
  <2>1. Head(rest) \in Identifier
    BY <1>2, HeadTail DEF ReadStuck, TypeInv, TypeOK, OrchestratorLocals
  <2>2. \A s \in Submission : Mentions(s)' => Mentions(s)
    BY <1>2, <2>1 DEF ReadStuck, Mentions, Queued
  <2> QED
    BY <1>2, <2>2, SentElsewhere DEF ReadStuck
<1>3. CASE RequeueStuck
  <2>1. stuck \in Submission /\ job_list \in Seq(Submission)
    BY <1>3 DEF RequeueStuck, TypeInv, TypeOK, OrchestratorLocals
  <2>2. Range(job_list') = Range(job_list) \cup {stuck}
    BY <1>3, <2>1, RangeAppend DEF RequeueStuck, lpush
  <2>3. \A s \in Submission : Mentions(s)' => Mentions(s)
    BY <1>3, <2>2 DEF RequeueStuck, Mentions, Queued
  <2> QED
    BY <1>3, <2>3, SentElsewhere DEF RequeueStuck
<1>4. CASE ClearKeys
  <2>1. \A s \in Submission : Mentions(s)' => Mentions(s)
    BY <1>4, JudgeAssumption DEF ClearKeys, Mentions, Queued, TypeInv, TypeOK
  <2> QED
    BY <1>4, <2>1, SentElsewhere DEF ClearKeys
<1>5. CASE TerminateFrozen \/ ForceKill
  <2>1. PICK w \in Identifier : Kill(w)
    BY <1>5, HeadTail DEF TerminateFrozen, ForceKill, TypeInv, TypeOK, OrchestratorLocals
  <2>2. \A s \in lost' : s \in lost \/ submission_id[w] = s
    BY <2>1 DEF Kill, InHand
  <2>3. \A s \in Submission : Mentions(s)' => Mentions(s)
    BY <1>5, <2>2, JudgeAssumption DEF TerminateFrozen, ForceKill, Mentions, Queued
  <2> QED
    BY <1>5, <2>3, SentElsewhere DEF TerminateFrozen, ForceKill
<1> QED
  BY <1>1, <1>2, <1>3, <1>4, <1>5
  DEF OrchestratorStep, StartCheck, Reap, FoundHealthy, FoundFrozen, EndCheck, Scale,
      StartProcess, AppendWorker, RegisterWorker, PopWorker, FlagWorker, WorkerStopped,
      Shutdown, JoinAll, ManagerStops

LEMMA SentInvariant == Spec => []Sent
<1>1. Init => Sent
  BY RangeEmpty, JudgeAssumption DEF Init, Sent, Mentions, Queued
<1>2. TypeInv /\ Sent /\ [Next]_vars => Sent'
  <2> SUFFICES ASSUME TypeInv, Sent, [Next]_vars
               PROVE  Sent'
    OBVIOUS
  <2>1. CASE UNCHANGED vars
    BY <2>1, SentElsewhere
    DEF vars, redis, rows, processes, orchestrator, sweep, Mentions, Queued
  <2> QED
    BY <2>1, SentApi, SentWorker, SentAccident, SentOrchestrator DEF Next
<1> QED
  BY <1>1, <1>2, TypeInvariant, PTL DEF Spec
-----------------------------------------------------------------------------
(* Copies of an id in the list after a push and after a pop *)

LEMMA PushKeeps ==
  ASSUME TypeInv, NEW e \in Submission, job_list' = Append(job_list, e), NEW s
  PROVE  /\ QueuedTwice(s) => QueuedTwice(s)'
         /\ Queued(s) => Queued(s)'
         /\ s = e => Queued(s)'
         /\ Queued(s) /\ s = e => QueuedTwice(s)'
<1>1. job_list \in Seq(Submission)
  BY DEF TypeInv, TypeOK
<1>2. PICK n \in Nat :
        /\ DOMAIN job_list = 1..n /\ DOMAIN job_list' = 1..(n + 1)
        /\ job_list'[n + 1] = e /\ \A i \in 1..n : job_list'[i] = job_list[i]
  BY <1>1, AppendProperties, LenProperties
<1>3. \A i \in 1..n : i \in 1..(n + 1) /\ i # n + 1
  BY <1>2
<1>4. n + 1 \in 1..(n + 1)
  BY <1>2
<1> HIDE DEF Queued
<1>5. QueuedTwice(s) => QueuedTwice(s)'
  BY <1>2, <1>3 DEF QueuedTwice
<1>6. (Queued(s) => Queued(s)') /\ (s = e => Queued(s)')
  BY <1>2, <1>3, <1>4 DEF Queued, Range
<1>7. ASSUME Queued(s), s = e
      PROVE  QueuedTwice(s)'
  BY <1>2, <1>3, <1>4, <1>7 DEF QueuedTwice, Queued, Range
<1> QED
  BY <1>5, <1>6, <1>7

LEMMA PushBrings ==
  ASSUME TypeInv, NEW e \in Submission, job_list' = Append(job_list, e), NEW s
  PROVE  /\ Queued(s)' => Queued(s) \/ s = e
         /\ QueuedTwice(s)' => QueuedTwice(s) \/ (s = e /\ Queued(s))
<1>1. PICK n \in Nat :
        /\ DOMAIN job_list = 1..n /\ DOMAIN job_list' = 1..(n + 1)
        /\ job_list'[n + 1] = e /\ \A i \in 1..n : job_list'[i] = job_list[i]
  BY AppendProperties, LenProperties DEF TypeInv, TypeOK
<1>2. \A i \in 1..(n + 1) : i \in 1..n \/ i = n + 1
  BY <1>1
<1>3. \A i \in DOMAIN job_list' : job_list'[i] = s =>
        (i \in DOMAIN job_list /\ job_list[i] = s) \/ (i = n + 1 /\ s = e)
  BY <1>1, <1>2
<1>4. Queued(s)' => Queued(s) \/ s = e
  BY <1>3 DEF Queued, Range
<1>5. QueuedTwice(s)' => QueuedTwice(s) \/ (s = e /\ Queued(s))
  BY <1>3 DEF QueuedTwice, Queued, Range
<1> QED
  BY <1>4, <1>5

LEMMA TakeKeeps ==
  ASSUME TypeInv, job_list # <<>>, job_list' = Tail(job_list), NEW s
  PROVE  /\ QueuedTwice(s) => QueuedTwice(s)' \/ (s = Head(job_list) /\ Queued(s)')
         /\ Queued(s) => Queued(s)' \/ s = Head(job_list)
<1>1. job_list \in Seq(Submission)
  BY DEF TypeInv, TypeOK
<1>2. PICK n \in Nat :
        /\ n > 0 /\ DOMAIN job_list = 1..n /\ DOMAIN job_list' = 1..(n - 1)
        /\ Head(job_list) = job_list[1]
        /\ \A i \in 1..(n - 1) : job_list'[i] = job_list[i + 1]
  BY <1>1, HeadTailProperties, LenProperties, EmptySeq
<1>3. \A i \in 1..n : i # 1 =>
        \E k \in DOMAIN job_list' : k + 1 = i /\ job_list'[k] = job_list[i]
  <2> SUFFICES ASSUME NEW i \in 1..n, i # 1
               PROVE  i - 1 \in 1..(n - 1) /\ (i - 1) + 1 = i
    BY <1>2
  <2> QED
    BY <1>2
<1>4. \A i \in 1..n : i # 1 /\ job_list[i] = s => Queued(s)'
  BY <1>3 DEF Queued, Range
<1>5. ASSUME QueuedTwice(s)
      PROVE  QueuedTwice(s)' \/ (s = Head(job_list) /\ Queued(s)')
  <2>1. PICK i, j \in 1..n : i # j /\ job_list[i] = s /\ job_list[j] = s
    BY <1>2, <1>5 DEF QueuedTwice
  <2>2. CASE i # 1 /\ j # 1
    <3>1. PICK k \in DOMAIN job_list' : k + 1 = i /\ job_list'[k] = s
      BY <1>3, <2>1, <2>2
    <3>2. PICK m \in DOMAIN job_list' : m + 1 = j /\ job_list'[m] = s
      BY <1>3, <2>1, <2>2
    <3> QED
      BY <2>1, <3>1, <3>2 DEF QueuedTwice
  <2>3. CASE i = 1
    BY <1>2, <1>4, <2>1, <2>3
  <2>4. CASE j = 1
    BY <1>2, <1>4, <2>1, <2>4
  <2> QED
    BY <2>2, <2>3, <2>4
<1>6. ASSUME Queued(s)
      PROVE  Queued(s)' \/ s = Head(job_list)
  <2>1. PICK i \in 1..n : job_list[i] = s
    BY <1>2, <1>6 DEF Queued, Range
  <2> QED
    BY <1>2, <1>4, <2>1
<1> QED
  BY <1>5, <1>6

LEMMA TakeBrings ==
  ASSUME TypeInv, job_list # <<>>, job_list' = Tail(job_list), NEW s
  PROVE  /\ Queued(s)' => Queued(s)
         /\ QueuedTwice(s)' => QueuedTwice(s)
         /\ Queued(s)' /\ s = Head(job_list) => QueuedTwice(s)
         /\ Queued(Head(job_list))
<1>1. PICK n \in Nat :
        /\ n > 0 /\ DOMAIN job_list = 1..n /\ DOMAIN job_list' = 1..(n - 1)
        /\ Head(job_list) = job_list[1]
        /\ \A i \in 1..(n - 1) : job_list'[i] = job_list[i + 1]
  BY HeadTailProperties, LenProperties, EmptySeq DEF TypeInv, TypeOK
<1>2. \A i \in DOMAIN job_list' :
        i + 1 \in DOMAIN job_list /\ i + 1 # 1 /\ job_list'[i] = job_list[i + 1]
  BY <1>1
<1>3. \A i, k \in DOMAIN job_list' : i # k => i + 1 # k + 1
  BY <1>1
<1>4. 1 \in DOMAIN job_list
  BY <1>1
<1>5. (Queued(s)' => Queued(s)) /\ Queued(Head(job_list))
  BY <1>1, <1>2, <1>4 DEF Queued, Range
<1>6. QueuedTwice(s)' => QueuedTwice(s)
  BY <1>2, <1>3 DEF QueuedTwice
<1>7. Queued(s)' /\ s = Head(job_list) => QueuedTwice(s)
  BY <1>1, <1>2, <1>4 DEF QueuedTwice, Queued, Range
<1> QED
  BY <1>5, <1>6, <1>7
-----------------------------------------------------------------------------
(* Once: an id that no accident has sent to the list again is in one place *)

Tidy(s) ==
  /\ ~ QueuedTwice(s)
  /\ Queued(s) \/ s \in unsent => \A w \in Identifier : ~ Holds(w, s)
  /\ Queued(s) => s \notin unsent
  /\ \A w, u \in Identifier : Holds(w, s) /\ Holds(u, s) => w = u
  /\ verdict[s] \in FinalVerdict \/ s \in lost => Nowhere(s)

\* Steps that bring s to no new place, and to its end only if that is the last.
LEMMA TidyShrinks ==
  ASSUME NEW s, Tidy(s), job_list' = job_list, unsent' \subseteq unsent,
         \A w \in Identifier : Holds(w, s)' => Holds(w, s),
         verdict'[s] \in FinalVerdict => verdict[s] \in FinalVerdict \/ Nowhere(s)',
         s \in lost' => s \in lost \/ Nowhere(s)'
  PROVE  Tidy(s)'
BY DEF Tidy, Nowhere, Queued, QueuedTwice

\* A worker that comes to hold nothing, or goes on holding the same id.
LEMMA HoldsNoMore ==
  ASSUME TypeInv, NEW w \in Identifier, NEW x, Goto(w, x), UNCHANGED submission_id,
         x \in Holding => pc[w] \in Holding
  PROVE  \A u \in Identifier, s \in Submission : Holds(u, s)' => Holds(u, s)
BY DEF Holds, Goto, TypeInv, TypeOK

\* A worker lets go of what it has in hand, which is then judged, dropped or in
\* the hands of nobody.
LEMMA TidyRelease ==
  ASSUME TypeInv, NEW s \in Submission, Tidy(s), NEW w \in Identifier, NEW x, Goto(w, x),
         x \notin Holding, lost' \subseteq lost \cup InHand(w),
         UNCHANGED <<job_list, unsent, submission_id>>,
         verdict'[s] \in FinalVerdict => verdict[s] \in FinalVerdict \/ Holds(w, s)
  PROVE  Tidy(s)'
<1>1. \A u \in Identifier : Holds(u, s)' => Holds(u, s) /\ u # w
  BY DEF Holds, Goto, TypeInv, TypeOK
<1>2. s \in InHand(w) => Holds(w, s)
  BY DEF InHand, Holds
<1>3. Holds(w, s) => Nowhere(s)'
  BY <1>1 DEF Tidy, Nowhere, Queued
<1> QED
  BY <1>1, <1>2, <1>3, TidyShrinks

\* An id other than s is pushed by a process that may have had it in hand.
LEMMA TidyPushOther ==
  ASSUME TypeInv, NEW s \in Submission, Tidy(s), NEW e \in Submission, e # s,
         job_list' = Append(job_list, e), UNCHANGED <<verdict, lost>>,
         s \in unsent' <=> s \in unsent,
         \A u \in Identifier : Holds(u, s)' <=> Holds(u, s)
  PROVE  Tidy(s)'
<1>1. /\ Queued(s)' => Queued(s)
      /\ QueuedTwice(s)' => QueuedTwice(s)
  BY PushBrings
<1> QED
  BY <1>1 DEF Tidy, Nowhere

\* The process that has s, and nobody else, pushes it.
LEMMA TidyPush ==
  ASSUME TypeInv, NEW s \in Submission, Tidy(s), job_list' = Append(job_list, s),
         ~ Queued(s), ~ Nowhere(s), UNCHANGED <<verdict, lost>>, s \notin unsent',
         \A u \in Identifier : ~ Holds(u, s)'
  PROVE  Tidy(s)'
<1>1. ~ QueuedTwice(s)'
  BY PushBrings DEF Tidy
<1> QED
  BY <1>1 DEF Tidy

LEMMA TidyApi ==
  ASSUME TypeInv, Sent, NEW s \in Submission, Tidy(s), ApiStep
  PROVE  Tidy(s)'
<1> SUFFICES ASSUME NEW t \in Submission,
                    Commit(t) \/ Enqueue(t) \/ EnqueueFails(t) \/ DeleteRow(t)
             PROVE  Tidy(s)'
  BY DEF ApiStep
<1>0. UNCHANGED processes /\ \A u \in Identifier : Holds(u, s)' <=> Holds(u, s)
  BY DEF Commit, Enqueue, EnqueueFails, DeleteRow, processes, Holds
<1>1. CASE Commit(t)
  <2>1. /\ verdict[t] = "absent" /\ verdict' = [verdict EXCEPT ![t] = "PD"]
        /\ unsent' = unsent \cup {t} /\ job_list' = job_list /\ lost' = lost
    BY <1>1 DEF Commit, redis
  <2>2. t \notin lost /\ ~ Queued(t) /\ \A u \in Identifier : ~ Holds(u, t)
    BY <2>1 DEF Sent, Mentions, Holds
  <2>3. /\ verdict'[s] \in FinalVerdict => verdict[s] \in FinalVerdict
        /\ (s # t => (s \in unsent' <=> s \in unsent))
    BY <2>1, JudgeAssumption DEF RowState, TypeInv, TypeOK
  <2>4. (Queued(s)' <=> Queued(s)) /\ (QueuedTwice(s)' <=> QueuedTwice(s))
    BY <2>1 DEF Queued, QueuedTwice
  <2>5. CASE s = t
    <3>1. verdict'[s] \notin FinalVerdict
      BY <2>1, <2>5, JudgeAssumption DEF RowState, TypeInv, TypeOK
    <3> QED
      BY <1>0, <2>1, <2>2, <2>4, <2>5, <3>1 DEF Tidy
  <2>6. CASE s # t
    BY <1>0, <2>1, <2>3, <2>4, <2>6 DEF Tidy, Nowhere
  <2> QED
    BY <2>5, <2>6
<1>2. CASE Enqueue(t)
  <2>1. /\ t \in unsent /\ unsent' = unsent \ {t} /\ job_list' = Append(job_list, t)
        /\ UNCHANGED <<verdict, lost>>
    BY <1>2 DEF Enqueue, lpush
  <2>2. CASE s = t
    <3>1. ~ Queued(s) /\ ~ Nowhere(s) /\ \A u \in Identifier : ~ Holds(u, s)
      BY <2>1, <2>2 DEF Tidy, Nowhere
    <3> QED
      BY <1>0, <2>1, <2>2, <3>1, TidyPush
  <2>3. CASE s # t
    BY <1>0, <2>1, <2>3, TidyPushOther
  <2> QED
    BY <2>2, <2>3
<1>3. CASE EnqueueFails(t)
  <2>1. /\ t \in unsent /\ unsent' = unsent \ {t} /\ lost' = lost \cup {t}
        /\ UNCHANGED <<verdict, job_list>>
    BY <1>3 DEF EnqueueFails, redis
  <2>2. s = t => Nowhere(s)'
    BY <1>0, <2>1 DEF Tidy, Nowhere, Queued
  <2> QED
    BY <1>0, <2>1, <2>2, TidyShrinks
<1>4. CASE DeleteRow(t)
  <2>1. /\ UNCHANGED <<job_list, unsent, lost>> /\ verdict' = [verdict EXCEPT ![t] = "gone"]
    BY <1>4 DEF DeleteRow, redis
  <2>2. verdict'[s] \in FinalVerdict => verdict[s] \in FinalVerdict
    BY <2>1, JudgeAssumption DEF RowState, TypeInv, TypeOK
  <2> QED
    BY <1>0, <2>1, <2>2, TidyShrinks
<1> QED
  BY <1>1, <1>2, <1>3, <1>4

LEMMA TidyWorker ==
  ASSUME TypeInv, NEW s \in Submission, Tidy(s), s \notin repeated', NEW w \in Identifier,
         WorkerStep(w)
  PROVE  Tidy(s)'
<1>1. CASE Pop(w)
  <2>1. /\ job_list # <<>> /\ job_list' = Tail(job_list) /\ pc[w] \notin Holding
        /\ UNCHANGED <<verdict, unsent, lost>>
    BY <1>1 DEF Pop, BetweenJobs, rows, Holding
  <2>2. /\ Queued(s)' => Queued(s)
        /\ QueuedTwice(s)' => QueuedTwice(s)
        /\ Queued(s)' /\ s = Head(job_list) => QueuedTwice(s)
        /\ Queued(Head(job_list))
    BY <2>1, TakeBrings
  <2>3. \A u \in Identifier : Holds(u, s)' => IF u = w THEN s = Head(job_list) ELSE Holds(u, s)
    BY <1>1 DEF Pop, Holds, Goto, TypeInv, TypeOK
  <2>4. CASE s = Head(job_list)
    BY <2>1, <2>2, <2>3, <2>4 DEF Tidy, Nowhere
  <2>5. CASE s # Head(job_list)
    BY <2>1, <2>2, <2>3, <2>5 DEF Tidy, Nowhere
  <2> QED
    BY <2>4, <2>5
<1>2. CASE Retry(w)
  <2> DEFINE back == submission_id[w]
  <2>1. /\ back \in Submission /\ job_list' = Append(job_list, back) /\ Holds(w, back)
        /\ UNCHANGED <<verdict, unsent, lost>>
    BY <1>2 DEF Retry, lpush, BetweenJobs, rows, TypeInv, WorkerLocals, Bound, Holds, Holding
  <2>2. \A u \in Identifier : Holds(u, s)' <=> Holds(u, s) /\ u # w
    BY <1>2 DEF Retry, Holds, Holding, Goto, TypeInv, TypeOK
  <2>3. s # back => ~ Holds(w, s)
    BY DEF Holds
  <2> HIDE DEF back
  <2>4. CASE s = back
    <3>1. /\ ~ Queued(s) /\ ~ Nowhere(s) /\ s \notin unsent
          /\ \A u \in Identifier : ~ Holds(u, s)'
      BY <2>1, <2>2, <2>4 DEF Tidy, Nowhere
    <3> QED
      BY <2>1, <2>4, <3>1, TidyPush
  <2>5. CASE s # back
    BY <2>1, <2>2, <2>3, <2>5, TidyPushOther
  <2> QED
    BY <2>4, <2>5
<1>3. CASE \E v \in FinalVerdict : Writes(w, v)
  <2>1. PICK v \in FinalVerdict : Writes(w, v)
    BY <1>3
  <2>2. /\ UNCHANGED <<job_list, unsent, submission_id, lost>> /\ pc[w] = "running"
        /\ verdict' = [verdict EXCEPT ![submission_id[w]] = IF @ = "gone" THEN @ ELSE v]
    BY <2>1 DEF Writes, UpdateResult, UpdateUnanswered, WriteVerdict, redis
  <2>3. verdict'[s] \in FinalVerdict => verdict[s] \in FinalVerdict \/ Holds(w, s)
    BY <2>2 DEF Holds, Holding, TypeInv, TypeOK
  <2>4. CASE UpdateResult(w, v)
    BY <2>2, <2>3, <2>4, TidyRelease DEF UpdateResult, Holding
  <2>5. CASE UpdateUnanswered(w, v)
    <3>1. Goto(w, "failed") /\ ~ Holds(w, s)
      BY <2>5 DEF UpdateUnanswered, Holds
    <3>2. \A u \in Identifier : Holds(u, s)' => Holds(u, s)
      BY <2>2, <3>1, HoldsNoMore DEF Holding
    <3> QED
      BY <2>2, <2>3, <3>1, <3>2, TidyShrinks
  <2> QED
    BY <2>1, <2>4, <2>5 DEF Writes
<1>4. CASE SetSubmission(w) \/ GetSubmission(w) \/ JudgingFails(w)
  <2>1. /\ UNCHANGED <<submission_id, job_list, rows, lost>>
        /\ pc[w] \in Holding /\ \E x : Goto(w, x)
    BY <1>4 DEF SetSubmission, GetSubmission, JudgingFails, Holding, BetweenJobs, redis
  <2> QED
    BY <2>1, HoldsNoMore, TidyShrinks DEF rows
<1>5. CASE \/ LoopAgain(w) \/ LeaveLoop(w) \/ PopTimesOut(w) \/ SubmissionNotFound(w)
           \/ JudgingRejects(w) \/ DeleteSubmission(w) \/ Exit(w)
  <2>1. /\ UNCHANGED <<submission_id, job_list, rows>>
        /\ \E x \in {"loop", "waiting", "exiting", "dead"} : Goto(w, x)
        /\ lost' \subseteq lost \cup InHand(w)
    BY <1>5 DEF LoopAgain, LeaveLoop, PopTimesOut, SubmissionNotFound, JudgingRejects, Drop,
       DeleteSubmission, Exit, BetweenJobs, redis, InHand, Holding
  <2> QED
    BY <2>1, TidyRelease DEF rows, Holding
<1> QED
  BY <1>1, <1>2, <1>3, <1>4, <1>5 DEF WorkerStep, Writes

LEMMA TidyKill ==
  ASSUME TypeInv, NEW s \in Submission, Tidy(s), NEW w \in Identifier, Kill(w),
         UNCHANGED <<submission_id, job_list, rows>>
  PROVE  Tidy(s)'
<1>1. Goto(w, "dead") /\ "dead" \notin Holding
  BY DEF Kill, Goto, Holding
<1> QED
  BY <1>1, TidyRelease DEF Kill, rows

LEMMA TidyAccident ==
  ASSUME TypeInv, NEW s \in Submission, Tidy(s), s \notin repeated', Accident
  PROVE  Tidy(s)'
<1>1. CASE \E w \in Identifier : Crash(w)
  BY <1>1, TidyKill DEF Crash, redis
<1>2. CASE (\E w \in Identifier : Stall(w)) \/ OrchestratorError
  BY <1>2, TidyShrinks DEF Stall, OrchestratorError, redis, rows, processes, Holds
<1>3. CASE \E w \in Identifier : RedisError(w)
  <2>1. PICK w \in Identifier : RedisError(w)
    BY <1>3
  <2>2. UNCHANGED <<submission_id, job_list, rows>>
    BY <2>1 DEF RedisError, redis
  <2>3. CASE Kill(w)
    BY <2>2, <2>3, TidyKill
  <2>4. CASE Goto(w, "failed") /\ Repeats(w) /\ UNCHANGED lost
    <3>1. pc[w] \in Holding \/ submission_id[w] # s
      BY <2>4 DEF Repeats
    <3>2. \A u \in Identifier : Holds(u, s)' => Holds(u, s)
      BY <2>2, <2>4, <3>1 DEF Holds, Goto, TypeInv, TypeOK
    <3> QED
      BY <2>2, <2>4, <3>2, TidyShrinks DEF rows
  <2> QED
    BY <2>1, <2>3, <2>4 DEF RedisError, Raise
<1>4. CASE \E w \in Identifier : ReplyLost(w)
  <2>1. PICK w \in Identifier : ReplyLost(w)
    BY <1>4
  <2>2. /\ job_list # <<>> /\ job_list' = Tail(job_list) /\ lost' = lost \cup {Head(job_list)}
        /\ pc[w] = "waiting" /\ UNCHANGED <<verdict, unsent, submission_id>>
    BY <2>1 DEF ReplyLost, rows
  <2>3. \/ Goto(w, "dead")
        \/ Goto(w, "failed") /\ submission_id[w] # s
    BY <2>1, <2>2 DEF ReplyLost, Repeats, Holding
  <2>4. \A u \in Identifier : Holds(u, s)' => Holds(u, s)
    BY <2>2, <2>3 DEF Holds, Holding, Goto, TypeInv, TypeOK
  <2>5. /\ Queued(s)' => Queued(s)
        /\ QueuedTwice(s)' => QueuedTwice(s)
        /\ Queued(s)' /\ s = Head(job_list) => QueuedTwice(s)
        /\ Queued(Head(job_list))
    BY <2>2, TakeBrings
  <2>6. CASE s = Head(job_list)
    BY <2>2, <2>4, <2>5, <2>6 DEF Tidy, Nowhere
  <2>7. CASE s # Head(job_list)
    BY <2>2, <2>4, <2>5, <2>7 DEF Tidy, Nowhere
  <2> QED
    BY <2>6, <2>7
<1>5. CASE KeyboardInterrupt
  <2>1. /\ UNCHANGED <<job_list, unsent, verdict>>
        /\ lost' = lost \cup UNION {InHand(w) : w \in Identifier}
        /\ \A w \in Identifier : ~ Holds(w, s)'
    BY <1>5 DEF KeyboardInterrupt, redis, rows, Holds, Holding, InTry, Alive, Living
  <2>2. ASSUME s \in lost', s \notin lost
        PROVE  Nowhere(s)'
    <3>1. PICK w \in Identifier : Holds(w, s)
      BY <2>1, <2>2 DEF InHand, Holds
    <3> QED
      BY <2>1, <3>1 DEF Tidy, Nowhere, Queued
  <2> QED
    BY <2>1, <2>2, TidyShrinks
<1> QED
  BY <1>1, <1>2, <1>3, <1>4, <1>5 DEF Accident

LEMMA TidyOrchestrator ==
  ASSUME TypeInv, Started, NEW s \in Submission, Tidy(s), s \notin repeated',
         OrchestratorStep \/ ManagerStops
  PROVE  Tidy(s)'
<1> USE DEF Elsewhere, redis, processes
<1>1. CASE UNCHANGED <<rows, job_list, pc, submission_id, lost>>
  BY <1>1, TidyShrinks DEF Holds, rows
<1>2. CASE RequeueStuck
  <2>1. /\ stuck \in Submission /\ stuck # s /\ job_list' = Append(job_list, stuck)
        /\ UNCHANGED <<rows, pc, submission_id, lost>>
    BY <1>2 DEF RequeueStuck, lpush, Advance, TypeInv, TypeOK, OrchestratorLocals
  <2> QED
    BY <2>1, TidyPushOther DEF rows, Holds
<1>3. CASE TerminateFrozen \/ ForceKill
  <2>1. PICK w \in Identifier : Kill(w)
    BY <1>3, HeadTail DEF TerminateFrozen, ForceKill, Advance, TypeInv, TypeOK, OrchestratorLocals
  <2> QED
    BY <1>3, <2>1, TidyKill DEF TerminateFrozen, ForceKill
<1>4. CASE StartProcess
  <2>1. global_worker_id \in Identifier /\ Goto(global_worker_id, "loop")
    BY <1>4, JudgeAssumption DEF StartProcess, TypeInv, TypeOK, Identifier
  <2> QED
    BY <1>4, <2>1, TidyRelease DEF StartProcess, rows, Holding
<1> QED
  BY <1>1, <1>2, <1>3, <1>4
  DEF OrchestratorStep, StartCheck, Reap, FoundHealthy, FoundFrozen, ReadStuck, ClearKeys,
      EndCheck, Scale, AppendWorker, RegisterWorker, PopWorker, FlagWorker, WorkerStopped,
      Shutdown, JoinAll, ManagerStops

\* What an accident has once done to a submission is never forgotten.
LEMMA RepeatedGrows ==
  ASSUME TypeInv, [Next]_vars
  PROVE  repeated \subseteq repeated' /\ lost \subseteq lost'
<1>1. CASE \E w \in Identifier : WorkerStep(w)
  BY <1>1 DEF WorkerStep, LoopAgain, LeaveLoop, Pop, PopTimesOut, SetSubmission, GetSubmission,
     SubmissionNotFound, UpdateResult, UpdateUnanswered, JudgingRejects, JudgingFails, Retry,
     DeleteSubmission, Exit, Drop
<1>2. CASE Accident
  BY <1>2 DEF Accident, Crash, Stall, RedisError, ReplyLost, Raise, Repeats, Kill,
     KeyboardInterrupt, OrchestratorError
<1>3. CASE OrchestratorStep \/ ManagerStops
  BY <1>3 DEF OrchestratorStep, StartCheck, Reap, FoundHealthy, FoundFrozen, ReadStuck,
     RequeueStuck, ClearKeys, TerminateFrozen, Kill, EndCheck, Scale, StartProcess, AppendWorker,
     RegisterWorker, PopWorker, FlagWorker, WorkerStopped, ForceKill, Shutdown, JoinAll,
     ManagerStops
<1> QED
  BY <1>1, <1>2, <1>3
  DEF Next, ApiStep, Commit, Enqueue, EnqueueFails, DeleteRow, vars

LEMMA TidyStep ==
  TypeInv /\ Started /\ Sent /\ AtMostOnce /\ [Next]_vars => AtMostOnce'
<1> SUFFICES ASSUME TypeInv, Started, Sent, AtMostOnce, [Next]_vars,
                    NEW s \in Submission, s \notin repeated'
             PROVE  Tidy(s)'
  BY DEF AtMostOnce, Tidy
<1>1. Tidy(s)
  BY RepeatedGrows DEF AtMostOnce, Tidy
<1>2. CASE UNCHANGED vars
  BY <1>1, <1>2, TidyShrinks DEF vars, redis, rows, processes, Holds
<1> QED
  BY <1>1, <1>2, TidyApi, TidyWorker, TidyAccident, TidyOrchestrator DEF Next

\* Whatever crashes, freezes, fails, is killed or interrupted: an id that no
\* accident has sent to the list once more is in at most one place, and in none
\* once it is judged or dropped.
THEOREM JobsAtMostOnce == Spec => []AtMostOnce
<1>1. Init => AtMostOnce
  BY RangeEmpty, JudgeAssumption
  DEF Init, AtMostOnce, QueuedTwice, Queued, Holds, Holding, RowState
<1> QED
  BY <1>1, TidyStep, TypeInvariant, StartedInvariant, SentInvariant, PTL DEF Spec

\* Such a submission keeps the verdict it got; only what an accident has sent to
\* the list once more is ever judged a second time.
THEOREM VerdictsAreFinal == Spec => JudgedOnce
<1> DEFINE A == \A s \in Submission \ repeated :
                  verdict[s] \in FinalVerdict => verdict'[s] \in {verdict[s], "gone"}
<1>1. TypeInv /\ AtMostOnce /\ [Next]_vars => [A]_verdict
  <2> SUFFICES ASSUME TypeInv, AtMostOnce, [Next]_vars
               PROVE  UNCHANGED verdict \/ A
    OBVIOUS
  <2>1. CASE \E w \in Identifier, v \in FinalVerdict : Writes(w, v)
    <3>1. PICK w \in Identifier, v \in FinalVerdict : Writes(w, v)
      BY <2>1
    <3> DEFINE judged == submission_id[w]
    <3>2. judged \in Submission /\ Holds(w, judged)
      BY <3>1 DEF Writes, UpdateResult, UpdateUnanswered, WriteVerdict, TypeInv, WorkerLocals,
         Bound, Holds, Holding
    <3>3. judged \in repeated \/ verdict[judged] \notin FinalVerdict
      BY <3>2 DEF AtMostOnce, Nowhere
    <3>4. \A s \in Submission : s # judged => verdict'[s] = verdict[s]
      BY <3>1 DEF Writes, UpdateResult, UpdateUnanswered, WriteVerdict, TypeInv, TypeOK
    <3> QED
      BY <3>3, <3>4
  <2>2. CASE \E s \in Submission : Commit(s)
    BY <2>2, JudgeAssumption DEF Commit, TypeInv, TypeOK, RowState
  <2>3. CASE \E s \in Submission : DeleteRow(s)
    BY <2>3 DEF DeleteRow, TypeInv, TypeOK
  <2>4. CASE \/ \E s \in Submission : Enqueue(s) \/ EnqueueFails(s)
             \/ Accident \/ ManagerStops \/ UNCHANGED vars
    BY <2>4 DEF Enqueue, EnqueueFails, Accident, Crash, Stall, RedisError, ReplyLost,
       KeyboardInterrupt, OrchestratorError, ManagerStops, vars, rows
  <2>5. CASE OrchestratorStep
    BY <2>5 DEF OrchestratorStep, StartCheck, Reap, FoundHealthy, FoundFrozen, ReadStuck,
       RequeueStuck, ClearKeys, TerminateFrozen, EndCheck, Scale, StartProcess, AppendWorker,
       RegisterWorker, PopWorker, FlagWorker, WorkerStopped, ForceKill, Shutdown, JoinAll,
       Elsewhere, rows
  <2>6. ASSUME NEW w \in Identifier, WorkerStep(w),
               ~ \E v \in FinalVerdict : Writes(w, v)
        PROVE  UNCHANGED verdict
    BY <2>6 DEF WorkerStep, Writes, LoopAgain, LeaveLoop, Pop, PopTimesOut, SetSubmission,
       GetSubmission, SubmissionNotFound, JudgingRejects, JudgingFails, Retry,
       DeleteSubmission, Exit, Drop, BetweenJobs, rows
  <2> QED
    BY <2>1, <2>2, <2>3, <2>4, <2>5, <2>6 DEF Next, ApiStep
<1> QED
  BY <1>1, TypeInvariant, JobsAtMostOnce, PTL DEF Spec, JudgedOnce
-----------------------------------------------------------------------------
(* No worker process escapes the orchestrator *)

Checking == {"sweep", "stuck", "requeue", "clear", "terminate"}

\* What check_heartbeat has seen and has yet to see covers the live workers.
SweepCovers ==
  opc \in Checking => \A w \in Range(workers) :
    Alive(w) => w \in Range(rest) \cup Range(alive_workers)

\* No exception has struck while the loop runs.
NoStray == opc \in InLoop => stray = 0

Reachable == NoOrphanWorker /\ SweepCovers /\ CleanShutdown /\ NoStray

\* Identifiers begin at 1: 0 stands for no worker.
LEMMA NobodyIsZero == \A w \in Identifier : w # 0
  BY DEF Identifier

LEMMA ReachableElsewhere ==
  ASSUME TypeInv, Reachable, UNCHANGED orchestrator,
         \A w \in Identifier : Alive(w)' => Alive(w)
  PROVE  Reachable'
<1> USE DEF orchestrator, sweep, scaling, TypeInv, TypeOK
<1>1. Range(workers) \subseteq Identifier
  BY LenProperties DEF Range
<1> QED
  BY <1>1 DEF Reachable, NoOrphanWorker, SweepCovers, CleanShutdown, NoStray, InLocal, Newest

LEMMA WorkersDoNotRise ==
  ASSUME TypeInv, NEW u \in Identifier, WorkerStep(u)
  PROVE  UNCHANGED orchestrator /\ \A w \in Identifier : Alive(w)' => Alive(w)
<1>1. Alive(u)
  BY DEF WorkerStep, LoopAgain, LeaveLoop, Pop, PopTimesOut, SetSubmission, GetSubmission,
     SubmissionNotFound, Writes, UpdateResult, UpdateUnanswered, WriteVerdict,
     JudgingRejects, JudgingFails, Retry, DeleteSubmission,
     Exit, Drop, Alive, Living, Holding, InTry
<1>2. \E x : Goto(u, x)
  BY DEF WorkerStep, LoopAgain, LeaveLoop, Pop, PopTimesOut, SetSubmission, GetSubmission,
     SubmissionNotFound, Writes, UpdateResult, UpdateUnanswered, WriteVerdict,
     JudgingRejects, JudgingFails, Retry, DeleteSubmission,
     Exit, Drop
<1>3. UNCHANGED orchestrator
  BY DEF WorkerStep, LoopAgain, LeaveLoop, Pop, PopTimesOut, SetSubmission, GetSubmission,
     SubmissionNotFound, Writes, UpdateResult, UpdateUnanswered, WriteVerdict,
     JudgingRejects, JudgingFails, Retry, DeleteSubmission,
     Exit, Drop, BetweenJobs
<1> QED
  BY <1>1, <1>2, <1>3 DEF Goto, Alive, TypeInv, TypeOK

LEMMA ReachableOthers ==
  ASSUME TypeInv, Reachable,
         ApiStep \/ ManagerStops \/ Accident \/ \E w \in Identifier : WorkerStep(w)
  PROVE  Reachable'
<1>1. CASE ApiStep \/ ManagerStops
  BY <1>1, ReachableElsewhere
  DEF ApiStep, Commit, Enqueue, EnqueueFails, DeleteRow, ManagerStops, processes, Alive
<1>2. CASE \E w \in Identifier : WorkerStep(w)
  BY <1>2, ReachableElsewhere, WorkersDoNotRise
<1>3. CASE \E w \in Identifier : Crash(w) \/ Stall(w) \/ RedisError(w) \/ ReplyLost(w)
  <2>1. PICK u \in Identifier : Crash(u) \/ Stall(u) \/ RedisError(u) \/ ReplyLost(u)
    BY <1>3
  <2>2. UNCHANGED orchestrator /\ (Alive(u) \/ UNCHANGED pc)
    BY <2>1 DEF Crash, Stall, RedisError, ReplyLost, Alive, Living, InTry, Holding, processes
  <2>3. UNCHANGED pc \/ \E x : Goto(u, x)
    BY <2>1 DEF Crash, Stall, RedisError, ReplyLost, Kill, Raise, Goto, processes
  <2> QED
    BY <2>2, <2>3, ReachableElsewhere DEF Goto, Alive, TypeInv, TypeOK
<1>4. CASE KeyboardInterrupt \/ OrchestratorError
  <2>1. \A w \in Identifier : Alive(w)' => Alive(w)
    BY <1>4 DEF KeyboardInterrupt, OrchestratorError, Alive, Living, InTry, Holding, processes
  <2>2. Interrupted /\ opc \in InLoop \cup InShutdown /\ workers' = workers
    BY <1>4 DEF KeyboardInterrupt, OrchestratorError
  <2>3. opc' \in {"shutdown", "failed"} /\ InLocal' = 0
    BY <2>2 DEF Interrupted, InLocal
  <2>4. {InLocal, stray} \subseteq {InLocal', stray'} \cup {0}
    BY <2>2, <2>3 DEF Interrupted, InLocal, InLoop, InShutdown, Reachable, NoStray
  <2> QED
    BY <2>1, <2>2, <2>3, <2>4, NobodyIsZero
    DEF Reachable, NoOrphanWorker, SweepCovers, CleanShutdown, NoStray, Checking, InLoop
<1> QED
  BY <1>1, <1>2, <1>3, <1>4 DEF Accident

LEMMA ReachableCheck ==
  ASSUME TypeInv, Reachable,
         \/ StartCheck \/ Reap \/ FoundHealthy \/ FoundFrozen \/ ReadStuck \/ RequeueStuck
         \/ ClearKeys \/ TerminateFrozen \/ EndCheck
  PROVE  Reachable'
<1> USE DEF Elsewhere, Advance, scaling, sweep, Reachable, NoOrphanWorker, SweepCovers,
            CleanShutdown, NoStray, InLocal, Checking, InLoop
<1>1. CASE StartCheck
  BY <1>1 DEF StartCheck, Alive
<1>2. CASE FoundFrozen \/ ReadStuck \/ RequeueStuck \/ ClearKeys
  BY <1>2 DEF FoundFrozen, ReadStuck, RequeueStuck, ClearKeys, Alive
<1>3. CASE Reap
  <2>1. Range(rest) = {Head(rest)} \cup Range(rest')
    BY <1>3, RangePop DEF Reap, TypeInv, TypeOK
  <2> QED
    BY <1>3, <2>1 DEF Reap, Alive
<1>4. CASE FoundHealthy
  <2>1. Range(rest) = {Head(rest)} \cup Range(rest') /\ Head(rest) \in Identifier
    BY <1>4, RangePop, HeadTail DEF FoundHealthy, TypeInv, TypeOK
  <2>2. alive_workers \in Seq(Identifier) /\ alive_workers' = Append(alive_workers, Head(rest))
    BY <1>4 DEF FoundHealthy, TypeInv, TypeOK
  <2>3. Range(alive_workers') = Range(alive_workers) \cup {Head(rest)}
    BY <2>1, <2>2, RangeAppend
  <2> QED
    BY <1>4, <2>1, <2>3 DEF FoundHealthy, Alive
<1>5. CASE TerminateFrozen
  <2>1. rest \in Seq(Identifier) /\ rest # <<>> /\ rest' = Tail(rest)
    BY <1>5 DEF TerminateFrozen, TypeInv, TypeOK, OrchestratorLocals
  <2>2. Range(rest) = {Head(rest)} \cup Range(rest') /\ Head(rest) \in Identifier
    BY <2>1, RangePop, HeadTail
  <2>3. \A w \in Identifier : Alive(w)' => Alive(w) /\ w # Head(rest)
    BY <1>5, <2>2 DEF TerminateFrozen, Kill, Alive, Living, InTry, Holding, TypeInv, TypeOK
  <2>4. Range(workers) \subseteq Identifier
    BY LenProperties DEF Range, TypeInv, TypeOK
  <2> QED
    BY <1>5, <2>2, <2>3, <2>4 DEF TerminateFrozen
<1>6. CASE EndCheck
  BY <1>6, RangeEmpty DEF EndCheck, Alive
<1> QED
  BY <1>1, <1>2, <1>3, <1>4, <1>5, <1>6

LEMMA ReachableScale ==
  ASSUME TypeInv, Reachable,
         \/ Scale \/ StartProcess \/ AppendWorker \/ RegisterWorker
         \/ PopWorker \/ FlagWorker \/ WorkerStopped \/ ForceKill
         \/ Shutdown \/ JoinAll
  PROVE  Reachable'
<1> USE DEF Elsewhere, Advance, scaling, sweep, Reachable, NoOrphanWorker, SweepCovers,
            CleanShutdown, NoStray, InLocal, Checking, InLoop, NextOf
<1> USE NobodyIsZero
<1>1. CASE Scale \/ RegisterWorker \/ FlagWorker \/ Shutdown
  BY <1>1 DEF Scale, RegisterWorker, FlagWorker, Shutdown, Alive
<1>2. CASE StartProcess
  <2>1. \A w \in Identifier : Alive(w)' => Alive(w) \/ w = Newest'
    BY <1>2 DEF StartProcess, Goto, Alive, Newest, TypeInv, TypeOK
  <2> QED
    BY <1>2, <2>1 DEF StartProcess
<1>3. CASE AppendWorker
  <2>1. Newest \in Identifier /\ workers \in Seq(Identifier) /\ workers' = Append(workers, Newest)
    BY <1>3 DEF AppendWorker, TypeInv, TypeOK, OrchestratorLocals
  <2>2. Range(workers') = Range(workers) \cup {Newest}
    BY <2>1, RangeAppend
  <2> QED
    BY <1>3, <2>2 DEF AppendWorker, Alive
<1>4. CASE PopWorker
  <2>1. Range(workers) = Range(workers') \cup {focus'}
    BY <1>4, RangeFront DEF PopWorker, TypeInv, TypeOK
  <2> QED
    BY <1>4, <2>1 DEF PopWorker, Alive
<1>5. CASE WorkerStopped
  BY <1>5 DEF WorkerStopped, Alive
<1>6. CASE ForceKill
  <2>1. \A w \in Identifier : Alive(w)' => Alive(w) /\ w # focus
    BY <1>6 DEF ForceKill, Kill, Alive, Living, InTry, Holding, TypeInv, TypeOK
  <2> QED
    BY <1>6, <2>1 DEF ForceKill
<1>7. CASE JoinAll
  BY <1>7 DEF JoinAll, Alive
<1> QED
  BY <1>1, <1>2, <1>3, <1>4, <1>5, <1>6, <1>7

LEMMA ReachableInvariant == Spec => []Reachable
<1>1. Init => Reachable
  BY DEF Init, Reachable, NoOrphanWorker, SweepCovers, CleanShutdown, NoStray, Alive, Living,
     Holding, InTry, Checking
<1>2. TypeInv /\ Reachable /\ [Next]_vars => Reachable'
  <2> SUFFICES ASSUME TypeInv, Reachable, [Next]_vars
               PROVE  Reachable'
    OBVIOUS
  <2>1. CASE UNCHANGED vars
    BY <2>1, ReachableElsewhere DEF vars, processes, Alive
  <2> QED
    BY <2>1, ReachableOthers, ReachableCheck, ReachableScale DEF Next, OrchestratorStep
<1> QED
  BY <1>1, <1>2, TypeInvariant, PTL DEF Spec

\* Wherever in the loop or in shutdown() an exception strikes, every live worker
\* process is one the orchestrator will look at or join, save the one that was in
\* a local variable only.
THEOREM NoWorkerIsOrphaned == Spec => []NoOrphanWorker
<1>1. Reachable => NoOrphanWorker
  BY DEF Reachable
<1> QED
  BY <1>1, ReachableInvariant, PTL

\* run() returns only after every worker but that one has ended.
THEOREM ShutdownIsClean == Spec => []CleanShutdown
<1>1. Reachable => CleanShutdown
  BY DEF Reachable
<1> QED
  BY <1>1, ReachableInvariant, PTL
=============================================================================
