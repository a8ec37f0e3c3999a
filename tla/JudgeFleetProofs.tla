-------------------------- MODULE JudgeFleetProofs --------------------------
(***************************************************************************)
(* Theorems about what the orchestrator of Judge does to its workers: the  *)
(* heartbeat sweep cannot block, no more than MAXIMUM_JUDGE_WORKER         *)
(* processes run, and a frozen worker's submission outlives the worker.    *)
(* None of them restricts the faults or the steps an exception interrupts. *)
(***************************************************************************)
EXTENDS JudgeProofs, FiniteSetTheorems

(* Who moves what *)

\* A step of the API, of a worker or of the manager, or an accident to a worker.
Outside ==
  \/ ApiStep \/ ManagerStops \/ \E w \in Identifier : WorkerStep(w)
  \/ \E w \in Identifier : Crash(w) \/ Stall(w) \/ RedisError(w) \/ ReplyLost(w)

Abort == KeyboardInterrupt \/ OrchestratorError

LEMMA NextParts == Next => Outside \/ Abort \/ OrchestratorStep
  BY Zenon DEF Next, Accident, Outside, Abort

\* Such a step leaves the orchestrator's variables alone and starts no process.
LEMMA OutsideFrame ==
  ASSUME TypeInv, Outside
  PROVE  UNCHANGED orchestrator /\ \A w \in Identifier : Alive(w)' => Alive(w)
<1>1. CASE ApiStep \/ ManagerStops
  BY <1>1 DEF ApiStep, Commit, Enqueue, EnqueueFails, DeleteRow, ManagerStops, processes, Alive
<1>2. CASE \E w \in Identifier : WorkerStep(w)
  BY <1>2, WorkersDoNotRise
<1>3. CASE \E w \in Identifier : Crash(w) \/ Stall(w) \/ RedisError(w) \/ ReplyLost(w)
  <2>1. PICK u \in Identifier : Crash(u) \/ Stall(u) \/ RedisError(u) \/ ReplyLost(u)
    BY <1>3
  <2>2. UNCHANGED orchestrator /\ (Alive(u) \/ UNCHANGED pc)
    BY <2>1 DEF Crash, Stall, RedisError, ReplyLost, Alive, Living, InTry, Holding, processes
  <2>3. UNCHANGED pc \/ \E x : Goto(u, x)
    BY <2>1 DEF Crash, Stall, RedisError, ReplyLost, Kill, Raise, Goto, processes
  <2> QED
    BY <2>2, <2>3 DEF Goto, Alive, TypeInv, TypeOK
<1> QED
  BY <1>1, <1>2, <1>3 DEF Outside

LEMMA AbortFrame ==
  ASSUME TypeInv, Abort
  PROVE  /\ opc' \in {"shutdown", "failed"}
         /\ \A w \in Identifier : Alive(w)' => Alive(w)
BY DEF Abort, KeyboardInterrupt, OrchestratorError, Interrupted, processes, Alive, Living,
   InTry, Holding

\* The orchestrator never comes back to its loop.
LEMMA LoopIsLeftOnce ==
  ASSUME OrchestratorStep, opc' \in InLoop
  PROVE  opc \in InLoop
BY DEF OrchestratorStep, StartCheck, Reap, FoundHealthy, FoundFrozen, ReadStuck, RequeueStuck,
   ClearKeys, TerminateFrozen, EndCheck, Scale, StartProcess, AppendWorker, RegisterWorker,
   PopWorker, FlagWorker, WorkerStopped, ForceKill, Shutdown, JoinAll, Advance, NextOf, InLoop
-----------------------------------------------------------------------------
(* The sweep cannot block *)

\* Every live worker the orchestrator knows of has a heartbeat key, save the one
\* it is registering and the one it is about to end.
Beating ==
  opc \in InLoop => \A w \in Tracked : Alive(w) =>
    \/ heartbeat[w] # "unset"
    \/ opc = "register" /\ w = Newest
    \/ opc = "terminate" /\ w = Head(rest)

LEMMA TrackedType == TypeInv => Tracked \subseteq Identifier
  BY LenProperties DEF Tracked, Range, TypeInv, TypeOK

\* A live worker loses its key to nobody but the orchestrator.
LEMMA OutsideKeeps ==
  ASSUME TypeInv, Outside
  PROVE  \A w \in Identifier : Alive(w)' /\ heartbeat[w] # "unset" => heartbeat'[w] # "unset"
<1> USE DEF TypeInv, TypeOK, redis
<1>1. CASE ApiStep \/ ManagerStops
  BY <1>1 DEF ApiStep, Commit, Enqueue, EnqueueFails, DeleteRow, ManagerStops
<1>2. ASSUME NEW u \in Identifier, WorkerStep(u)
      PROVE  \A w \in Identifier : Alive(w)' /\ heartbeat[w] # "unset" => heartbeat'[w] # "unset"
  <2>1. CASE LoopAgain(u)
    BY <2>1 DEF LoopAgain
  <2>2. CASE Exit(u)
    BY <2>2 DEF Exit, Goto, Alive, Living, Holding, InTry
  <2>3. CASE ~ LoopAgain(u) /\ ~ Exit(u)
    BY <1>2, <2>3 DEF WorkerStep, LeaveLoop, Pop, PopTimesOut, SetSubmission,
       GetSubmission, SubmissionNotFound, Writes, UpdateResult, UpdateUnanswered,
       WriteVerdict, JudgingRejects, JudgingFails, Retry,
       DeleteSubmission, Drop, BetweenJobs
  <2> QED
    BY <2>1, <2>2, <2>3
<1>3. CASE \E w \in Identifier : Crash(w) \/ Stall(w) \/ RedisError(w) \/ ReplyLost(w)
  BY <1>3 DEF Crash, Stall, RedisError, ReplyLost
<1> QED
  BY <1>1, <1>2, <1>3 DEF Outside

LEMMA BeatingOutside ==
  ASSUME TypeInv, Beating, Outside
  PROVE  Beating'
<1>1. UNCHANGED <<opc, Tracked, Newest, rest>>
  BY OutsideFrame DEF orchestrator, sweep, scaling, Tracked, Newest
<1>2. Tracked \subseteq Identifier
  BY TrackedType
<1>3. \A w \in Identifier :
        Alive(w)' => Alive(w) /\ (heartbeat[w] # "unset" => heartbeat'[w] # "unset")
  BY OutsideFrame, OutsideKeeps
<1> QED
  BY <1>1, <1>2, <1>3 DEF Beating

\* A step of the sweep or of stop_worker() that takes no key from anyone.
LEMMA BeatingForward ==
  ASSUME TypeInv, Beating, opc \in InLoop, opc \notin {"register", "terminate"},
         Tracked' \subseteq Tracked, UNCHANGED heartbeat,
         \A w \in Identifier : Alive(w)' => Alive(w)
  PROVE  Beating'
BY TrackedType DEF Beating

LEMMA BeatingCheck ==
  ASSUME TypeInv, Beating,
         \/ StartCheck \/ Reap \/ FoundHealthy \/ FoundFrozen \/ ReadStuck \/ RequeueStuck
         \/ ClearKeys \/ TerminateFrozen \/ EndCheck
  PROVE  Beating'
<1> USE DEF Elsewhere, Advance, redis, scaling, sweep
<1>1. CASE StartCheck
  BY <1>1, RangeEmpty, BeatingForward DEF StartCheck, Tracked, Alive, InLoop
<1>2. CASE FoundFrozen \/ ReadStuck \/ RequeueStuck
  BY <1>2, BeatingForward DEF FoundFrozen, ReadStuck, RequeueStuck, Tracked, Alive, InLoop
<1>3. CASE Reap
  <2>1. Range(rest) = {Head(rest)} \cup Range(rest')
    BY <1>3, RangePop DEF Reap, TypeInv, TypeOK
  <2> QED
    BY <1>3, <2>1, BeatingForward DEF Reap, Tracked, Alive, InLoop
<1>4. CASE FoundHealthy
  <2>1. Range(rest) = {Head(rest)} \cup Range(rest') /\ Head(rest) \in Identifier
    BY <1>4, RangePop, HeadTail DEF FoundHealthy, TypeInv, TypeOK
  <2>2. alive_workers \in Seq(Identifier) /\ alive_workers' = Append(alive_workers, Head(rest))
    BY <1>4 DEF FoundHealthy, TypeInv, TypeOK
  <2>3. Range(alive_workers') = Range(alive_workers) \cup {Head(rest)}
    BY <2>1, <2>2, RangeAppend
  <2> QED
    BY <1>4, <2>1, <2>3, BeatingForward DEF FoundHealthy, Tracked, Alive, InLoop
<1>5. CASE ClearKeys
  <2>1. UNCHANGED <<Tracked, pc, rest>> /\ opc = "clear" /\ opc' = "terminate"
    BY <1>5 DEF ClearKeys, Tracked
  <2>2. \A w \in Identifier : w # Head(rest) => heartbeat'[w] = heartbeat[w]
    BY <1>5 DEF ClearKeys, TypeInv, TypeOK
  <2> QED
    BY <2>1, <2>2, TrackedType DEF Beating, Alive, InLoop
<1>6. CASE TerminateFrozen
  <2>1. rest \in Seq(Identifier) /\ rest # <<>> /\ rest' = Tail(rest)
    BY <1>6 DEF TerminateFrozen, TypeInv, TypeOK, OrchestratorLocals
  <2>2. Range(rest) = {Head(rest)} \cup Range(rest') /\ Head(rest) \in Identifier
    BY <2>1, RangePop, HeadTail
  <2>3. \A w \in Identifier : Alive(w)' => Alive(w) /\ w # Head(rest)
    BY <1>6, <2>2 DEF TerminateFrozen, Kill, Alive, Living, InTry, Holding, TypeInv, TypeOK
  <2>4. Tracked' \subseteq Tracked
    BY <1>6, <2>2 DEF TerminateFrozen, Tracked
  <2> QED
    BY <1>6, <2>3, <2>4, TrackedType DEF TerminateFrozen, Beating, InLoop
<1>7. CASE EndCheck
  BY <1>7, RangeEmpty, BeatingForward DEF EndCheck, Tracked, Alive, InLoop
<1> QED
  BY <1>1, <1>2, <1>3, <1>4, <1>5, <1>6, <1>7

LEMMA BeatingScale ==
  ASSUME TypeInv, Started, Beating,
         \/ Scale \/ StartProcess \/ AppendWorker \/ RegisterWorker
         \/ PopWorker \/ FlagWorker \/ WorkerStopped \/ ForceKill
         \/ Shutdown \/ JoinAll
  PROVE  Beating'
<1> USE DEF Elsewhere, Advance, redis, scaling, sweep, NextOf
<1>1. CASE Scale \/ FlagWorker \/ WorkerStopped
  BY <1>1, BeatingForward DEF Scale, FlagWorker, WorkerStopped, Tracked, Alive, InLoop
<1>2. CASE StartProcess
  <2>1. UNCHANGED <<Tracked, heartbeat>> /\ opc = "spawn" /\ opc' = "append"
    BY <1>2 DEF StartProcess, Tracked
  <2>2. global_worker_id \notin Tracked
    <3>1. global_worker_id \in Nat
      BY JudgeAssumption DEF TypeInv, TypeOK
    <3> QED
      BY <3>1 DEF Started
  <2>3. \A w \in Identifier : w # global_worker_id => pc'[w] = pc[w]
    BY <1>2 DEF StartProcess, Goto, TypeInv, TypeOK
  <2> QED
    BY <2>1, <2>2, <2>3, TrackedType DEF Beating, Alive, InLoop
<1>3. CASE AppendWorker
  <2>1. Newest \in Identifier /\ workers \in Seq(Identifier) /\ workers' = Append(workers, Newest)
    BY <1>3 DEF AppendWorker, TypeInv, TypeOK, OrchestratorLocals
  <2>2. Range(workers') = Range(workers) \cup {Newest}
    BY <2>1, RangeAppend
  <2>3. Tracked' = Tracked \cup {Newest} /\ Newest' = Newest /\ UNCHANGED <<heartbeat, pc>>
    BY <1>3, <2>2 DEF AppendWorker, Tracked, Newest
  <2>4. opc = "append" /\ opc' = "register"
    BY <1>3 DEF AppendWorker
  <2> QED
    BY <2>3, <2>4 DEF Beating, Alive, InLoop
<1>4. CASE RegisterWorker
  <2>1. Newest \in Identifier /\ heartbeat' = [heartbeat EXCEPT ![Newest] = "fresh"]
    BY <1>4 DEF RegisterWorker, TypeInv, OrchestratorLocals
  <2>2. UNCHANGED <<Tracked, pc>> /\ opc = "register"
    BY <1>4 DEF RegisterWorker, Tracked
  <2> QED
    BY <2>1, <2>2, TrackedType DEF Beating, Alive, InLoop, TypeInv, TypeOK
<1>5. CASE PopWorker
  <2>1. Range(workers') \subseteq Range(workers)
    BY <1>5, RangeFront DEF PopWorker, TypeInv, TypeOK
  <2> QED
    BY <1>5, <2>1, BeatingForward DEF PopWorker, Tracked, Alive, InLoop
<1>6. CASE ForceKill
  <2>1. \A w \in Identifier : Alive(w)' => Alive(w)
    BY <1>6 DEF ForceKill, Kill, Alive, Living, InTry, Holding, TypeInv, TypeOK
  <2> QED
    BY <1>6, <2>1, BeatingForward DEF ForceKill, Tracked, InLoop
<1>7. CASE Shutdown \/ JoinAll
  BY <1>7 DEF Shutdown, JoinAll, Beating, InLoop
<1> QED
  BY <1>1, <1>2, <1>3, <1>4, <1>5, <1>6, <1>7

LEMMA BeatingInvariant == Spec => []Beating
<1>1. Init => Beating
  BY RangeEmpty DEF Init, Beating, Tracked
<1>2. TypeInv /\ Started /\ Beating /\ [Next]_vars => Beating'
  <2> SUFFICES ASSUME TypeInv, Started, Beating, [Next]_vars
               PROVE  Beating'
    OBVIOUS
  <2>1. CASE UNCHANGED vars
    BY <2>1 DEF vars, redis, processes, orchestrator, sweep, scaling, Beating, Tracked,
       Alive, Newest
  <2>2. CASE Abort
    BY <2>2, AbortFrame DEF Beating, InLoop
  <2> QED
    BY <2>1, <2>2, NextParts, BeatingOutside, BeatingCheck, BeatingScale DEF OrchestratorStep
<1> QED
  BY <1>1, <1>2, TypeInvariant, StartedInvariant, PTL DEF Spec

\* Whatever crashes, stalls or is replaced meanwhile, check_heartbeat never
\* joins a live worker that has no heartbeat key, the join it would hang in.
THEOREM SweepNeverHangs == Spec => []SweepNeverBlocks
<1>1. TypeInv /\ Beating => SweepNeverBlocks
  <2> SUFFICES ASSUME TypeInv, Beating, opc = "sweep", rest # <<>>, Alive(Head(rest))
               PROVE  heartbeat[Head(rest)] # "unset"
    BY DEF SweepNeverBlocks
  <2>1. Range(rest) = {Head(rest)} \cup Range(Tail(rest))
    BY RangePop DEF TypeInv, TypeOK
  <2> QED
    BY <2>1 DEF Beating, Tracked, InLoop
<1> QED
  BY <1>1, TypeInvariant, BeatingInvariant, PTL
-----------------------------------------------------------------------------
(* MAXIMUM_JUDGE_WORKER bounds the processes, not only the list *)

\* The list never outgrows the maximum, with what spawn_worker() is about to add.
Size ==
  /\ Len(workers) <= MaxWorkers
  /\ opc \in Checking => Len(rest) + Len(alive_workers) <= Len(workers)
  /\ opc \in {"spawn", "append"} => Len(workers) + todo <= MaxWorkers
  /\ opc = "register" => Len(workers) + todo <= MaxWorkers + 1

LEMMA DesiredIsBounded == TypeInv => Desired \in Nat /\ Desired <= MaxWorkers
<1> SUFFICES ASSUME TypeInv
             PROVE  Desired <= MaxWorkers
  BY DesiredIsNat DEF TypeInv, TypeOK
<1> DEFINE wanted == AtLeast(MinWorkers, (Len(job_list) \div JobsPerWorker) + 1)
<1>0. job_list \in Seq(Submission)
  BY DEF TypeInv, TypeOK
<1>1. (Len(job_list) \div JobsPerWorker) + 1 \in Nat
  BY <1>0, LenProperties, JudgeAssumption
<1>2. wanted \in Nat
  BY <1>1, JudgeAssumption DEF AtLeast
<1> HIDE DEF wanted
<1>3. AtMost(MaxWorkers, wanted) <= MaxWorkers
  BY <1>2, JudgeAssumption DEF AtMost
<1> QED
  BY <1>3 DEF Desired, wanted

LEMMA LengthsAreNat ==
  TypeInv => /\ Len(workers) \in Nat /\ Len(rest) \in Nat /\ Len(alive_workers) \in Nat
             /\ todo \in Nat /\ MaxWorkers \in Nat
  BY LenProperties, JudgeAssumption DEF TypeInv, TypeOK

LEMMA LengthOfTail ==
  ASSUME NEW S, NEW q \in Seq(S), q # <<>>
  PROVE  Len(Tail(q)) = Len(q) - 1
  BY HeadTailProperties

LEMMA FrontLength ==
  ASSUME NEW S, NEW q \in Seq(S), q # <<>>
  PROVE  Len(SubSeq(q, 1, Len(q) - 1)) = Len(q) - 1
<1>1. Len(q) \in Nat /\ Len(q) > 0
  BY LenProperties, EmptySeq
<1>2. PICK n \in Int : n = Len(q) - 1 /\ n >= 0
  BY <1>1
<1>3. \A i \in 1..n : q[i] \in S
  BY <1>1, <1>2
<1>4. 1 \in Int
  OBVIOUS
<1>5. Len(SubSeq(q, 1, n)) = IF 1 <= n THEN n - 1 + 1 ELSE 0
  BY <1>3, <1>4, SubSeqProperties
<1> QED
  BY <1>2, <1>5

LEMMA SizeElsewhere ==
  ASSUME Size, UNCHANGED orchestrator
  PROVE  Size'
BY DEF Size, orchestrator, sweep, scaling

LEMMA SizeCheck ==
  ASSUME TypeInv, Size,
         \/ StartCheck \/ Reap \/ FoundHealthy \/ FoundFrozen \/ ReadStuck \/ RequeueStuck
         \/ ClearKeys \/ TerminateFrozen \/ EndCheck
  PROVE  Size'
<1> USE LengthsAreNat DEF Advance, scaling, sweep, Size, Checking
<1>1. CASE StartCheck
  <2>1. Len(alive_workers') = 0
    BY <1>1 DEF StartCheck
  <2> QED
    BY <1>1, <2>1 DEF StartCheck
<1>2. CASE FoundFrozen \/ ReadStuck \/ RequeueStuck \/ ClearKeys
  BY <1>2 DEF FoundFrozen, ReadStuck, RequeueStuck, ClearKeys
<1>3. CASE Reap \/ TerminateFrozen
  <2>1. rest \in Seq(Identifier) /\ rest # <<>> /\ rest' = Tail(rest)
    BY <1>3 DEF Reap, TerminateFrozen, TypeInv, TypeOK, OrchestratorLocals
  <2>2. Len(rest') = Len(rest) - 1
    BY <2>1, LengthOfTail
  <2>3. opc \in Checking /\ opc' = "sweep" /\ UNCHANGED <<workers, alive_workers>>
    BY <1>3 DEF Reap, TerminateFrozen
  <2> QED
    BY <2>2, <2>3
<1>4. CASE FoundHealthy
  <2>1. rest \in Seq(Identifier) /\ rest # <<>> /\ rest' = Tail(rest)
    BY <1>4 DEF FoundHealthy, TypeInv, TypeOK
  <2>2. Len(rest') = Len(rest) - 1 /\ Head(rest) \in Identifier
    BY <2>1, LengthOfTail, HeadTail
  <2>3. Len(alive_workers') = Len(alive_workers) + 1
    BY <1>4, <2>2, AppendProperties DEF FoundHealthy, TypeInv, TypeOK
  <2>4. opc = "sweep" /\ opc' = "sweep" /\ UNCHANGED workers
    BY <1>4 DEF FoundHealthy
  <2> QED
    BY <2>2, <2>3, <2>4
<1>5. CASE EndCheck
  <2>1. Len(rest) = 0
    BY <1>5 DEF EndCheck
  <2> QED
    BY <1>5, <2>1 DEF EndCheck
<1> QED
  BY <1>1, <1>2, <1>3, <1>4, <1>5

LEMMA SizeScale ==
  ASSUME TypeInv, Size,
         \/ Scale \/ StartProcess \/ AppendWorker \/ RegisterWorker
         \/ PopWorker \/ FlagWorker \/ WorkerStopped \/ ForceKill
         \/ Shutdown \/ JoinAll
  PROVE  Size'
<1> USE LengthsAreNat DEF Advance, scaling, sweep, Size, Checking, NextOf
<1>1. CASE Scale
  BY <1>1, DesiredIsBounded DEF Scale
<1>2. CASE StartProcess
  BY <1>2 DEF StartProcess
<1>3. CASE AppendWorker
  <2>1. Newest \in Identifier /\ todo > 0
    BY <1>3 DEF AppendWorker, TypeInv, OrchestratorLocals
  <2>2. Len(workers') = Len(workers) + 1
    BY <1>3, <2>1, AppendProperties DEF AppendWorker, TypeInv, TypeOK
  <2> QED
    BY <1>3, <2>1, <2>2 DEF AppendWorker
<1>4. CASE RegisterWorker
  <2>1. todo > 0
    BY <1>4 DEF RegisterWorker, TypeInv, OrchestratorLocals
  <2> QED
    BY <1>4, <2>1 DEF RegisterWorker
<1>5. CASE PopWorker
  <2>1. Len(workers') = Len(workers) - 1
    <3>1. workers \in Seq(Identifier) /\ workers # <<>>
      BY <1>5 DEF PopWorker, TypeInv, TypeOK
    <3> QED
      BY <1>5, <3>1, FrontLength DEF PopWorker
  <2> QED
    BY <1>5, <2>1 DEF PopWorker
<1>6. CASE FlagWorker \/ WorkerStopped \/ ForceKill \/ Shutdown \/ JoinAll
  BY <1>6 DEF FlagWorker, WorkerStopped, ForceKill, Shutdown, JoinAll
<1> QED
  BY <1>1, <1>2, <1>3, <1>4, <1>5, <1>6

LEMMA SizeInvariant == Spec => []Size
<1>1. Init => Size
  BY JudgeAssumption
  DEF Init, Size, Checking
<1>2. TypeInv /\ Size /\ [Next]_vars => Size'
  <2> SUFFICES ASSUME TypeInv, Size, [Next]_vars
               PROVE  Size'
    OBVIOUS
  <2>1. CASE UNCHANGED vars \/ Outside
    BY <2>1, OutsideFrame, SizeElsewhere DEF vars
  <2>2. CASE Abort
    BY <2>2 DEF Abort, KeyboardInterrupt, OrchestratorError, Interrupted, Size, Checking, sweep,
       scaling
  <2> QED
    BY <2>1, <2>2, NextParts, SizeCheck, SizeScale DEF OrchestratorStep
<1> QED
  BY <1>1, <1>2, TypeInvariant, PTL DEF Spec

Running == {w \in Identifier : Alive(w)}

LEMMA FleetIsFinite == IsFiniteSet(Running)
<1>1. IsFiniteSet(Identifier)
  BY JudgeAssumption, FS_Interval DEF Identifier
<1> QED
  BY <1>1, FS_Subset, Zenon DEF Running

\* The elements of a list are no more than its length.
LEMMA RangeSize ==
  ASSUME NEW S, NEW q \in Seq(S)
  PROVE  IsFiniteSet(Range(q)) /\ Cardinality(Range(q)) <= Len(q)
<1>1. Len(q) \in Nat /\ DOMAIN q = 1..Len(q) /\ q \in [1..Len(q) -> S]
  BY LenProperties
<1>2. IsFiniteSet(1..Len(q)) /\ Cardinality(1..Len(q)) = Len(q)
  BY <1>1, FS_Interval
<1>3. q \in Surjection(1..Len(q), Range(q))
  BY <1>1 DEF Surjection, Range
<1> QED
  BY <1>2, <1>3, FS_Surjection

\* Only spawn_worker() adds a process, and it adds one.
LEMMA FleetGrows ==
  ASSUME TypeInv, [Next]_vars, ~ StartProcess
  PROVE  Running' \subseteq Running
<1> SUFFICES \A w \in Identifier : Alive(w)' => Alive(w)
  BY DEF Running
<1>1. CASE UNCHANGED vars
  BY <1>1 DEF vars, processes, Alive
<1>2. CASE TerminateFrozen \/ ForceKill
  BY <1>2 DEF TerminateFrozen, ForceKill, Kill, Alive, Living, InTry, Holding, TypeInv, TypeOK
<1>3. CASE OrchestratorStep /\ ~ TerminateFrozen /\ ~ ForceKill
  BY <1>3 DEF OrchestratorStep, StartCheck, Reap, FoundHealthy, FoundFrozen, ReadStuck,
     RequeueStuck, ClearKeys, EndCheck, Scale, AppendWorker, RegisterWorker, PopWorker,
     FlagWorker, WorkerStopped, Shutdown, JoinAll, Alive
<1> QED
  BY <1>1, <1>2, <1>3, NextParts, OutsideFrame, AbortFrame

\* At no time do more than MAXIMUM_JUDGE_WORKER worker processes run, with
\* exceptions wherever they strike: what shutdown() may lose sight of was
\* counted before, and nothing is spawned afterwards.
THEOREM WorkersAreLimited == Spec => []WorkerLimit
<1>1. Init => WorkerLimit
  <2> SUFFICES ASSUME Init
               PROVE  Running = {}
    BY FS_EmptySet, JudgeAssumption DEF WorkerLimit, Running
  <2> QED
    BY DEF Init, Running, Alive, Living, InTry, Holding
<1>2. TypeInv /\ Reachable /\ Size /\ WorkerLimit /\ [Next]_vars => WorkerLimit'
  <2> SUFFICES ASSUME TypeInv, Reachable, Size, WorkerLimit, [Next]_vars
               PROVE  Cardinality(Running') <= MaxWorkers
    BY DEF WorkerLimit, Running
  <2>0. IsFiniteSet(Running) /\ Cardinality(Running) \in Nat /\ MaxWorkers \in Nat
    BY FleetIsFinite, FS_CardinalityType, JudgeAssumption
  <2>1. CASE ~ StartProcess
    <3>1. Running' \subseteq Running
      BY <2>1, FleetGrows
    <3>2. IsFiniteSet(Running') /\ Cardinality(Running') <= Cardinality(Running)
      BY <2>0, <3>1, FS_Subset
    <3>3. Cardinality(Running') \in Nat /\ Cardinality(Running) <= MaxWorkers
      BY <3>2, FS_CardinalityType DEF WorkerLimit, Running
    <3> QED
      BY <2>0, <3>2, <3>3
  <2>2. CASE StartProcess
    <3>1. /\ opc = "spawn" /\ workers \in Seq(Identifier) /\ Len(workers) \in Nat
          /\ todo \in Nat /\ todo > 0
      BY <2>2, LengthsAreNat DEF StartProcess, Advance, TypeInv, TypeOK, OrchestratorLocals
    <3>2. Running \subseteq Range(workers)
      BY <3>1, NobodyIsZero DEF Reachable, NoStray, InLoop, InLocal, NoOrphanWorker, Running
    <3>3. IsFiniteSet(Range(workers)) /\ Cardinality(Range(workers)) <= Len(workers)
      BY <3>1, RangeSize
    <3>4. Cardinality(Running) <= Cardinality(Range(workers)) /\ Cardinality(Range(workers)) \in Nat
      BY <3>2, <3>3, FS_Subset, FS_CardinalityType
    <3>5. Running' \subseteq Running \cup {global_worker_id}
      BY <2>2 DEF StartProcess, Goto, Running, Alive, TypeInv, TypeOK
    <3>6. /\ IsFiniteSet(Running \cup {global_worker_id})
          /\ Cardinality(Running \cup {global_worker_id}) <= Cardinality(Running) + 1
      BY <2>0, FS_AddElement
    <3>7. /\ Cardinality(Running') <= Cardinality(Running \cup {global_worker_id})
          /\ Cardinality(Running') \in Nat /\ Cardinality(Running \cup {global_worker_id}) \in Nat
      BY <3>5, <3>6, FS_Subset, FS_CardinalityType
    <3>8. Len(workers) + todo <= MaxWorkers
      BY <3>1 DEF Size
    <3> QED
      BY <2>0, <3>1, <3>3, <3>4, <3>6, <3>7, <3>8
  <2> QED
    BY <2>1, <2>2
<1> QED
  BY <1>1, <1>2, SizeInvariant, ReachableInvariant, TypeInvariant, PTL DEF Spec
-----------------------------------------------------------------------------
(* What the orchestrator has requeued exists twice *)

HeldTwice(s) ==
  \E w, u \in Identifier : w # u /\ Holds(w, s) /\ Holds(u, s)

Doubled(s) ==
  \/ s \in lost \/ QueuedTwice(s) \/ HeldTwice(s)
  \/ Queued(s) /\ \E w \in Identifier : Holds(w, s)

\* The id a frozen worker announced was somewhere when the orchestrator pushed
\* it once more, so that two copies are left and the worker has only one.
StuckDoubled ==
  opc \in {"clear", "terminate"} /\ stuck # None /\ Pending(stuck) => Doubled(stuck)

\* Nobody takes from the list and nobody lets go of an id.
LEMMA DoubledStays ==
  ASSUME TypeInv, NEW s \in Submission, Doubled(s), lost \subseteq lost', job_list' = job_list,
         \A u \in Identifier : Holds(u, s) => Holds(u, s)' \/ s \in lost'
  PROVE  Doubled(s)'
BY DEF Doubled, QueuedTwice, HeldTwice, Queued

LEMMA DoubledApi ==
  ASSUME TypeInv, NEW s \in Submission, Doubled(s), ApiStep
  PROVE  Doubled(s)'
<1> SUFFICES ASSUME NEW t \in Submission,
                    Commit(t) \/ Enqueue(t) \/ EnqueueFails(t) \/ DeleteRow(t)
             PROVE  Doubled(s)'
  BY DEF ApiStep
<1> USE DEF redis, processes
<1>1. CASE Enqueue(t)
  <2>1. (QueuedTwice(s) => QueuedTwice(s)') /\ (Queued(s) => Queued(s)')
    BY <1>1, PushKeeps DEF Enqueue, lpush
  <2>2. \A u \in Identifier : Holds(u, s)' <=> Holds(u, s)
    BY <1>1 DEF Enqueue, Holds
  <2>3. lost' = lost
    BY <1>1 DEF Enqueue
  <2> QED
    BY <2>1, <2>2, <2>3 DEF Doubled, HeldTwice
<1>2. CASE Commit(t) \/ EnqueueFails(t) \/ DeleteRow(t)
  BY <1>2, DoubledStays DEF Commit, EnqueueFails, DeleteRow, Holds
<1> QED
  BY <1>1, <1>2

LEMMA DoubledWorker ==
  ASSUME TypeInv, NEW s \in Submission, Doubled(s), NEW w \in Identifier, WorkerStep(w),
         verdict'[s] = "PD"
  PROVE  Doubled(s)'
<1> USE DEF redis, rows
<1>1. CASE Pop(w)
  <2>1. job_list # <<>> /\ job_list' = Tail(job_list) /\ lost' = lost
    BY <1>1 DEF Pop
  <2>2. /\ QueuedTwice(s) => QueuedTwice(s)' \/ (s = Head(job_list) /\ Queued(s)')
        /\ Queued(s) => Queued(s)' \/ s = Head(job_list)
    BY <2>1, TakeKeeps
  <2>3. \A u \in Identifier : Holds(u, s) => u # w /\ Holds(u, s)'
    BY <1>1 DEF Pop, Holds, Holding, Goto, TypeInv, TypeOK
  <2>4. s = Head(job_list) => Holds(w, s)'
    BY <1>1 DEF Pop, Holds, Holding, Goto, TypeInv, TypeOK
  <2> QED
    BY <2>1, <2>2, <2>3, <2>4 DEF Doubled, HeldTwice
<1>2. CASE Retry(w)
  <2> DEFINE back == submission_id[w]
  <2>1. back \in Submission /\ job_list' = Append(job_list, back) /\ lost' = lost
    BY <1>2 DEF Retry, lpush, TypeInv, WorkerLocals, Bound
  <2> HIDE DEF back
  <2>2. /\ QueuedTwice(s) => QueuedTwice(s)'
        /\ Queued(s) => Queued(s)'
        /\ s = back => Queued(s)'
        /\ Queued(s) /\ s = back => QueuedTwice(s)'
    BY <2>1, PushKeeps
  <2>3. \A u \in Identifier : Holds(u, s) => IF u = w THEN s = back ELSE Holds(u, s)'
    BY <1>2 DEF Retry, Holds, Goto, TypeInv, TypeOK, back
  <2> QED
    BY <2>1, <2>2, <2>3 DEF Doubled, HeldTwice
<1>3. CASE \E v \in FinalVerdict : Writes(w, v)
  <2>1. PICK v \in FinalVerdict : Writes(w, v)
    BY <1>3
  <2>2. ~ Holds(w, s)
    <3>1. v # "PD" /\ verdict \in [Submission -> RowState \cup FinalVerdict]
      BY JudgeAssumption DEF RowState, TypeInv, TypeOK
    <3>2. verdict' = [verdict EXCEPT ![submission_id[w]] = IF @ = "gone" THEN @ ELSE v]
      BY <2>1 DEF Writes, UpdateResult, UpdateUnanswered, WriteVerdict
    <3>3. submission_id[w] = s => verdict'[s] = "gone" \/ verdict'[s] = v
      BY <3>1, <3>2
    <3> QED
      BY <3>1, <3>3 DEF Holds
  <2>3. \A u \in Identifier : Holds(u, s) => Holds(u, s)'
    BY <2>1, <2>2 DEF Writes, UpdateResult, UpdateUnanswered, WriteVerdict, Holds, Goto,
       TypeInv, TypeOK
  <2> QED
    BY <2>1, <2>3, DoubledStays DEF Writes, UpdateResult, UpdateUnanswered, WriteVerdict
<1>4. CASE SubmissionNotFound(w) \/ JudgingRejects(w)
  <2>1. \A u \in Identifier : Holds(u, s) => Holds(u, s)' \/ s \in lost'
    BY <1>4 DEF SubmissionNotFound, JudgingRejects, Drop, Holds, Goto, TypeInv, TypeOK
  <2> QED
    BY <1>4, <2>1, DoubledStays DEF SubmissionNotFound, JudgingRejects, Drop
<1>5. CASE SetSubmission(w) \/ GetSubmission(w) \/ JudgingFails(w)
  <2>1. \A u \in Identifier : Holds(u, s) => Holds(u, s)'
    BY <1>5 DEF SetSubmission, GetSubmission, JudgingFails, Holds, Holding, Goto, TypeInv, TypeOK
  <2> QED
    BY <1>5, <2>1, DoubledStays DEF SetSubmission, GetSubmission, JudgingFails, BetweenJobs
<1>6. CASE LoopAgain(w) \/ LeaveLoop(w) \/ PopTimesOut(w) \/ DeleteSubmission(w) \/ Exit(w)
  <2>1. \A u \in Identifier : Holds(u, s) => Holds(u, s)'
    BY <1>6 DEF LoopAgain, LeaveLoop, PopTimesOut, DeleteSubmission, Exit, Holds, Holding, Goto,
       TypeInv, TypeOK
  <2>2. UNCHANGED <<lost, job_list>>
    BY <1>6 DEF LoopAgain, LeaveLoop, PopTimesOut, DeleteSubmission, Exit, BetweenJobs
  <2> QED
    BY <2>1, <2>2, DoubledStays
<1> QED
  BY <1>1, <1>2, <1>3, <1>4, <1>5, <1>6 DEF WorkerStep, Writes

LEMMA DoubledKill ==
  ASSUME TypeInv, NEW s \in Submission, Doubled(s), NEW w \in Identifier, Kill(w),
         UNCHANGED <<job_list, submission_id>>
  PROVE  Doubled(s)'
<1>1. \A u \in Identifier : Holds(u, s) => Holds(u, s)' \/ s \in lost'
  BY DEF Kill, InHand, Holds, TypeInv, TypeOK
<1> QED
  BY <1>1, DoubledStays DEF Kill

LEMMA DoubledMishap ==
  ASSUME TypeInv, NEW s \in Submission, Doubled(s), NEW w \in Identifier,
         Crash(w) \/ Stall(w) \/ RedisError(w) \/ ReplyLost(w)
  PROVE  Doubled(s)'
<1> USE DEF redis, processes
<1>1. CASE Crash(w)
  BY <1>1, DoubledKill DEF Crash
<1>2. CASE Stall(w)
  BY <1>2, DoubledStays DEF Stall, Holds
<1>3. CASE RedisError(w)
  <2>1. CASE Kill(w)
    BY <1>3, <2>1, DoubledKill DEF RedisError
  <2>2. CASE Goto(w, "failed") /\ UNCHANGED lost
    <3>1. \A u \in Identifier : Holds(u, s) => Holds(u, s)'
      BY <1>3, <2>2 DEF RedisError, Holds, Holding, Goto, TypeInv, TypeOK
    <3> QED
      BY <1>3, <2>2, <3>1, DoubledStays DEF RedisError
  <2> QED
    BY <1>3, <2>1, <2>2 DEF RedisError, Raise
<1>4. CASE ReplyLost(w)
  <2>1. job_list # <<>> /\ job_list' = Tail(job_list) /\ lost' = lost \cup {Head(job_list)}
    BY <1>4 DEF ReplyLost
  <2>2. /\ QueuedTwice(s) => QueuedTwice(s)' \/ s = Head(job_list)
        /\ Queued(s) => Queued(s)' \/ s = Head(job_list)
    BY <2>1, TakeKeeps
  <2>3. \A u \in Identifier : Holds(u, s) => Holds(u, s)'
    BY <1>4 DEF ReplyLost, Holds, Holding, Goto, TypeInv, TypeOK
  <2> QED
    BY <2>1, <2>2, <2>3 DEF Doubled, HeldTwice
<1> QED
  BY <1>1, <1>2, <1>3, <1>4

LEMMA DoubledOutside ==
  ASSUME TypeInv, Sent, StuckDoubled, Outside
  PROVE  StuckDoubled'
<1> SUFFICES ASSUME opc' \in {"clear", "terminate"}, stuck' # None, Pending(stuck)'
             PROVE  Doubled(stuck)'
  BY DEF StuckDoubled
<1>1. opc' = opc /\ stuck' = stuck /\ stuck \in Submission
  BY OutsideFrame DEF orchestrator, sweep, TypeInv, TypeOK
<1>2. PICK s \in Submission : s = stuck
  BY <1>1
<1>3. verdict'[s] = "PD" /\ verdict[s] # "absent"
  BY <1>1, <1>2 DEF Pending, Sent, Mentions
<1>4. Pending(s)
  <2>1. CASE ApiStep
    BY <2>1, <1>3, JudgeAssumption
    DEF ApiStep, Commit, Enqueue, EnqueueFails, DeleteRow, Pending, TypeInv, TypeOK
  <2>2. CASE ManagerStops
    BY <2>2, <1>3 DEF ManagerStops, Pending, rows
  <2>3. CASE \E w \in Identifier : WorkerStep(w)
    <3>1. PICK w \in Identifier : WorkerStep(w)
      BY <2>3
    <3>2. CASE \E v \in FinalVerdict : Writes(w, v)
      BY <3>2, <1>3, JudgeAssumption DEF Writes, UpdateResult, UpdateUnanswered,
         WriteVerdict, Pending, RowState, TypeInv, TypeOK
    <3>3. CASE ~ \E v \in FinalVerdict : Writes(w, v)
      BY <3>1, <3>3, <1>3 DEF WorkerStep, Writes, LoopAgain, LeaveLoop, Pop, PopTimesOut,
         SetSubmission, GetSubmission, SubmissionNotFound, JudgingRejects, JudgingFails, Retry,
         DeleteSubmission, Exit, Drop, BetweenJobs, rows, Pending
    <3> QED
      BY <3>2, <3>3
  <2>4. CASE \E w \in Identifier : Crash(w) \/ Stall(w) \/ RedisError(w) \/ ReplyLost(w)
    BY <2>4, <1>3 DEF Crash, Stall, RedisError, ReplyLost, rows, Pending
  <2> QED
    BY <2>1, <2>2, <2>3, <2>4 DEF Outside
<1>5. Doubled(s)
  BY <1>1, <1>2, <1>4 DEF StuckDoubled
<1>6. CASE ManagerStops
  <2>1. Doubled(s)'
    BY <1>5, <1>6, DoubledStays DEF ManagerStops, redis, processes, Holds
  <2> QED
    BY <2>1, <1>1, <1>2
<1>7. Doubled(s)'
  BY <1>3, <1>5, <1>6, <1>1, <1>2, DoubledApi, DoubledWorker, DoubledMishap DEF Outside
<1> QED
  BY <1>1, <1>2, <1>7

LEMMA DoubledOrchestrator ==
  ASSUME TypeInv, Sent, JobAccounted, StuckDoubled, OrchestratorStep
  PROVE  StuckDoubled'
<1> SUFFICES ASSUME opc' \in {"clear", "terminate"}, stuck' # None, Pending(stuck)'
             PROVE  Doubled(stuck)'
  BY DEF StuckDoubled
<1> USE DEF Elsewhere, Advance
<1>1. CASE RequeueStuck
  <2>1. stuck \in Submission /\ stuck' = stuck /\ Pending(stuck)
    BY <1>1 DEF RequeueStuck, sweep, rows, Pending, TypeInv, TypeOK
  <2>2. PICK s \in Submission : s = stuck
    BY <2>1
  <2>3. Queued(s)' /\ (Queued(s) => QueuedTwice(s)')
    BY <1>1, <2>2, PushKeeps DEF RequeueStuck, lpush
  <2>4. s \notin unsent
    BY <2>2 DEF Sent, Mentions
  <2>5. Queued(s) \/ s \in lost \/ \E w \in Identifier : Holds(w, s)
    BY <2>1, <2>2, <2>4 DEF JobAccounted
  <2>6. lost' = lost /\ \A w \in Identifier : Holds(w, s)' <=> Holds(w, s)
    BY <1>1 DEF RequeueStuck, Holds
  <2>7. Doubled(s)'
    BY <2>3, <2>5, <2>6 DEF Doubled
  <2> QED
    BY <2>1, <2>2, <2>7
<1>2. CASE ClearKeys
  <2>1. stuck \in Submission /\ stuck' = stuck /\ Pending(stuck) /\ opc = "clear"
    BY <1>2 DEF ClearKeys, sweep, rows, Pending, TypeInv, TypeOK
  <2>2. PICK s \in Submission : s = stuck
    BY <2>1
  <2>3. Doubled(s)
    BY <2>1, <2>2, JudgeAssumption DEF StuckDoubled
  <2>4. Doubled(s)'
    BY <1>2, <2>3, DoubledStays DEF ClearKeys, Holds
  <2> QED
    BY <2>1, <2>2, <2>4
<1>3. ~ ReadStuck
  BY DEF ReadStuck
<1> QED
  BY <1>1, <1>2, <1>3
  DEF OrchestratorStep, StartCheck, Reap, FoundHealthy, FoundFrozen, TerminateFrozen, EndCheck,
      Scale, StartProcess, AppendWorker, RegisterWorker, PopWorker, FlagWorker, WorkerStopped,
      ForceKill, Shutdown, JoinAll, NextOf

\* Whatever happens between the steps of check_heartbeat, a worker's own retry
\* and the death of another worker included, the submission of a frozen worker
\* does not end with the worker when the orchestrator terminates it.
THEOREM StuckIsRequeued == Spec => []StuckRequeued
<1>1. Init => StuckDoubled
  BY DEF Init, StuckDoubled
<1>2. TypeInv /\ Sent /\ JobAccounted /\ StuckDoubled /\ [Next]_vars => StuckDoubled'
  <2> SUFFICES ASSUME TypeInv, Sent, JobAccounted, StuckDoubled, [Next]_vars
               PROVE  StuckDoubled'
    OBVIOUS
  <2>1. CASE UNCHANGED vars
    BY <2>1 DEF vars, redis, rows, processes, orchestrator, sweep, StuckDoubled, Pending,
       Doubled, QueuedTwice, HeldTwice, Queued, Holds
  <2>2. CASE Abort
    BY <2>2, AbortFrame DEF StuckDoubled
  <2> QED
    BY <2>1, <2>2, NextParts, DoubledOutside, DoubledOrchestrator
<1>3. TypeInv /\ StuckDoubled => StuckRequeued
  <2> SUFFICES ASSUME TypeInv, Doubled(stuck)
               PROVE  \/ Queued(stuck) \/ stuck \in lost
                      \/ \E w \in Identifier \ {Head(rest)} : Holds(w, stuck)
    BY DEF StuckDoubled, StuckRequeued
  <2> QED
    BY DEF Doubled, QueuedTwice, HeldTwice, Queued, Range
<1> QED
  BY <1>1, <1>2, <1>3, TypeInvariant, SentInvariant, JobsAccounted, PTL DEF Spec
=============================================================================
