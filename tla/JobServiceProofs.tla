-------------------------- MODULE JobServiceProofs --------------------------
(***************************************************************************)
(* The judging service implements JobService, under every fault of Judge.  *)
(* It rests on AtMostOnce: an id that a process has let go of, and that no *)
(* accident has sent to the list again, is nowhere any more, so nobody can *)
(* judge it later.                                                         *)
(***************************************************************************)
EXTENDS JudgeProofs

\* A step that writes no verdict drops ids, sends ids to the list once more, or
\* is not seen.
LEMMA AccidentStep ==
  ASSUME TypeInv, TypeInv', Sent', verdict' = verdict, lost \subseteq lost',
         repeated \subseteq repeated'
  PROVE  [Promise!Next]_<<Shown, repeated>>
<1> DEFINE S == {s \in lost' \ lost : Pending(s)}
           R == repeated' \ repeated
<1>1. Shown' = [s \in Submission |-> IF s \in S THEN "abandoned" ELSE Shown[s]]
  BY DEF Shown, Pending
<1>2. repeated' = repeated \cup R
  OBVIOUS
<1>3. CASE S \cup R = {}
  <2>1. \A s \in Submission : s \notin S
    BY <1>3
  <2>2. \A s \in Submission : Shown'[s] = Shown[s]
    BY <1>1, <2>1
  <2>3. Shown' = Shown
    BY <2>2 DEF Shown
  <2> QED
    BY <1>2, <1>3, <2>3
<1>4. CASE S \cup R # {}
  <2>1. lost' \subseteq Submission /\ repeated' \subseteq Submission
    BY DEF TypeInv, TypeOK
  <2>2. S \in SUBSET Promise!Waiting
    BY <2>1, JudgeAssumption DEF Promise!Waiting, Shown, Pending
  <2>3. \A s \in R : verdict[s] # "absent"
    BY <2>1 DEF Sent, Mentions
  <2>4. \A s \in R : Shown[s] # "absent"
    BY <2>1, <2>3 DEF Shown
  <2>5. R \in SUBSET Promise!Submitted
    BY <2>1, <2>4 DEF Promise!Submitted
  <2>6. Promise!Accident(S, R)
    BY <1>1, <1>2, <1>4 DEF Promise!Accident
  <2> QED
    BY <2>2, <2>5, <2>6 DEF Promise!Next
<1> QED
  BY <1>3, <1>4

LEMMA JudgeStep ==
  ASSUME TypeInv, TypeInv', Sent, Sent', AtMostOnce, NEW w \in Identifier,
         NEW v \in FinalVerdict, Writes(w, v)
  PROVE  [Promise!Next]_<<Shown, repeated>>
<1> DEFINE s == submission_id[w]
<1>1. /\ s \in Submission /\ Holds(w, s) /\ lost' = lost
      /\ verdict' = [verdict EXCEPT ![s] = IF @ = "gone" THEN @ ELSE v]
      /\ repeated' \in {repeated, repeated \cup {s}}
  BY DEF Writes, UpdateResult, UpdateUnanswered, WriteVerdict, TypeInv, WorkerLocals, Bound,
     Holds, Holding
<1>2. verdict[s] # "absent"
  BY <1>1 DEF Sent, Mentions, Holds
<1>3. s \in repeated \/ (verdict[s] \notin FinalVerdict /\ s \notin lost)
  BY <1>1 DEF AtMostOnce, Nowhere
<1>4. /\ verdict \in [Submission -> RowState \cup FinalVerdict]
      /\ v \notin {"absent", "gone", "PD"}
  BY JudgeAssumption DEF TypeInv, TypeOK, RowState
<1> HIDE DEF s
<1>5. CASE verdict[s] = "gone"
  BY <1>1, <1>4, <1>5, AccidentStep
<1>6. CASE verdict[s] # "gone"
  <2>1. verdict' = [verdict EXCEPT ![s] = v]
    BY <1>1, <1>6
  <2>2. Shown' = [Shown EXCEPT ![s] = v]
    BY <1>1, <1>4, <2>1 DEF Shown, Pending
  <2>3. CASE verdict[s] = "PD" /\ s \notin lost
    <3>1. s \in Promise!Waiting
      BY <1>1, <2>3 DEF Promise!Waiting, Shown, Pending
    <3> QED
      BY <1>1, <2>2, <3>1 DEF Promise!Next, Promise!Judge
  <2>4. CASE verdict[s] # "PD" \/ s \in lost
    <3>1. verdict[s] \in FinalVerdict \/ (verdict[s] = "PD" /\ s \in lost)
      BY <1>1, <1>2, <1>4, <1>6, <2>4 DEF RowState
    <3>2. s \in repeated
      BY <1>3, <3>1
    <3>3. Shown[s] \in FinalVerdict \cup {"abandoned"}
      BY <1>1, <3>1, JudgeAssumption DEF Shown, Pending, RowState
    <3>4. s \in Promise!Reopened
      BY <3>2, <3>3 DEF Promise!Reopened
    <3> QED
      BY <1>1, <2>2, <3>4 DEF Promise!Next, Promise!Judge
  <2> QED
    BY <2>3, <2>4
<1> QED
  BY <1>5, <1>6

LEMMA PromiseStep ==
  ASSUME TypeInv, TypeInv', Sent, Sent', AtMostOnce, [Next]_vars
  PROVE  [Promise!Next]_<<Shown, repeated>>
<1>1. CASE \E s \in Submission : Commit(s)
  <2>1. PICK s \in Submission : Commit(s)
    BY <1>1
  <2>2. /\ verdict[s] = "absent" /\ s \notin lost /\ UNCHANGED <<lost, repeated>>
        /\ verdict' = [verdict EXCEPT ![s] = "PD"]
    BY <2>1 DEF Commit, Sent, Mentions
  <2>3. Shown[s] = "absent" /\ Shown' = [Shown EXCEPT ![s] = "pending"]
    BY <2>2 DEF Shown, Pending, TypeInv, TypeOK
  <2> QED
    BY <2>2, <2>3 DEF Promise!Next, Promise!Submit
<1>2. CASE \E s \in Submission : DeleteRow(s)
  <2>1. PICK s \in Submission : DeleteRow(s)
    BY <1>2
  <2>2. /\ verdict[s] \notin {"absent", "gone"} /\ UNCHANGED <<lost, repeated>>
        /\ verdict' = [verdict EXCEPT ![s] = "gone"]
        /\ verdict \in [Submission -> RowState \cup FinalVerdict]
    BY <2>1 DEF DeleteRow, TypeInv, TypeOK
  <2>3. Shown' = [Shown EXCEPT ![s] = "deleted"]
    BY <2>2 DEF Shown, Pending
  <2>4. Shown[s] \notin {"absent", "deleted"}
    BY <2>2, JudgeAssumption DEF Shown, Pending, RowState
  <2> QED
    BY <2>2, <2>3, <2>4 DEF Promise!Next, Promise!Delete
<1>3. CASE \E w \in Identifier, v \in FinalVerdict : Writes(w, v)
  BY <1>3, JudgeStep
<1>4. CASE \/ \E s \in Submission : Enqueue(s) \/ EnqueueFails(s)
           \/ Accident \/ ManagerStops \/ UNCHANGED vars
  <2>1. verdict' = verdict
    BY <1>4
    DEF Enqueue, EnqueueFails, Accident, Crash, Stall, RedisError, ReplyLost,
        KeyboardInterrupt, OrchestratorError, ManagerStops, vars, rows
  <2> QED
    BY <2>1, RepeatedGrows, AccidentStep
<1>5. CASE OrchestratorStep
  <2>1. verdict' = verdict
    BY <1>5
    DEF OrchestratorStep, StartCheck, Reap, FoundHealthy, FoundFrozen, ReadStuck,
        RequeueStuck, ClearKeys, TerminateFrozen, EndCheck, Scale, StartProcess, AppendWorker,
        RegisterWorker, PopWorker, FlagWorker, WorkerStopped, ForceKill, Shutdown, JoinAll,
        Elsewhere, rows
  <2> QED
    BY <2>1, RepeatedGrows, AccidentStep
<1>6. ASSUME NEW w \in Identifier, WorkerStep(w), ~ \E v \in FinalVerdict : Writes(w, v)
      PROVE  [Promise!Next]_<<Shown, repeated>>
  <2>1. verdict' = verdict
    BY <1>6 DEF WorkerStep, Writes, LoopAgain, LeaveLoop, Pop, PopTimesOut, SetSubmission,
       GetSubmission, SubmissionNotFound, JudgingRejects, JudgingFails, Retry,
       DeleteSubmission, Exit, Drop, BetweenJobs, rows
  <2> QED
    BY <2>1, RepeatedGrows, AccidentStep
<1> QED
  BY <1>1, <1>2, <1>3, <1>4, <1>5, <1>6 DEF Next, ApiStep

\* Under every fault, the lost answer to a commit included, the service keeps
\* the promise of JobService: one verdict at most, and an id dropped by a crash,
\* a forced kill, an interrupt or a failed enqueue is never judged after all,
\* unless an accident has sent that very id to the list once more.
THEOREM ImplementsJobService == Spec => KeepsPromise
<1>1. Init => Promise!Init
  BY DEF Init, Promise!Init, Shown
<1>2. TypeInv /\ TypeInv' /\ Sent /\ Sent' /\ AtMostOnce /\ [Next]_vars
        => [Promise!Next]_<<Shown, repeated>>
  BY PromiseStep
<1> QED
  BY <1>1, <1>2, TypeInvariant, SentInvariant, JobsAtMostOnce, PTL
  DEF Spec, KeepsPromise, Promise!Spec
=============================================================================
