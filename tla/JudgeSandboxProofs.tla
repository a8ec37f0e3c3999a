------------------------- MODULE JudgeSandboxProofs -------------------------
(***************************************************************************)
(* Theorems about JudgeSandbox: jobs drive the pools of SandboxPool and do *)
(* nothing to them that SandboxPool does not allow, so what is proved of   *)
(* the pools holds in the service; and no job is starved out of it.        *)
(***************************************************************************)
EXTENDS JudgeSandbox, SandboxPoolProofs

LEMMA PoolSimulation ==
  ASSUME JobTypeOK, [ServiceNext]_service
  PROVE  [Next]_vars
<1>1. CASE (\E s \in Submission : Submit(s)) \/ UNCHANGED service
  BY <1>1 DEF Submit, service, pools
<1>2. CASE \E w \in Worker : TakeJob(w)
  <2>1. PICK w \in Worker : TakeJob(w)
    BY <1>2
  <2>2. language[Head(job_list)] \in Language
    BY <2>1, JobAssumption, HeadTailProperties DEF TakeJob, JobTypeOK
  <2> QED
    BY <2>1, <2>2 DEF TakeJob, Next
<1>3. CASE \E w \in Worker : \/ GetSandbox(w) \/ NoSandbox(w) \/ Announce(w)
                             \/ JobJudged(w) \/ JobFails(w) \/ LeaseLost(w)
  BY <1>3 DEF GetSandbox, NoSandbox, Announce, JobJudged, JobFails, LeaseLost, Next, LeaseStep
<1>4. CASE PoolStep
  BY <1>4 DEF PoolStep, Next
<1> QED
  BY <1>1, <1>2, <1>3, <1>4 DEF ServiceNext, JobStep

LeaseTypeOK ==
  /\ wpc \in [Worker -> {"idle", "waiting", "leased", "using"}]
  /\ wants \in [Worker -> Language]

JobInv == LeaseTypeOK /\ JobTypeOK /\ StarvedJobsKept

LEMMA RangeOfAppend ==
  ASSUME NEW S, NEW q \in Seq(S), NEW e \in S
  PROVE  Range(Append(q, e)) = Range(q) \cup {e}
<1>1. /\ DOMAIN q = 1..Len(q) /\ DOMAIN Append(q, e) = 1..(Len(q) + 1) /\ Len(q) \in Nat
      /\ \A i \in 1..Len(q) : Append(q, e)[i] = q[i]
      /\ Append(q, e)[Len(q) + 1] = e
  BY AppendProperties, LenProperties
<1>2. \A i \in DOMAIN Append(q, e) : i \in DOMAIN q \/ i = Len(q) + 1
  BY <1>1
<1>3. \A i \in DOMAIN q : i \in DOMAIN Append(q, e)
  BY <1>1
<1>4. Len(q) + 1 \in DOMAIN Append(q, e)
  BY <1>1
<1> QED
  BY <1>1, <1>2, <1>3, <1>4 DEF Range

LEMMA RangeOfTail ==
  ASSUME NEW S, NEW q \in Seq(S), q # <<>>
  PROVE  /\ Head(q) \in S /\ Tail(q) \in Seq(S)
         /\ Range(q) = {Head(q)} \cup Range(Tail(q))
<1>1. /\ Len(q) \in Nat /\ Len(q) > 0 /\ DOMAIN q = 1..Len(q) /\ Head(q) = q[1]
      /\ Head(q) \in S /\ Tail(q) \in Seq(S)
      /\ \A i \in 1..Len(Tail(q)) : Tail(q)[i] = q[i + 1]
      /\ DOMAIN Tail(q) = 1..(Len(q) - 1)
  BY HeadTailProperties, LenProperties, EmptySeq
<1>2. \A i \in DOMAIN Tail(q) : Tail(q)[i] = q[i + 1] /\ i + 1 \in DOMAIN q
  BY <1>1
<1>3. \A i \in DOMAIN q : i = 1 \/ (i - 1 \in DOMAIN Tail(q) /\ Tail(q)[i - 1] = q[i])
  BY <1>1
<1>4. 1 \in DOMAIN q
  BY <1>1
<1>5. \A x \in Range(Tail(q)) : x \in Range(q)
  BY <1>2 DEF Range
<1>6. \A x \in Range(q) : x = Head(q) \/ x \in Range(Tail(q))
  BY <1>1, <1>3 DEF Range
<1>7. Head(q) \in Range(q)
  BY <1>1, <1>4 DEF Range
<1> QED
  BY <1>1, <1>5, <1>6, <1>7

\* What the steps of the pools do to a worker that goes on with its job.
LEMMA JobGoesOn ==
  ASSUME JobInv, NEW w \in Worker, UNCHANGED <<jobs, wants>>,
         wpc[w] # "idle", NEW x \in {"leased", "using"}, wpc' = [wpc EXCEPT ![w] = x]
  PROVE  JobInv'
<1>1. JobTypeOK' /\ LeaseTypeOK'
  BY DEF JobInv, JobTypeOK, LeaseTypeOK, jobs
<1>2. \A u \in Worker : wpc'[u] = IF u = w THEN x ELSE wpc[u]
  BY DEF JobInv, LeaseTypeOK
<1>3. StarvedJobsKept'
  BY <1>2 DEF JobInv, StarvedJobsKept, Pending, jobs
<1> QED
  BY <1>1, <1>3 DEF JobInv

\* The worker has ended with its job, which is judged, back or lost.
LEMMA JobEnds ==
  ASSUME JobInv, NEW w \in Worker, Free(w), UNCHANGED wants,
         wpc' = [wpc EXCEPT ![w] = "idle"], hand[w] # None,
         \/ RetryJob(w)
         \/ lost' = lost \cup {hand[w]} /\ UNCHANGED <<job_list, verdict>>
         \/ verdict' = [verdict EXCEPT ![hand[w]] = "final"] /\ UNCHANGED <<job_list, lost>>
  PROVE  JobInv'
<1>1. hand[w] \in Submission /\ hand \in [Worker -> Submission \cup {None}]
  BY DEF JobInv, JobTypeOK
<1>2. \A u \in Worker : /\ wpc'[u] = IF u = w THEN "idle" ELSE wpc[u]
                        /\ hand'[u] = IF u = w THEN None ELSE hand[u]
  BY <1>1 DEF Free, JobInv, LeaseTypeOK
<1>3. /\ job_list' \in Seq(Submission) /\ Range(job_list) \subseteq Range(job_list')
      /\ RetryJob(w) => hand[w] \in Range(job_list')
  <2>1. CASE RetryJob(w)
    <3>1. job_list \in Seq(Submission) /\ job_list' = Append(job_list, hand[w])
      BY <2>1 DEF RetryJob, JobInv, JobTypeOK
    <3>2. Range(job_list') = Range(job_list) \cup {hand[w]} /\ job_list' \in Seq(Submission)
      BY <1>1, <3>1, RangeOfAppend, AppendProperties
    <3> QED
      BY <3>2
  <2>2. CASE ~ RetryJob(w)
    BY <2>2 DEF JobInv, JobTypeOK
  <2> QED
    BY <2>1, <2>2
<1>4. /\ verdict' \in [Submission -> {"absent", "PD", "final"}] /\ lost' \subseteq Submission
      /\ lost \subseteq lost'
  BY <1>1 DEF RetryJob, JobInv, JobTypeOK
<1>5. \/ hand[w] \in Range(job_list') \/ hand[w] \in lost' \/ verdict'[hand[w]] # "PD"
  <2>1. verdict \in [Submission -> {"absent", "PD", "final"}]
    BY DEF JobInv, JobTypeOK
  <2> QED
    BY <1>1, <1>3, <2>1
<1>6. \A s \in Submission : s # hand[w] => verdict'[s] = verdict[s]
  BY <1>1 DEF RetryJob, JobInv, JobTypeOK
<1>7. JobTypeOK' /\ LeaseTypeOK'
  BY <1>1, <1>3, <1>4 DEF JobInv, JobTypeOK, LeaseTypeOK, Free
<1>8. StarvedJobsKept'
  <2>1. ASSUME NEW s \in Submission, verdict'[s] = "PD"
        PROVE  s \in Range(job_list') \/ s \in lost' \/ \E u \in Worker : hand'[u] = s
    <3>1. CASE s = hand[w]
      BY <1>5, <2>1, <3>1
    <3>2. CASE s # hand[w]
      <4>1. s \in Range(job_list) \/ s \in lost \/ \E u \in Worker : hand[u] = s /\ u # w
        BY <1>6, <2>1, <3>2 DEF JobInv, StarvedJobsKept, Pending
      <4> QED
        BY <1>2, <1>3, <1>4, <4>1
    <3> QED
      BY <3>1, <3>2
  <2>2. \A u \in Worker : IF hand'[u] = None THEN wpc'[u] = "idle"
                          ELSE wpc'[u] # "idle" /\ wants'[u] = language[hand'[u]]
    BY <1>2 DEF JobInv, StarvedJobsKept
  <2> QED
    BY <2>1, <2>2 DEF StarvedJobsKept, Pending
<1> QED
  BY <1>7, <1>8 DEF JobInv

LEMMA JobInvStep ==
  ASSUME JobInv, [ServiceNext]_service
  PROVE  JobInv'
<1>1. ASSUME NEW s \in Submission, Submit(s)
      PROVE  JobInv'
  <2>1. /\ job_list \in Seq(Submission) /\ job_list' = Append(job_list, s)
        /\ verdict' = [verdict EXCEPT ![s] = "PD"] /\ UNCHANGED <<hand, lost, wpc, wants>>
    BY <1>1 DEF Submit, pools, vars, leases, JobInv, JobTypeOK
  <2>2. Range(job_list') = Range(job_list) \cup {s} /\ job_list' \in Seq(Submission)
    BY <2>1, RangeOfAppend, AppendProperties
  <2>3. \A t \in Submission : t # s => verdict'[t] = verdict[t]
    BY <2>1 DEF JobInv, JobTypeOK
  <2>4. JobTypeOK' /\ LeaseTypeOK'
    BY <2>1, <2>2 DEF JobInv, JobTypeOK, LeaseTypeOK
  <2>5. StarvedJobsKept'
    BY <2>1, <2>2, <2>3 DEF JobInv, StarvedJobsKept, Pending
  <2> QED
    BY <2>4, <2>5 DEF JobInv
<1>2. ASSUME NEW w \in Worker, TakeJob(w)
      PROVE  JobInv'
  <2> DEFINE s == Head(job_list)
  <2>1. /\ job_list \in Seq(Submission) /\ job_list # <<>> /\ job_list' = Tail(job_list)
        /\ hand' = [hand EXCEPT ![w] = s] /\ UNCHANGED <<verdict, lost>>
        /\ wpc[w] = "idle" /\ wpc' = [wpc EXCEPT ![w] = "waiting"]
        /\ wants' = [wants EXCEPT ![w] = language[s]]
    BY <1>2 DEF TakeJob, Ask, JobInv, JobTypeOK
  <2>2. s \in Submission /\ job_list' \in Seq(Submission)
        /\ Range(job_list) = {s} \cup Range(job_list')
    BY <2>1, RangeOfTail
  <2>3. hand[w] = None
    BY <2>1 DEF JobInv, StarvedJobsKept
  <2> HIDE DEF s
  <2>4. \A u \in Worker : /\ wpc'[u] = IF u = w THEN "waiting" ELSE wpc[u]
                          /\ hand'[u] = IF u = w THEN s ELSE hand[u]
                          /\ wants'[u] = IF u = w THEN language[s] ELSE wants[u]
    BY <2>1 DEF JobInv, JobTypeOK, LeaseTypeOK
  <2>5. JobTypeOK' /\ LeaseTypeOK'
    BY <2>1, <2>2, JobAssumption DEF JobInv, JobTypeOK, LeaseTypeOK
  <2>6. ASSUME NEW t \in Submission, verdict[t] = "PD"
        PROVE  t \in Range(job_list') \/ t \in lost \/ \E u \in Worker : hand'[u] = t
    <3>1. t \in Range(job_list) \/ t \in lost \/ \E u \in Worker : hand[u] = t /\ u # w
      BY <2>3, <2>6, JobAssumption DEF JobInv, StarvedJobsKept, Pending
    <3> QED
      BY <2>2, <2>4, <3>1
  <2>7. \A u \in Worker : IF hand'[u] = None THEN wpc'[u] = "idle"
                          ELSE wpc'[u] # "idle" /\ wants'[u] = language[hand'[u]]
    BY <2>2, <2>4, JobAssumption DEF JobInv, StarvedJobsKept
  <2>8. StarvedJobsKept'
    BY <2>1, <2>6, <2>7 DEF StarvedJobsKept, Pending
  <2> QED
    BY <2>5, <2>8 DEF JobInv
<1>3. ASSUME NEW w \in Worker, GetSandbox(w) \/ Announce(w)
      PROVE  JobInv'
  BY <1>3, JobGoesOn DEF GetSandbox, Announce, Acquire, Publish
<1>4. ASSUME NEW w \in Worker,
             NoSandbox(w) \/ JobJudged(w) \/ JobFails(w) \/ LeaseLost(w)
      PROVE  JobInv'
  <2>1. wpc[w] # "idle" /\ wpc' = [wpc EXCEPT ![w] = "idle"] /\ UNCHANGED wants
    BY <1>4 DEF NoSandbox, JobJudged, JobFails, LeaseLost, AcquireTimesOut, Release, EventLost
  <2>2. hand[w] # None
    BY <2>1 DEF JobInv, StarvedJobsKept
  <2>3. /\ Free(w)
        /\ \/ RetryJob(w)
           \/ lost' = lost \cup {hand[w]} /\ UNCHANGED <<job_list, verdict>>
           \/ verdict' = [verdict EXCEPT ![hand[w]] = "final"] /\ UNCHANGED <<job_list, lost>>
    BY <1>4 DEF NoSandbox, JobJudged, JobFails, LeaseLost, RetryJob
  <2> QED
    BY <2>1, <2>2, <2>3, JobEnds
<1>5. CASE (PoolStep /\ UNCHANGED jobs) \/ UNCHANGED service
  <2>1. UNCHANGED <<jobs, wpc, wants>>
    BY <1>5 DEF PoolStep, CreatorStep, EnterLoop, GetTask, GetTimesOut, CreateSandbox,
       CreateFails, SettlePending, PushReplyLost, ManagerStep, InitialPool, EnterManagerLoop,
       HandleEvent, SeeShutdown, Stop, JoinCreators, CountPool, PopWarm, EndManager,
       ManagerFails, CleanPoolFails, RequestShutdown, leases, service, pools, vars
  <2> QED
    BY <2>1 DEF JobInv, JobTypeOK, LeaseTypeOK, StarvedJobsKept, Pending, jobs
<1> QED
  BY <1>1, <1>2, <1>3, <1>4, <1>5 DEF ServiceNext, JobStep

LEMMA JobInvariant == ServiceSpec => []JobInv
<1>1. ServiceInit => JobInv
  BY DEF ServiceInit, Init, JobInv, JobTypeOK, LeaseTypeOK, StarvedJobsKept, Pending
<1>2. JobInv /\ [ServiceNext]_service => JobInv'
  BY JobInvStep
<1> QED
  BY <1>1, <1>2, PTL DEF ServiceSpec

\* Whatever the jobs are and in whatever order they come, fail and are tried
\* again, no pending job is starved out of the service, also with a dead manager.
THEOREM JobsKept == ServiceSpec => []StarvedJobsKept
<1>1. JobInv => StarvedJobsKept
  BY DEF JobInv
<1> QED
  BY <1>1, JobInvariant, PTL

\* With the jobs as their only customers the pools still behave as SandboxPool
\* says: the composition implements it.
THEOREM ImplementsPools == ServiceSpec => Spec
<1>1. ServiceInit => Init
  BY DEF ServiceInit
<1>2. JobInv /\ [ServiceNext]_service => [Next]_vars
  BY PoolSimulation DEF JobInv
<1> QED
  BY <1>1, <1>2, JobInvariant, PTL DEF ServiceSpec, Spec

\* So the counter of pending creations is exact in the service, and its pools
\* are neither over- nor underprovisioned beyond what SandboxPool allows.
THEOREM PoolsInService ==
  ServiceSpec => [](PendingExact /\ NoOverProvision /\ PoolProvisioned)
BY ImplementsPools, PendingIsExact, NeverOverProvisioned, AlwaysProvisioned, PTL
=============================================================================
