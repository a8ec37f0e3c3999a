---------------------------- MODULE SandboxPool ----------------------------
(***************************************************************************)
(* The warm pools of the sandbox manager (src/judge/sandbox_manager) and   *)
(* the judge workers that lease from them (src/judge/judge_worker).        *)
(*                                                                         *)
(* The manager's main thread turns one published event into one call of    *)
(* maintain_pool; creator threads take the creation tasks it queues, push  *)
(* each new container to the warm list of its language and only then, under *)
(* pending_lock, count the task as done.  Containers are interchangeable,  *)
(* so a warm list is its length.                                           *)
(***************************************************************************)
EXTENDS Integers, Sequences, FiniteSets

CONSTANTS
  Language,     \* the members of the Language enum
  Creator,      \* the creator threads, CONTAINER_WORKER_COUNT of them
  Worker,       \* the judge worker processes
  Threshold,    \* CONTAINER_POOL_THRESHOLD
  EventBound,   \* bound: leases not yet announced and events not yet read
  BrokenImage,  \* languages whose containers never pass the health check
  Faults        \* bound: how often each kind of fault happens

FaultKind == {"create", "reply", "lease", "manager"}

ASSUME PoolAssumption ==
  /\ IsFiniteSet(Creator) /\ IsFiniteSet(Worker)
  /\ Threshold \in Nat /\ EventBound \in Nat
  /\ BrokenImage \subseteq Language
  /\ Faults \in [FaultKind -> Nat]

VARIABLES
  warm,        \* length of each warm list in Redis
  events,      \* published events the manager has not read, as languages
  task_queue,  \* creation tasks, in order
  pending,     \* self.pending
  cpc,         \* where each creator thread is
  task,        \* the language of its task
  wpc,         \* where each judge worker is
  wants,       \* the language it leases
  manager,     \* where the manager's main thread is
  left,        \* languages its current loop over Language has left
  stop_event,  \* self.stop_event
  shutdown,    \* SHUTDOWN_KEY is "1"
  budget       \* faults still allowed

creators == <<cpc, task>>
leases == <<wpc, wants>>
control == <<manager, left, stop_event>>
vars == <<warm, events, task_queue, pending, creators, leases, control, shutdown, budget>>

Spend(k) == budget[k] > 0 /\ budget' = [budget EXCEPT ![k] = @ - 1]
Spent(k) == Faults[k] - budget[k]
-----------------------------------------------------------------------------
(* Judge workers: acquire_warm_sandbox, publish_event, the container's use *)

Announcing == {w \in Worker : wpc[w] \in {"waiting", "leased"}}

Ask(w, l) ==
  /\ wpc[w] = "idle"
  /\ Cardinality(Announcing) + Len(events) < EventBound
  /\ wpc' = [wpc EXCEPT ![w] = "waiting"]
  /\ wants' = [wants EXCEPT ![w] = l]
  /\ UNCHANGED <<warm, events, task_queue, pending, creators, control, shutdown, budget>>

Acquire(w) ==
  /\ wpc[w] = "waiting" /\ warm[wants[w]] > 0
  /\ wpc' = [wpc EXCEPT ![w] = "leased"]
  /\ warm' = [warm EXCEPT ![wants[w]] = @ - 1]
  /\ UNCHANGED <<events, task_queue, pending, creators, wants, control, shutdown, budget>>

\* BRPOP returns nothing: TimeoutError, and no event is published.
AcquireTimesOut(w) ==
  /\ wpc[w] = "waiting" /\ warm[wants[w]] = 0
  /\ wpc' = [wpc EXCEPT ![w] = "idle"]
  /\ UNCHANGED <<warm, events, task_queue, pending, creators, wants, control, shutdown, budget>>

Publish(w) ==
  /\ wpc[w] = "leased"
  /\ wpc' = [wpc EXCEPT ![w] = "using"]
  /\ events' = Append(events, wants[w])
  /\ UNCHANGED <<warm, task_queue, pending, creators, wants, control, shutdown, budget>>

\* The worker dies, or PUBLISH raises, with the container already leased.
EventLost(w) ==
  /\ wpc[w] = "leased"
  /\ Spend("lease")
  /\ wpc' = [wpc EXCEPT ![w] = "idle"]
  /\ UNCHANGED <<warm, events, task_queue, pending, creators, wants, control, shutdown>>

\* The container is stopped, and removed with it.
Release(w) ==
  /\ wpc[w] = "using"
  /\ wpc' = [wpc EXCEPT ![w] = "idle"]
  /\ UNCHANGED <<warm, events, task_queue, pending, creators, wants, control, shutdown, budget>>
-----------------------------------------------------------------------------
(* Creator threads: creator_worker, create_sandbox *)

\* Mutant: the loop does not look at stop_event.
EnterLoop_forever(c) ==
  /\ cpc[c] = "top"
  /\ cpc' = [cpc EXCEPT ![c] = "get"]
  /\ UNCHANGED <<warm, events, task_queue, pending, task, leases, control, shutdown, budget>>

EnterLoop(c) ==
  /\ cpc[c] = "top"
  /\ cpc' = [cpc EXCEPT ![c] = IF stop_event THEN "ended" ELSE "get"]
  /\ UNCHANGED <<warm, events, task_queue, pending, task, leases, control, shutdown, budget>>

GetTask(c) ==
  /\ cpc[c] = "get" /\ task_queue # <<>>
  /\ cpc' = [cpc EXCEPT ![c] = "creating"]
  /\ task' = [task EXCEPT ![c] = Head(task_queue)]
  /\ task_queue' = Tail(task_queue)
  /\ UNCHANGED <<warm, events, pending, leases, control, shutdown, budget>>

GetTimesOut(c) ==
  /\ cpc[c] = "get" /\ task_queue = <<>>
  /\ cpc' = [cpc EXCEPT ![c] = "top"]
  /\ UNCHANGED <<warm, events, task_queue, pending, task, leases, control, shutdown, budget>>

\* Container created, started, healthy and pushed to the warm list.
CreateSandbox(c) ==
  /\ cpc[c] = "creating" /\ task[c] \notin BrokenImage
  /\ cpc' = [cpc EXCEPT ![c] = "pushed"]
  /\ warm' = [warm EXCEPT ![task[c]] = @ + 1]
  /\ UNCHANGED <<events, task_queue, pending, task, leases, control, shutdown, budget>>

\* Mutant: the failed task is dropped.
Requeue_drops(c) ==
  /\ cpc' = [cpc EXCEPT ![c] = "top"]
  /\ UNCHANGED task_queue

\* Mutant: the failed task is the next one again.
Requeue_first(c) ==
  /\ cpc' = [cpc EXCEPT ![c] = "top"]
  /\ task_queue' = <<task[c]>> \o task_queue

\* The handler of any exception puts the task back, at the end of the queue.
Requeue(c) ==
  /\ cpc' = [cpc EXCEPT ![c] = "top"]
  /\ task_queue' = Append(task_queue, task[c])

\* Mutant: gives the task up in pending as well, as a finally clause would.
CreateFails_settles(c) ==
  /\ cpc[c] = "creating"
  /\ \/ task[c] \in BrokenImage /\ UNCHANGED budget
     \/ task[c] \notin BrokenImage /\ Spend("create")
  /\ Requeue(c)
  /\ pending' = [pending EXCEPT ![task[c]] = @ - 1]
  /\ UNCHANGED <<warm, events, task, leases, control, shutdown>>

\* Docker raised or the health check failed.
CreateFails(c) ==
  /\ cpc[c] = "creating"
  /\ \/ task[c] \in BrokenImage /\ UNCHANGED budget
     \/ task[c] \notin BrokenImage /\ Spend("create")
  /\ Requeue(c)
  /\ UNCHANGED <<warm, events, pending, task, leases, control, shutdown>>

\* LPUSH took effect but raised: the container is warm and its task is back.
PushReplyLost(c) ==
  /\ cpc[c] = "creating" /\ task[c] \notin BrokenImage
  /\ Spend("reply")
  /\ warm' = [warm EXCEPT ![task[c]] = @ + 1]
  /\ Requeue(c)
  /\ UNCHANGED <<events, pending, task, leases, control, shutdown>>

SettlePending(c) ==
  /\ cpc[c] = "pushed"
  /\ cpc' = [cpc EXCEPT ![c] = "top"]
  /\ pending' = [pending EXCEPT ![task[c]] = @ - 1]
  /\ UNCHANGED <<warm, events, task_queue, task, leases, control, shutdown, budget>>

CreatorStep(c) ==
  \/ EnterLoop(c) \/ GetTask(c) \/ GetTimesOut(c)
  \/ CreateSandbox(c) \/ CreateFails(c) \/ SettlePending(c)
-----------------------------------------------------------------------------
(* The manager's main thread: maintain_pool, clean_pool, run *)

Times(n, l) == [i \in 1..n |-> l]

\* Mutant: counts the warm containers only.
Deficit_warm_only(l) == Threshold - warm[l]

Deficit(l) == Threshold - (warm[l] + pending[l])

\* One step: pending_lock keeps the creators from changing pending, the length
\* of the warm list is read once, and the tasks are put for the creators only.
MaintainPool(l) ==
  IF Deficit(l) > 0
    THEN /\ pending' = [pending EXCEPT ![l] = @ + Deficit(l)]
         /\ task_queue' = task_queue \o Times(Deficit(l), l)
    ELSE UNCHANGED <<pending, task_queue>>

\* The language a loop over Language is at.
Current == CHOOSE l \in left : TRUE

InitialPool ==
  /\ manager = "starting" /\ left # {}
  /\ MaintainPool(Current)
  /\ left' = left \ {Current}
  /\ UNCHANGED <<warm, events, creators, leases, manager, stop_event, shutdown, budget>>

EnterManagerLoop ==
  /\ manager = "starting" /\ left = {}
  /\ manager' = "loop"
  /\ UNCHANGED <<warm, events, task_queue, pending, creators, leases, left, stop_event,
                 shutdown, budget>>

HandleEvent ==
  /\ manager = "loop" /\ ~ shutdown
  /\ events # <<>>
  /\ events' = Tail(events)
  /\ MaintainPool(Head(events))
  /\ UNCHANGED <<warm, creators, leases, control, shutdown, budget>>

\* The finally clause of run(): sets stop_event, then joins the threads.
Stop ==
  /\ manager' = "joining"
  /\ stop_event' = TRUE
  /\ left' = Language
  /\ UNCHANGED <<warm, events, task_queue, pending, creators, leases, shutdown>>

SeeShutdown ==
  /\ manager = "loop" /\ shutdown
  /\ Stop
  /\ UNCHANGED budget

\* Ctrl-C, or Redis raised in the main thread: the manager stops for good.
ManagerFails ==
  /\ manager \in {"starting", "loop"}
  /\ Spend("manager")
  /\ Stop

\* Mutant: cleans the pools without waiting for the creators.
JoinCreators_skips ==
  /\ manager = "joining"
  /\ manager' = "counting"
  /\ UNCHANGED <<warm, events, task_queue, pending, creators, leases, left, stop_event,
                 shutdown, budget>>

JoinCreators ==
  /\ manager = "joining"
  /\ \A c \in Creator : cpc[c] = "ended"
  /\ manager' = "counting"
  /\ UNCHANGED <<warm, events, task_queue, pending, creators, leases, left, stop_event,
                 shutdown, budget>>

\* The condition of the loop in clean_pool.
CountPool ==
  /\ manager = "counting" /\ left # {}
  /\ IF warm[Current] > 0
       THEN manager' = "popping" /\ UNCHANGED left
       ELSE left' = left \ {Current} /\ UNCHANGED manager
  /\ UNCHANGED <<warm, events, task_queue, pending, creators, leases, stop_event, shutdown, budget>>

\* RPOP finds a container to stop, or nothing if a worker was faster; the
\* exception that follows is logged and the loop goes on either way.
PopWarm ==
  /\ manager = "popping"
  /\ manager' = "counting"
  /\ warm' = [warm EXCEPT ![Current] = IF @ > 0 THEN @ - 1 ELSE 0]
  /\ UNCHANGED <<events, task_queue, pending, creators, leases, left, stop_event, shutdown, budget>>

\* clean_pool counts outside its try: an error of Redis there ends run().
CleanPoolFails ==
  /\ manager = "counting"
  /\ Spend("manager")
  /\ manager' = "failed"
  /\ UNCHANGED <<warm, events, task_queue, pending, creators, leases, left, stop_event, shutdown>>

EndManager ==
  /\ manager = "counting" /\ left = {}
  /\ manager' = "done"
  /\ UNCHANGED <<warm, events, task_queue, pending, creators, leases, left, stop_event,
                 shutdown, budget>>

ManagerStep ==
  \/ InitialPool \/ EnterManagerLoop \/ HandleEvent \/ SeeShutdown
  \/ JoinCreators \/ CountPool \/ PopWarm \/ EndManager

\* The orchestrator sets SHUTDOWN_KEY.
RequestShutdown ==
  /\ ~ shutdown /\ shutdown' = TRUE
  /\ UNCHANGED <<warm, events, task_queue, pending, creators, leases, control, budget>>
-----------------------------------------------------------------------------
Init ==
  /\ warm = [l \in Language |-> 0] /\ events = <<>>
  /\ task_queue = <<>> /\ pending = [l \in Language |-> 0]
  /\ cpc = [c \in Creator |-> "top"] /\ task \in [Creator -> Language]
  /\ wpc = [w \in Worker |-> "idle"] /\ wants \in [Worker -> Language]
  /\ manager = "starting" /\ left = Language /\ stop_event = FALSE
  /\ shutdown = FALSE
  /\ budget = Faults

LeaseStep(w) == Acquire(w) \/ AcquireTimesOut(w) \/ Publish(w) \/ Release(w)

Next ==
  \/ \E w \in Worker : LeaseStep(w) \/ EventLost(w) \/ \E l \in Language : Ask(w, l)
  \/ \E c \in Creator : CreatorStep(c) \/ PushReplyLost(c)
  \/ ManagerStep \/ ManagerFails \/ CleanPoolFails
  \/ RequestShutdown

Spec == Init /\ [][Next]_vars
-----------------------------------------------------------------------------
(* Properties *)

\* Every variable has its type; a warm list is never counted below zero, and
\* so is pending: a task is settled at most once.
TypeOK ==
  /\ warm \in [Language -> Nat] /\ events \in Seq(Language)
  /\ task_queue \in Seq(Language) /\ pending \in [Language -> Nat]
  /\ cpc \in [Creator -> {"top", "get", "creating", "pushed", "ended"}]
  /\ task \in [Creator -> Language]
  /\ wpc \in [Worker -> {"idle", "waiting", "leased", "using"}]
  /\ wants \in [Worker -> Language]
  /\ manager \in {"starting", "loop", "joining", "counting", "popping", "done", "failed"}
  /\ left \subseteq Language
  /\ stop_event \in BOOLEAN /\ shutdown \in BOOLEAN
  /\ budget \in [FaultKind -> Nat]

Positions(q, l) == {i \in DOMAIN q : q[i] = l}

Tasks(l) == Positions(task_queue, l)
At(pc, l) == {c \in Creator : cpc[c] = pc /\ task[c] = l}

\* The counter of pending creations is exact at every step, failures, retries
\* and lost replies included: it counts the tasks queued, the containers being
\* created and the containers pushed whose creator has yet to say so.
PendingExact ==
  \A l \in Language :
    pending[l] = Cardinality(Tasks(l)) + Cardinality(At("creating", l))
                 + Cardinality(At("pushed", l))

\* maintain_pool never provisions more than the threshold, whatever the
\* creators do between its reads: containers warm or on their way are at most
\* Threshold, and one more for each push whose reply was lost.
NoOverProvision ==
  \A l \in Language :
    warm[l] + Cardinality(Tasks(l)) + Cardinality(At("creating", l))
      <= Threshold + Spent("reply")

\* A refill of l is still to come: an event for it is, or will be, published.
RefillDue(l) ==
  \/ Positions(events, l) # {}
  \/ \E w \in Worker : wpc[w] = "leased" /\ wants[w] = l

\* The manager has filled the pool of l once and still reads events.
Maintained(l) == manager = "loop" \/ (manager = "starting" /\ l \notin left)

\* With no refill due, the containers warm or on their way are the threshold,
\* but for one per creator thread and one per event lost with its publisher:
\* a creation that fails is never forgotten, and what maintain_pool reads in
\* the window between push and settlement costs at most the threads' number.
PoolProvisioned ==
  \A l \in Language :
    Maintained(l) /\ ~ RefillDue(l) =>
      warm[l] + Cardinality(Tasks(l)) + Cardinality(At("creating", l))
        + Cardinality(Creator) + Spent("lease") >= Threshold

\* A manager that ends in good order leaves no warm container behind, however
\* the workers and the creators interleave with clean_pool.
DoneMeansEmpty ==
  manager = "done" =>
    /\ \A l \in Language : warm[l] = 0
    /\ \A c \in Creator : cpc[c] = "ended"

\* What the README promises, "warm container pool maintained ahead of time":
\* when nothing is on its way the pool of every sound image is full.
QuietPoolIsFull ==
  \A l \in Language \ BrokenImage :
    ( /\ manager = "loop" /\ task_queue = <<>>
      /\ \A c \in Creator : cpc[c] \in {"top", "get"}
      /\ ~ RefillDue(l) )
    => warm[l] >= Threshold

\* An empty pool of a sound image is filled again, even when another image is
\* broken and its creations fail and are queued again for ever.
PoolRefills ==
  \A l \in Language \ BrokenImage :
    (warm[l] = 0) ~> (warm[l] > 0 \/ manager \notin {"starting", "loop"})

\* Once shutdown is requested run() returns: the creators leave their loops
\* within one timeout of the queue, also while creations keep failing.
ShutdownEnds == shutdown ~> (manager \in {"done", "failed"})
=============================================================================
