------------------------- MODULE SandboxPoolProofs -------------------------
(***************************************************************************)
(* Theorems about SandboxPool, for every set of languages, number of       *)
(* creators and workers, threshold and budget of faults.                   *)
(***************************************************************************)
EXTENDS SandboxPool, SequenceTheorems, FiniteSetTheorems, FunctionTheorems, TLAPS

(* Counting in sequences *)

Bit(b) == IF b THEN 1 ELSE 0
Count(q, l) == Cardinality(Positions(q, l))

LEMMA HeadTail ==
  ASSUME NEW S, NEW q \in Seq(S), q # <<>>
  PROVE  Head(q) \in S /\ Tail(q) \in Seq(S)
  BY HeadTailProperties

LEMMA PositionsFinite ==
  ASSUME NEW S, NEW q \in Seq(S), NEW l
  PROVE  IsFiniteSet(Positions(q, l)) /\ Count(q, l) \in Nat
<1>1. IsFiniteSet(1..Len(q))
  BY FS_Interval, LenProperties
<1>2. Positions(q, l) \in SUBSET (1..Len(q))
  BY LenProperties DEF Positions
<1> QED
  BY <1>1, <1>2, FS_Subset, FS_CardinalityType DEF Count

LEMMA CountEmpty ==
  ASSUME NEW l
  PROVE  Count(<<>>, l) = 0
<1>1. Positions(<<>>, l) = {}
  BY DEF Positions
<1> QED
  BY <1>1, FS_EmptySet DEF Count

LEMMA CountAppend ==
  ASSUME NEW S, NEW q \in Seq(S), NEW e \in S, NEW l
  PROVE  Count(Append(q, e), l) = Count(q, l) + Bit(e = l)
<1> DEFINE n == Len(q) + 1
<1>1. /\ DOMAIN q = 1..Len(q)
      /\ DOMAIN Append(q, e) = 1..n
      /\ \A i \in 1..Len(q) : Append(q, e)[i] = q[i]
      /\ Append(q, e)[n] = e
      /\ Len(q) \in Nat
  BY AppendProperties, LenProperties
<1>2. n \notin Positions(q, l)
  BY <1>1 DEF Positions
<1>3. CASE e = l
  <2>1. Positions(Append(q, e), l) = Positions(q, l) \cup {n}
    BY <1>1, <1>3 DEF Positions
  <2> QED
    BY <2>1, <1>2, <1>3, PositionsFinite, FS_AddElement DEF Count, Bit
<1>4. CASE e # l
  <2>1. Positions(Append(q, e), l) = Positions(q, l)
    BY <1>1, <1>4 DEF Positions
  <2> QED
    BY <2>1, <1>4, PositionsFinite DEF Count, Bit
<1> QED
  BY <1>3, <1>4

LEMMA CountTail ==
  ASSUME NEW S, NEW q \in Seq(S), q # <<>>, NEW l
  PROVE  Count(q, l) = Count(Tail(q), l) + Bit(Head(q) = l)
<1> DEFINE T == Positions(Tail(q), l)
           R == Positions(q, l) \ {1}
           f == [i \in T |-> i + 1]
<1>1. /\ DOMAIN q = 1..Len(q)
      /\ Len(q) \in Nat \ {0}
      /\ DOMAIN Tail(q) = 1..(Len(q) - 1)
      /\ \A i \in 1..(Len(q) - 1) : Tail(q)[i] = q[i + 1]
      /\ Head(q) = q[1]
  BY HeadTailProperties, LenProperties, EmptySeq
<1>2. f \in Bijection(T, R)
  <2>1. \A i \in T : i \in Int /\ f[i] = i + 1
    BY <1>1 DEF Positions
  <2>2. \A i \in T : i + 1 \in R
    BY <1>1 DEF Positions
  <2>3. \A j \in R : j - 1 \in T /\ j = (j - 1) + 1
    BY <1>1 DEF Positions
  <2>4. f \in [T -> R]
    BY <2>2
  <2>5. \A i, j \in T : f[i] = f[j] => i = j
    BY <2>1
  <2>6. \A j \in R : \E i \in T : f[i] = j
    BY <2>1, <2>3
  <2> QED
    BY <2>4, <2>5, <2>6, Fun_IsBij
<1>3. IsFiniteSet(T) /\ IsFiniteSet(Positions(q, l)) /\ Count(q, l) \in Nat
  BY HeadTail, PositionsFinite
<1>4. Cardinality(R) = Count(Tail(q), l)
  <2>1. ExistsBijection(T, R)
    BY <1>2 DEF ExistsBijection
  <2> QED
    BY <2>1, <1>3, FS_Bijection DEF Count
<1>5. Cardinality(R) = IF 1 \in Positions(q, l) THEN Count(q, l) - 1 ELSE Count(q, l)
  BY <1>3, FS_RemoveElement DEF Count
<1>6. 1 \in Positions(q, l) <=> Head(q) = l
  BY <1>1 DEF Positions
<1> QED
  BY <1>3, <1>4, <1>5, <1>6 DEF Bit

LEMMA CountTimes ==
  ASSUME NEW S, NEW q \in Seq(S), NEW e \in S, NEW n \in Nat, NEW l
  PROVE  /\ q \o Times(n, e) \in Seq(S)
         /\ Count(q \o Times(n, e), l) = Count(q, l) + (IF e = l THEN n ELSE 0)
<1> DEFINE m == Len(q)
           New == (m + 1)..(m + n)
<1>1. Times(n, e) \in Seq(S) /\ Len(Times(n, e)) = n
  BY DEF Times
<1>2. /\ q \o Times(n, e) \in Seq(S)
      /\ m \in Nat
      /\ DOMAIN q = 1..m
      /\ DOMAIN (q \o Times(n, e)) = 1..(m + n)
      /\ \A i \in 1..m : (q \o Times(n, e))[i] = q[i]
      /\ \A i \in New : (q \o Times(n, e))[i] = e
  BY <1>1, ConcatProperties, LenProperties DEF Times
<1>3. IsFiniteSet(Positions(q, l)) /\ Count(q, l) \in Nat
  BY PositionsFinite
<1>4. CASE e = l
  <2>1. Positions(q \o Times(n, e), l) = Positions(q, l) \cup New
    BY <1>2, <1>4 DEF Positions
  <2>2. Positions(q, l) \cap New = {}
    BY <1>2 DEF Positions
  <2>3. IsFiniteSet(New) /\ Cardinality(New) = n
    <3>1. m + 1 \in Int /\ m + n \in Int
      BY <1>2
    <3>2. IsFiniteSet(New) /\ Cardinality(New) = IF m + 1 > m + n THEN 0 ELSE (m + n) - (m + 1) + 1
      BY <3>1, FS_Interval
    <3> QED
      BY <1>2, <3>2
  <2>4. Cardinality(Positions(q, l) \cap New) = 0
    BY <2>2, FS_EmptySet
  <2>5. Cardinality(Positions(q, l) \cup New) =
          Cardinality(Positions(q, l)) + Cardinality(New) - Cardinality(Positions(q, l) \cap New)
    BY <1>3, <2>3, FS_Union
  <2>6. Count(q \o Times(n, e), l) = Cardinality(Positions(q, l) \cup New)
    BY <2>1 DEF Count
  <2>7. Count(q, l) = Cardinality(Positions(q, l))
    BY DEF Count
  <2> QED
    BY <1>2, <1>3, <1>4, <2>3, <2>4, <2>5, <2>6, <2>7
<1>5. CASE e # l
  <2>1. Positions(q \o Times(n, e), l) = Positions(q, l)
    BY <1>2, <1>5 DEF Positions
  <2> QED
    BY <1>2, <1>3, <1>5, <2>1 DEF Count
<1> QED
  BY <1>4, <1>5
-----------------------------------------------------------------------------
(* Types, but for the sign of pending *)

Shape ==
  /\ warm \in [Language -> Nat] /\ events \in Seq(Language)
  /\ task_queue \in Seq(Language) /\ pending \in [Language -> Int]
  /\ cpc \in [Creator -> {"top", "get", "creating", "pushed", "ended"}]
  /\ task \in [Creator -> Language]
  /\ wpc \in [Worker -> {"idle", "waiting", "leased", "using"}]
  /\ wants \in [Worker -> Language]
  /\ manager \in {"starting", "loop", "joining", "counting", "popping", "done", "failed"}
  /\ left \subseteq Language
  /\ manager = "popping" => left # {}
  /\ stop_event \in BOOLEAN /\ shutdown \in BOOLEAN
  /\ budget \in [FaultKind -> Nat]

LEMMA CurrentIsLeft ==
  ASSUME Shape, left # {}
  PROVE  Current \in left /\ Current \in Language
  BY DEF Shape, Current

LEMMA MaintainType ==
  ASSUME Shape, NEW l \in Language, MaintainPool(l)
  PROVE  pending' \in [Language -> Int] /\ task_queue' \in Seq(Language)
<1>1. Deficit(l) \in Int
  BY PoolAssumption DEF Shape, Deficit
<1>2. CASE Deficit(l) > 0
  <2>1. task_queue \o Times(Deficit(l), l) \in Seq(Language)
    <3>1. Deficit(l) \in Nat /\ task_queue \in Seq(Language)
      BY <1>1, <1>2 DEF Shape
    <3> QED
      BY <3>1, CountTimes
  <2>2. pending' = [pending EXCEPT ![l] = @ + Deficit(l)] /\ task_queue' = task_queue \o Times(Deficit(l), l)
    BY <1>2 DEF MaintainPool
  <2>3. pending' \in [Language -> Int]
    BY <1>1, <2>2 DEF Shape
  <2> QED
    BY <2>1, <2>2, <2>3
<1>3. CASE ~ (Deficit(l) > 0)
  BY <1>3 DEF MaintainPool, Shape
<1> QED
  BY <1>2, <1>3

LEMMA ShapeWorker ==
  ASSUME Shape, NEW w \in Worker,
         LeaseStep(w) \/ EventLost(w) \/ \E l \in Language : Ask(w, l)
  PROVE  Shape'
<1> USE DEF Shape, creators, leases, control
<1>1. CASE \E l \in Language : Ask(w, l)
  BY <1>1 DEF Ask
<1>2. CASE Acquire(w)
  BY <1>2 DEF Acquire
<1>3. CASE AcquireTimesOut(w)
  BY <1>3 DEF AcquireTimesOut
<1>4. CASE Publish(w)
  BY <1>4 DEF Publish
<1>5. CASE EventLost(w)
  BY <1>5 DEF EventLost, Spend, FaultKind
<1>6. CASE Release(w)
  BY <1>6 DEF Release
<1> QED
  BY <1>1, <1>2, <1>3, <1>4, <1>5, <1>6 DEF LeaseStep

LEMMA ShapeCreator ==
  ASSUME Shape, NEW c \in Creator, CreatorStep(c) \/ PushReplyLost(c)
  PROVE  Shape'
<1> USE DEF Shape, creators, leases, control
<1>1. CASE EnterLoop(c)
  BY <1>1 DEF EnterLoop
<1>2. CASE GetTask(c)
  <2>1. Head(task_queue) \in Language /\ Tail(task_queue) \in Seq(Language)
    BY <1>2, HeadTail DEF GetTask
  <2> QED
    BY <1>2, <2>1 DEF GetTask
<1>3. CASE GetTimesOut(c)
  BY <1>3 DEF GetTimesOut
<1>4. CASE CreateSandbox(c)
  BY <1>4 DEF CreateSandbox
<1>5. CASE CreateFails(c)
  BY <1>5 DEF CreateFails, Requeue, Spend, FaultKind
<1>6. CASE PushReplyLost(c)
  <2>1. warm' \in [Language -> Nat] /\ task_queue' \in Seq(Language)
    BY <1>6 DEF PushReplyLost, Requeue
  <2>2. budget' \in [FaultKind -> Nat]
    BY <1>6 DEF PushReplyLost, Spend, FaultKind
  <2> QED
    BY <1>6, <2>1, <2>2 DEF PushReplyLost, Requeue
<1>7. CASE SettlePending(c)
  BY <1>7 DEF SettlePending
<1> QED
  BY <1>1, <1>2, <1>3, <1>4, <1>5, <1>6, <1>7 DEF CreatorStep

LEMMA ShapeManager ==
  ASSUME Shape, ManagerStep \/ ManagerFails \/ CleanPoolFails \/ RequestShutdown
  PROVE  Shape'
<1>1. CASE InitialPool
  <2>1. Current \in Language /\ MaintainPool(Current)
    BY <1>1, CurrentIsLeft DEF InitialPool
  <2> QED
    BY <1>1, <2>1, MaintainType DEF InitialPool, Shape, creators, leases, control
<1>2. CASE EnterManagerLoop
  BY <1>2 DEF EnterManagerLoop, Shape, creators, leases, control
<1>3. CASE HandleEvent
  <2>1. Head(events) \in Language /\ Tail(events) \in Seq(Language) /\ MaintainPool(Head(events))
    BY <1>3, HeadTail DEF HandleEvent, Shape
  <2> QED
    BY <1>3, <2>1, MaintainType DEF HandleEvent, Shape, creators, leases, control
<1>4. CASE SeeShutdown
  BY <1>4 DEF SeeShutdown, Stop, Shape, creators, leases, control
<1>5. CASE ManagerFails
  BY <1>5 DEF ManagerFails, Stop, Spend, FaultKind, Shape, creators, leases, control
<1>6. CASE JoinCreators
  BY <1>6 DEF JoinCreators, Shape, creators, leases, control
<1>7. CASE CountPool
  BY <1>7 DEF CountPool, Shape, creators, leases, control
<1>8. CASE PopWarm
  <2>1. Current \in Language
    BY <1>8, CurrentIsLeft DEF PopWarm, Shape
  <2>2. warm' \in [Language -> Nat]
    BY <1>8, <2>1 DEF PopWarm, Shape
  <2> QED
    BY <1>8, <2>2 DEF PopWarm, Shape, creators, leases, control
<1>9. CASE CleanPoolFails
  BY <1>9 DEF CleanPoolFails, Spend, FaultKind, Shape, creators, leases, control
<1>10. CASE EndManager
  BY <1>10 DEF EndManager, Shape, creators, leases, control
<1>11. CASE RequestShutdown
  BY <1>11 DEF RequestShutdown, Shape, creators, leases, control
<1> QED
  BY <1>1, <1>2, <1>3, <1>4, <1>5, <1>6, <1>7, <1>8, <1>9, <1>10, <1>11 DEF ManagerStep

LEMMA ShapeInit == Init => Shape
<1> SUFFICES ASSUME Init
             PROVE  Shape
  OBVIOUS
<1>1. events \in Seq(Language) /\ task_queue \in Seq(Language)
  BY DEF Init
<1>2. budget \in [FaultKind -> Nat]
  BY PoolAssumption DEF Init
<1>3. warm \in [Language -> Nat] /\ pending \in [Language -> Int]
  BY DEF Init
<1> QED
  BY <1>1, <1>2, <1>3 DEF Init, Shape

LEMMA ShapeInvariant == Spec => []Shape
<1>1. Init => Shape
  BY ShapeInit
<1>2. Shape /\ [Next]_vars => Shape'
  <2> SUFFICES ASSUME Shape, [Next]_vars
               PROVE  Shape'
    OBVIOUS
  <2>1. CASE UNCHANGED vars
    BY <2>1 DEF vars, creators, leases, control, Shape
  <2> QED
    BY <2>1, ShapeWorker, ShapeCreator, ShapeManager DEF Next
<1> QED
  BY <1>1, <1>2, PTL DEF Spec
-----------------------------------------------------------------------------
(* Counting threads and processes *)

Here(S, f, g, p, l) == {x \in S : f[x] = p /\ g[x] = l}

Num(p, l) == Cardinality(At(p, l))
Leased(l) == Cardinality(Here(Worker, wpc, wants, "leased", l))

LEMMA HereFinite ==
  ASSUME NEW S, IsFiniteSet(S), NEW f, NEW g, NEW p, NEW l
  PROVE  /\ IsFiniteSet(Here(S, f, g, p, l))
         /\ Cardinality(Here(S, f, g, p, l)) \in Nat
         /\ Cardinality(Here(S, f, g, p, l)) <= Cardinality(S)
<1>1. Here(S, f, g, p, l) \in SUBSET S
  BY DEF Here
<1> QED
  BY <1>1, FS_Subset, FS_CardinalityType

\* Two sets that differ in one element at most.
LEMMA OneMoves ==
  ASSUME NEW A, NEW B, IsFiniteSet(A), IsFiniteSet(B), NEW c, A \ {c} = B \ {c}
  PROVE  Cardinality(B) =
           Cardinality(A) - (IF c \in A THEN 1 ELSE 0) + (IF c \in B THEN 1 ELSE 0)
<1>1. /\ Cardinality(A) \in Nat
      /\ Cardinality(B) \in Nat
      /\ Cardinality(A \ {c}) = IF c \in A THEN Cardinality(A) - 1 ELSE Cardinality(A)
      /\ Cardinality(B \ {c}) = IF c \in B THEN Cardinality(B) - 1 ELSE Cardinality(B)
  BY FS_RemoveElement, FS_CardinalityType
<1>2. /\ Cardinality(A) = Cardinality(A \ {c}) + (IF c \in A THEN 1 ELSE 0)
      /\ Cardinality(B) = Cardinality(A \ {c}) + (IF c \in B THEN 1 ELSE 0)
  <2>1. Cardinality(A) = Cardinality(A \ {c}) + (IF c \in A THEN 1 ELSE 0)
    BY <1>1
  <2>2. Cardinality(B) = Cardinality(B \ {c}) + (IF c \in B THEN 1 ELSE 0)
    BY <1>1
  <2> QED
    BY <2>1, <2>2
<1>3. Cardinality(A \ {c}) \in Nat
  BY FS_RemoveElement, FS_CardinalityType
<1> QED
  BY <1>2, <1>3

LEMMA NumType ==
  ASSUME NEW p, NEW l
  PROVE  Num(p, l) \in Nat /\ Num(p, l) <= Cardinality(Creator) /\ Cardinality(Creator) \in Nat
<1>1. At(p, l) = Here(Creator, cpc, task, p, l)
  BY DEF At, Here
<1> QED
  BY <1>1, HereFinite, FS_CardinalityType, PoolAssumption DEF Num

LEMMA NumMoves ==
  ASSUME NEW c \in Creator,
         \A d \in Creator \ {c} : cpc'[d] = cpc[d] /\ task'[d] = task[d], NEW p, NEW l
  PROVE  Num(p, l)' = Num(p, l) - Bit(cpc[c] = p /\ task[c] = l)
                                + Bit(cpc'[c] = p /\ task'[c] = l)
<1> DEFINE A == Here(Creator, cpc, task, p, l)
           B == Here(Creator, cpc', task', p, l)
<1>1. Num(p, l) = Cardinality(A) /\ Num(p, l)' = Cardinality(B)
  BY DEF Num, At, Here
<1>2. IsFiniteSet(A) /\ IsFiniteSet(B)
  BY HereFinite, PoolAssumption
<1>3. A \ {c} = B \ {c}
  BY DEF Here
<1>4. (c \in A <=> cpc[c] = p /\ task[c] = l) /\ (c \in B <=> cpc'[c] = p /\ task'[c] = l)
  BY DEF Here
<1> HIDE DEF A, B
<1>5. Cardinality(B) = Cardinality(A) - (IF c \in A THEN 1 ELSE 0) + (IF c \in B THEN 1 ELSE 0)
  BY <1>2, <1>3, OneMoves
<1> QED
  BY <1>1, <1>4, <1>5 DEF Bit

LEMMA NumStays ==
  ASSUME UNCHANGED creators, NEW p, NEW l
  PROVE  Num(p, l)' = Num(p, l)
  BY DEF creators, Num, At

LEMMA LeasedMoves ==
  ASSUME NEW w \in Worker,
         \A u \in Worker \ {w} : wpc'[u] = wpc[u] /\ wants'[u] = wants[u], NEW l
  PROVE  Leased(l)' = Leased(l) - Bit(wpc[w] = "leased" /\ wants[w] = l)
                                + Bit(wpc'[w] = "leased" /\ wants'[w] = l)
<1> DEFINE A == Here(Worker, wpc, wants, "leased", l)
           B == Here(Worker, wpc', wants', "leased", l)
<1>1. Leased(l) = Cardinality(A) /\ Leased(l)' = Cardinality(B)
  BY DEF Leased, Here
<1>2. IsFiniteSet(A) /\ IsFiniteSet(B)
  BY HereFinite, PoolAssumption
<1>3. A \ {w} = B \ {w}
  BY DEF Here
<1>4. (w \in A <=> wpc[w] = "leased" /\ wants[w] = l) /\ (w \in B <=> wpc'[w] = "leased" /\ wants'[w] = l)
  BY DEF Here
<1> HIDE DEF A, B
<1>5. Cardinality(B) = Cardinality(A) - (IF w \in A THEN 1 ELSE 0) + (IF w \in B THEN 1 ELSE 0)
  BY <1>2, <1>3, OneMoves
<1> QED
  BY <1>1, <1>4, <1>5 DEF Bit

LEMMA LeasedType ==
  ASSUME NEW l
  PROVE  Leased(l) \in Nat
  BY HereFinite, PoolAssumption DEF Leased

LEMMA LeasedStays ==
  ASSUME UNCHANGED leases, NEW l
  PROVE  Leased(l)' = Leased(l)
  BY DEF leases, Leased, Here
-----------------------------------------------------------------------------
(* The ledger: what is promised of a pool and what is counted in pending *)

Supply(l) == warm[l] + Count(task_queue, l) + Num("creating", l)

Exact(l) == pending[l] = Count(task_queue, l) + Num("creating", l) + Num("pushed", l)

Ceiling(l) == Supply(l) <= Threshold + Spent("reply")

\* The containers whose refill is due are counted in, so that each step keeps it.
Floor(l) ==
  Maintained(l) =>
    Supply(l) + Leased(l) + Count(events, l) + Cardinality(Creator) + Spent("lease") >= Threshold

Ledger ==
  /\ Spent("lease") >= 0 /\ Spent("reply") >= 0
  /\ \A l \in Language : Exact(l) /\ Ceiling(l) /\ Floor(l)

LEMMA Numbers ==
  ASSUME Shape, NEW l \in Language
  PROVE  /\ warm[l] \in Nat /\ pending[l] \in Int
         /\ Count(task_queue, l) \in Nat /\ Count(events, l) \in Nat
         /\ Num("creating", l) \in Nat /\ Num("pushed", l) \in Nat
         /\ Num("pushed", l) <= Cardinality(Creator) /\ Cardinality(Creator) \in Nat
         /\ Leased(l) \in Nat /\ Threshold \in Nat
  BY PositionsFinite, NumType, LeasedType, PoolAssumption DEF Shape

LEMMA SpentType ==
  ASSUME Shape
  PROVE  /\ budget["lease"] \in Nat /\ Faults["lease"] \in Nat /\ Spent("lease") \in Int
         /\ budget["reply"] \in Nat /\ Faults["reply"] \in Nat /\ Spent("reply") \in Int
  BY PoolAssumption DEF Shape, Spent, FaultKind

LEMMA LedgerWorker ==
  ASSUME Shape, Ledger, NEW w \in Worker,
         LeaseStep(w) \/ EventLost(w) \/ \E l \in Language : Ask(w, l)
  PROVE  Ledger'
<1>1. /\ UNCHANGED <<task_queue, pending, creators, control>>
      /\ \A u \in Worker \ {w} : wpc'[u] = wpc[u] /\ wants'[u] = wants[u]
  BY DEF LeaseStep, Ask, Acquire, AcquireTimesOut, Publish, Release, EventLost, Shape
<1>2. /\ Spent("reply")' = Spent("reply")
      /\ Spent("lease")' = Spent("lease") + Bit(EventLost(w))
  <2>1. CASE EventLost(w)
    <3>1. budget' = [budget EXCEPT !["lease"] = @ - 1]
      BY <2>1 DEF EventLost, Spend
    <3>2. budget'["reply"] = budget["reply"] /\ budget'["lease"] = budget["lease"] - 1
      BY <3>1 DEF Shape, FaultKind
    <3> QED
      BY <2>1, <3>2, SpentType DEF Spent, Bit
  <2>2. CASE ~ EventLost(w)
    <3>1. UNCHANGED budget
      BY <2>2 DEF LeaseStep, Ask, Acquire, AcquireTimesOut, Publish, Release
    <3> QED
      BY <2>2, <3>1, SpentType DEF Spent, Bit
  <2> QED
    BY <2>1, <2>2
<1>3. ASSUME NEW l \in Language
      PROVE  /\ warm'[l] = warm[l] - Bit(Acquire(w) /\ wants[w] = l)
             /\ Leased(l)' = Leased(l) + Bit(Acquire(w) /\ wants[w] = l)
                              - Bit((Publish(w) \/ EventLost(w)) /\ wants[w] = l)
             /\ Count(events, l)' = Count(events, l) + Bit(Publish(w) /\ wants[w] = l)
  <2>1. Leased(l)' = Leased(l) - Bit(wpc[w] = "leased" /\ wants[w] = l)
                               + Bit(wpc'[w] = "leased" /\ wants'[w] = l)
    BY <1>1, LeasedMoves
  <2>2. Leased(l) \in Nat /\ warm[l] \in Nat /\ Count(events, l) \in Nat
    BY Numbers
  <2> USE DEF Bit
  <2>3. CASE Acquire(w)
    <3>1. /\ ~ Publish(w) /\ ~ EventLost(w) /\ UNCHANGED <<events, wants>>
          /\ wpc[w] # "leased" /\ wpc'[w] = "leased"
          /\ warm'[l] = warm[l] - Bit(wants[w] = l)
      BY <2>2, <2>3 DEF Acquire, Publish, EventLost, Shape
    <3>2. Count(events, l)' = Count(events, l)
      BY <3>1 DEF Count
    <3> QED
      BY <2>1, <2>2, <2>3, <3>1, <3>2
  <2>4. CASE Publish(w)
    <3>1. /\ ~ Acquire(w) /\ ~ EventLost(w) /\ UNCHANGED <<warm, wants>>
          /\ wpc[w] = "leased" /\ wpc'[w] # "leased"
      BY <2>4 DEF Acquire, Publish, EventLost, Shape
    <3>2. Count(events', l) = Count(events, l) + Bit(wants[w] = l)
      <4>1. events' = Append(events, wants[w]) /\ events \in Seq(Language) /\ wants[w] \in Language
        BY <2>4 DEF Publish, Shape
      <4> QED
        BY <4>1, CountAppend
    <3> QED
      BY <2>1, <2>2, <2>4, <3>1, <3>2
  <2>5. CASE EventLost(w)
    <3>1. /\ ~ Acquire(w) /\ ~ Publish(w) /\ UNCHANGED <<warm, events, wants>>
          /\ wpc[w] = "leased" /\ wpc'[w] # "leased"
      BY <2>5 DEF Acquire, Publish, EventLost, Shape
    <3>2. Count(events, l)' = Count(events, l)
      BY <3>1 DEF Count
    <3> QED
      BY <2>1, <2>2, <2>5, <3>1, <3>2
  <2>6. CASE AcquireTimesOut(w) \/ Release(w) \/ \E m \in Language : Ask(w, m)
    <3>1. /\ ~ Acquire(w) /\ ~ Publish(w) /\ ~ EventLost(w) /\ UNCHANGED <<warm, events>>
          /\ wpc[w] # "leased" /\ wpc'[w] # "leased"
      BY <2>6 DEF Acquire, Publish, EventLost, AcquireTimesOut, Release, Ask, Shape
    <3>2. Count(events, l)' = Count(events, l)
      BY <3>1 DEF Count
    <3> QED
      BY <2>1, <2>2, <3>1, <3>2
  <2> QED
    BY <2>3, <2>4, <2>5, <2>6 DEF LeaseStep
<1>4. ASSUME NEW l \in Language
      PROVE  Exact(l)' /\ Ceiling(l)' /\ Floor(l)'
  <2>1. Num("creating", l)' = Num("creating", l) /\ Num("pushed", l)' = Num("pushed", l)
    BY <1>1, NumStays
  <2>2. Count(task_queue, l)' = Count(task_queue, l) /\ (Maintained(l)' <=> Maintained(l))
    BY <1>1 DEF control, Maintained
  <2> USE DEF Bit
  <2> QED
    BY <1>1, <1>2, <1>3, <2>1, <2>2, SpentType, Numbers DEF Ledger, Exact, Ceiling, Floor, Supply
<1>5. Spent("lease")' >= 0 /\ Spent("reply")' >= 0
  BY <1>2, SpentType DEF Ledger, Bit
<1> QED
  BY <1>4, <1>5 DEF Ledger

LEMMA LedgerCreator ==
  ASSUME Shape, Ledger, NEW c \in Creator, CreatorStep(c) \/ PushReplyLost(c)
  PROVE  Ledger'
<1>1. /\ UNCHANGED <<events, leases, control>>
      /\ \A d \in Creator \ {c} : cpc'[d] = cpc[d] /\ task'[d] = task[d]
  BY DEF CreatorStep, EnterLoop, GetTask, GetTimesOut, CreateSandbox, CreateFails, SettlePending,
         PushReplyLost, Requeue, Shape
<1>2. /\ Spent("lease")' = Spent("lease")
      /\ Spent("reply")' = Spent("reply") + Bit(PushReplyLost(c))
  <2>1. CASE PushReplyLost(c)
    <3>1. budget' = [budget EXCEPT !["reply"] = @ - 1]
      BY <2>1 DEF PushReplyLost, Spend
    <3>2. budget'["lease"] = budget["lease"] /\ budget'["reply"] = budget["reply"] - 1
      BY <3>1 DEF Shape, FaultKind
    <3> QED
      BY <2>1, <3>2, SpentType DEF Spent, Bit
  <2>2. CASE ~ PushReplyLost(c)
    <3>1. budget' = budget \/ budget' = [budget EXCEPT !["create"] = @ - 1]
      BY <2>2 DEF CreatorStep, EnterLoop, GetTask, GetTimesOut, CreateSandbox, CreateFails,
                  SettlePending, Spend
    <3>2. budget'["lease"] = budget["lease"] /\ budget'["reply"] = budget["reply"]
      BY <3>1 DEF Shape, FaultKind
    <3> QED
      BY <2>2, <3>2, SpentType DEF Spent, Bit
  <2> QED
    BY <2>1, <2>2
<1>3. ASSUME NEW l \in Language
      PROVE  Exact(l)' /\ Ceiling(l)' /\ Floor(l)'
  <2>1. /\ Num("creating", l)' = Num("creating", l) - Bit(cpc[c] = "creating" /\ task[c] = l)
                                  + Bit(cpc'[c] = "creating" /\ task'[c] = l)
        /\ Num("pushed", l)' = Num("pushed", l) - Bit(cpc[c] = "pushed" /\ task[c] = l)
                                + Bit(cpc'[c] = "pushed" /\ task'[c] = l)
    BY <1>1, NumMoves
  <2>2. /\ Leased(l)' = Leased(l) /\ Count(events, l)' = Count(events, l)
        /\ Maintained(l)' <=> Maintained(l)
    BY <1>1, LeasedStays DEF Count, control, Maintained
  <2>3. ASSUME UNCHANGED <<warm, pending, Count(task_queue, l), Num("creating", l), Num("pushed", l)>>
        PROVE  Exact(l)' /\ Ceiling(l)' /\ Floor(l)'
    BY <1>2, <2>2, <2>3, SpentType, Numbers DEF Ledger, Exact, Ceiling, Floor, Supply, Bit
  <2>4. CASE EnterLoop(c) \/ GetTimesOut(c)
    <3>1. /\ UNCHANGED <<warm, pending, task_queue>>
          /\ cpc[c] \notin {"creating", "pushed"} /\ cpc'[c] \notin {"creating", "pushed"}
      BY <2>4 DEF EnterLoop, GetTimesOut, Shape
    <3>2. Count(task_queue, l)' = Count(task_queue, l)
      BY <3>1 DEF Count
    <3> QED
      BY <2>1, <2>3, <3>1, <3>2, Numbers DEF Bit
  <2>5. CASE GetTask(c)
    <3>1. /\ UNCHANGED <<warm, pending>> /\ ~ PushReplyLost(c)
          /\ cpc[c] = "get" /\ cpc'[c] = "creating" /\ task'[c] = Head(task_queue)
      BY <2>5 DEF GetTask, PushReplyLost, Shape
    <3>2. Count(task_queue, l) = Count(task_queue', l) + Bit(Head(task_queue) = l)
      BY <2>5, CountTail DEF GetTask, Shape
    <3>3. Count(task_queue', l) \in Nat
      BY <2>5, HeadTail, PositionsFinite DEF GetTask, Shape
    <3> QED
      BY <1>2, <2>1, <2>2, <3>1, <3>2, <3>3, SpentType, Numbers
      DEF Ledger, Exact, Ceiling, Floor, Supply, Bit
  <2>6. CASE CreateSandbox(c)
    <3>1. /\ UNCHANGED <<pending, task_queue, task>> /\ ~ PushReplyLost(c)
          /\ cpc[c] = "creating" /\ cpc'[c] = "pushed"
          /\ warm'[l] = warm[l] + Bit(task[c] = l)
      <4>1. warm' = [warm EXCEPT ![task[c]] = @ + 1] /\ cpc' = [cpc EXCEPT ![c] = "pushed"]
        BY <2>6 DEF CreateSandbox
      <4>2. warm'[l] = warm[l] + Bit(task[c] = l)
        BY <4>1 DEF Shape, Bit
      <4>3. ~ PushReplyLost(c)
        <5>1. cpc'[c] # "top"
          BY <4>1 DEF Shape
        <5> QED
          BY <5>1 DEF PushReplyLost, Requeue, Shape
      <4> QED
        BY <2>6, <4>1, <4>2, <4>3 DEF CreateSandbox, Shape
    <3>2. Count(task_queue, l)' = Count(task_queue, l)
      BY <3>1 DEF Count
    <3> QED
      BY <1>2, <2>1, <2>2, <3>1, <3>2, SpentType, Numbers
      DEF Ledger, Exact, Ceiling, Floor, Supply, Bit
  <2>7. CASE CreateFails(c) \/ PushReplyLost(c)
    <3>1. /\ UNCHANGED <<pending, task>> /\ task_queue' = Append(task_queue, task[c])
          /\ cpc[c] = "creating" /\ cpc'[c] = "top"
      BY <2>7 DEF CreateFails, PushReplyLost, Requeue, Shape
    <3>2. Count(task_queue', l) = Count(task_queue, l) + Bit(task[c] = l)
      BY <3>1, CountAppend DEF Shape
    <3>3. \/ warm'[l] = warm[l]
          \/ PushReplyLost(c) /\ warm'[l] = warm[l] + Bit(task[c] = l)
      BY <2>7 DEF CreateFails, PushReplyLost, Shape, Bit
    <3>4. /\ Count(task_queue, l)' + Num("creating", l)' = Count(task_queue, l) + Num("creating", l)
          /\ Num("pushed", l)' = Num("pushed", l)
      BY <2>1, <3>1, <3>2, Numbers DEF Bit
    <3>5. /\ Supply(l)' = Supply(l) + (warm'[l] - warm[l]) /\ warm'[l] - warm[l] >= 0
          /\ warm'[l] - warm[l] <= Bit(PushReplyLost(c)) /\ warm'[l] \in Nat
      <4>1. warm'[l] \in Nat /\ warm'[l] >= warm[l] /\ warm'[l] <= warm[l] + Bit(PushReplyLost(c))
        BY <3>3, Numbers DEF Bit
      <4>2. Count(task_queue, l)' \in Int /\ Num("creating", l)' \in Int
        BY <2>1, <3>1, <3>2, Numbers DEF Bit
      <4>3. Supply(l)' = Supply(l) + (warm'[l] - warm[l])
        BY <3>4, <4>1, <4>2, Numbers DEF Supply
      <4>4. warm'[l] - warm[l] >= 0 /\ warm'[l] - warm[l] <= Bit(PushReplyLost(c))
        BY <4>1, Numbers DEF Bit
      <4> QED
        BY <4>1, <4>3, <4>4
    <3>6. Exact(l)'
      BY <3>1, <3>4, Numbers DEF Ledger, Exact
    <3>7. Supply(l) \in Int
      BY Numbers DEF Supply
    <3>8. Ceiling(l)'
      BY <1>2, <3>5, <3>7, SpentType, Numbers DEF Ledger, Ceiling, Bit
    <3>9. Floor(l)'
      BY <1>2, <2>2, <3>5, <3>7, SpentType, Numbers DEF Ledger, Floor
    <3> QED
      BY <3>6, <3>8, <3>9
  <2>8. CASE SettlePending(c)
    <3>1. /\ UNCHANGED <<warm, task_queue, task>> /\ ~ PushReplyLost(c)
          /\ cpc[c] = "pushed" /\ cpc'[c] = "top"
          /\ pending'[l] = pending[l] - Bit(task[c] = l)
      BY <2>8 DEF SettlePending, PushReplyLost, Shape, Bit
    <3>2. Count(task_queue, l)' = Count(task_queue, l)
      BY <3>1 DEF Count
    <3> QED
      BY <1>2, <2>1, <2>2, <3>1, <3>2, SpentType, Numbers
      DEF Ledger, Exact, Ceiling, Floor, Supply, Bit
  <2> QED
    BY <2>4, <2>5, <2>6, <2>7, <2>8 DEF CreatorStep
<1>4. Spent("lease")' >= 0 /\ Spent("reply")' >= 0
  BY <1>2, SpentType DEF Ledger, Bit
<1> QED
  BY <1>3, <1>4 DEF Ledger

\* What one call of maintain_pool does to the supply of each language.
LEMMA Maintains ==
  ASSUME Shape, Ledger, NEW m \in Language, MaintainPool(m), UNCHANGED <<warm, creators>>,
         NEW l \in Language
  PROVE  /\ Exact(l)' /\ Supply(l)' \in Int
         /\ Supply(l)' = Supply(l) \/ Supply(l)' <= Threshold
         /\ l # m => Supply(l)' = Supply(l)
         /\ l = m => Supply(l)' + Cardinality(Creator) >= Threshold
<1>1. Num("creating", l)' = Num("creating", l) /\ Num("pushed", l)' = Num("pushed", l)
  BY NumStays
<1>2. Exact(l) /\ warm'[l] = warm[l] /\ Supply(l) \in Int /\ Deficit(m) \in Int
  <2>1. Exact(l) /\ warm'[l] = warm[l]
    BY DEF Ledger
  <2>2. Supply(l) \in Int
    BY Numbers DEF Supply
  <2>3. Deficit(m) \in Int
    BY Numbers DEF Deficit
  <2> QED
    BY <2>1, <2>2, <2>3
<1>3. CASE ~ (Deficit(m) > 0)
  <2>1. UNCHANGED <<pending, task_queue>>
    BY <1>3 DEF MaintainPool
  <2>2. Count(task_queue, l)' = Count(task_queue, l)
    BY <2>1 DEF Count
  <2>3. Exact(l)' /\ Supply(l)' = Supply(l)
    BY <1>1, <1>2, <2>1, <2>2 DEF Exact, Supply
  <2>4. l = m => Supply(l) + Num("pushed", l) >= Threshold
    BY <1>2, <1>3, Numbers DEF Deficit, Exact, Supply
  <2> QED
    BY <1>2, <2>3, <2>4, Numbers
<1>4. CASE Deficit(m) > 0
  <2>1. /\ pending' = [pending EXCEPT ![m] = @ + Deficit(m)]
        /\ task_queue' = task_queue \o Times(Deficit(m), m)
    BY <1>4 DEF MaintainPool
  <2>2. Count(task_queue', l) = Count(task_queue, l) + (IF m = l THEN Deficit(m) ELSE 0)
    <3>1. task_queue \in Seq(Language) /\ Deficit(m) \in Nat
      BY <1>2, <1>4 DEF Shape
    <3> QED
      BY <2>1, <3>1, CountTimes
  <2>3. CASE l # m
    <3>1. pending'[l] = pending[l] /\ Count(task_queue, l)' = Count(task_queue, l)
      BY <2>1, <2>2, <2>3, Numbers DEF Shape
    <3> QED
      BY <1>1, <1>2, <2>3, <3>1 DEF Exact, Supply
  <2>4. CASE l = m
    <3>1. pending'[l] = pending[l] + Deficit(l) /\ Count(task_queue, l)' = Count(task_queue, l) + Deficit(l)
      BY <2>1, <2>2, <2>4 DEF Shape
    <3>2. Exact(l)' /\ Supply(l)' = Supply(l) + Deficit(l)
      BY <1>1, <1>2, <2>4, <3>1, Numbers DEF Exact, Supply
    <3>3. Supply(l) + Deficit(l) + Num("pushed", l) = Threshold
      BY <1>2, Numbers DEF Deficit, Exact, Supply
    <3> QED
      BY <1>2, <2>4, <3>2, <3>3, Numbers
  <2> QED
    BY <2>3, <2>4
<1> QED
  BY <1>3, <1>4

LEMMA LedgerMaintains ==
  ASSUME Shape, Ledger, NEW m \in Language, MaintainPool(m),
         UNCHANGED <<warm, creators, leases, budget>>,
         \A l \in Language \ {m} : /\ Maintained(l)' => Maintained(l)
                                   /\ Count(events', l) = Count(events, l),
         \A l \in Language : Count(events', l) \in Nat
  PROVE  Ledger'
<1>1. Spent("lease")' = Spent("lease") /\ Spent("reply")' = Spent("reply")
  BY DEF Spent
<1>2. ASSUME NEW l \in Language
      PROVE  Exact(l)' /\ Ceiling(l)' /\ Floor(l)'
  <2>1. Leased(l)' = Leased(l) /\ Count(events, l)' \in Nat
    BY LeasedStays
  <2>2. /\ Exact(l)' /\ Supply(l)' \in Int
        /\ Supply(l)' = Supply(l) \/ Supply(l)' <= Threshold
        /\ l # m => Supply(l)' = Supply(l)
        /\ l = m => Supply(l)' + Cardinality(Creator) >= Threshold
    BY Maintains
  <2>3. Supply(l) \in Int
    BY Numbers DEF Supply
  <2>4. Ceiling(l)'
    BY <1>1, <2>2, <2>3, SpentType, Numbers DEF Ledger, Ceiling
  <2>5. CASE l = m
    BY <1>1, <2>1, <2>2, <2>4, <2>5, SpentType, Numbers DEF Ledger, Floor
  <2>6. CASE l # m
    <3>1. (Maintained(l)' => Maintained(l)) /\ Count(events, l)' = Count(events, l)
      BY <2>6
    <3> QED
      BY <1>1, <2>1, <2>2, <2>3, <2>4, <2>6, <3>1, SpentType, Numbers DEF Ledger, Floor
  <2> QED
    BY <2>5, <2>6
<1> QED
  BY <1>1, <1>2 DEF Ledger

LEMMA LedgerIdle ==
  ASSUME Shape, Ledger, UNCHANGED <<events, task_queue, pending, creators, leases>>,
         UNCHANGED <<budget["lease"], budget["reply"]>>,
         \A l \in Language : warm'[l] = warm[l] /\ (Maintained(l)' => Maintained(l))
  PROVE  Ledger'
<1>1. Spent("lease")' = Spent("lease") /\ Spent("reply")' = Spent("reply")
  BY DEF Spent
<1>2. ASSUME NEW l \in Language
      PROVE  Exact(l)' /\ Ceiling(l)' /\ Floor(l)'
  <2>1. /\ Num("creating", l)' = Num("creating", l) /\ Num("pushed", l)' = Num("pushed", l)
        /\ Leased(l)' = Leased(l)
    BY NumStays, LeasedStays
  <2>2. Count(task_queue, l)' = Count(task_queue, l) /\ Count(events, l)' = Count(events, l)
    BY DEF Count
  <2>3. warm'[l] = warm[l] /\ (Maintained(l)' => Maintained(l))
    OBVIOUS
  <2> QED
    BY <1>1, <2>1, <2>2, <2>3 DEF Ledger, Exact, Ceiling, Floor, Supply
<1> QED
  BY <1>1, <1>2 DEF Ledger

LEMMA LedgerPop ==
  ASSUME Shape, Ledger, PopWarm
  PROVE  Ledger'
<1>1. /\ Current \in Language /\ manager' = "counting"
      /\ UNCHANGED <<events, task_queue, pending, creators, leases, budget>>
      /\ warm' = [warm EXCEPT ![Current] = IF @ > 0 THEN @ - 1 ELSE 0]
  BY CurrentIsLeft DEF PopWarm, Shape
<1>2. Spent("lease")' = Spent("lease") /\ Spent("reply")' = Spent("reply")
  BY <1>1 DEF Spent
<1>3. ASSUME NEW l \in Language
      PROVE  Exact(l)' /\ Ceiling(l)' /\ Floor(l)'
  <2>1. /\ Num("creating", l)' = Num("creating", l) /\ Num("pushed", l)' = Num("pushed", l)
        /\ Count(task_queue, l)' = Count(task_queue, l)
    BY <1>1, NumStays DEF Count
  <2>2. warm'[l] \in Nat /\ warm'[l] <= warm[l]
    <3>1. warm'[l] = IF l = Current /\ warm[l] > 0 THEN warm[l] - 1 ELSE warm[l]
      BY <1>1 DEF Shape
    <3> QED
      BY <3>1, Numbers
  <2>3. Exact(l)'
    BY <1>1, <2>1 DEF Ledger, Exact
  <2>4. Ceiling(l)'
    BY <1>2, <2>1, <2>2, Numbers, SpentType DEF Ledger, Ceiling, Supply
  <2>5. Floor(l)'
    BY <1>1 DEF Floor, Maintained
  <2> QED
    BY <2>3, <2>4, <2>5
<1> QED
  BY <1>2, <1>3 DEF Ledger

LEMMA LedgerManager ==
  ASSUME Shape, Ledger, ManagerStep \/ ManagerFails \/ CleanPoolFails \/ RequestShutdown
  PROVE  Ledger'
<1>1. CASE InitialPool
  <2>1. /\ Current \in Language /\ MaintainPool(Current) /\ left' = left \ {Current}
        /\ UNCHANGED <<warm, events, creators, leases, manager, budget>>
    BY <1>1, CurrentIsLeft DEF InitialPool
  <2>2. \A l \in Language \ {Current} :
          (Maintained(l)' => Maintained(l)) /\ Count(events', l) = Count(events, l)
    BY <2>1 DEF Maintained
  <2>3. \A l \in Language : Count(events', l) \in Nat
    BY <2>1, Numbers
  <2> QED
    BY <2>1, <2>2, <2>3, LedgerMaintains
<1>2. CASE HandleEvent
  <2>1. /\ events \in Seq(Language) /\ events # <<>> /\ events' = Tail(events)
        /\ MaintainPool(Head(events)) /\ UNCHANGED <<warm, creators, leases, control, budget>>
    BY <1>2 DEF HandleEvent, Shape
  <2>2. Head(events) \in Language /\ events' \in Seq(Language)
    BY <2>1, HeadTail
  <2>3. \A l \in Language : Count(events', l) \in Nat
    BY <2>2, PositionsFinite
  <2>4. \A l \in Language \ {Head(events)} :
          (Maintained(l)' => Maintained(l)) /\ Count(events', l) = Count(events, l)
    <3> SUFFICES ASSUME NEW l \in Language \ {Head(events)}
                 PROVE  (Maintained(l)' => Maintained(l)) /\ Count(events', l) = Count(events, l)
      OBVIOUS
    <3>1. Count(events, l) = Count(Tail(events), l) + Bit(Head(events) = l)
      BY <2>1, CountTail
    <3> QED
      BY <2>1, <2>3, <3>1 DEF Bit, Maintained, control
  <2> QED
    BY <2>1, <2>2, <2>3, <2>4, LedgerMaintains
<1>3. CASE PopWarm
  BY <1>3, LedgerPop
<1>4. CASE EnterManagerLoop
  BY <1>4, LedgerIdle DEF EnterManagerLoop, Maintained
<1>5. CASE SeeShutdown
  BY <1>5, LedgerIdle DEF SeeShutdown, Stop, Maintained
<1>6. CASE ManagerFails
  <2>1. UNCHANGED <<budget["lease"], budget["reply"]>>
    BY <1>6 DEF ManagerFails, Spend, Shape, FaultKind
  <2> QED
    BY <1>6, <2>1, LedgerIdle DEF ManagerFails, Stop, Maintained
<1>7. CASE JoinCreators
  BY <1>7, LedgerIdle DEF JoinCreators, Maintained
<1>8. CASE CountPool
  BY <1>8, LedgerIdle DEF CountPool, Maintained
<1>9. CASE CleanPoolFails
  <2>1. UNCHANGED <<budget["lease"], budget["reply"]>>
    BY <1>9 DEF CleanPoolFails, Spend, Shape, FaultKind
  <2> QED
    BY <1>9, <2>1, LedgerIdle DEF CleanPoolFails, Maintained
<1>10. CASE EndManager
  BY <1>10, LedgerIdle DEF EndManager, Maintained
<1>11. CASE RequestShutdown
  BY <1>11, LedgerIdle DEF RequestShutdown, Maintained, control
<1> QED
  BY <1>1, <1>2, <1>3, <1>4, <1>5, <1>6, <1>7, <1>8, <1>9, <1>10, <1>11 DEF ManagerStep

LEMMA LedgerInit == Init => Ledger
<1> SUFFICES ASSUME Init
             PROVE  Ledger
  OBVIOUS
<1>1. Shape
  BY ShapeInit
<1>2. Spent("lease") = 0 /\ Spent("reply") = 0
  BY SpentType, <1>1 DEF Init, Spent
<1>3. ASSUME NEW l \in Language
      PROVE  Exact(l) /\ Ceiling(l) /\ Floor(l)
  <2>1. Count(task_queue, l) = 0 /\ warm[l] = 0 /\ pending[l] = 0
    BY CountEmpty DEF Init
  <2>2. At("creating", l) = {} /\ At("pushed", l) = {}
    BY DEF Init, At
  <2>3. Num("creating", l) = 0 /\ Num("pushed", l) = 0
    BY <2>2, FS_EmptySet DEF Num
  <2>4. ~ Maintained(l)
    BY DEF Init, Maintained
  <2> QED
    BY <1>2, <2>1, <2>3, <2>4, PoolAssumption DEF Exact, Ceiling, Floor, Supply
<1> QED
  BY <1>2, <1>3 DEF Ledger

LEMMA LedgerInvariant == Spec => []Ledger
<1>1. Init => Ledger
  BY LedgerInit
<1>2. Shape /\ Ledger /\ [Next]_vars => Ledger'
  <2> SUFFICES ASSUME Shape, Ledger, [Next]_vars
               PROVE  Ledger'
    OBVIOUS
  <2>1. CASE UNCHANGED vars
    BY <2>1, LedgerIdle DEF vars, Maintained, control
  <2> QED
    BY <2>1, LedgerWorker, LedgerCreator, LedgerManager DEF Next
<1> QED
  BY <1>1, <1>2, ShapeInvariant, PTL DEF Spec

\* The counter of pending creations is exact: it counts the tasks queued, the
\* containers being created and those pushed but not yet settled.
THEOREM PendingIsExact == Spec => []PendingExact
<1>1. Ledger => PendingExact
  BY DEF Ledger, Exact, PendingExact, Count, Num, Tasks
<1> QED
  BY <1>1, LedgerInvariant, PTL

\* Every variable has its type; pending is never negative.
THEOREM TypeCorrect == Spec => []TypeOK
<1>1. Shape /\ Ledger => TypeOK
  <2> SUFFICES ASSUME Shape, Ledger
               PROVE  TypeOK
    OBVIOUS
  <2>1. \A l \in Language : pending[l] \in Nat
    BY Numbers DEF Ledger, Exact
  <2>2. pending \in [Language -> Nat]
    BY <2>1 DEF Shape
  <2> QED
    BY <2>2 DEF Shape, TypeOK
<1> QED
  BY <1>1, ShapeInvariant, LedgerInvariant, PTL

\* maintain_pool never provisions more than the threshold, but for pushes whose
\* reply was lost.
THEOREM NeverOverProvisioned == Spec => []NoOverProvision
<1>1. Ledger => NoOverProvision
  BY DEF Ledger, Ceiling, Supply, NoOverProvision, Count, Num, Tasks
<1> QED
  BY <1>1, LedgerInvariant, PTL

\* With no refill due a pool is at the threshold, but for one container per
\* creator thread and one per event lost with its publisher.
THEOREM AlwaysProvisioned == Spec => []PoolProvisioned
<1>1. Shape /\ Ledger => PoolProvisioned
  <2> SUFFICES ASSUME Shape, Ledger, NEW l \in Language, Maintained(l), ~ RefillDue(l)
               PROVE  warm[l] + Cardinality(Tasks(l)) + Cardinality(At("creating", l))
                        + Cardinality(Creator) + Spent("lease") >= Threshold
    BY DEF PoolProvisioned
  <2>1. Positions(events, l) = {} /\ Here(Worker, wpc, wants, "leased", l) = {}
    BY DEF RefillDue, Here
  <2>2. Count(events, l) = 0 /\ Leased(l) = 0
    BY <2>1, FS_EmptySet DEF Count, Leased
  <2>3. Cardinality(Tasks(l)) = Count(task_queue, l) /\ Cardinality(At("creating", l)) = Num("creating", l)
    BY DEF Tasks, Count, Num
  <2> QED
    BY <2>2, <2>3, Numbers, SpentType DEF Ledger, Floor, Supply
<1> QED
  BY <1>1, ShapeInvariant, LedgerInvariant, PTL
-----------------------------------------------------------------------------
(* The end of run() *)

\* Once the creators are joined they stay ended, and a language the loop of
\* clean_pool has left stays empty: nobody pushes any more.
Cleaning ==
  /\ manager = "joining" => left = Language
  /\ manager = "done" => left = {}
  /\ manager \in {"counting", "popping", "done"} =>
       /\ \A c \in Creator : cpc[c] = "ended"
       /\ \A l \in Language \ left : warm[l] = 0

LEMMA CleaningStep ==
  ASSUME Shape, Cleaning, [Next]_vars
  PROVE  Cleaning'
<1> USE DEF Cleaning, Shape, creators, leases, control
<1>1. ASSUME NEW w \in Worker, LeaseStep(w) \/ EventLost(w) \/ \E l \in Language : Ask(w, l)
      PROVE  Cleaning'
  <2>1. CASE Acquire(w)
    BY <2>1 DEF Acquire
  <2>2. CASE ~ Acquire(w)
    <3>1. UNCHANGED <<warm, creators, control>>
      BY <1>1, <2>2 DEF LeaseStep, AcquireTimesOut, Publish, Release, EventLost, Ask
    <3> QED
      BY <3>1
  <2> QED
    BY <2>1, <2>2
<1>2. ASSUME NEW c \in Creator, CreatorStep(c) \/ PushReplyLost(c)
      PROVE  Cleaning'
  <2>1. cpc[c] # "ended" /\ UNCHANGED control
    BY <1>2 DEF CreatorStep, EnterLoop, GetTask, GetTimesOut, CreateSandbox, CreateFails,
               SettlePending, PushReplyLost
  <2> QED
    BY <2>1
<1>3. CASE JoinCreators
  <2>1. left = Language
    BY <1>3 DEF JoinCreators
  <2> QED
    BY <1>3, <2>1 DEF JoinCreators
<1>4. CASE CountPool
  BY <1>4, CurrentIsLeft DEF CountPool
<1>5. CASE PopWarm
  BY <1>5, CurrentIsLeft DEF PopWarm
<1>6. CASE EndManager
  BY <1>6 DEF EndManager
<1>7. CASE InitialPool \/ EnterManagerLoop \/ SeeShutdown \/ ManagerFails \/ CleanPoolFails
  BY <1>7 DEF InitialPool, EnterManagerLoop, SeeShutdown, ManagerFails, CleanPoolFails, Stop
<1>8. CASE HandleEvent
  BY <1>8 DEF HandleEvent
<1>9. CASE RequestShutdown \/ UNCHANGED vars
  BY <1>9 DEF RequestShutdown, vars
<1> QED
  BY <1>1, <1>2, <1>3, <1>4, <1>5, <1>6, <1>7, <1>8, <1>9 DEF Next, ManagerStep

\* A manager that ends in good order leaves no warm container and no creator.
THEOREM DoneIsEmpty == Spec => []DoneMeansEmpty
<1>1. Init => Cleaning
  BY DEF Init, Cleaning
<1>2. Shape /\ Cleaning /\ [Next]_vars => Cleaning'
  BY CleaningStep
<1>3. Cleaning => DoneMeansEmpty
  BY DEF Cleaning, DoneMeansEmpty
<1> QED
  BY <1>1, <1>2, <1>3, ShapeInvariant, PTL DEF Spec
=============================================================================
