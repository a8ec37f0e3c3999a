--------------------------- MODULE ExecutionProofs --------------------------
(***************************************************************************)
(* Theorems about Execution, for all test cases and limits, every capacity *)
(* of the stream and every program.                                        *)
(***************************************************************************)
EXTENDS Execution, SequenceTheorems, TLAPS

(* Types, and what the end of a run leaves *)

Ended ==
  /\ place = "inspect" => program = "ended" /\ stdout = <<>>
  /\ program = "ended" => ending # "none"
  /\ ending \in {"clock", "cap"} => exit_code = 137
  /\ TimeLimit > 0 => elapsed <= Latest

TypeInv == TypeOK /\ Ended

LEMMA LatestIsNat == Latest \in Nat
<1>1. TimeLimit * TicksPerSecond \in Nat
  BY ExecutionAssumption
<1> QED
  BY <1>1, ExecutionAssumption DEF Latest

LEMMA Quotient ==
  ASSUME NEW a \in Nat, NEW b \in Nat \ {0}, NEW n \in Nat, a < b * (n + 1)
  PROVE  a \div b \in Nat /\ a \div b <= n
OBVIOUS

LEMMA Whole ==
  ASSUME NEW a \in Nat, NEW b \in Nat \ {0}
  PROVE  a \div b \in Nat
OBVIOUS

\* timeout(1) is late by less than 999 seconds, so that the whole seconds stay
\* below a thousand times a limit of one or more.
LEMMA SecondsInLimit ==
  ASSUME elapsed \in Nat, TimeLimit > 0, elapsed <= Latest
  PROVE  /\ elapsed \div TicksPerSecond \in Nat
         /\ time_elapsed = elapsed \div TicksPerSecond
<1>1. /\ TimeLimit \in Nat /\ TicksPerSecond \in Nat \ {0} /\ TimeLimit * TicksPerSecond \in Nat
      /\ Delay \in Nat /\ Delay < 999 * TicksPerSecond
  BY ExecutionAssumption
<1>2. TicksPerSecond * (TimeLimit + 998 + 1) = TimeLimit * TicksPerSecond + 999 * TicksPerSecond
  BY <1>1
<1>3. elapsed < TicksPerSecond * (TimeLimit + 998 + 1)
  BY <1>1, <1>2 DEF Latest
<1>4. elapsed \div TicksPerSecond \in Nat /\ elapsed \div TicksPerSecond <= TimeLimit + 998
  BY <1>1, <1>3, Quotient
<1> DEFINE q == elapsed \div TicksPerSecond
<1>5. time_elapsed = IF q < TimeLimit * 1000 THEN q ELSE TimeLimit * 1000
  BY DEF time_elapsed, Smaller
<1> HIDE DEF q
<1>6. time_elapsed = q
  BY <1>1, <1>4, <1>5 DEF q
<1> QED
  BY <1>4, <1>6 DEF q

LEMMA FiguresAreNat ==
  ASSUME TypeInv
  PROVE  /\ time_elapsed \in Nat /\ memory_kb_used \in Nat
         /\ Larger(max_runtime_ms, time_elapsed) \in Nat
         /\ Larger(max_memory_used_kb, memory_kb_used) \in Nat
<1>1. time_elapsed \in Nat
  <2>1. elapsed \div TicksPerSecond \in Nat
    BY ExecutionAssumption, Whole DEF TypeInv, TypeOK
  <2> QED
    BY <2>1, ExecutionAssumption DEF time_elapsed, Smaller
<1>2. memory_kb_used \in Nat
  BY ExecutionAssumption DEF TypeInv, TypeOK, memory_kb_used, Reported, Smaller, Larger
<1> QED
  BY <1>1, <1>2 DEF TypeInv, TypeOK, Larger

LEMMA TypeInit == Init => TypeInv
<1> SUFFICES ASSUME Init
             PROVE  TypeInv
  OBVIOUS
<1>1. <<>> \in Seq(Frame) /\ <<>> \in Seq(Run)
  OBVIOUS
<1>2. row \in [verdict : Verdict \cup {"gone"}, testcase : Tests \cup {0},
               walltime_ms : Nat \cup {None}, memory_kb : Nat \cup {None}]
  BY DEF Init, Pending, Verdict
<1> QED
  BY <1>1, <1>2, LatestIsNat, ExecutionAssumption
  DEF Init, TypeInv, TypeOK, Ended, Verdict, ExitCode

\* The steps of the worker before and after the runs.
LEMMA TypeAround ==
  ASSUME TypeInv,
         \/ Acquire \/ Publish \/ GetContainer \/ CopyCode \/ Compile
         \/ SendDone \/ SendFails \/ AllPassed \/ StopContainer
         \/ LeaseFails \/ Raise \/ StopFails
  PROVE  TypeInv'
<1> USE DEF TypeInv, TypeOK, Ended, Verdict, InContext, Goto, loop, stream, process, history
<1>1. CASE Acquire
  BY <1>1 DEF Acquire
<1>2. CASE Publish
  BY <1>2 DEF Publish
<1>3. CASE GetContainer
  BY <1>3 DEF GetContainer
<1>4. CASE CopyCode
  BY <1>4 DEF CopyCode
<1>5. CASE Compile
  BY <1>5 DEF Compile
<1>6. CASE SendDone
  BY <1>6 DEF SendDone
<1>7. CASE SendFails
  BY <1>7 DEF SendFails
<1>8. CASE AllPassed
  BY <1>8 DEF AllPassed
<1>9. CASE StopContainer
  BY <1>9 DEF StopContainer
<1>10. CASE LeaseFails
  BY <1>10 DEF LeaseFails
<1>11. CASE Raise
  BY <1>11 DEF Raise
<1>12. CASE StopFails
  BY <1>12 DEF StopFails
<1> QED
  BY <1>1, <1>2, <1>3, <1>4, <1>5, <1>6, <1>7, <1>8, <1>9, <1>10, <1>11, <1>12

LEMMA TypeRow ==
  ASSUME TypeInv, UpdateRow \/ UpdateFails \/ DeleteRow
  PROVE  TypeInv'
<1>1. row' \in [verdict : Verdict \cup {"gone"}, testcase : Tests \cup {0},
                walltime_ms : Nat \cup {None}, memory_kb : Nat \cup {None}]
  BY DEF TypeInv, TypeOK, UpdateRow, UpdateFails, Result, DeleteRow
<1> QED
  BY <1>1 DEF TypeInv, TypeOK, Ended, UpdateRow, UpdateFails, DeleteRow, Goto, loop, stream,
     process, history

LEMMA TypeRun ==
  ASSUME TypeInv, StartRun \/ Send \/ Receive \/ EndOfStream
  PROVE  TypeInv'
<1> USE DEF TypeInv, TypeOK, Ended, InContext, Goto, loop, stream, process, history
<1>1. CASE StartRun
  <2>1. idx' \in Tests /\ idx' \in DOMAIN Inputs
    BY <1>1, ExecutionAssumption DEF StartRun, Tests
  <2>2. unsent' \in Nat
    BY <1>1, <2>1, ExecutionAssumption, ElementOfSeq DEF StartRun
  <2>3. <<>> \in Seq(Frame) /\ 0 <= Latest
    BY LatestIsNat
  <2> QED
    BY <1>1, <2>1, <2>2, <2>3, ExecutionAssumption DEF StartRun, ExitCode
<1>2. CASE Send
  BY <1>2, ExecutionAssumption DEF Send
<1>3. CASE Receive
  <2>1. Head(stdout) \in Frame /\ Tail(stdout) \in Seq(Frame)
    BY <1>3, HeadTailProperties DEF Receive
  <2> QED
    BY <1>3, <2>1 DEF Receive
<1>4. CASE EndOfStream
  BY <1>4 DEF EndOfStream
<1> QED
  BY <1>1, <1>2, <1>3, <1>4

LEMMA TypeJudge ==
  ASSUME TypeInv, JudgeRun
  PROVE  TypeInv'
<1>1. RunVerdict \in Failure \cup {"AC"}
  BY DEF RunVerdict, Failure
<1>2. ThisRun \in Run
  BY DEF JudgeRun, TypeInv, TypeOK, Ended, ThisRun, Run
<1>3. runs' \in Seq(Run)
  BY <1>2 DEF JudgeRun, TypeInv, TypeOK
<1> QED
  BY <1>1, <1>3, FiguresAreNat
  DEF JudgeRun, TypeInv, TypeOK, Ended, Verdict, InContext, stream

LEMMA TypeProgram ==
  ASSUME TypeInv, Program \/ Clock
  PROVE  TypeInv'
<1> USE DEF TypeInv, TypeOK, Ended, loop, stream, process, history
<1>1. CASE ProgramReads
  BY <1>1, ExecutionAssumption DEF ProgramReads
<1>2. CASE ProgramAllocates
  BY <1>2, ExecutionAssumption DEF ProgramAllocates
<1>3. CASE ProgramPrints
  BY <1>3 DEF ProgramPrints
<1>4. ASSUME NEW cause \in {"itself", "clock", "cap"}, NEW code \in ExitCode, End(cause, code),
             cause # "itself" => code = 137
      PROVE  TypeInv'
  BY <1>4 DEF End
<1>5. CASE ProgramExits \/ OutOfMemory \/ TimeUp
  BY <1>4, <1>5 DEF ProgramExits, OutOfMemory, TimeUp, ExitCode
<1>6. CASE Tick
  BY <1>6, LatestIsNat DEF Tick
<1> QED
  BY <1>1, <1>2, <1>3, <1>5, <1>6 DEF Program, Clock

LEMMA TypeStep == TypeInv /\ [Next]_vars => TypeInv'
<1> SUFFICES ASSUME TypeInv, [Next]_vars
             PROVE  TypeInv'
  OBVIOUS
<1>1. CASE Next
  BY <1>1, TypeAround, TypeRow, TypeRun, TypeJudge, TypeProgram
     DEF Next, WorkerStep, CallFails
<1>2. CASE UNCHANGED vars
  BY <1>2 DEF vars, loop, stream, process, history, TypeInv, TypeOK, Ended
<1> QED
  BY <1>1, <1>2

LEMMA TypeInvariant == Spec => []TypeInv
BY TypeInit, TypeStep, PTL DEF Spec

\* Every variable keeps its type, for every program and every order of steps.
THEOREM TypeCorrect == Spec => []TypeOK
<1>1. TypeInv => TypeOK
  BY DEF TypeInv
<1> QED
  BY <1>1, TypeInvariant, PTL

\* The bound in milliseconds that run_program puts on whole seconds never takes
\* effect when there is a limit: runtime_ms is the whole seconds of the run.
THEOREM MillisecondBoundIsIdle ==
  ASSUME TimeLimit > 0
  PROVE  Spec => [](time_elapsed = elapsed \div TicksPerSecond)
<1>1. TypeInv => time_elapsed = elapsed \div TicksPerSecond
  BY SecondsInLimit DEF TypeInv, TypeOK, Ended
<1> QED
  BY <1>1, TypeInvariant, PTL
-----------------------------------------------------------------------------
(* The lease of the container *)

\* Where the container is, given where the worker is.
Lease ==
  /\ place = "acquire" => container = "none"
  /\ place \in InContext \cup {"publish", "get", "stop", "unwind"} => container = "leased"
  /\ place \in {"update", "done"} => container = "stopped"
  /\ place = "raised" /\ mishap = {} => container # "leased"
  /\ row.verdict \notin {"gone", "PD"} => place \in {"done", "raised"} /\ container = "stopped"

LEMMA LeaseStep == TypeInv /\ Lease /\ [Next]_vars => Lease'
<1> SUFFICES ASSUME TypeInv, Lease, [Next]_vars
             PROVE  Lease'
  OBVIOUS
<1> USE DEF Lease, InContext, Goto, loop, stream, process, history
<1>1. CASE UNCHANGED <<place, container, row, mishap>>
  BY <1>1
<1>2. CASE Acquire
  BY <1>2 DEF Acquire
<1>3. CASE Publish
  BY <1>3 DEF Publish
<1>4. CASE GetContainer
  BY <1>4 DEF GetContainer
<1>5. CASE CopyCode
  BY <1>5 DEF CopyCode
<1>6. CASE Compile
  BY <1>6 DEF Compile
<1>7. CASE StartRun
  BY <1>7 DEF StartRun
<1>8. CASE SendDone \/ SendFails \/ EndOfStream
  BY <1>8 DEF SendDone, SendFails, EndOfStream
<1>9. CASE JudgeRun
  BY <1>9 DEF JudgeRun
<1>10. CASE AllPassed
  BY <1>10 DEF AllPassed
<1>11. CASE StopContainer
  BY <1>11 DEF StopContainer
<1>12. CASE UpdateRow
  BY <1>12 DEF UpdateRow
<1>13. CASE LeaseFails
  BY <1>13 DEF LeaseFails
<1>14. CASE Raise
  BY <1>14 DEF Raise
<1>15. CASE StopFails
  BY <1>15 DEF StopFails
<1>16. CASE UpdateFails
  BY <1>16 DEF UpdateFails
<1>17. CASE DeleteRow
  BY <1>17 DEF DeleteRow, TypeInv, TypeOK
<1> QED
  BY <1>1, <1>2, <1>3, <1>4, <1>5, <1>6, <1>7, <1>8, <1>9, <1>10, <1>11, <1>12, <1>13, <1>14,
     <1>15, <1>16, <1>17
  DEF Next, vars, WorkerStep, Send, Receive, CallFails, Program, ProgramReads, ProgramPrints,
      ProgramAllocates, ProgramExits, OutOfMemory, End, Clock, Tick, TimeUp

\* Whatever raises, a container that was leased is stopped before the call is
\* over and before a verdict is written.
THEOREM ContainersAreStopped == Spec => []ContainerStopped
<1>1. Init => Lease
  BY DEF Init, Lease, InContext, Pending
<1>2. Lease => ContainerStopped
  BY DEF Lease, ContainerStopped
<1> QED
  BY <1>1, <1>2, LeaseStep, TypeInvariant, PTL DEF Spec
-----------------------------------------------------------------------------
(* The figures *)

\* The figures so far are the maxima over the runs so far.
Maxima ==
  /\ \A i \in DOMAIN runs :
       Seconds(runs[i]) <= max_runtime_ms /\ Kilobytes(runs[i]) <= max_memory_used_kb
  /\ \/ runs = <<>> /\ max_runtime_ms = 0 /\ max_memory_used_kb = 0
     \/ /\ \E i \in DOMAIN runs : max_runtime_ms = Seconds(runs[i])
        /\ \E i \in DOMAIN runs : max_memory_used_kb = Kilobytes(runs[i])

LEMMA JudgeAppends ==
  ASSUME TypeInv, JudgeRun
  PROVE  /\ Len(runs') = Len(runs) + 1 /\ DOMAIN runs' = DOMAIN runs \cup {Len(runs')}
         /\ \A i \in DOMAIN runs : runs'[i] = runs[i]
         /\ runs'[Len(runs')] = ThisRun
<1>1. ThisRun \in Run /\ runs \in Seq(Run)
  BY DEF JudgeRun, TypeInv, TypeOK, Ended, ThisRun, Run
<1>2. runs' = Append(runs, ThisRun)
  BY DEF JudgeRun
<1> QED
  BY <1>1, <1>2, AppendProperties, LenProperties

LEMMA MaximaJudge ==
  ASSUME TypeInv, Maxima, JudgeRun
  PROVE  Maxima'
<1> DEFINE last == Len(runs')
<1>1. /\ last \in DOMAIN runs'
      /\ Seconds(runs'[last]) = time_elapsed /\ Kilobytes(runs'[last]) = memory_kb_used
  <2>1. Seconds(ThisRun) = time_elapsed
    <3>1. CASE TimeLimit > 0
      BY <3>1, SecondsInLimit DEF Seconds, ThisRun, TypeInv, TypeOK, Ended
    <3>2. CASE TimeLimit = 0
      <4>1. elapsed \div TicksPerSecond \in Nat
        BY ExecutionAssumption, Whole DEF TypeInv, TypeOK
      <4> QED
        BY <3>2, <4>1 DEF Seconds, time_elapsed, Smaller
    <3> QED
      BY <3>1, <3>2, ExecutionAssumption
  <2> QED
    BY <2>1, JudgeAppends DEF ThisRun, memory_kb_used, Kilobytes
<1>2. /\ time_elapsed \in Nat /\ memory_kb_used \in Nat
      /\ max_runtime_ms \in Nat /\ max_memory_used_kb \in Nat
  BY FiguresAreNat DEF TypeInv, TypeOK
<1>3. /\ max_runtime_ms' = IF max_runtime_ms > time_elapsed THEN max_runtime_ms ELSE time_elapsed
      /\ max_memory_used_kb' = IF max_memory_used_kb > memory_kb_used THEN max_memory_used_kb
                               ELSE memory_kb_used
  BY DEF JudgeRun, Larger
<1>4. \A i \in DOMAIN runs : runs'[i] = runs[i] /\ i \in DOMAIN runs'
  BY JudgeAppends
<1>5. \A i \in DOMAIN runs' : i \in DOMAIN runs \/ i = last
  BY JudgeAppends
<1>6. \A i \in DOMAIN runs : Seconds(runs[i]) \in Nat /\ Kilobytes(runs[i]) \in Nat
  <2> TAKE i \in DOMAIN runs
  <2>1. runs[i] \in Run
    BY ElementOfSeq DEF TypeInv, TypeOK
  <2>2. runs[i].elapsed \in Nat /\ runs[i].peak \in Nat
    BY <2>1 DEF Run
  <2>3. Seconds(runs[i]) \in Nat
    BY <2>2, Whole, ExecutionAssumption DEF Seconds
  <2> QED
    BY <2>2, <2>3, ExecutionAssumption DEF Kilobytes, Reported, Smaller, Larger
<1>7. /\ \A i \in DOMAIN runs :
           Seconds(runs[i]) <= max_runtime_ms /\ Kilobytes(runs[i]) <= max_memory_used_kb
      /\ \/ max_runtime_ms = 0 /\ max_memory_used_kb = 0
         \/ /\ \E i \in DOMAIN runs : max_runtime_ms = Seconds(runs[i])
            /\ \E i \in DOMAIN runs : max_memory_used_kb = Kilobytes(runs[i])
  BY DEF Maxima
<1> HIDE DEF last
<1>8. \A i \in DOMAIN runs' : Seconds(runs'[i]) <= max_runtime_ms'
                              /\ Kilobytes(runs'[i]) <= max_memory_used_kb'
  BY <1>1, <1>2, <1>3, <1>4, <1>5, <1>6, <1>7
<1>9. /\ \E i \in DOMAIN runs' : max_runtime_ms' = Seconds(runs'[i])
      /\ \E i \in DOMAIN runs' : max_memory_used_kb' = Kilobytes(runs'[i])
  BY <1>1, <1>2, <1>3, <1>4, <1>7
<1> QED
  BY <1>8, <1>9 DEF Maxima, Seconds, Kilobytes

LEMMA MaximaStep == TypeInv /\ Maxima /\ [Next]_vars => Maxima'
<1> SUFFICES ASSUME TypeInv, Maxima, [Next]_vars
             PROVE  Maxima'
  OBVIOUS
<1>1. CASE JudgeRun
  BY <1>1, MaximaJudge
<1>2. CASE UNCHANGED <<runs, max_runtime_ms, max_memory_used_kb>>
  BY <1>2 DEF Maxima, Seconds, Kilobytes
<1> QED
  BY <1>1, <1>2
  DEF Next, vars, loop, history, process, stream, WorkerStep, Acquire, Publish, GetContainer,
      CopyCode, Compile, StartRun, Send, SendDone, SendFails, Receive, EndOfStream, AllPassed,
      StopContainer, UpdateRow, CallFails, LeaseFails, Raise, StopFails, UpdateFails, Program,
      ProgramReads, ProgramPrints, ProgramAllocates, ProgramExits, OutOfMemory, End, Clock,
      Tick, TimeUp, DeleteRow

LEMMA MaximaInvariant == Spec => []Maxima
<1>1. Init => Maxima
  BY DEF Init, Maxima
<1> QED
  BY <1>1, MaximaStep, TypeInvariant, PTL DEF Spec
-----------------------------------------------------------------------------
(* The output *)

InRun == {"send", "receive", "inspect"}

\* During a run nothing the program has printed is lost or changes places: the
\* worker has it, or it is in the stream.
InTransit == place \in InRun => received \o stdout = written

LEMMA ReceiveKeeps ==
  ASSUME NEW S, NEW r \in Seq(S), NEW o \in Seq(S), o # <<>>
  PROVE  Append(r, Head(o)) \o Tail(o) = r \o o
<1>1. Head(o) \in S /\ Tail(o) \in Seq(S) /\ Len(o) > 0
  BY HeadTailProperties, EmptySeq, LenProperties
<1>2. Append(r, Head(o)) \in Seq(S)
  BY <1>1
<1>3. Len(Append(r, Head(o)) \o Tail(o)) = Len(r \o o)
  BY <1>1, <1>2
<1>4. \A i \in 1..Len(r \o o) : (Append(r, Head(o)) \o Tail(o))[i] = (r \o o)[i]
  BY <1>1, <1>2
<1>5. Append(r, Head(o)) \o Tail(o) \in Seq(S) /\ r \o o \in Seq(S)
  BY <1>1, <1>2
<1> QED
  BY <1>3, <1>4, <1>5, SeqEqual

LEMMA PrintKeeps ==
  ASSUME NEW S, NEW r \in Seq(S), NEW o \in Seq(S), NEW f \in S
  PROVE  r \o Append(o, f) = Append(r \o o, f)
<1>1. r \o Append(o, f) \in Seq(S) /\ Append(r \o o, f) \in Seq(S)
  OBVIOUS
<1>2. Len(r \o Append(o, f)) = Len(Append(r \o o, f))
  OBVIOUS
<1>3. \A i \in 1..Len(Append(r \o o, f)) : (r \o Append(o, f))[i] = Append(r \o o, f)[i]
  OBVIOUS
<1> QED
  BY <1>1, <1>2, <1>3, SeqEqual

LEMMA TransitStep == TypeInv /\ InTransit /\ [Next]_vars => InTransit'
<1> SUFFICES ASSUME TypeInv, InTransit, [Next]_vars
             PROVE  InTransit'
  OBVIOUS
<1>1. CASE place' \notin InRun
  BY <1>1 DEF InTransit
<1>2. CASE UNCHANGED <<received, stdout, written>> /\ (place' \in InRun => place \in InRun)
  BY <1>2 DEF InTransit
<1>3. CASE StartRun
  <2>1. received' = <<>> /\ stdout' = <<>> /\ written' = <<>>
    BY <1>3 DEF StartRun
  <2>2. <<>> \o <<>> = <<>>
    OBVIOUS
  <2> QED
    BY <2>1, <2>2 DEF InTransit
<1>4. CASE Receive
  <2>1. received' \o stdout' = received \o stdout
    BY <1>4, ReceiveKeeps DEF Receive, TypeInv, TypeOK
  <2> QED
    BY <1>4, <2>1 DEF Receive, InTransit, process
<1>5. CASE ProgramPrints
  <2>1. PICK f \in Frame : stdout' = Append(stdout, f) /\ written' = Append(written, f)
    BY <1>5 DEF ProgramPrints
  <2>2. received' = received /\ place' = place
    BY <1>5 DEF ProgramPrints
  <2>3. received \o stdout' = Append(received \o stdout, f)
    BY <2>1, PrintKeeps DEF TypeInv, TypeOK
  <2> QED
    BY <2>1, <2>2, <2>3 DEF InTransit
<1> QED
  BY <1>1, <1>2, <1>3, <1>4, <1>5
  DEF Next, vars, loop, history, process, stream, InRun, Goto, WorkerStep, Acquire, Publish,
      GetContainer, CopyCode, Compile, Send, SendDone, SendFails, EndOfStream, JudgeRun,
      AllPassed, StopContainer, UpdateRow, CallFails, LeaseFails, Raise, StopFails,
      UpdateFails, Program, ProgramReads, ProgramAllocates, ProgramExits, OutOfMemory, End,
      Clock, Tick, TimeUp, DeleteRow

LEMMA TransitInvariant == Spec => []InTransit
<1>1. Init => InTransit
  BY DEF Init, InTransit, InRun
<1> QED
  BY <1>1, TransitStep, TypeInvariant, PTL DEF Spec
-----------------------------------------------------------------------------
(* The verdict *)

\* run_program accepts exactly the runs that solve the test case, and names the
\* others by what ended them.
LEMMA VerdictOfRun ==
  ASSUME TypeInv, InTransit, place = "inspect"
  PROVE  /\ RunVerdict = "AC" <=> Solves(ThisRun, idx)
         /\ RunVerdict # "AC" => Tells(RunVerdict, ThisRun)
         /\ RunVerdict \in Failure \cup {"AC"}
<1>1. received = written
  BY DEF InTransit, InRun, TypeInv, TypeOK, Ended
<1>2. memory_kb_used = MemoryLimit <=>
        MemoryLimit <= TimeoutMemory \/ (ending # "clock" /\ MemoryLimit <= peak)
  BY ExecutionAssumption
  DEF memory_kb_used, Reported, Smaller, Larger, TypeInv, TypeOK
<1>5. /\ peak < MemoryLimit <=> ~ (MemoryLimit <= peak)
      /\ TimeoutMemory < MemoryLimit <=> ~ (MemoryLimit <= TimeoutMemory)
  BY ExecutionAssumption DEF TypeInv, TypeOK
<1>3. ending \in {"itself", "clock", "cap"} /\ (ending # "itself" => exit_code = 137)
  BY DEF TypeInv, TypeOK, Ended
<1>4. exit_code \in ExitCode
  BY DEF TypeInv, TypeOK
<1> QED
  BY <1>1, <1>2, <1>3, <1>4, <1>5
  DEF RunVerdict, Solves, Tells, ThisRun, Failure, ExitCode

SolvedAll == \A i \in DOMAIN runs : Solves(runs[i], i)

\* What verdict and failed say of the runs, once they are decided.
Outcome ==
  /\ verdict \in Failure \cup {"AC", "CE"}
  /\ verdict = "CE" => runs = <<>>
  /\ verdict = "AC" => Len(runs) = Len(Expected)
  /\ verdict \in {"CE", "AC"} => failed = 0
  /\ verdict \in Failure =>
       /\ failed = Len(runs) /\ ~ Solves(runs[failed], failed)
       /\ Tells(verdict, runs[failed])
  /\ \A i \in DOMAIN runs : i # failed => Solves(runs[i], i)

Before == {"acquire", "publish", "get", "copy", "compile"}

\* The loop stands at the first test case not known to be solved.
Course ==
  /\ place \in Before => idx = 0 /\ runs = <<>>
  /\ place \in Before \cup InRun \cup {"loop"} => failed = 0 /\ SolvedAll
  /\ place = "loop" => Len(runs) = idx
  /\ place \in InRun => idx \in Tests /\ Len(runs) = idx - 1
  /\ place \in {"stop", "update", "done"} => Outcome

\* The row has the outcome once it is written, and is pending before.
Written ==
  /\ Outcome
  /\ row.verdict = verdict /\ row.testcase = failed
  /\ verdict # "CE" => row.walltime_ms = max_runtime_ms /\ row.memory_kb = max_memory_used_kb

Recorded ==
  row.verdict # "gone" =>
    /\ place = "done" => Written
    /\ place = "raised" => Written \/ row = Pending
    /\ place \notin {"done", "raised"} => row = Pending

LEMMA CourseJudge ==
  ASSUME TypeInv, InTransit, Course, JudgeRun
  PROVE  Course'
<1>1. /\ place = "inspect" /\ idx \in Tests /\ Len(runs) = idx - 1 /\ failed = 0 /\ SolvedAll
      /\ idx' = idx
  BY DEF Course, JudgeRun, InRun
<1>2. idx \in Nat /\ Len(runs') = idx /\ runs'[idx] = ThisRun
  BY <1>1, JudgeAppends DEF Tests
<1>3. \A i \in DOMAIN runs' : (i \in DOMAIN runs /\ runs'[i] = runs[i]) \/ i = idx
  BY <1>2, JudgeAppends
<1>4. \A i \in DOMAIN runs' : i # idx => Solves(runs'[i], i)
  BY <1>1, <1>3 DEF SolvedAll
<1>5. CASE RunVerdict = "AC"
  <2>1. place' = "loop" /\ failed' = failed
    BY <1>5 DEF JudgeRun
  <2>2. Solves(ThisRun, idx)
    BY <1>1, <1>5, VerdictOfRun
  <2>3. \A i \in DOMAIN runs' : Solves(runs'[i], i)
    BY <1>2, <1>4, <2>2
  <2> QED
    BY <1>1, <1>2, <2>1, <2>3 DEF Course, SolvedAll, Before, InRun
<1>6. CASE RunVerdict # "AC"
  <2>1. place' = "stop" /\ verdict' = RunVerdict /\ failed' = idx
    BY <1>6 DEF JudgeRun
  <2>2. /\ ~ Solves(ThisRun, idx) /\ RunVerdict \in Failure
        /\ Tells(RunVerdict, ThisRun)
    BY <1>1, <1>6, VerdictOfRun
  <2>3. Outcome'
    BY <1>2, <1>4, <2>1, <2>2 DEF Outcome, Failure
  <2> QED
    BY <2>1, <2>3 DEF Course, Before, InRun
<1> QED
  BY <1>5, <1>6

LEMMA CourseStep == TypeInv /\ InTransit /\ Course /\ [Next]_vars => Course'
<1> SUFFICES ASSUME TypeInv, InTransit, Course, [Next]_vars
             PROVE  Course'
  OBVIOUS
<1> USE DEF Course, Before, InRun
<1>1. CASE UNCHANGED <<place, verdict, failed, idx, runs>>
  BY <1>1 DEF Outcome, SolvedAll
<1>2. CASE place' \in {"unwind", "raised"}
  BY <1>2
<1>3. CASE UNCHANGED <<verdict, failed, idx, runs>>
           /\ \/ place \in Before /\ place' \in Before \cup {"loop"}
              \/ place \in InRun /\ place' \in InRun
              \/ place \in {"stop", "update"} /\ place' \in {"update", "done"}
  <2>1. runs = <<>> => Len(runs) = 0
    OBVIOUS
  <2> QED
    BY <1>3, <2>1 DEF Outcome, SolvedAll
<1>4. CASE Compile /\ place' = "stop"
  BY <1>4 DEF Compile, Goto, Outcome, SolvedAll, Failure, history
<1>5. CASE StartRun
  <2>1. /\ place = "loop" /\ place' = "send" /\ idx' = idx + 1 /\ idx < Len(Expected)
        /\ UNCHANGED <<verdict, failed, runs>>
    BY <1>5 DEF StartRun, Goto, history
  <2>2. idx \in Nat /\ Len(Expected) \in Nat
    BY ExecutionAssumption DEF TypeInv, TypeOK, Tests
  <2>3. idx' \in Tests /\ Len(runs) = idx' - 1
    BY <2>1, <2>2 DEF Tests
  <2> QED
    BY <2>1, <2>3 DEF SolvedAll
<1>6. CASE JudgeRun
  BY <1>6, CourseJudge
<1>7. CASE AllPassed
  BY <1>7 DEF AllPassed, Goto, Outcome, SolvedAll, Failure, history
<1> QED
  BY <1>1, <1>2, <1>3, <1>4, <1>5, <1>6, <1>7
  DEF Next, vars, loop, history, process, stream, Goto, WorkerStep, Acquire, Publish,
      GetContainer, CopyCode, Compile, Send, SendDone, SendFails, Receive, EndOfStream,
      StopContainer, UpdateRow, CallFails, LeaseFails, Raise, StopFails, UpdateFails, Program,
      ProgramReads, ProgramPrints, ProgramAllocates, ProgramExits, OutOfMemory, End, Clock,
      Tick, TimeUp, DeleteRow

LEMMA CourseInvariant == Spec => []Course
<1>1. Init => Course
  BY DEF Init, Course, Before, InRun, SolvedAll
<1> QED
  BY <1>1, CourseStep, TypeInvariant, TransitInvariant, PTL DEF Spec

LEMMA RecordedStep == TypeInv /\ Course /\ Recorded /\ [Next]_vars => Recorded'
<1> SUFFICES ASSUME TypeInv, Course, Recorded, [Next]_vars
             PROVE  Recorded'
  OBVIOUS
<1> USE DEF Recorded
<1>1. CASE UNCHANGED <<row, place, verdict, failed, max_runtime_ms, max_memory_used_kb, runs>>
  <2>1. Written <=> Written'
    BY <1>1 DEF Written, Outcome
  <2> QED
    BY <1>1, <2>1
<1>2. CASE UNCHANGED row /\ place \notin {"done", "raised"} /\ place' # "done"
  BY <1>2
<1>3. CASE UpdateRow \/ UpdateFails
  <2>1. /\ place = "update" /\ place' \in {"done", "raised"}
        /\ UNCHANGED <<verdict, failed, max_runtime_ms, max_memory_used_kb, runs>>
        /\ row' = Result \/ (row' = row /\ place' = "raised")
    BY <1>3 DEF UpdateRow, UpdateFails, Goto, loop, history
  <2>2. Outcome'
    BY <2>1 DEF Course, Outcome
  <2>3. row' = Result /\ row'.verdict # "gone" => Written'
    BY <2>1, <2>2 DEF Written, Result
  <2> QED
    BY <2>1, <2>3
<1>4. CASE DeleteRow
  BY <1>4 DEF DeleteRow, TypeInv, TypeOK
<1> QED
  BY <1>1, <1>2, <1>3, <1>4
  DEF Next, vars, loop, history, process, stream, Goto, InContext, WorkerStep, Acquire, Publish,
      GetContainer, CopyCode, Compile, StartRun, Send, SendDone, SendFails, Receive,
      EndOfStream, JudgeRun, AllPassed, StopContainer, CallFails, LeaseFails, Raise, StopFails,
      Program, ProgramReads, ProgramPrints, ProgramAllocates, ProgramExits, OutOfMemory, End,
      Clock, Tick, TimeUp

LEMMA RecordedInvariant == Spec => []Recorded
<1>1. Init => Recorded
  BY DEF Init, Recorded
<1> QED
  BY <1>1, RecordedStep, TypeInvariant, CourseInvariant, PTL DEF Spec

\* A row that a call wrote, whether it returned or raised, is what it found.
LEMMA JudgedIsWritten ==
  ASSUME Recorded, Judged
  PROVE  Written
BY DEF Recorded, Judged

\* The verdict in the row is that of the first test case the program fails, by
\* what the program really did, with time and memory told apart.
THEOREM VerdictsAreFirstFailures == Spec => []VerdictIsFirstFailure
<1>1. Recorded => VerdictIsFirstFailure
  BY JudgedIsWritten DEF Written, Outcome, VerdictIsFirstFailure, Failure
<1> QED
  BY <1>1, RecordedInvariant, PTL

\* Time and memory in the row are the maxima over the runs that were made, where
\* a run that timeout(1) ended has the memory of timeout only.
THEOREM FiguresAreTheMaxima == Spec => []FiguresAreMaxima
<1>1. TypeInv /\ Maxima /\ Recorded => FiguresAreMaxima
  <2> SUFFICES ASSUME TypeInv, Maxima, Written, row.verdict # "CE"
               PROVE  FiguresAreMaxima
    BY JudgedIsWritten DEF FiguresAreMaxima
  <2>1. row.walltime_ms = max_runtime_ms /\ row.memory_kb = max_memory_used_kb
    BY DEF Written
  <2>2. ASSUME NEW i \in DOMAIN runs, runs[i].ending # "clock"
        PROVE  Smaller(runs[i].peak, MemoryLimit) <= max_memory_used_kb
    <3>1. runs[i] \in Run
      BY ElementOfSeq DEF TypeInv, TypeOK
    <3>2. /\ runs[i].peak \in Nat /\ MemoryLimit \in Nat /\ TimeoutMemory \in Nat
          /\ max_memory_used_kb \in Nat
      BY <3>1, ExecutionAssumption DEF Run, TypeInv, TypeOK
    <3>3. Kilobytes(runs[i]) <= max_memory_used_kb
      BY DEF Maxima
    <3>4. Kilobytes(runs[i]) = Smaller(Larger(runs[i].peak, TimeoutMemory), MemoryLimit)
      BY <2>2 DEF Kilobytes, Reported
    <3> QED
      BY <3>2, <3>3, <3>4 DEF Smaller, Larger
  <2> QED
    BY <2>1, <2>2 DEF Maxima, FiguresAreMaxima
<1> QED
  BY <1>1, TypeInvariant, MaximaInvariant, RecordedInvariant, PTL
=============================================================================
