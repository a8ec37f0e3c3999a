------------------------------ MODULE Execution -----------------------------
(***************************************************************************)
(* One call of process_submission (src/judge/judge_worker/pipeline.py) from *)
(* the lease of a container on, with the runs of the program it starts     *)
(* through the executor (executor.py).                                     *)
(*                                                                         *)
(* Three parties run concurrently: the worker, which first sends the whole *)
(* input and only then reads, the program, which reads, prints and ends    *)
(* when it likes, and the clock of timeout(1).  They meet in the attached  *)
(* stream, which holds Capacity chunks in each direction.  The program,    *)
(* the clock and the stream are outside the repository.                    *)
(***************************************************************************)
EXTENDS Integers, Sequences

CONSTANTS
  Word,            \* words a program prints
  Blank,           \* white space
  Inputs,          \* of each test case, the chunks of its input
  Expected,        \* of each test case, its expected output
  TicksPerSecond,  \* resolution of the elapsed time, 100 for the format %e
  TimeLimit,       \* problems.time_limit_sec
  MemoryLimit,     \* memory_limit_kb
  MemoryCap,       \* the limit of the container, MAX_MEMCAP_GB
  TimeoutMemory,   \* what timeout(1) needs itself
  None,            \* NULL in a column
  Capacity,        \* bound: chunks the stream holds in each direction
  MaxFrames,       \* bound: frames one run prints
  Delay            \* bound: ticks by which timeout(1) is late

Frame == Word \cup {Blank}
Tests == 1..Len(Expected)
Latest == TimeLimit * TicksPerSecond + Delay
ExitCode == {0, 1, 124, 137}    \* one of each kind run_program tells apart
Failure == {"WA", "TLE", "MLE", "RE"}

ASSUME ExecutionAssumption ==
  /\ Blank \notin Word /\ None \notin Nat
  /\ Inputs \in Seq(Nat) /\ Expected \in Seq(Seq(Frame)) /\ Len(Inputs) = Len(Expected)
  /\ TicksPerSecond \in Nat \ {0} /\ TimeLimit \in Nat
  /\ MemoryLimit \in Nat /\ MemoryCap \in Nat /\ TimeoutMemory \in Nat
  /\ Delay \in Nat /\ Delay < 999 * TicksPerSecond
  /\ Capacity \in Nat \ {0} /\ MaxFrames \in Nat

VARIABLES
  place,       \* where the worker is
  container,   \* the container it leases
  idx,         \* the test case of the current run
  verdict,     \* result.verdict
  failed,      \* first_failure, as the test case it names, or 0
  max_runtime_ms, max_memory_used_kb,
  row,         \* the columns of the submission's row, verdict "gone" without one
  unsent,      \* chunks sendall has left
  received,    \* stdout_chunks
  program,     \* the program: "none", "running", "ended"
  exit_code, elapsed, peak,   \* what it ended with, its time and its memory
  stdin, stdout,              \* chunks and frames in the stream
  written,     \* history: what the current run has printed
  ending,      \* history: what ended it: "itself", "clock" or "cap"
  runs,        \* history: the runs so far, as they really were
  mishap       \* history: calls about the container itself that failed

loop == <<idx, verdict, failed, max_runtime_ms, max_memory_used_kb>>
stream == <<unsent, received, stdin, stdout>>
process == <<program, exit_code, elapsed, peak, written, ending>>
history == <<runs, mishap>>
vars == <<place, container, loop, row, stream, process, history>>

Goto(from, to) == place = from /\ place' = to

\* The places inside the `with` statement, before its finally clause.
InContext == {"copy", "compile", "loop", "send", "receive", "inspect"}
-----------------------------------------------------------------------------
(* The worker: lease, copy, compile *)

Acquire ==
  /\ place = "acquire"
  /\ \/ place' = "publish" /\ container' = "leased"
     \/ place' = "raised" /\ UNCHANGED container       \* TimeoutError
  /\ UNCHANGED <<loop, row, stream, process, history>>

Publish ==
  /\ Goto("publish", "get")
  /\ UNCHANGED <<container, loop, row, stream, process, history>>

GetContainer ==
  /\ Goto("get", "copy")
  /\ UNCHANGED <<container, loop, row, stream, process, history>>

\* PUBLISH or containers.get raises, or the reply of BRPOP is lost: a container
\* is taken, and the finally clause is not yet in force.
LeaseFails ==
  /\ place \in {"acquire", "publish", "get"} /\ place' = "raised"
  /\ container' = "leased" /\ mishap' = mishap \cup {"lease"}
  /\ UNCHANGED <<loop, row, stream, process, runs>>

\* Python has nothing to compile.
CopyCode ==
  /\ place = "copy" /\ place' \in {"compile", "loop"}
  /\ UNCHANGED <<container, loop, row, stream, process, history>>

Compile ==
  /\ place = "compile"
  /\ \/ place' = "loop" /\ UNCHANGED verdict
     \/ place' = "stop" /\ verdict' = "CE"
  /\ UNCHANGED <<container, idx, failed, max_runtime_ms, max_memory_used_kb, row, stream,
                 process, history>>
-----------------------------------------------------------------------------
(* The worker: run_program *)

\* The input and the expected output are read, and the program started.
StartRun ==
  /\ Goto("loop", "send") /\ idx < Len(Expected)
  /\ idx' = idx + 1
  /\ unsent' = Inputs[idx'] /\ received' = <<>> /\ stdin' = 0 /\ stdout' = <<>>
  /\ program' = "running" /\ exit_code' = 0 /\ elapsed' = 0 /\ peak' = 0
  /\ written' = <<>> /\ ending' = "none"
  /\ UNCHANGED <<container, verdict, failed, max_runtime_ms, max_memory_used_kb, row, history>>

Send ==
  /\ place = "send" /\ UNCHANGED place
  /\ unsent > 0 /\ stdin < Capacity
  /\ unsent' = unsent - 1 /\ stdin' = stdin + 1
  /\ UNCHANGED <<container, loop, row, received, stdout, process, history>>

\* sendall returns; the write side of the socket stays open.
SendDone ==
  /\ Goto("send", "receive") /\ unsent = 0
  /\ UNCHANGED <<container, loop, row, stream, process, history>>

\* The program is gone with input unread: the connection breaks or times out.
SendFails ==
  /\ Goto("send", "unwind") /\ unsent > 0 /\ program = "ended"
  /\ UNCHANGED <<container, loop, row, stream, process, history>>

Receive ==
  /\ place = "receive" /\ UNCHANGED place
  /\ stdout # <<>>
  /\ received' = Append(received, Head(stdout)) /\ stdout' = Tail(stdout)
  /\ UNCHANGED <<container, loop, row, unsent, stdin, process, history>>

\* Mutant: stops when the process has ended, without the frames still in flight.
EndOfStream_early ==
  /\ Goto("receive", "inspect") /\ program = "ended"
  /\ UNCHANGED <<container, loop, row, stream, process, history>>

EndOfStream ==
  /\ Goto("receive", "inspect") /\ program = "ended" /\ stdout = <<>>
  /\ UNCHANGED <<container, loop, row, stream, process, history>>

IsWord(x) == x # Blank

\* "\n".join(s.strip().split()): the words in their order, layout ignored.
norm(s) == SelectSeq(s, IsWord)

Smaller(m, n) == IF m < n THEN m ELSE n
Larger(m, n) == IF m > n THEN m ELSE n

time_elapsed == Smaller(elapsed \div TicksPerSecond, TimeLimit * 1000)

\* The %M of /usr/bin/time: the most that timeout, or a process somebody waited
\* for, has used.  At the limit timeout kills its whole group, itself included,
\* and nobody waits for the program.
Reported(cause, kb) == IF cause = "clock" THEN TimeoutMemory ELSE Larger(kb, TimeoutMemory)

memory_kb_used == Smaller(Reported(ending, peak), MemoryLimit)

\* Mutant: looks at the output of a program whatever it ended with.
RunVerdict_lenient ==
  IF memory_kb_used = MemoryLimit THEN "MLE"
  ELSE IF exit_code \in {124, 137} THEN "TLE"
  ELSE IF norm(received) = norm(Expected[idx]) THEN "AC" ELSE "WA"

RunVerdict ==
  IF memory_kb_used = MemoryLimit THEN "MLE"
  ELSE IF exit_code \in {124, 137} THEN "TLE"
  ELSE IF exit_code # 0 THEN "RE"
  ELSE IF norm(received) = norm(Expected[idx]) THEN "AC" ELSE "WA"

ThisRun == [exit_code |-> exit_code, elapsed |-> elapsed, peak |-> peak,
            output |-> written, ending |-> ending]

\* Mutant: keeps the figures of the last run.
JudgeRun_last ==
  /\ place = "inspect"
  /\ max_runtime_ms' = time_elapsed /\ max_memory_used_kb' = memory_kb_used
  /\ IF RunVerdict = "AC"
       THEN place' = "loop" /\ UNCHANGED <<verdict, failed>>
       ELSE place' = "stop" /\ verdict' = RunVerdict /\ failed' = idx
  /\ runs' = Append(runs, ThisRun)
  /\ program' = "none"
  /\ UNCHANGED <<container, idx, row, stream, exit_code, elapsed, peak, written, ending, mishap>>

\* Mutant: counts the failing test case on.
JudgeRun_next ==
  /\ place = "inspect"
  /\ max_runtime_ms' = Larger(max_runtime_ms, time_elapsed)
  /\ max_memory_used_kb' = Larger(max_memory_used_kb, memory_kb_used)
  /\ IF RunVerdict = "AC"
       THEN place' = "loop" /\ UNCHANGED <<verdict, failed>>
       ELSE place' = "stop" /\ verdict' = RunVerdict /\ failed' = idx + 1
  /\ runs' = Append(runs, ThisRun)
  /\ program' = "none"
  /\ UNCHANGED <<container, idx, row, stream, exit_code, elapsed, peak, written, ending, mishap>>

JudgeRun ==
  /\ place = "inspect"
  /\ max_runtime_ms' = Larger(max_runtime_ms, time_elapsed)
  /\ max_memory_used_kb' = Larger(max_memory_used_kb, memory_kb_used)
  /\ IF RunVerdict = "AC"
       THEN place' = "loop" /\ UNCHANGED <<verdict, failed>>
       ELSE place' = "stop" /\ verdict' = RunVerdict /\ failed' = idx
  /\ runs' = Append(runs, ThisRun)
  /\ program' = "none"
  /\ UNCHANGED <<container, idx, row, stream, exit_code, elapsed, peak, written, ending, mishap>>

\* The loop over the test cases is over without a failure.
AllPassed ==
  /\ Goto("loop", "stop") /\ idx = Len(Expected)
  /\ verdict' = "AC"
  /\ UNCHANGED <<container, idx, failed, max_runtime_ms, max_memory_used_kb, row, stream,
                 process, history>>
-----------------------------------------------------------------------------
(* The worker: the end of process_submission *)

\* Docker, MinIO, or the parsing of the statistics raises.
Raise ==
  /\ place \in InContext /\ place' = "unwind"
  /\ UNCHANGED <<container, loop, row, stream, process, history>>

\* Mutant: no finally clause.
StopContainer_success ==
  \/ /\ Goto("stop", "update") /\ container' = "stopped" /\ program' = "none"
     /\ UNCHANGED <<loop, row, stream, exit_code, elapsed, peak, written, ending, history>>
  \/ /\ Goto("unwind", "raised")
     /\ UNCHANGED <<container, loop, row, stream, process, history>>

StopContainer ==
  /\ Goto("stop", "update") \/ Goto("unwind", "raised")
  /\ container' = "stopped" /\ program' = "none"
  /\ UNCHANGED <<loop, row, stream, exit_code, elapsed, peak, written, ending, history>>

StopFails ==
  /\ place \in {"stop", "unwind"} /\ place' = "raised"
  /\ mishap' = mishap \cup {"stop"}
  /\ UNCHANGED <<container, loop, row, stream, process, runs>>

Result ==
  IF row.verdict = "gone" THEN row
  ELSE [verdict |-> verdict, testcase |-> failed,
        walltime_ms |-> IF verdict = "CE" THEN None ELSE max_runtime_ms,
        memory_kb |-> IF verdict = "CE" THEN None ELSE max_memory_used_kb]

UpdateRow ==
  /\ Goto("update", "done") /\ row' = Result
  /\ UNCHANGED <<container, loop, stream, process, history>>

\* The transaction rolls back, or only the answer to its commit is lost.
UpdateFails ==
  /\ Goto("update", "raised") /\ row' \in {row, Result}
  /\ UNCHANGED <<container, loop, stream, process, history>>

WorkerStep ==
  \/ Acquire \/ Publish \/ GetContainer \/ CopyCode \/ Compile
  \/ StartRun \/ Send \/ SendDone \/ SendFails \/ Receive \/ EndOfStream
  \/ JudgeRun \/ AllPassed \/ StopContainer \/ UpdateRow

CallFails == LeaseFails \/ Raise \/ StopFails \/ UpdateFails
-----------------------------------------------------------------------------
(* The program, and what may end it *)

ProgramReads ==
  /\ program = "running" /\ stdin > 0
  /\ stdin' = stdin - 1
  /\ UNCHANGED <<place, container, loop, row, unsent, received, stdout, process, history>>

ProgramPrints ==
  /\ program = "running" /\ Len(stdout) < Capacity /\ Len(written) < MaxFrames
  /\ \E f \in Frame : stdout' = Append(stdout, f) /\ written' = Append(written, f)
  /\ UNCHANGED <<place, container, loop, row, unsent, received, stdin, program, exit_code,
                 elapsed, peak, ending, history>>

ProgramAllocates ==
  /\ program = "running" /\ peak < MemoryCap
  /\ peak' = peak + 1
  /\ UNCHANGED <<place, container, loop, row, stream, program, exit_code, elapsed, written,
                 ending, history>>

End(cause, code) ==
  /\ program = "running" /\ program' = "ended"
  /\ exit_code' = code /\ ending' = cause
  /\ UNCHANGED <<place, container, loop, row, stream, elapsed, peak, written, history>>

ProgramExits == \E code \in ExitCode : End("itself", code)

\* The kernel kills a process at the memory limit of its container.
OutOfMemory == peak = MemoryCap /\ End("cap", 137)

\* Without a limit a run takes as long as it likes.
Tick ==
  /\ program = "running" /\ (TimeLimit > 0 => elapsed < Latest)
  /\ elapsed' = elapsed + 1
  /\ UNCHANGED <<place, container, loop, row, stream, program, exit_code, peak, written,
                 ending, history>>

\* Mutant: a signal the program may ignore.
TimeUp_ignored ==
  /\ elapsed >= TimeLimit * TicksPerSecond
  /\ \/ End("clock", 137)
     \/ program = "running" /\ elapsed' = 0
        /\ UNCHANGED <<place, container, loop, row, stream, program, exit_code, peak, written,
                       ending, history>>

\* timeout -s KILL, to which a duration of zero means no limit.
TimeUp ==
  /\ TimeLimit > 0 /\ elapsed >= TimeLimit * TicksPerSecond
  /\ End("clock", 137)

Clock == Tick \/ TimeUp

DeleteRow ==
  /\ row.verdict # "gone" /\ row' = [row EXCEPT !.verdict = "gone"]
  /\ UNCHANGED <<place, container, loop, stream, process, history>>
-----------------------------------------------------------------------------
Pending == [verdict |-> "PD", testcase |-> 0, walltime_ms |-> None, memory_kb |-> None]

Init ==
  /\ place = "acquire" /\ container = "none"
  /\ idx = 0 /\ verdict = "PD" /\ failed = 0
  /\ max_runtime_ms = 0 /\ max_memory_used_kb = 0
  /\ row = Pending
  /\ unsent = 0 /\ received = <<>> /\ stdin = 0 /\ stdout = <<>>
  /\ program = "none" /\ exit_code = 0 /\ elapsed = 0 /\ peak = 0
  /\ written = <<>> /\ ending = "none" /\ runs = <<>> /\ mishap = {}

Program == ProgramReads \/ ProgramPrints \/ ProgramAllocates \/ ProgramExits \/ OutOfMemory

Next == WorkerStep \/ CallFails \/ Program \/ Clock \/ DeleteRow

Spec == Init /\ [][Next]_vars

\* The worker and the clock go on; the program need not do anything at all.
FairSpec == Spec /\ WF_vars(WorkerStep) /\ WF_vars(Clock)
-----------------------------------------------------------------------------
(* Properties *)

Run == [exit_code : ExitCode, elapsed : Nat, peak : Nat, output : Seq(Frame),
        ending : {"itself", "clock", "cap"}]
Verdict == Failure \cup {"PD", "AC", "CE"}

\* Every variable has its type.
TypeOK ==
  /\ place \in InContext \cup {"acquire", "publish", "get", "stop", "unwind", "update",
                               "done", "raised"}
  /\ container \in {"none", "leased", "stopped"}
  /\ idx \in Tests \cup {0} /\ verdict \in Verdict /\ failed \in Tests \cup {0}
  /\ max_runtime_ms \in Nat /\ max_memory_used_kb \in Nat
  /\ row \in [verdict : Verdict \cup {"gone"}, testcase : Tests \cup {0},
              walltime_ms : Nat \cup {None}, memory_kb : Nat \cup {None}]
  /\ unsent \in Nat /\ received \in Seq(Frame)
  /\ stdin \in 0..Capacity /\ stdout \in Seq(Frame)
  /\ program \in {"none", "running", "ended"}
  /\ exit_code \in ExitCode /\ elapsed \in Nat /\ peak \in Nat
  /\ written \in Seq(Frame) /\ ending \in {"none", "itself", "clock", "cap"}
  /\ runs \in Seq(Run) /\ mishap \subseteq {"lease", "stop"}

\* The call returned, or raised after it had written the row.
Judged == row.verdict # "gone" /\ (place = "done" \/ row # Pending)

\* The run solved test case i: it ended by itself and in order, it and timeout
\* below the memory limit, and all it printed, read or not, is right.
Solves(r, i) ==
  /\ r.ending = "itself" /\ r.exit_code = 0
  /\ r.peak < MemoryLimit /\ TimeoutMemory < MemoryLimit
  /\ norm(r.output) = norm(Expected[i])

\* What verdict v says of the failed run r.  A run that the clock ended is never
\* charged with its memory, which nobody measured; one that reached the memory
\* limit and ended otherwise is, also if the kernel killed it.  Only a limit
\* below what timeout needs makes a failure of memory out of every run.
Tells(v, r) ==
  /\ r.ending = "clock" /\ TimeoutMemory < MemoryLimit => v = "TLE"
  /\ r.ending # "clock" /\ MemoryLimit <= r.peak => v = "MLE"
  /\ v = "MLE" => \/ r.ending # "clock" /\ MemoryLimit <= r.peak
                  \/ MemoryLimit <= TimeoutMemory
  /\ v = "TLE" => r.exit_code \in {124, 137}
  /\ v \in {"WA", "RE"} => r.ending = "itself"

\* The verdict in the row is that of the first test case the program fails,
\* in the order of the test cases and by what the program really did, however
\* worker, program and clock interleave; accepted means that all were run, a
\* program that was killed is not charged with its output or its exit code, and
\* time and memory are told apart (executor.py:118-133, pipeline.py:108-147).
VerdictIsFirstFailure ==
  Judged =>
    /\ row.verdict # "PD"
    /\ row.verdict = "CE" => runs = <<>>
    /\ row.verdict = "AC" => Len(runs) = Len(Expected)
    /\ row.verdict \in {"CE", "AC"} => row.testcase = 0
    /\ row.verdict \in Failure =>
         /\ row.testcase = Len(runs) /\ ~ Solves(runs[row.testcase], row.testcase)
         /\ Tells(row.verdict, runs[row.testcase])
    /\ \A i \in DOMAIN runs : i # row.testcase => Solves(runs[i], i)

\* What a run should add to the figures: whole seconds, rounded down, which a
\* limit of zero, none for timeout(1), makes zero; and the memory time reports.
Seconds(r) == IF TimeLimit = 0 THEN 0 ELSE r.elapsed \div TicksPerSecond
Kilobytes(r) == Smaller(Reported(r.ending, r.peak), MemoryLimit)

\* The time and memory in the row are the maxima over the runs that were made:
\* whole seconds, although the column is walltime_ms and the field runtime_ms,
\* and memory cut off at the limit.  Every run that the clock did not end counts
\* with its true peak; one that it ended counts with the memory of timeout(1)
\* alone, however much the program had.  The bound in milliseconds on the seconds
\* never takes effect (executor.py:80, 118-121, pipeline.py:128-129).
FiguresAreMaxima ==
  Judged /\ row.verdict # "CE" =>
    /\ \A i \in DOMAIN runs :
         /\ Seconds(runs[i]) <= row.walltime_ms /\ Kilobytes(runs[i]) <= row.memory_kb
         /\ runs[i].ending # "clock" => Smaller(runs[i].peak, MemoryLimit) <= row.memory_kb
    /\ runs # <<>> =>
         /\ \E i \in DOMAIN runs : row.walltime_ms = Seconds(runs[i])
         /\ \E i \in DOMAIN runs : row.memory_kb = Kilobytes(runs[i])

\* Whatever raises, a container that was leased is stopped before the call is
\* over and before a verdict is written, unless the lease, its event or the
\* lookup failed half-way, or the stop itself did.
ContainerStopped ==
  /\ place \in {"done", "raised"} /\ mishap = {} => container # "leased"
  /\ row.verdict \notin {"gone", "PD"} => container = "stopped"

\* process_submission returns or raises, also when worker and program wait for
\* each other: the one in sendall on a full stream, the other on a full output.
RunEnds == <>(place \in {"done", "raised"})
=============================================================================
