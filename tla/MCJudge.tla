------------------------------ MODULE MCJudge ------------------------------
(* Small instances of Judge for TLC. *)
EXTENDS Judge, TLC

CONSTANTS s1, s2, AC, WA

One(kinds) == [k \in FaultKind |-> IF k \in kinds THEN 1 ELSE 0]
NoFaults == One({})
StallRedisCrash == One({"stall", "redis", "crash"})
AllButCrash == One({"stall", "redis", "api", "commit", "delete"})
InterruptsRedis == [One({"redis", "interrupt"}) EXCEPT !["interrupt"] = 2]
CrashStall == One({"crash", "stall"})

\* Submissions are interchangeable where none is malformed or broken, and so are
\* the verdicts.
Interchangeable == Permutations(Submission) \cup Permutations(FinalVerdict)
=============================================================================
