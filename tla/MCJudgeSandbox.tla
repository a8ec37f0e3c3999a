--------------------------- MODULE MCJudgeSandbox ---------------------------
(* Small instances of JudgeSandbox for TLC. *)
EXTENDS JudgeSandbox

CONSTANTS cpp, python, s1, s2

OneLeaseOneManager == [k \in FaultKind |-> IF k \in {"lease", "manager"} THEN 1 ELSE 0]

\* s2 is in the language whose image is broken.
OneEach == [s \in Submission |-> IF s = s2 THEN python ELSE cpp]
=============================================================================
