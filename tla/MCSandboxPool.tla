--------------------------- MODULE MCSandboxPool ---------------------------
(* Small instances of SandboxPool for TLC. *)
EXTENDS SandboxPool

CONSTANTS cpp, python, c1, c2, w1, w2

NoFaults == [k \in FaultKind |-> 0]
OneOf(kinds) == [k \in FaultKind |-> IF k \in kinds THEN 1 ELSE 0]

OneOfEach == OneOf(FaultKind)
=============================================================================
