--------------------------- MODULE MCProblemStore --------------------------
(* Small instances of ProblemStore for TLC. *)
EXTENDS ProblemStore, TLC

CONSTANTS c1, c2, c3, d1, d2, s1, s2

NoFaults == [k \in FaultKind |-> 0]
OneOfEach == [k \in FaultKind |-> 1]

(* Requests of one kind are interchangeable; the properties name none. *)
Interchangeable ==
  Permutations(Creator) \cup Permutations(Deleter) \cup Permutations(Submitter)
=============================================================================
