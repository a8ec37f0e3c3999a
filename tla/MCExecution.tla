---------------------------- MODULE MCExecution -----------------------------
(* Instances of Execution for TLC. *)
EXTENDS Execution

\* Two test cases: a short one, and one with more input than the stream holds.
TwoInputs == <<0, 2>>
TwoOutputs == <<<<"w">>, <<"w", "w">>>>
=============================================================================
