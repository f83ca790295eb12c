-------------------------- MODULE MCWorkflowSession --------------------------
(* Small instances of WorkflowSession for TLC. *)
EXTENDS WorkflowSession, TLC

(* b has fewer machines than a, and names one as a does.                   *)
Names == [t \in Templates |-> IF t = "a" THEN <<"n1", "n2">> ELSE <<"n1">>]
Stock == [c \in {"ca"} |-> "a"]
TwoMachines == {<<1, "n1">>, <<2, "n2">>}
=============================================================================
