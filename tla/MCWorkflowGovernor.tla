-------------------------- MODULE MCWorkflowGovernor --------------------------
(* Instances for TLC: two workflow runs, one of them with three requests, so   *)
(* that its queue need not empty, and the main agent; or three runs.          *)
EXTENDS WorkflowGovernor

CONSTANTS a1, a2, a3, b1, c1, m1, A, B, C, Main

MCRunOf == [r \in Requests |->
    CASE r \in {a1, a2, a3} -> A [] r = b1 -> B [] r = c1 -> C [] OTHER -> Observer]
===============================================================================
