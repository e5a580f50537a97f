-------------------------- MODULE MCJudgeExecution --------------------------
(* Small instances of JudgeExecution for TLC. *)
EXTENDS JudgeExecution

\* Two commits that build the request of the canonical head, and one that
\* changes the frozen policies, the Judge's sources and the request.
MCBuilds == <<[policy |-> TRUE, judge |-> TRUE, request |-> "r1"],
              [policy |-> TRUE, judge |-> TRUE, request |-> "r1"],
              [policy |-> FALSE, judge |-> FALSE, request |-> "r2"]>>
=============================================================================
