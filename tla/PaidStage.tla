----------------------------- MODULE PaidStage -----------------------------
(***************************************************************************)
(* What the models of the Rebuttal, of the first Initial runners and of    *)
(* the model evaluations have in common: invocations of a script that may  *)
(* die, the files such a script reads and creates, and sums of costs.      *)
(***************************************************************************)
EXTENDS Naturals, FiniteSets, SequencesExt

CONSTANTS
    Procs,        \* invocations of the scripts
    Ceiling,      \* the approved cost ceiling
    MaxCrashes    \* bound on the crashes explored

VARIABLES
    head,         \* the commit checked out
    cost,         \* the cost preflight, or preflights, on disk
    approval,     \* what the owner approved
    auth, output, \* authorizations and results on disk
    run,          \* what each invocation is doing
    crashes       \* how many invocations have died

ASSUME StageAssumption == Ceiling \in Nat /\ MaxCrashes \in Nat

None == [none |-> TRUE]

(* The sum of a sequence of numbers. *)
Total(s) == LET sum[n \in 0..Len(s)] == IF n = 0 THEN 0 ELSE sum[n - 1] + s[n]
            IN  sum[Len(s)]
=============================================================================
