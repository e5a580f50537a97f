------------------------- MODULE MCJudgeProduction -------------------------
(* Two invocations, three commits: the second builds the request of the    *)
(* first and accepts more, the third builds another.                       *)
EXTENDS JudgeProduction

Symmetric == Permutations(Procs)

A(received, usage, cost, outcome, reopen, sound) ==
    [received |-> received, usage |-> usage, cost |-> cost, outcome |-> outcome,
     eligible |-> TRUE, reopen |-> reopen, reads |-> {1, 2, 3}, sound |-> sound,
     capturable |-> Later]
MCBuilds == <<"r1", "r1", "r2">>
MCAnswers == {A(FALSE, FALSE, 2, "WATCH", FALSE, {}),        \* executed, the answer lost
              A(TRUE, TRUE, 2, "WATCH", TRUE, {1, 2, 3}),
              [A(TRUE, TRUE, 2, "WATCH", FALSE, {2})         \* only a repaired parser reads it
                  EXCEPT !.reads = {2}],
              [A(TRUE, TRUE, 2, "WATCH", TRUE, {})           \* its identifier is no text
                  EXCEPT !.reads = {}, !.capturable = Later \ {"v1"}],
              [A(TRUE, FALSE, 2, "WATCH", FALSE, {})         \* a number in it is not finite
                  EXCEPT !.reads = {}, !.capturable = {}],
              A(TRUE, TRUE, 2, "INVEST", FALSE, {1, 2, 3}),
              [A(TRUE, TRUE, 2, "INVEST", FALSE, {1, 2, 3}) EXCEPT !.eligible = FALSE],
              A(TRUE, FALSE, 2, "ABSTAIN", TRUE, {1, 2, 3}),
              A(TRUE, TRUE, 4, "ABSTAIN", FALSE, {1, 2, 3}),
              A(TRUE, TRUE, 4, "ABSTAIN", TRUE, {1, 2, 3})}
=============================================================================
