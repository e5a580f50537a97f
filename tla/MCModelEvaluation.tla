-------------------------- MODULE MCModelEvaluation --------------------------
(* Two candidates and two cases, the second of them critical.              *)
EXTENDS ModelEvaluation

CONSTANTS p1, p2, k1, k2

MCLadder == <<k1, k2>>
MCCases == <<"E1", "E8">>
MCCritical == {"E8"}
Answer(usage, defect, price, latency) ==
    [received |-> TRUE, usage |-> usage, defect |-> defect, cost |-> price, latency |-> latency]
(* A proposal wrong for E8 is right for E1: candidates differ in cost and  *)
(* latency without an answer of their own for it.                          *)
MCAnswers ==
    {Answer(TRUE, "none", 1, 1), Answer(FALSE, "none", 2, 1), Answer(TRUE, "E8", 2, 0),
     [Answer(FALSE, "protocol", 1, 1) EXCEPT !.received = FALSE]}
=============================================================================
