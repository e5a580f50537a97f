------------------------- MODULE MCRebuttalRuntime -------------------------
(* Two candidates; the second commit builds other requests.                *)
EXTENDS RebuttalRuntime

CONSTANTS p1, p2, bad, good, other, r1, r2

MCCandidates == <<"A", "B">>
MCBuilds == <<r1, r2>>
Answer(usage, valid, bundle, price) ==
    [received |-> TRUE, rejected |-> FALSE, usage |-> usage, valid |-> valid, bundle |-> bundle,
     cost |-> price]
MCAnswers ==
    {Answer(TRUE, TRUE, 1, 1), Answer(TRUE, TRUE, 2, 2), Answer(FALSE, TRUE, 1, 1),
     Answer(TRUE, FALSE, 1, 1), [Answer(FALSE, FALSE, 1, 1) EXCEPT !.received = FALSE]}
=============================================================================
