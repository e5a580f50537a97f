--------------------------- MODULE OneShotPaidRun ---------------------------
(***************************************************************************)
(* What a one-shot paid Council stage promises its owner, whatever runner  *)
(* executes it: an approval buys one pass over N planned provider calls,   *)
(* every call is announced durably before it can be served, no call is     *)
(* served twice, no call is served once the approved ceiling has been      *)
(* passed, and the pass ends in at most one immutable verdict.             *)
(***************************************************************************)
EXTENDS Naturals

CONSTANTS
    N,          \* calls the owner approved (EXPECTED_CALLS)
    Ceiling,    \* approved cost ceiling
    MaxCost     \* what one call can cost at most

VARIABLES
    attempted,  \* calls announced in the write-ahead journal
    served,     \* calls the provider executed
    spent,      \* what the provider billed
    verdict     \* "NONE", "FROZEN" or "BLOCKED"

vars == <<attempted, served, spent, verdict>>

Init ==
    /\ attempted = 0
    /\ served = {}
    /\ spent = 0
    /\ verdict = "NONE"

(* One more call is announced; only while no verdict has been reached. *)
Attempt ==
    /\ verdict = "NONE"
    /\ attempted < N
    /\ spent <= Ceiling
    /\ attempted' = attempted + 1
    /\ UNCHANGED <<served, spent, verdict>>

(* The provider executes an announced call, once.  This may be late: the    *)
(* run may have given the answer up and reached its verdict already.        *)
Serve(i) ==
    /\ i <= attempted
    /\ i \notin served
    /\ spent <= Ceiling
    /\ served' = served \cup {i}
    /\ \E c \in 0..MaxCost : spent' = spent + c
    /\ UNCHANGED <<attempted, verdict>>

(* All N calls were served within the ceiling: the opinions are frozen. *)
Freeze ==
    /\ verdict = "NONE"
    /\ served = 1..N
    /\ spent <= Ceiling
    /\ verdict' = "FROZEN"
    /\ UNCHANGED <<attempted, served, spent>>

(* The run gives up; its approval is consumed by at least one attempt. *)
Block ==
    /\ verdict = "NONE"
    /\ attempted > 0
    /\ verdict' = "BLOCKED"
    /\ UNCHANGED <<attempted, served, spent>>

Next ==
    \/ Attempt
    \/ \E i \in 1..N : Serve(i)
    \/ Freeze
    \/ Block

Spec == Init /\ [][Next]_vars
=============================================================================
