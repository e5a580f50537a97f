--------------------------- MODULE JudgeAuthority ---------------------------
(***************************************************************************)
(* What allows the TTL Judge's paid call.  The expired decision leaves a   *)
(* lineage receipt and a preflight that says a fresh decision is needed    *)
(* (b4_recovered_decision_ttl_lineage_zero_call_v01,                       *)
(* b4_ttl_expiry_review_preflight_zero_call_v01).  A production gate is    *)
(* built from them at a commit (b4_ttl_judge_production_gate_zero_call_v01,*)
(* which builds the readiness anew and reads no artifact of it), and the   *)
(* owner approves a gate twice: to activate it and to pay.  All of it is   *)
(* checked again when the call is made (AuthorityPair), at the commit and  *)
(* on the branch that are then checked out.                                *)
(***************************************************************************)
EXTENDS Naturals, Sequences

\* Builds: of each commit of the canonical branch, in order, whether its
\* policies and the Judge's sources are the frozen ones, and which request its
\* code builds from the evidence on disk.
CONSTANT Builds

Heads == DOMAIN Builds
CanonicalHead == 1                               \* CANONICAL_HEAD
ProspectiveRequest == Builds[CanonicalHead].request   \* PROSPECTIVE_REQUEST_HASH

ASSUME BuildsAssumption ==
    /\ Len(Builds) \in Nat \ {0}
    /\ DOMAIN Builds = 1..Len(Builds)
    /\ \A h \in Heads : Builds[h].policy \in BOOLEAN /\ Builds[h].judge \in BOOLEAN

VARIABLES
    head,        \* the commit checked out
    canonical,   \* its branch is the canonical one, and the worktree is clean
    remote,      \* the head of the remote canonical branch
    lineage,     \* the lineage receipt
    preflight,   \* the TTL preflight
    gates,       \* of each commit, the gate at its default path
    activation,  \* the commit of the gate the owner activated, 0 if none
    paid         \* the owner's paid approval

tree == <<head, canonical>>
documents == <<lineage, preflight, gates>>
approvals == <<activation, paid>>
authority == <<tree, remote, documents, approvals>>

NoApproval == [gate |-> 0, activation |-> 0, later |-> FALSE]

AuthorityInit ==
    /\ head = CanonicalHead /\ canonical = TRUE /\ remote = CanonicalHead
    /\ lineage = "ABSENT" /\ preflight = "ABSENT"
    /\ gates = [h \in Heads |-> "ABSENT"]
    /\ activation = 0 /\ paid = NoApproval

-----------------------------------------------------------------------------
(* The developer checks out another commit or branch, or edits a file. *)
Checkout ==
    /\ head' \in Heads /\ canonical' \in BOOLEAN
    /\ tree' # tree
    /\ UNCHANGED <<remote, documents, approvals>>

(* Somebody pushes the next commit of the canonical branch. *)
Push ==
    /\ remote + 1 \in Heads
    /\ remote' = remote + 1
    /\ UNCHANGED <<tree, documents, approvals>>

(* recover_lineage: capture, recovered decision and policy are the pinned  *)
(* ones, and the Judge's source takes the decision's time from the capture.*)
RecoverLineage == Builds[head].policy /\ Builds[head].judge

(* The receipt, created exclusively; a crash leaves it torn. *)
BuildLineage ==
    /\ RecoverLineage
    /\ lineage = "ABSENT"
    /\ lineage' \in {"TORN", "WRITTEN"}
    /\ UNCHANGED <<tree, remote, preflight, gates, approvals>>

(* The frozen policies and schemas, and the source that is their authority.*)
FrozenAuthorities == head = CanonicalHead /\ Builds[head].policy /\ Builds[head].judge

(* The scope of the review after expiry, once, at the pinned commit. *)
BuildPreflight ==
    /\ FrozenAuthorities /\ RecoverLineage
    /\ lineage = "WRITTEN"
    /\ preflight = "ABSENT"
    /\ preflight' \in {"TORN", "WRITTEN"}
    /\ UNCHANGED <<tree, remote, lineage, gates, approvals>>

-----------------------------------------------------------------------------
InactiveProposal == Builds[head].policy
ExpiredLineage == RecoverLineage /\ lineage = "WRITTEN"
FrozenJudge == Builds[head].judge
Request == Builds[head].request

(* build_readiness, of the checkout at hand. *)
Readiness == InactiveProposal /\ ExpiredLineage /\ preflight = "WRITTEN" /\ FrozenJudge

(* verify_source_readiness pins the request the readiness has built. *)
SourceReadiness == Readiness /\ Request = ProspectiveRequest

(* A gate is eligible for approval if it was built on the canonical branch *)
(* and a clean worktree; a torn one, or one built elsewhere, keeps its     *)
(* path and is of no use.                                                  *)
GateNow == IF canonical THEN "ELIGIBLE" ELSE "UNUSABLE"

BuildGate ==
    /\ SourceReadiness
    /\ gates[head] = "ABSENT"
    /\ \E g \in {GateNow, "UNUSABLE"} : gates' = [gates EXCEPT ![head] = g]
    /\ UNCHANGED <<tree, remote, lineage, preflight, approvals>>

(* The owner approves a gate that exists, activation and payment apart. *)
Activate ==
    /\ \E h \in Heads : gates[h] # "ABSENT" /\ activation' = h
    /\ activation' # activation
    /\ UNCHANGED <<tree, remote, documents, paid>>

ApprovePayment ==
    /\ \E h \in Heads, l \in BOOLEAN :
          /\ gates[h] # "ABSENT"
          /\ paid' = [gate |-> h, activation |-> activation, later |-> l]
    /\ paid' # paid
    /\ UNCHANGED <<tree, remote, documents, activation>>

Authorize ==
    \/ BuildLineage \/ BuildPreflight \/ BuildGate
    \/ Activate \/ ApprovePayment

-----------------------------------------------------------------------------
(* verify_gate builds the gate anew; it must be the one that was approved. *)
VerifyGate == SourceReadiness /\ gates[head] = "ELIGIBLE" /\ GateNow = "ELIGIBLE"
VerifyActivation == activation = head
VerifyPaid == paid.gate = head /\ paid.activation = activation

(* verify_authority_pair: branch, commit and worktree now, the gate now,   *)
(* and two approvals of it, the paid one given after the activation.       *)
AuthorityPair ==
    /\ canonical
    /\ VerifyGate /\ VerifyActivation /\ VerifyPaid
    /\ paid.later

AuthorityTypeOK ==
    /\ head \in Heads /\ canonical \in BOOLEAN /\ remote \in Heads
    /\ lineage \in {"ABSENT", "TORN", "WRITTEN"}
    /\ preflight \in {"ABSENT", "TORN", "WRITTEN"}
    /\ gates \in [Heads -> {"ABSENT", "ELIGIBLE", "UNUSABLE"}]
    /\ activation \in Heads \cup {0}
    /\ paid \in [gate : Heads \cup {0}, activation : Heads \cup {0}, later : BOOLEAN]
=============================================================================
