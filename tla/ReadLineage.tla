----------------------------- MODULE ReadLineage -----------------------------
(***************************************************************************)
(* The four passes of external reads that reopened the Judge's research    *)
(* (the scripts b3_research_reopen_execute).  Each has an authorization     *)
(* that is created once, a journal that is written before a read and after *)
(* it, and a result.  A pass that stopped is not run again: a zero-call    *)
(* reconciliation pins how far it came, and the next pass reads what is    *)
(* still missing.                                                          *)
(*   1  residual reads        NVDA, MSFT, META news, then account, market  *)
(*   2  continuation          MSFT onwards, NVDA from its saved page token *)
(*   3  wire repair           the same, with a snapshot of every response  *)
(*   4  CR4-to-CR6 repair     portfolio, market, NVDA; goes on after a     *)
(*                            bundle that failed                           *)
(***************************************************************************)
EXTENDS Naturals, FiniteSets, SequencesExt

CONSTANTS
    Procs,       \* invocations of the scripts
    Overlap,     \* may two invocations be alive at once?
    MaxCrashes   \* bound on the crashes explored

ASSUME OverlapAssumption == Overlap \in BOOLEAN
ASSUME CrashAssumption == MaxCrashes \in Nat

VARIABLES
    artifacts,   \* zero-call artifacts on disk
    auth,        \* authorization of each pass
    journal,     \* [attempts, bound, snapshots, receipts, failures] of each pass
    raw,         \* snapshots of responses on disk
    result,      \* [file, status, kept, attempts] of each pass
    pc, pass, at, n, answer, outs, failed, count,  \* of each invocation
    served,      \* reads the provider executed
    crashes

locals == <<pass, at, n, answer, outs, failed, count>>
vars == <<artifacts, auth, journal, raw, result, pc, locals, served, crashes>>

Passes == 1..4
News == {"NVDA", "MSFT", "META"}
Needs == News \cup {"POSITIONS", "PORTFOLIO", "MARKET"}

(* What the Judge asked to be researched again: three requirements and the  *)
(* four conditions of META.                                                *)
Requirements == {"NVDA_developments", "MSFT_valuation", "MSFT_durability"}
Targets == Requirements \cup {"META_1", "META_2", "META_3", "META_4"}

(* Two of them are first replayed from local evidence; the replay resolves  *)
(* neither, so that all seven are to be read.                              *)
LocalFirst == {"MSFT_valuation", "META_4"}
ResolvedLocally == {}
Residual == (Targets \ LocalFirst) \cup (LocalFirst \ ResolvedLocally)

(* The bundles that answer a target. *)
BundlesOf ==
    [t \in Targets |->
        CASE t = "NVDA_developments" -> {"NVDA"}
          [] t = "MSFT_valuation" -> {"MSFT", "MARKET"}
          [] t = "MSFT_durability" -> {"MSFT"}
          [] t = "META_4" -> {"POSITIONS", "PORTFOLIO", "MARKET"}
          [] OTHER -> {"META"}]

(* The bundles of a pass, in the order it reads them. *)
ResidualBundles == <<"NVDA", "MSFT", "META", "POSITIONS", "PORTFOLIO", "MARKET">>
ContinuationBundles == <<"MSFT", "META", "POSITIONS", "PORTFOLIO", "MARKET", "NVDA">>
RepairBundles == <<"PORTFOLIO", "MARKET", "NVDA">>

Bundles(k) ==
    CASE k = 1 -> ResidualBundles
      [] k \in {2, 3} -> ContinuationBundles
      [] k = 4 -> RepairBundles

\* mutant: the continuation starts with the token that led to the last page
FirstPageOfRetained(k, need) == IF need = "NVDA" /\ k > 1 THEN 2 ELSE 1

(* The page at which a pass begins to read: NVDA is continued where the     *)
(* first pass stopped, after two pages.                                    *)
FirstPage(k, need) == IF need = "NVDA" /\ k > 1 THEN 3 ELSE 1

MaxPages(k, need) ==
    IF need = "NVDA" /\ k > 1 THEN 4 ELSE IF need \in News THEN 2 ELSE 1

(* The n-th read of a bundle is of this page. *)
Page(k, need, i) == <<need, FirstPage(k, need) + i - 1>>

(* MAX_DISPATCH_ATTEMPTS: what a pass may dispatch is what its bundles add   *)
(* up to.                                                                  *)
Ceiling(k) == CASE k = 1 -> 9 [] k \in {2, 3} -> 11 [] k = 4 -> 6
ASSUME CeilingArithmetic ==
    \A k \in Passes :
        Ceiling(k) = FoldSeq(LAMBDA need, sum : sum + MaxPages(k, need), 0, Bundles(k))

\* A page of news has a successor ("more") or is the last; "empty" is a last
\* page spelt "" instead of null; "bad" arrived and is refused; "odd" passes
\* the transport and fails typed validation; "refused" is a nonzero exit with
\* output; "lost" is a timeout.
Answers(need) ==
    {"last", "bad", "refused", "lost"}
    \cup (IF need \in News THEN {"more", "odd"} ELSE {})
    \cup (IF need = "MARKET" THEN {"empty"} ELSE {})

NoEvent == [attempts |-> {}, bound |-> FALSE, snapshots |-> {}, receipts |-> {}, failures |-> {}]
NoResult == [file |-> "ABSENT", status |-> "NONE", kept |-> {}, attempts |-> 0]

Init ==
    /\ artifacts = {}
    /\ auth = [k \in Passes |-> "ABSENT"]
    /\ journal = [k \in Passes |-> NoEvent]
    /\ raw = [k \in Passes |-> {}]
    /\ result = [k \in Passes |-> NoResult]
    /\ pc = [p \in Procs |-> "idle"]
    /\ pass = [p \in Procs |-> 1]
    /\ at = [p \in Procs |-> 1]
    /\ n = [p \in Procs |-> 0]
    /\ answer = [p \in Procs |-> "last"]
    /\ outs = [p \in Procs |-> {}]
    /\ failed = [p \in Procs |-> {}]
    /\ count = [p \in Procs |-> 0]
    /\ served = [k \in Passes |-> {}]
    /\ crashes = 0

Goto(p, label) == pc' = [pc EXCEPT ![p] = label]
(* "raised": the invocation ended with an exception no handler caught. *)
Over == {"idle", "done", "dead", "raised"}
Need(p) == Bundles(pass[p])[at[p]]
Record(p, field, event) ==
    journal' = [journal EXCEPT ![pass[p]][field] = @ \cup {event}]
-----------------------------------------------------------------------------
(* The zero-call artifacts between the passes: each builder checks what it   *)
(* is built from, by hashes written into its code, and creates its file    *)
(* exclusively.                                                            *)

Evidence(k) ==
    \/ auth[k] # "ABSENT" \/ journal[k] # NoEvent \/ result[k].file # "ABSENT"
    \/ k > 2 /\ raw[k] # {}

Publish(x) ==
    /\ x \notin artifacts
    /\ artifacts' = artifacts \cup {x}
    /\ UNCHANGED <<auth, journal, raw, result, pc, locals, served, crashes>>

ScopeReopen == Publish("scope")

InventoryEvidence == "scope" \in artifacts /\ Publish("inventory")

ReplayLocally == "inventory" \in artifacts /\ Publish("local_replay")

(* build_plan: the bundles cover what is still to be read. *)
PlanCovers == UNION {BundlesOf[t] : t \in Residual} = Range(ResidualBundles)

PlanResidualReads ==
    /\ "local_replay" \in artifacts
    /\ PlanCovers
    /\ Publish("plan")

PreflightResidualReads == "plan" \in artifacts /\ Publish("preflight")

(* verify_result_v02: the first pass stopped after two pages of NVDA, which  *)
(* are retained with the token of the third.                               *)
StoppedInNvda ==
    /\ result[1].file = "WRITTEN" /\ result[1].status = "PARTIAL"
    /\ result[1].kept = {<<"NVDA", 1>>, <<"NVDA", 2>>}

(* verify_journal: and its journal has two attempts and two receipts. *)
TwoReadsJournaled ==
    /\ auth[1] = "WRITTEN"
    /\ journal[1].attempts = {<<"NVDA", 1>>, <<"NVDA", 2>>}
    /\ journal[1].receipts = journal[1].attempts
    /\ ~journal[1].bound

ReconcileResidualReads ==
    /\ "local_replay" \in artifacts
    /\ StoppedInNvda /\ TwoReadsJournaled
    /\ Publish("reconciliation_1")

PlanContinuation == "reconciliation_1" \in artifacts /\ Publish("continuation_plan")

PreflightContinuation ==
    /\ {"continuation_plan", "preflight"} \subseteq artifacts
    /\ Publish("continuation_preflight")

\* mutant: any failure of the continuation leads to its repetition
ReconcileAnyContinuation ==
    /\ result[2].file = "WRITTEN" /\ result[2].status = "FAILED"
    /\ Publish("reconciliation_2")

(* The second pass failed in its first bundle, after two reads, and retains *)
(* nothing of them.                                                        *)
StoppedInMsft ==
    /\ auth[2] = "WRITTEN"
    /\ result[2].file = "WRITTEN" /\ result[2].status = "FAILED" /\ result[2].kept = {}
    /\ journal[2].attempts = {<<"MSFT", 1>>, <<"MSFT", 2>>}
    /\ journal[2].receipts = journal[2].attempts
    /\ journal[2].failures = {"MSFT"} /\ ~journal[2].bound

ReconcileContinuation == StoppedInMsft /\ Publish("reconciliation_2")

RetainedByWireRepair == {<<"MSFT", 1>>, <<"MSFT", 2>>, <<"META", 1>>, <<"META", 2>>, <<"POSITIONS", 1>>}

(* _verify_result: the third pass retains MSFT, META and the positions. *)
StoppedInPortfolio ==
    /\ result[3].file = "WRITTEN" /\ result[3].status = "FAILED"
    /\ result[3].kept = RetainedByWireRepair

(* _verify_journal_and_raw: every response of it has a snapshot, a receipt   *)
(* after the snapshot, and a file; the sixth read has none of them.        *)
SnapshotsComplete ==
    /\ journal[3].snapshots = RetainedByWireRepair
    /\ journal[3].receipts = RetainedByWireRepair
    /\ raw[3] = RetainedByWireRepair
    /\ journal[3].attempts = RetainedByWireRepair \cup {<<"PORTFOLIO", 1>>}
    /\ journal[3].failures = {"PORTFOLIO"} /\ ~journal[3].bound

ReconcileWireRepair ==
    /\ "preflight" \in artifacts /\ auth[3] = "WRITTEN"
    /\ StoppedInPortfolio /\ SnapshotsComplete
    /\ Publish("reconciliation_3")

PreflightRepair ==
    /\ "reconciliation_3" \in artifacts
    /\ StoppedInNvda
    /\ Publish("repair_preflight")

(* The dry artifact of the fourth pass has a script of its own. *)
DryRepair ==
    /\ "repair_preflight" \in artifacts
    /\ ~Evidence(4)
    /\ Publish("dry_4")

(* _verify_repair_result: the portfolio was read, the market read failed,    *)
(* and so did the second page of NVDA.                                     *)
RepairedPortfolio ==
    /\ auth[4] = "WRITTEN"
    /\ result[4].file = "WRITTEN" /\ result[4].status = "BLOCKED"
    /\ result[4].kept = {<<"PORTFOLIO", 1>>}
    /\ journal[4].failures = {"MARKET", "NVDA"}
    /\ result[4].attempts = 4

(* _salvaged_nvda: the snapshot of the first page of NVDA is on disk. *)
Salvaged == <<"NVDA", 1>> \in raw[4]

CloseResearch ==
    /\ {"scope", "local_replay"} \subseteq artifacts
    /\ StoppedInNvda /\ StoppedInPortfolio /\ RepairedPortfolio /\ Salvaged
    /\ Publish("closure")
-----------------------------------------------------------------------------
(* An invocation of a pass. *)

(* What a pass requires of the artifacts before it. *)
ResidualReady == "preflight" \in artifacts
ContinuationReady == {"continuation_preflight", "preflight"} \subseteq artifacts /\ StoppedInNvda
WireRepairReady == "reconciliation_2" \in artifacts /\ ContinuationReady
RepairReady == {"repair_preflight", "dry_4"} \subseteq artifacts /\ StoppedInNvda

(* Without --execute-provider-reads the scripts of the first three passes    *)
(* build the dry artifact; the third refuses once there is evidence.       *)
DryResidual == ResidualReady /\ Publish("dry_1")
DryContinuation == ContinuationReady /\ Publish("dry_2")
DryWireRepair == WireRepairReady /\ ~Evidence(3) /\ Publish("dry_3")

(* With it, everything main() checks before it creates the authorization. *)
ResidualClear == ResidualReady /\ "dry_1" \in artifacts /\ ~Evidence(1)
ContinuationClear == ContinuationReady /\ "dry_2" \in artifacts /\ ~Evidence(2)
WireRepairClear == WireRepairReady /\ "dry_3" \in artifacts /\ ~Evidence(3)
RepairClear == RepairReady /\ ~Evidence(4)

Clear(k) ==
    CASE k = 1 -> ResidualClear [] k = 2 -> ContinuationClear
      [] k = 3 -> WireRepairClear [] k = 4 -> RepairClear

MayLaunch(p) ==
    /\ pc[p] \in Over
    /\ Overlap \/ \A q \in Procs : pc[q] \in Over

Enter(p, k, label) ==
    /\ Goto(p, label)
    /\ pass' = [pass EXCEPT ![p] = k]
    /\ at' = [at EXCEPT ![p] = 1]
    /\ n' = [n EXCEPT ![p] = 0]
    /\ answer' = [answer EXCEPT ![p] = "last"]
    /\ outs' = [outs EXCEPT ![p] = {}]
    /\ failed' = [failed EXCEPT ![p] = {}]
    /\ count' = [count EXCEPT ![p] = 0]
    /\ UNCHANGED <<artifacts, auth, journal, raw, result, served, crashes>>

Launch(p, k) ==
    /\ MayLaunch(p)
    /\ Clear(k)
    /\ Enter(p, k, "authorize")

(* The checks fail: evidence exists, or the worktree, the approval or an     *)
(* artifact is not as required.                                            *)
LaunchRefused(p, k) ==
    /\ MayLaunch(p)
    /\ Enter(p, k, "except")

OpenAuthorization(p) ==
    /\ pc[p] = "authorize"
    /\ IF auth[pass[p]] = "ABSENT"
       THEN auth' = [auth EXCEPT ![pass[p]] = "TORN"] /\ Goto(p, "authorizeOpen")
       ELSE Goto(p, "except") /\ UNCHANGED auth
    /\ UNCHANGED <<artifacts, journal, raw, result, locals, served, crashes>>

SealAuthorization(p) ==
    /\ pc[p] = "authorizeOpen"
    /\ auth' = [auth EXCEPT ![pass[p]] = "WRITTEN"]
    /\ Goto(p, "dispatch")
    /\ UNCHANGED <<artifacts, journal, raw, result, locals, served, crashes>>

(* The market read depends on the positions; the first three passes journal  *)
(* its final request before they dispatch it.                              *)
BindMarket(p) ==
    /\ pc[p] = "dispatch" /\ Need(p) = "MARKET" /\ pass[p] < 4
    /\ ~journal[pass[p]].bound
    /\ journal' = [journal EXCEPT ![pass[p]].bound = TRUE]
    /\ UNCHANGED <<artifacts, auth, raw, result, pc, locals, served, crashes>>

(* dispatch_attempt: counted against the ceiling and journaled. *)
Dispatch(p) ==
    /\ pc[p] = "dispatch"
    /\ Need(p) = "MARKET" /\ pass[p] < 4 => journal[pass[p]].bound
    /\ Cardinality(journal[pass[p]].attempts) < Ceiling(pass[p])
    /\ n' = [n EXCEPT ![p] = @ + 1]
    /\ Record(p, "attempts", <<Need(p), n[p] + 1>>)
    /\ Goto(p, "read")
    /\ UNCHANGED <<artifacts, auth, raw, result, pass, at, answer, outs, failed, count, served, crashes>>

(* Where an answer is taken next.  The first passes have nothing of a read   *)
(* that exited nonzero; the last one keeps its output.                     *)
AfterHashing(a) == IF a \in {"lost", "refused"} THEN "fail" ELSE "receipt"
AfterWire(a) == IF a \in {"lost", "refused"} THEN "fail" ELSE "snapshot"
AfterRepair(a) == IF a = "lost" THEN "fail" ELSE "snapshot"

After(k, a) ==
    CASE k \in {1, 2} -> AfterHashing(a) [] k = 3 -> AfterWire(a) [] k = 4 -> AfterRepair(a)

Read(p, a) ==
    /\ pc[p] = "read" /\ a \in Answers(Need(p))
    /\ served' = [served EXCEPT ![pass[p]] = @ \cup {<<Need(p), n[p]>>}]
    /\ answer' = [answer EXCEPT ![p] = a]
    /\ Goto(p, After(pass[p], a))
    /\ UNCHANGED <<artifacts, auth, journal, raw, result, pass, at, n, outs, failed, count, crashes>>

(* The snapshot file is created exclusively and synced, then its event. *)
Snapshot(p) ==
    /\ pc[p] = "snapshot"
    /\ raw' = [raw EXCEPT ![pass[p]] = @ \cup {<<Need(p), n[p]>>}]
    /\ Goto(p, "snapshotEvent")
    /\ UNCHANGED <<artifacts, auth, journal, result, locals, served, crashes>>

SnapshotEvent(p) ==
    /\ pc[p] = "snapshotEvent"
    /\ Record(p, "snapshots", <<Need(p), n[p]>>)
    /\ Goto(p, IF answer[p] = "refused" THEN "fail" ELSE "receipt")
    /\ UNCHANGED <<artifacts, auth, raw, result, locals, served, crashes>>

Receipt(p) ==
    /\ pc[p] = "receipt"
    /\ Record(p, "receipts", <<Need(p), n[p]>>)
    /\ Goto(p, "judge")
    /\ UNCHANGED <<artifacts, auth, raw, result, locals, served, crashes>>

(* The market's "" token is a last page from the third pass on. *)
Accepted(k, a) == a \in {"more", "last"} \/ (a = "empty" /\ k > 2)

PagesRead(p) == {Page(pass[p], Need(p), i) : i \in 1..n[p]}

NextBundle(p) ==
    /\ Goto(p, "dispatch")
    /\ at' = [at EXCEPT ![p] = @ + 1]
    /\ n' = [n EXCEPT ![p] = 0]

Finish(p) == Goto(p, "result") /\ UNCHANGED <<at, n>>

(* A news window at its page bound ends the first pass. *)
WindowTruncated(p) == pass[p] = 1 /\ answer[p] = "more"

(* The bundle is complete, or at its page bound; the next one begins. *)
CompleteBundle(p) ==
    /\ outs' = [outs EXCEPT ![p] = @ \cup PagesRead(p)]
    /\ IF ~WindowTruncated(p) /\ at[p] < Len(Bundles(pass[p])) THEN NextBundle(p) ELSE Finish(p)

\* mutant: the page bound is off by one
JudgeOnePageMore(p) ==
    /\ pc[p] = "judge" /\ Accepted(pass[p], answer[p])
    /\ IF answer[p] = "more" /\ n[p] <= MaxPages(pass[p], Need(p))
       THEN Goto(p, "dispatch") /\ UNCHANGED <<outs, at, n>>
       ELSE CompleteBundle(p)
    /\ UNCHANGED <<artifacts, auth, journal, raw, result, pass, answer, failed, count, served, crashes>>

Judge(p) ==
    /\ pc[p] = "judge" /\ Accepted(pass[p], answer[p])
    /\ IF answer[p] = "more" /\ n[p] < MaxPages(pass[p], Need(p))
       THEN Goto(p, "dispatch") /\ UNCHANGED <<outs, at, n>>
       ELSE CompleteBundle(p)
    /\ UNCHANGED <<artifacts, auth, journal, raw, result, pass, answer, failed, count, served, crashes>>

(* Typed validation of news raises a ValueError, which nothing in the first  *)
(* pass catches: execute_once catches AlpacaNewsReadError, and main() three *)
(* other types.                                                            *)
Uncaught(p) == pass[p] = 1 /\ answer[p] = "odd"

Refuse(p) ==
    /\ pc[p] = "judge" /\ ~Accepted(pass[p], answer[p])
    /\ Goto(p, IF Uncaught(p) THEN "raised" ELSE "fail")
    /\ UNCHANGED <<artifacts, auth, journal, raw, result, locals, served, crashes>>

(* A bundle failed.  The first pass leaves it to main(), which does not have *)
(* the bundles read before; the second and third retain them and stop; the *)
(* fourth goes on.                                                         *)
FailResidual(p) ==
    /\ pass[p] = 1
    /\ Goto(p, "except")
    /\ UNCHANGED <<journal, at, n>>

FailContinuation(p) == pass[p] \in {2, 3} /\ Record(p, "failures", Need(p)) /\ Finish(p)

\* mutant: a bundle that failed is tried again
RetryRepair(p) ==
    /\ pass[p] = 4
    /\ Record(p, "failures", Need(p))
    /\ Goto(p, "dispatch")
    /\ n' = [n EXCEPT ![p] = 0] /\ UNCHANGED at

FailRepair(p) ==
    /\ pass[p] = 4
    /\ Record(p, "failures", Need(p))
    /\ IF at[p] < Len(Bundles(4)) THEN NextBundle(p) ELSE Finish(p)

Fail(p) ==
    /\ pc[p] = "fail"
    /\ failed' = [failed EXCEPT ![p] = @ \cup {Need(p)}]
    /\ FailResidual(p) \/ FailContinuation(p) \/ FailRepair(p)
    /\ UNCHANGED <<artifacts, auth, raw, result, pass, answer, outs, count, served, crashes>>

Status(p) ==
    IF pass[p] = 1 THEN IF at[p] < 6 THEN "PARTIAL" ELSE "COMPLETE"
    ELSE IF failed[p] = {} THEN "COMPLETE"
    ELSE IF pass[p] = 4 THEN "BLOCKED" ELSE "FAILED"

OpenResult(p) ==
    /\ pc[p] = "result"
    /\ IF result[pass[p]].file = "ABSENT"
       THEN result' = [result EXCEPT ![pass[p]].file = "TORN"] /\ Goto(p, "resultOpen")
       ELSE Goto(p, "except") /\ UNCHANGED result
    /\ UNCHANGED <<artifacts, auth, journal, raw, locals, served, crashes>>

(* The attempts in the result are those counted in memory. *)
SealResult(p) ==
    /\ pc[p] = "resultOpen"
    /\ result' = [result EXCEPT ![pass[p]] =
         [file |-> "WRITTEN", status |-> Status(p), kept |-> outs[p],
          attempts |-> Cardinality(journal[pass[p]].attempts)]]
    /\ Goto(p, "done")
    /\ UNCHANGED <<artifacts, auth, journal, raw, locals, served, crashes>>

(* main() caught an exception: it counts the attempts in the journal.  The   *)
(* fourth script only prints.                                              *)
CountAttempts(p) ==
    /\ pc[p] = "except"
    /\ count' = [count EXCEPT ![p] = Cardinality(journal[pass[p]].attempts)]
    /\ Goto(p, IF pass[p] = 4 THEN "done" ELSE "claim")
    /\ UNCHANGED <<artifacts, auth, journal, raw, result, pass, at, n, answer, outs, failed, served, crashes>>

(* If there is no result yet, a blocked one is written. *)
ClaimResult(p) ==
    /\ pc[p] = "claim"
    /\ IF result[pass[p]].file = "ABSENT"
       THEN result' = [result EXCEPT ![pass[p]].file = "TORN"] /\ Goto(p, "claimOpen")
       ELSE Goto(p, "done") /\ UNCHANGED result
    /\ UNCHANGED <<artifacts, auth, journal, raw, locals, served, crashes>>

SealClaim(p) ==
    /\ pc[p] = "claimOpen"
    /\ result' = [result EXCEPT ![pass[p]] =
         [file |-> "WRITTEN", status |-> "BLOCKED", kept |-> {}, attempts |-> count[p]]]
    /\ Goto(p, "done")
    /\ UNCHANGED <<artifacts, auth, journal, raw, locals, served, crashes>>

Crash(p) ==
    /\ pc[p] \notin Over
    /\ crashes < MaxCrashes
    /\ crashes' = crashes + 1
    /\ Goto(p, "dead")
    /\ UNCHANGED <<artifacts, auth, journal, raw, result, locals, served>>

Step(p) ==
    \/ OpenAuthorization(p) \/ SealAuthorization(p)
    \/ BindMarket(p) \/ Dispatch(p)
    \/ \E a \in UNION {Answers(need) : need \in Needs} : Read(p, a)
    \/ Snapshot(p) \/ SnapshotEvent(p) \/ Receipt(p)
    \/ Judge(p) \/ Refuse(p) \/ Fail(p)
    \/ OpenResult(p) \/ SealResult(p)
    \/ CountAttempts(p) \/ ClaimResult(p) \/ SealClaim(p)

Document ==
    \/ ScopeReopen \/ InventoryEvidence \/ ReplayLocally
    \/ PlanResidualReads \/ PreflightResidualReads
    \/ ReconcileResidualReads \/ PlanContinuation \/ PreflightContinuation
    \/ ReconcileContinuation
    \/ ReconcileWireRepair \/ PreflightRepair \/ DryRepair
    \/ DryResidual \/ DryContinuation \/ DryWireRepair
    \/ CloseResearch

Next ==
    \/ Document
    \/ \E p \in Procs : \/ \E k \in Passes : Launch(p, k) \/ LaunchRefused(p, k)
                        \/ Step(p) \/ Crash(p)

Fairness == \A p \in Procs : WF_vars(Step(p))

Spec == Init /\ [][Next]_vars /\ Fairness
-----------------------------------------------------------------------------
Reads == Needs \X (1..4)

TypeOK ==
    /\ auth \in [Passes -> {"ABSENT", "TORN", "WRITTEN"}]
    /\ \A k \in Passes :
         /\ journal[k].attempts \subseteq Reads /\ journal[k].receipts \subseteq Reads
         /\ journal[k].snapshots \subseteq Reads /\ journal[k].failures \subseteq Needs
         /\ journal[k].bound \in BOOLEAN
         /\ raw[k] \subseteq Reads /\ served[k] \subseteq Reads
         /\ result[k].file \in {"ABSENT", "TORN", "WRITTEN"}
         /\ result[k].status \in {"NONE", "PARTIAL", "FAILED", "BLOCKED", "COMPLETE"}
         /\ result[k].attempts \in 0..Ceiling(k)
    /\ \A p \in Procs : /\ pass[p] \in Passes
                        /\ at[p] \in 1..Len(Bundles(pass[p]))
                        /\ n[p] \in 0..MaxPages(pass[p], Need(p))

(* What the files hold of the provider's answers: pages in a result, and     *)
(* snapshots.                                                              *)
SavedPages(k) == {Page(k, r[1], r[2]) : r \in raw[k]}
Held == (UNION {result[k].kept : k \in Passes}) \cup (UNION {SavedPages(k) : k \in Passes})

(* No pass reads again what the files of an earlier pass hold, although four *)
(* passes go over the same needs (the reconciliations pin how far each of  *)
(* them came, and NVDA is continued from its saved token).                 *)
NothingHeldIsReread ==
    [][\A k \in Passes : \A r \in served'[k] \ served[k] : Page(k, r[1], r[2]) \notin Held]_vars

(* A read the provider executed was journaled before, under an authorization *)
(* that is on disk (DurableJournal.dispatch_attempt).                      *)
WriteAhead ==
    \A k \in Passes :
        served[k] # {} => auth[k] = "WRITTEN" /\ served[k] \subseteq journal[k].attempts

(* From the third pass on, a response that the journal acknowledges is on    *)
(* disk itself, whatever happens afterwards: "future raw response          *)
(* persistence required before parse".                                     *)
ReceiptHasEvidence ==
    \A k \in {3, 4} : journal[k].receipts \cup journal[k].snapshots \subseteq raw[k]

(* The result of a pass counts the dispatches its journal counts, whoever    *)
(* wrote it and after whatever crash, and no dispatch follows it.          *)
ResultCountsDispatches ==
    \A k \in Passes :
        result[k].file = "WRITTEN" => result[k].attempts = Cardinality(journal[k].attempts)

(* When the research is closed, each requirement rests on pages that are     *)
(* held on disk, or on a bundle the repair recorded as failed; and no page *)
(* of NVDA was taken from two passes.                                      *)
ClosureIsBacked ==
    "closure" \in artifacts =>
        /\ \A t \in Requirements : \A need \in BundlesOf[t] :
             \/ \E page \in Held : page[1] = need
             \/ need \in journal[4].failures
        /\ {<<"NVDA", i>> : i \in 1..3} \cup RetainedByWireRepair \cup {<<"PORTFOLIO", 1>>} \subseteq Held
        /\ \A i \in 1..3 :
             Cardinality({k \in Passes : \E r \in served[k] : Page(k, r[1], r[2]) = <<"NVDA", i>>}) = 1

(* What is claimed of the reads is backed by the files: at every moment,     *)
(* whatever crashed, a read is announced before it is made, a receipt has    *)
(* its response, a result its dispatches, and the closure its pages.         *)
ClaimsAreBacked ==
    /\ WriteAhead
    /\ ReceiptHasEvidence
    /\ ResultCountsDispatches
    /\ ClosureIsBacked

(* A pass that begins to read comes to a result that says how far it came,   *)
(* whatever the provider answers, unless its process is killed or the first *)
(* pass is refused by the typed validation of a page of news.              *)
PassEnds ==
    \A p \in Procs, k \in Passes :
        pc[p] = "dispatch" /\ pass[p] = k ~>
            \/ pc[p] = "done" /\ result[k].file = "WRITTEN"
            \/ pc[p] = "raised" /\ k = 1 /\ answer[p] = "odd"
            \/ pc[p] = "dead"
=============================================================================
