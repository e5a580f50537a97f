# Market Jury in TLA+

Specifications, model-checking configurations and machine-checked proofs for
the parts of the AI Investment Council (`src/aic`, `scripts`) where money is
committed or an owner's approval is consumed. Paths below are relative to the
repository.

## 1. The system

A candidate goes through a pipeline. Every arrow that costs money or grants
authority is guarded by an artifact on disk, identified by its canonical hash.

    B2 screening -> B3 research -> B4 Council -> B5 sizing -> B6 paper order
                    (reads, a      (9 Initial, 3 Rebuttal, 1 Judge call,
                    model eval.)    each stage with a model evaluation before)
    Cockpit V6: session -> Initial preflight -> owner approval

The Council's stages are command-line scripts run by the owner against one
working tree. They share nothing but files. Each file stands for an authority
(preflight, readiness, gate, approval, authorization), for evidence (journal,
ledger, raw capture, snapshot) or for a verdict (freeze, blocked artifact,
decision). The provider is remote: a request may be executed and billed after
the caller has given up waiting. A paid call cannot be undone, so the scripts
write evidence before they act, do not retry, and refuse to run where they find
traces of an earlier run. When a stage stopped half-way, a new script was
written that pins how far the old one came and does what is left; most of the
repository's stages therefore exist in several generations.

| Component | State | Operations | What makes it correct |
|---|---|---|---|
| Reopened Initial runner (`b4_reopen_run_initial_runtime_v01.py`, `reopen_initial_runtime.py`) | dry artifact, authorization, journal, output | dry run, preflight, authorize, attempt, POST, receipt, freeze, block | no call paid twice, none unrecorded, cost bounded, the code that pays is the code that was approved |
| Recovery of its unknown dispatch, v0.2 | the source journal, dry artifact, reusable authorization, journal, output | plan, run, rerun, finalize from the journal | one recovery POST, verdict follows from the journal, the upper bound covers the unknown dispatch |
| Post-research dispatch, full recovery, resume (`post_research_reopen_initial_*`) | frozen requests, readiness, approvals; a ledger, captures and a result per pass; reconciliations | freeze, make ready, approve, announce, POST, capture, judge, reconcile | only the lost request is sent again, no answer is lost, one council is frozen |
| First-generation Initial runners v01 to v05 | preflights shared by the versions; authorization, journal, output per version; diagnoses and proofs | build, mark, approve, run, diagnose, prove | an approval pays once although preflights are written over; what is written and derived of a run is true |
| Rebuttal, first, reopened, post-research | preflights, plan, key; per step a dry artifact, authorization, journal, output | build, approve, run, recover, probe a key | each candidate paid once per step, with a key that was probed |
| Judge production v01 to v04 | entry, gate, request, cost, dry artifact; journal or ledger, capture, decision; recovered decision | build, approve, run, recover, postprocess | one call, one true record, one final decision |
| TTL Judge authority (`b4_ttl_judge_production_gate_*` and what it reads) | checkout and remote, lineage receipt, TTL preflight, a gate per commit, two approvals | build, activate, approve, verify | the call is made for the request and by the commit that were approved |
| TTL Judge executor and captured-WATCH recovery | consumption, capture, decision, recovered decision, receipt | reserve, send, capture, accept, complete; recover, persist or verify | one call, evidence that never overstates, a recovery that can be run again |
| Model evaluation and selection (`b4_*_model_eval*`, `b3_real_model_eval.py`, `model_eval.py`, `*model_selection*`) | preflights, approval, authorization, receipts, result, frozen authority | freeze, dry run, approve, call, receipt, score, select, freeze | paid once, bounded, and the frozen model earned it |
| External reads of B3 (`reopen_judge_residual_external_read_*` and their successors) | zero-call documents; per pass an authorization, journal, snapshots, result | scope, plan, read, snapshot, receipt, reconcile, close | a page that is held is not read again; receipts, results and closure are backed by files |
| Cockpit V6 (`aic/cockpit_v6`) | rows of sessions, preflights, approvals; caches; demonstration runs | select, capture, approve; live reads | an approval says what its preflight says, and confirming again adds none |
| B5 and B6 (`aic/b5`, `aic/b6`) | none of their own: intent and approval are values | size, approve, revalidate, send | the caps of the frozen policy hold on the state of the commit, the order is the one approved |
| B2 screening, domain contracts, document validation, providers, Cockpit V5 | none, or read-only | pure functions, read-only HTTP | determinism, point-in-time cut |

The hard behaviours are the two-process ones (scripts started twice, handlers in
a thread pool), crashes between a file operation and the next, the late provider,
HEAD, the key or the account moving while something waits, artifacts that a
later version writes over, and sequences of legal invocations over several
approvals. `PROJECT.json` lists them as hazards, each at the line where it bites.

## 2. The modules

| Module | Models |
|---|---|
| `OneShotPaidRun` | abstract: what an approval of a paid stage promises |
| `PaidStage` | base of the three modules marked *: invocations that may die, the files of a stage, sums of costs |
| `PaidInitialRunner` (+`Proofs`) | the reopened Initial runner, any number of processes; refines `OneShotPaidRun` |
| `RecoveryRuntime` (+`Proofs`) | the recovery of its unknown dispatch; `Overlap` says whether invocations may be alive together |
| `DispatchLineage` (+`Proofs`) | the three post-research passes over one set of requests, with what is published and approved before each |
| `FirstInitialRunner`* | five versions over shared preflights, diagnosis and repair proof |
| `RebuttalRuntime`* | three families of Rebuttal scripts; the steps that announce their calls refine `OneShotPaidRun` |
| `JudgeProduction` (+`Proofs`) | six families of Judge scripts |
| `JudgeAuthority` | what allows the TTL Judge's call |
| `JudgeExecution` (+`Proofs`) | extends it with the call and the recovery of its answer |
| `ModelEvaluation`* | the paid evaluations of the four stages and the freeze of a model |
| `ReadLineage` (+`Proofs`) | four passes of external reads up to the closure of the research |
| `SessionApproval` | the Cockpit's session, preflights and approvals, one step per database statement that matters |
| `OptionOrder` | from decision to paper order; broker and market are the environment |
| `PaidStageProofs` | proofs about `RebuttalRuntime`, `FirstInitialRunner` and `ModelEvaluation` |
| `HumanApprovalProofs` | proofs about `SessionApproval` and `OptionOrder` |

`MC...` modules instantiate them for TLC. Definitions marked `mutant:` are
versions of a definition that follows with a plausible mistake; nothing uses
them, and each property is known to reject one of them. The modules that share a
file of proofs have names of their own for what the others call `Init`, `Next`,
`Spec`, `vars` and `TypeOK` (`RebuttalInit`, `RunnerNext`, `EvalSpec`,
`OrderTypeOK`, ...).

How state and actions correspond to the code:

* A **file** is `ABSENT`, `TORN` or `WRITTEN`, or a record with such a field.
  In the modules of a single runner, opening with `"x"`/`O_EXCL` and finishing
  the write are two actions, so a crash can leave a torn file, and every
  `exists()` test sees it; `O_TRUNC` (`_replace_durable`) is an action of its
  own. In the modules that cover a family of scripts (`RebuttalRuntime`,
  `JudgeProduction`, `FirstInitialRunner`, `ModelEvaluation`) a write and its
  fsync are one action, a file is `None` or a record of what it binds, and an
  invocation may die between any two writes. An append to a journal is one
  action: its line is flushed and synced at once.
* A **process** is a program counter and the locals that survive from one file
  operation to the next. A crash stops it anywhere. `idle`, `done` and `dead`
  processes hold nothing.
* A **hash** is the identity of what is hashed: a document that binds another
  by its hash contains it.
* The **provider** has its own view of the calls it was sent and of its bill,
  which no action of a script can read.
* The **developer, operator and owner** check out commits, change the key and
  approve documents. Where a module says so (`Quiet`, `Between`) they act
  between invocations; in `PaidInitialRunner`, `RecoveryRuntime` and the recovery
  half of `JudgeExecution` HEAD moves at any moment, and so does the remote branch.
* A script ends by itself where the code returns or raises: a missing key, a
  council the builder refuses, an answer it cannot parse or capture are actions
  or labels of their own. A **crash** is only a killed process.
* A **family** of scripts that differ in some steps is one module: a behaviour
  chooses its family at the start, and each place where the code differs is an
  operator per script, selected by `CASE`.

### PaidInitialRunner

`DryRun`; `Preflight` (all checks of a paid run, one step: they only read, and the
only check that must hold when it is acted on is repeated by the exclusive
creation); `OpenAuthorization`, `SealAuthorization`; only then `LoadKey`, which
may find none; then for each call `AppendAttempt`, `Post`, `Respond` or
`LoseAnswer`, `AppendReceipt`; at the end `OpenFreeze` or `OpenBlocked` and
`SealOutput`, or `RejectCouncil`: the builder raises for two opinions with one
identifier. `MoveHead` is somebody else's commit. The receipt's cost status, the
ceiling test after each call and the two artifacts are operators of their own.

### RecoveryRuntime

The source run left one of several journals; `LoadContext` is what makes one
recoverable (all calls but the last passed, the last is unknown, the known cost
is the pinned one). `Begin` is what `run_paid` requires before it acts;
`ReadAuthorization` finds an authorization and reuses it, or
`CreateAuthorization` makes one; `CheckJournal` is the `exists()` test at line
387 that decides between dispatching and `Finalize`; `MissingKey` ends a run in
between. The journal exists before its first line does (`OpenJournal`). The dry
artifact pins a commit and HEAD moves: every check of it is in its action. What
the source dispatch of unknown fate really cost is any of `Doubts`, which the
code does not know; an answer may pass and still not freeze (`Freezable`),
because it cost more than the ceiling or repeats an opinion that is reused.

### DispatchLineage

Before the passes, each between invocations and each published exclusively:
`FreezeRequests` (from the evidence B3 saved), `DispatchPreflight`,
`ForensicPreflight`, `Reconcile` (parity, then reconciliation), `GetReady` and
`Approve` of each pass. One process runs one pass. `Launch` has the gates of
each; only `recovery` asks for the first request's fate, `resume` starts at the
second request and reuses the reconciled capture. Every ledger update is
`TruncateLedger` then `WriteLedger`. `initial` and `recovery` reserve the
remaining worst case before each call (`Funded`); `resume` does not.

### FirstInitialRunner

Three preflights lead to a run and all five versions write them at the same
paths; versions v0.3 to v0.5 build the wrapped version's file and then add their
marks in a second write (`BuildSource`, `MarkSource`, `BuildRuntime`,
`MarkRuntime`), so that another version or a crash may come between. A call is
recorded only after it was made (`Call`, then `AppendCallReceipt`). `Diagnose` and
`Prove` replay a blocked run from its artifacts and the shared preflight, which
must not have been built anew meanwhile. v0.1 prices a missing usage as nothing
and v0.2 corrects that (`CostOfV1`, `KnownV2`). `Told` is an answer whose usage
says what was charged. A run whose calls all passed may still end without an
output (`RejectCouncil`).

### RebuttalRuntime

The reopened family has five steps: the first run, whose key is rejected; the
plan to recover from that; two probes of a replacement key; and the runs v02 and
v03. A key is an element of `Keys`, known to the scripts by its fingerprint. A
journal has its rows by kind (`attempts`, `results`, and the post-research
ledger's `notes`): no script asks how rows of different kinds alternate, beyond
that an answer follows its attempt, which the order of the actions gives.

### JudgeProduction, JudgeAuthority, JudgeExecution

`JudgeProduction` has the entry (or gate), request, cost and dry artifact of each
script, the call, and the two zero-call steps that follow: the reopen request of
the second script and the recovery of an answer v0.4 captured but did not
accept. An answer carries the set of commits whose parser and validator accept
it, and of those that can read it at all (`Parsed`), which is how a repair changes
what can be recovered. Some answers cannot be captured: a script that captures
first then raises (`Uncaptured`).

`JudgeAuthority` gives each commit what its code would build from the evidence
(frozen policies or not, frozen Judge sources or not, a request). A gate is built
at a commit and keeps its path; `AuthorityPair` is what `verify_authority_pair`
checks when the call is made. `JudgeExecution` extends it: `Prepare` to
`Complete` are the executor, `BeginRecovery` to `SealReceipt` the recovery.
`seen` is the HEAD an invocation read. `Push` moves the remote branch at any time,
and what compares HEAD with it (`RequireWriteAuthority`, also of a recovery)
does so when it acts. Answers are of three classes: valid, a
WATCH refused only because it reopens research, anything else. The readiness
artifact is written but never read by a later step (the gate rebuilds it), so
only its construction is modelled.

### ModelEvaluation

`PreflightEval` and `DryRunEval` per stage, `ApproveEval`, then `StartEval`,
`Check`, `AuthorizeEval`, then the key (`KeyMissing` ends the run), and per call
`Post`, `AppendReceipt`, `SettleCall`; `Finish` scores and selects; `Freeze`
rebuilds the selection as each authority module does. Research has neither
approval nor authorization, its calls have no receipts. What an answer is worth is
one of: no defect, a defect that fails one case, a defect that fails all.

### ReadLineage

A page is a need and a number; a pass reads the pages of its bundles in order.
`PlanResidualReads` derives which needs the Judge's seven targets have, the
reconciliations (`StoppedInNvda`, `StoppedInMsft`, `StoppedInPortfolio`) say
exactly which failure the next pass was written for. Passes 1 and 2 keep pages
only in a result, pass 3 and 4 snapshot every response before it is parsed.
A page of news that fails typed validation is an exception nobody catches in
pass 1 (`Uncaught`) and a failed bundle afterwards.

### SessionApproval

Sessions are opened and selected (`OpenSession`, `ReadRow`, `InsertRow`,
`UpdateRow`), preflights captured (`StartCapture`, `ReadSession`,
`InsertPreflight`), approvals stored (`StartApproval`, `ReadSession`,
`BuildApproval`, `LookUp`, `InsertApproval`). Every thread may handle any of them:
the page's `approvalBusy` flag holds one tab back, the server nobody.

### OptionOrder

`Quantity` is `calculate_premium_risk`, with floor division and money in
hundredths so that percentages stay whole numbers. `Build`, `Approve`, `Observe`
(the caller assembles the commit state), `SendAfterCommit`, which is a pure
function in the code: it uses up neither approval nor commit state, so it may be
repeated and come late. `prompt` remembers whether each order left on the state
the broker was then in (`Current`). `Fill`, `Lapse`,
`ClosePosition`, `Revalue`, `Expire` and `NewDecision` are the environment.
`no_conflicting_fixture_state` is read as: no order of ours is open.
The repository's B6 is test-only and its transport a fake; what is modelled is
the discipline it is to impose once a transport exists.

## 3. Runs

| Run | Shows | Bounds | States |
|---|---|---|---|
| `initial_runner` | safety of the Initial runner, refinement of `OneShotPaidRun`, and that an authorized run ends | 3 processes, 3 calls, ceiling 3, costs 1 or 2, 2 commits | 38 500 |
| `recovery_sequential` | the recovery run, crashed and rerun, one invocation alive at a time; a durable attempt is settled | 2 processes, 2 approvals, 2 commits, 5 source journals, 3 crashes; the dispatch in doubt cost 0 or 3, ceiling 2 | 109 000 |
| `recovery_race` (violation) | two invocations at once both POST | 2 processes, no crash | small |
| `dispatch_lineage` | the three passes from frozen requests to the one frozen council, overlapping and crashing invocations | 2 processes, 2 commits, 3 requests, estimates 2,1,2, overrun 1, 3 cases of saved evidence | 1 100 000 |
| `first_initial` | five versions in pairs of neighbours, over shared preflights | 2 invocations, 2 calls, 2 commits, 6 builds, 1 crash, 7 answers | 1 055 000 |
| `rebuttal` | three families, with rejected and changed keys | 2 invocations, 2 candidates, 3 keys, 2 commits, ceiling 3, 1 crash, 5 answers | 1 460 000 |
| `judge_production` | six families and the zero-call steps after them | 2 invocations, 3 commits, ceiling 3, 2 crashes, 10 answers | 638 000 |
| `judge_execution` | the TTL Judge from its authority to the receipt; a recovered decision gets its receipt | 2 processes, 3 commits, 2 crashes | 810 000 |
| `model_evaluation` | four stages from preflight to frozen model | 2 invocations, 2 candidates, 2 cases, ceiling 5, 2 code versions, 1 crash, 4 answers | 1 070 000 |
| `external_reads` | four passes, their reconciliations, the closure; a pass ends | 1 invocation at a time, 1 crash, up to 4 pages a need | 102 000 |
| `session_approval` | two requests at once, both of which may be confirmations | 2 threads, 2 symbols, 2 commits, 2 instants, 1 preflight | 212 000 |
| `option_order` | sizing, commit, repeated and late sends, exposure, while account, orders and decisions move | 2 underlyings, 2 premiums, 2 accounts, 2 decisions, 2 intents, 2 orders | 2 228 000 |

Why the bounds are enough for what they are to show:

* In `initial_runner` three processes let one own the authorization, a second
  lose the race and a third arrive after everything. The proofs remove the bound.
* Where authority is taken by one exclusive creation and processes are
  interchangeable (`rebuttal`, `judge_production`, `first_initial`,
  `model_evaluation`, `dispatch_lineage`, `judge_execution`), two are one that
  owns and one that overlaps; a process that is over starts again.
* Two or three calls have a first, a last and, with three, a middle. With costs
  1 or 2 and a ceiling of 3 (5 for four calls) the breach happens at the last or
  the last but one, exactly at the ceiling or above it.
* Crashes of a process are unlimited where processes do not come back
  (`PaidInitialRunner`, `DispatchLineage`: a process dies once and the files
  refuse another). Elsewhere `MaxCrashes` covers a crash in a run and, where a
  rerun finalizes, in that rerun and the next.
* `first_initial` takes versions in neighbouring pairs because a version shares
  files with all others but refers only to the one before it; six builds are the
  three preflights of each.
* The commits of `judge_execution` are two that build the approved request and
  one that changes the policies, the Judge's source and the request.
* In `option_order` equity 100 allows 3 in an underlying and 4 in all, and
  `Tight` leaves 2 above the reserve, so each limit is the least of the five
  somewhere. The real aggregate cap, 6 %, would need three underlyings to bind.
  Two orders are what a repeated or late send needs to exceed the caps.
* In `recovery_sequential` a dispatch in doubt of 3 is above the ceiling of 2, as
  is an answer of 3; one of 0 or 1 is within it.
* Symmetry is used only in runs without liveness properties.

`CHECK_DEADLOCK FALSE` is set where everything really stops once the files refuse
any further run: `DispatchLineage`, `JudgeExecution`, `RecoveryRuntime`,
`ReadLineage`, `ModelEvaluation`, `RebuttalRuntime` and `FirstInitialRunner`. The
other models can always go on, and deadlock is checked.

### Fairness

* `PaidInitialRunner`: weak fairness of each process that has started. A
  sequential program goes on, and `urlopen` has a timeout of 60 s. Nobody
  is obliged to start a run and the provider need not answer.
* `RecoveryRuntime`: the same, and strong fairness of starting it again with the
  approval in the authorization: the premise of `AttemptIsSettled` is an owner
  who keeps rerunning the script. Begin is not continuously possible (one
  invocation is alive at a time, and HEAD may be elsewhere), hence strong. The
  property has the premise that the approved commit is checked out again and
  again: a run on any other refuses, and rightly.
* `JudgeExecution`: the same, with an owner who keeps rerunning the recovery.
  Its conclusion excuses two things, each stated as a state of the files: a
  receipt a crash tore, and a commit that is no longer checked out and pushed.
* `ReadLineage`: weak fairness of a started invocation; its reads are
  subprocesses or HTTP requests with timeouts.
* The other modules state no liveness: nothing obliges a user to confirm, a
  developer to commit or an order to be sent.

What these properties excuse names the process and the reason: the death of the
holder itself, never of any process, and each exception of the code by its own
label and with what it leaves (`AuthorizedRunEnds`: no key and nothing sent or
billed; a council refused and all calls executed).

## 4. What is proved

`tlapm` checks every proof, for every value of the constants: any number of
processes, calls, commits, crashes, costs. Proved is every safety and action
property that a passing run checks, of all eleven components; each module opens
with its argument. None of these properties is inductive. The inductive invariants
(`IInv`, or the names given) were checked with TLC on the runs' instances first.

| Module | Theorems (property) | Under |
|---|---|---|
| `PaidInitialRunnerProofs` | `TypeCorrect`, `PaysAsApproved` (`PaidAsApproved`), `BoundedSpend` (`SpendBound`), `HonestVerdict` (`VerdictIsHonest`), `KeepsContract` (`ImplementsOneShot`) | |
| `RecoveryRuntimeProofs` | `TypeCorrect`, `ApprovalBound` | |
| | `PostedOnce` (`AtMostOneRecoveryPost`), `VerdictFollowsJournal` (`VerdictAgreesWithJournal`) | no overlap |
| `DispatchLineageProofs` | `TypeCorrect`, `PaysOnce` (`PaidOnce`), `BoundsSpend` (`SpendIsBounded`), `FreezesWhatIsBacked` (`FrozenIsAccountedFor`) | |
| `PaidStageProofs`, of `RebuttalRuntime` | `RebuttalTypeCorrect` (`RebuttalTypeOK`), `RebuttalPaidOnceAhead` (`PaidOnceAhead`), `RebuttalFrozenIsPaid` (`FrozenIsPaid`), `RebuttalKeepsContract` (refinement) | |
| of `FirstInitialRunner` | `RunnerTypeCorrect` (`RunnerTypeOK`), `RunnerPaysOnce` (`OncePerApproval`), `RunnerRecordHonest` (`RecordIsHonest`) | |
| of `ModelEvaluation` | `EvalTypeCorrect` (`EvalTypeOK`), `EvalPaymentsAccounted` (`PaymentsAreAccounted`), `EvalAuthorityEarned` (`AuthorityIsEarned`) | |
| `JudgeProductionProofs` | `TypeCorrect`, `PaidOnce` (`PaidOnceAhead`), `HonestRecord` (`RecordIsHonest`), `FinalDecision` (`DecisionIsFinal`) | |
| `JudgeExecutionProofs` | `TypeCorrect`, `DecidesOnce` (`OneDecision`) | |
| `ReadLineageProofs` | `TypeCorrect`, `AnnouncedAndKept` (two conjuncts of `ClaimsAreBacked`) | |
| | `ClaimsBacked` (`ClaimsAreBacked`), `NothingReread` (`NothingHeldIsReread`) | no overlap |
| `HumanApprovalProofs`, of `SessionApproval` | `TypeCorrect`, `RepeatsOnlyOverlap` (`OnlyOverlapRepeats`) | |
| of `OptionOrder` | `OrderTypeCorrect`, `OrdersRespectCaps`, `ExposureStaysBounded`, `OrdersAreApproved` | |

"No overlap" is `~Overlap`, as in the runs, and is needed: two recoveries at once
both POST (`recovery_race`), and a refused read pass writes its result at the path
of the one it lost to. What each component promises without it is a theorem of
its own.

### The arguments

**Initial runner.** The file created with `open("x")` names one process,
`auth.by`. Nobody else leaves a trace (`OnlyOwnerActs`), nothing is sent without
an authorization (`NothingWithoutAuth`), the owner's place in its loop tells which
calls were POSTed (`OwnerLoop`), the bill is its known cost plus one call in doubt
(`Accounts`), each announced call has its event (`AttemptsJournaled`), and the dry
artifact is stable once verified (`DryIsStable`). On top of these `VerdictInductive`
follows the owner from its last receipt to its artifact, and `KeepsContract` shows
each step to be one of `OneShotPaidRun`, or a stutter, under its mapping.

**Recovery.** An approval is consumed by an authorization that a later invocation
may reuse, so the argument does not rest on an owner: the journal itself tells how
far the recovery got (`JournalIsOneCall`, `PostsFollowJournal`, `PassIsBilled`),
wherever the invocations before ended, and one that finds a journal never goes to
its dispatch. Nothing is assumed of what the dispatch in doubt cost: the published
bound plus what that cost above one call's ceiling (`Overrun`) covers the bill. A
freeze needs an answer that passed, within the ceiling, with an opinion of its own.

**Dispatch lineage.** Each pass belongs to the creator of its ledger, and where
that process is tells what ledger, captures and provider have of each request.
`PassesInOrder` relates the passes: one is begun only on evidence that the one
before is over and sent its first request at most, and that one can then never
go on. The money is a second invariant, `MInv`, over the first: the provider has
charged what the executor counts and the request it is at (`Reckons`); one request
at most is in doubt, and its estimate is reserved (`InDoubt`); a pass that sent
one request has been charged for that one (`Charged`).

**Sums.** What these records say of money is a sum over a sequence, and the
library's induction theorems take a predicate as a parameter. Its
well-foundedness theorem does not: it is about a set. From `WFMin` follows that a
nonempty set of numbers has a least element (`Least`), from that induction over
sets of numbers (`InductiveSet`), and from that what a recursive function on
numbers is: that `Total` is one (`TotalsExist`, `TotalDef`), grows with a
sequence (`TotalAppend`), is monotone; and in `DispatchLineageProofs` that the worst
case of what remains is the next estimate and the rest (`CostArithmetic`).

**Rebuttal.** A step is paid by its payer, the invocation that holds the created
authorization; where it is in its loop, and what it remembers, determine journal,
captures and the provider's view (`PayerHolds`); what no payer holds any more has
ended, and a rerun only writes what the journal determines (`StepHolds`). The two
probes link the steps: the second one's authorization, attempt and answer carry
one key, and v03 dispatches only with it (`RebuttalInv`). `RebuttalKeepsContract` maps
the journal, the calls and the artifact of the reopened runs and of the
post-research one to `OneShotPaidRun` (`StepContract`): an attempt or a call of the
step itself is one there, its artifact is the verdict, and all else is a stutter.
It needs that an invocation which goes on knows of no more cost than the ceiling,
and that a journal in use has an attempt (`RebuttalPace`). The first run is not
covered, because it announces nothing: its journal has receipts only. This
refinement is proved and no run's property; TLC agreed with it on the instance of
`rebuttal`, for costs up to 2.

**First runners.** An authorization per version, created exclusively, names the
cost preflight its run read, and a cost preflight names the version it was built
for and its commit. So calls of different versions are for different preflights
although the paths are shared, and calls of one version are in the order of one
run. Of money, `AmountBound` and `SpentBound` say that a receipt and a run never
know more than was charged, and exactly that where the answers told it
(`BlockedOutput` for what a stopped run writes). `RunnerInv` has also what
diagnosis and proof replay: a blocked output does not change, and neither do the
receipts and calls below it.

**Model evaluation.** Who created the authorization is the only one ahead of its
checks; its memory is a prefix of the plan and agrees with receipts and charges
(`EvalInv`). A Rebuttal or Judge run leaves a result unless it dies or finds no
key; in the latter case nothing was paid. A result scores what was answered; the
selection and each stage's freeze take the least of the passing candidates, whose
existence is a least element again.

**Judge production.** The call belongs to the creator of the authorization
(`Stage`). When it is gone nobody takes its place, so the evidence is frozen
(`Settled`), and zero-call steps derive only from a rejected capture or a frozen
decision (`Derivations`). A record tells of the answer what the commit that ran
could read of it (`Tells`), which is nothing when it did not parse. One proof
serves six scripts: what differs is in the operators selected by `CASE`, about
which there are lemmas.

**Judge execution.** The consumption is created exclusively, so one invocation at
most is past it (`OneExecutor`); once it has left, consumption, capture and answer
do not change, so all recoveries read the same refused WATCH, and one of them has
the recovered decision open (`RecoveryKnows`). `AuthorityKept`: what an invocation
verified of gate and approvals stays true until it has reserved.

**External reads.** That a read is announced and a receipt has its response needs
no order: the sets on disk only grow, and what an invocation relies on is a
membership in them. The rest is that a written result closes its pass: nothing of
it changes any more, so what a reconciliation found remains true and passes are
ordered (`Recorded`, `Documented`).

**Session.** What a handler has read may be stale when it writes. Rows are never
deleted and preflights never changed, so what it compared still holds (`HInv`). A
confirmation goes on to insert only if it found no row, so the rows of a
preflight and the threads about to add one are never more than the threads
(`OInv`): any number of later confirmations adds none.

**Orders.** The budget is within each of its five limits (`BudgetIsLeast`) and a
supported quantity costs no more than the budget (`SizedWithinBudget`, where floor
division enters), so an order that leaves is within the caps on the state of its
commit. If that state is still the broker's, no other order is open and what is
held is what was seen (`OpenWhilePrompt`); the highest equity covers it
(`PeakCovers`). Nothing is proved, or true, of the exposure after a repeated or
late send.

### What is assumed

Only named `ASSUME`s on constants, which TLC evaluates on the runs: at least one
call, and two in `DispatchLineage` (the code has nine); costs that are natural
numbers, within `MaxCost`, `MaxCharge` or a call's estimate and `Overrun`;
placeholders that are no process, commit or intent; a first commit or revision;
a ladder and a list of cases that are finite, not empty and free of repetitions;
keys of which some are valid; answers that are records of the form the module
describes, with what is charged for cache writes part of the charge; whole
percentages and premiums of at least 1. The answers of each model are a constant
of their own, so that the assumptions of the three models in `PaidStageProofs` can
hold together. `SourceAssumption` says what the journal of a source run may be.
`CeilingArithmetic` (the passes' ceilings 9, 11, 11 and 6, literals in the code,
are the sums over their bundles) is there for TLC to check; no proof uses it.

`MaxCharge` is what the provider charges at most for a call, which the code has no
way to limit but `max_output_tokens`; the bound of `SpendIsBounded` is stated with it.

### Only model-checked

Liveness (`AuthorizedRunEnds`, `AttemptIsSettled`, `DecisionGetsReceipt`,
`PassEnds`): fairness and `ENABLED` are out of the prover's reach.

No module declares a recursive operator; recursion is in functions.

## 5. Where the code departs from its documents

One disagreement is a run. `recovery_race`: `run_paid` promises never to POST
once evidence exists, but tests for the journal and appends to it in separate
steps, under an authorization that may be reused. `recovery_sequential` shows
what holds for an owner who starts one invocation at a time.

What else was met while modelling, and is in the models as the code does it:

* The ledgers of the post-research passes are truncated in place; a process that
  dies in `_replace_durable` destroys the evidence of every earlier dispatch
  (`TruncateLedger`). "Durable unknown then stop" holds of readable ledgers.
* The "idempotent existing-row path" of `initial_approval.py` is a lookup and an
  insertion in two transactions without a uniqueness constraint: two
  confirmations that overlap both find no row and store two. `OnlyOverlapRepeats`
  is what remains, and nothing compares session or checkout again at the
  insertion: an approval may name a symbol that is no longer selected.
* `send_after_commit` neither consumes the approval nor records the send, and
  `commit_revalidate` reads no time to live, while
  `config/event/competition_v1_options_policy.json` says `exactly_one_send` and
  `decision_ttl_valid_required`. A caller must enforce both: a second send on one
  state, or one on an old state, can exceed the caps, and `ExposureBounded` holds only
  while each order leaves on the state the broker is in.
* The reopened Initial runner loads the key after the authorization is durable,
  and its freeze raises for two opinions with one identifier after all calls are
  paid. Either uses the approval up without a verdict and without a crash;
  `AuthorizedRunEnds` says that nothing else does but the death of the holder.
* The dry artifact of the recovery says `crash_safe_local_finalize_supported`.
  No rerun finalizes where a crash tore the output, where the answer that passed
  cost more than the ceiling or repeats a reused opinion (every run raises), or
  while HEAD is not the commit of the dry artifact (every run refuses).
  Its aggregate upper bound allows the dispatch of unknown fate one call's
  ceiling, which nothing enforced: it falls short by what that cost above it.
* The captured-WATCH recovery of the TTL Judge can be run again until somebody
  pushes: from then on HEAD and remote differ, the old commit is refused for
  good, and a recovered decision without receipt never gets one. A torn receipt
  makes every rerun raise in `_read`.
* The first external-read pass catches no `ValueError` of typed validation: it can
  end after its authorization without any result, no crash involved
  (`PassEnds` names it). A later, refused invocation then writes a blocked one.
* An invocation of a read pass that is refused writes a blocked result at the
  path of the pass that is running. With `Overlap = TRUE` in `ReadLineage` TLC
  finds such a result that counts fewer dispatches than the pass then makes.
* The dry run of `b4_initial_model_eval.py` writes to the default output of the
  paid run without testing for it, and so may replace a paid result.
* The dry artifact of the reopened Rebuttal claims a crash-safe finalization, but
  two valid answers with the same bundle identifier make every rerun raise.
* `first` of the Judge scripts says `model_calls: 0` in an artifact blocked for
  an incomplete cost, after one call that was answered. It and the reopened
  Judge keep no answer that does not parse: `structured_output` is null and only
  usage and cost are left of what was paid for.
* The Judge scripts that capture first raise for an answer that cannot be
  captured, with neither capture nor note: the ledger keeps its "dispatch started,
  unknown". `post_research_reopen_judge_current_v01` raises for an answer over the
  approved cost after it captured it, and notes it nowhere.
* v0.1 of the Initial runners prices a missing usage as nothing and calls its
  cost complete, and v0.2 calls that of a blocked run complete when the usage of
  its last call is missing altogether. `RecordIsHonest` says what the words do
  mean: the known cost is never above the charge, it is the charge where the
  answers told it, and `complete` is that every call was answered. A call made
  when its invocation dies is in no receipt; the version then has no output.
* The first-generation runners, the Rebuttal and the model evaluations of the
  Council load the key after they created the authorization: a missing key
  consumes the approval, and leaves no result.
* Zero-call builders that publish several files one by one, each exclusively,
  refuse every rerun after a crash in between; a TTL Judge gate that was torn, or
  built off the canonical branch, blocks its commit's default path for good.

## 6. Abstractions

* Journal lines are whole or absent; a line torn by a power loss is not modelled.
  Neither is the loss of a file that was closed but not synced.
* Paths given on the command line are the defaults; hashes pinned in the code are
  modelled by the conditions they fix, or taken to match.
* One approval per stage is held at a time: an owner replaces it.
* `DispatchLineage`: a readiness in several superseded versions is the one its
  executor reads; the facts of the failed pass were pinned after its process had
  ended.
* `RebuttalRuntime`: two invocations of a reopened step do not overlap (its
  authorization is reusable, and the race of `RecoveryRuntime` would recur).
* `FirstInitialRunner`: a mark's read and write are one action.
* `JudgeProduction`: the artifacts are built until an authorization exists, and
  the gate of v0.4 has an eligible candidate.
* `JudgeAuthority`: approvals and documents change between invocations, and not
  after the consumption exists (the remote branch moves at any time); the
  evaluation time is after the expiry.
* `ModelEvaluation`: repair calls and permuted inputs are part of a call; equal
  costs are told apart by latency only. Developer, preflights and owner stop at
  the first call, so how a freeze binds a result to its own evaluation is not seen.
* An error of the disk or of the file system is a crash at that write, except in
  `JudgeExecution`, whose executor handles it.
* `ReadLineage`: zero-call builders are one action each, and one invocation is
  alive at a time.
* Each SQLite statement is atomic, and a transaction's write lock is taken when
  it flushes.
* In `OptionOrder` an order fills whole, at its limit; a fill does not change the
  reported cash until the next `Revalue`, which may report any account. Contract,
  DTE, spread and quote age are one Boolean of the commit state. The caller reads
  a commit state for each call, as `run_vertical_slice_v1.py` does.
* The contents of requests, opinions, proposals and artifacts are left out, except
  for what a later step tests.

## 7. Not modelled, and the plan

1. Done: the abstract contract and the Initial runner with its proofs; the
   recovery; the dispatch lineage; the first-generation runners; the Rebuttal;
   the Judge scripts and the TTL Judge with its authority; the model evaluations;
   the external reads; the Cockpit's approvals; B5/B6.
2. Proved: the safety and action properties of all eleven components (section 4).
   What remains is liveness, which stays with TLC. The next thing to state is what
   holds of the reopened Rebuttal steps when invocations overlap.
3. Left out, and why:
   * the validation of requests, proposals and promotions, the B3 planner and
     synthesis, B2 screening, domain contracts: pure functions of documents. The
     models take their verdict as an attribute of an answer or a commit.
   * Cockpit V6's market and account caches, its demonstration analysis with the
     browser client, and Cockpit V5: what they show is acted on by nobody; the
     cost computation of `initial_preflight.py` is data.
   * contract selection of B5 (any eligible contract is chosen) and the evidence
     of its read-only production run.
   * data providers: read-only HTTP, modelled as far as `ReadLineage` reads.
   * schemas, configuration, migrations and deployment.
