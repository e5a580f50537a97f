--------------------------- MODULE RebuttalRuntime ---------------------------
(***************************************************************************)
(* The production Rebuttal: one paid call per candidate, frozen together.  *)
(* Three families of scripts run it; a behaviour is about one of them:     *)
(*   "first"  b4_run_rebuttal_runtime_v01;                                 *)
(*   "reopen" b4_reopen_run_rebuttal_runtime v01, whose key the provider   *)
(*            rejected, the plan to recover from that, the two probes of a *)
(*            replacement key, and the runs v02 and v03;                   *)
(*   "post"   the executor after the research was reopened.                *)
(* A step of a family has a dry artifact that the owner approves, an       *)
(* authorization, a journal (the ledger of "post", replaced in place, is   *)
(* the sequence of its updates) and an output.  A write and its fsync are  *)
(* one action; an invocation may die between any two of them.              *)
(***************************************************************************)
EXTENDS PaidStage

CONSTANTS
    Candidates,   \* the candidates, in order
    Keys,         \* credentials the environment may hold
    Valid,        \* those the provider accepts
    RebuttalAnswers, \* what it answers to a valid one
    Builds        \* the requests each commit of the code builds

Runs == {"first", "v1", "v2", "v3", "post"}
Probes == {"probe1", "probe2"}
Steps == Runs \cup Probes
StepsOf == [first |-> {"first"}, reopen |-> {"v1", "v2", "v3"} \cup Probes, post |-> {"post"}]
Revisions == DOMAIN Builds
Calls == Len(Candidates)

(* An answer: did a response arrive, does it reject the key, does it       *)
(* report its usage, is its bundle valid, which identifier did the model   *)
(* give the bundle, and what does the provider charge.                     *)
AnswerRecords == [received : BOOLEAN, rejected : BOOLEAN, usage : BOOLEAN, valid : BOOLEAN,
                  bundle : {1, 2}, cost : Nat]
ASSUME RebuttalAssumption ==
    /\ Calls \in Nat \ {0} /\ Valid \subseteq Keys /\ 1 \in Revisions
    /\ RebuttalAnswers \subseteq {a \in AnswerRecords : ~a.rejected}

VARIABLES
    family,             \* the family the behaviour is about
    env,                \* the key in the environment
    source, request, plan,   \* the other preflight artifacts, the recovery plan, or None
    dry,                \* of each step: its dry artifact
    journal,            \* of each step: the rows of its journal, by kind
    raws,               \* captured responses
    sent                \* of each step: the provider's view of the calls

(* approval, auth and output are of each step, too; run is                 *)
(* [pc, step, code, key, dry, memory, answer] of each invocation.          *)

preflights == <<source, request, cost, plan>>
rebuttalFiles == <<auth, journal, raws, output>>
rebuttalVars == <<family, head, env, preflights, dry, approval, rebuttalFiles, run, sent, crashes>>

Idle == [pc |-> "idle", step |-> "none", code |-> 0, key |-> None, dry |-> None,
         memory |-> <<>>, answer |-> None]
Blank == [attempts |-> <<>>, results |-> <<>>, notes |-> <<>>]

RebuttalInit ==
    /\ family \in DOMAIN StepsOf
    /\ head = 1 /\ env \in Keys
    /\ source = None /\ request = None /\ cost = None /\ plan = None
    /\ dry = [s \in Steps |-> None] /\ approval = [s \in Steps |-> None]
    /\ auth = [s \in Steps |-> None] /\ journal = [s \in Steps |-> Blank]
    /\ raws = {} /\ output = [s \in Steps |-> None]
    /\ run = [p \in Procs |-> Idle]
    /\ sent = [s \in Steps |-> <<>>] /\ crashes = 0

-----------------------------------------------------------------------------
(* The developer checks a commit out, the operator changes the key; they   *)
(* act between invocations, which read what they need when they start.     *)
Between == \A p \in Procs : run[p].pc = "idle"
Checkout ==
    /\ Between /\ head' \in Revisions \ {head}
    /\ UNCHANGED <<family, env, preflights, dry, approval, rebuttalFiles, run, sent, crashes>>
ChangeKey ==
    /\ Between /\ env' \in Keys \ {env}
    /\ UNCHANGED <<family, head, preflights, dry, approval, rebuttalFiles, run, sent, crashes>>

(* Preflights: what the code at hand builds, with the commit; each binds   *)
(* the one before it and overwrites its file, except the last family's.    *)
SourcePreflight ==
    /\ family = "first" /\ source' = [commit |-> head, requests |-> Builds[head]]
    /\ UNCHANGED <<request, cost, plan>>
BindsSource == source # None /\ source.commit = head
RequestPreflight ==
    /\ family = "first" /\ BindsSource
    /\ request' = [commit |-> head, of |-> source]
    /\ UNCHANGED <<source, cost, plan>>
CostPreflight ==
    /\ family = "first" /\ request # None
    /\ cost' = [commit |-> request.commit, of |-> request]
    /\ UNCHANGED <<source, request, plan>>
ReopenCost ==
    /\ family = "reopen" /\ cost = None   \* bound: the code then pins its hash
    /\ cost' = [commit |-> head, requests |-> Builds[head]]
    /\ UNCHANGED <<source, request, plan>>
PostPreflight ==
    /\ family = "post" /\ cost = None /\ dry["post"] = None
    /\ cost' = [commit |-> head, requests |-> Builds[head]]
    /\ UNCHANGED <<source, request, plan>>

(* The plan to recover from a rejected key: the first reopened run left    *)
(* one attempt, rejected with 401, and the blocked artifact about it.      *)
RejectedJournal(j) ==
    Len(j.attempts) = 1 /\ Len(j.results) = 1 /\ j.results[1].answer.rejected
RejectedBlocked(o) == o # None /\ o.status = "UNKNOWN_DISPATCH" /\ o.known = 0
RecoveryPlan == [source |-> output["v1"], receipt |-> journal["v1"].results[1]]
Recover ==
    /\ plan = None /\ family = "reopen" /\ cost # None
    /\ RejectedJournal(journal["v1"]) /\ RejectedBlocked(output["v1"])
    /\ plan' = RecoveryPlan
    /\ UNCHANGED <<source, request, cost>>

Preflight ==
    /\ Between
    /\ SourcePreflight \/ RequestPreflight \/ CostPreflight \/ ReopenCost \/ Recover
       \/ PostPreflight
    /\ UNCHANGED <<family, head, env, dry, approval, rebuttalFiles, run, sent, crashes>>

-----------------------------------------------------------------------------
(* What a step must find, for the code of a commit and a key.              *)
FirstBound(c) ==
    /\ source # None /\ request # None /\ cost # None
    /\ source.commit = c /\ request.commit = c /\ cost.commit = c
    /\ request.of = source /\ cost.of = request
    /\ Builds[c] = source.requests
VerifyCost == cost # None
ReopenBound(c) == VerifyCost /\ Builds[c] = cost.requests
ReopenBoundV02(c) == VerifyCost /\ Builds[c] = cost.requests
PostBound(c) == cost # None /\ cost.commit = c /\ cost.requests = Builds[c]
ProbeSource == plan # None
ProbeRejected == output["probe1"] # None /\ output["probe1"].status = "REJECTED"
FreshDry == dry["v2"] # None
ProbePassed == output["probe2"] # None /\ output["probe2"].status = "PASS"
BindCredential(k) == output["probe2"].key = k

Bound(s, c, k) ==
    CASE s = "first" -> FirstBound(c)
      [] s = "v1" -> ReopenBound(c)
      [] s = "v2" -> ReopenBoundV02(c)
      [] s = "v3" -> ReopenBoundV02(c) /\ FreshDry /\ ProbePassed /\ BindCredential(k)
      [] s = "post" -> PostBound(c)
      [] s = "probe1" -> ProbeSource
      [] s = "probe2" -> ProbeSource /\ ProbeRejected

(* The dry artifact of a step: everything it is bound to.                  *)
FirstDry(c) == [commit |-> c, of |-> cost]
ReopenDry(c) == [commit |-> c, of |-> cost]
DryV03(c, k) == [commit |-> c, of |-> cost, fresh |-> dry["v2"], probe |-> output["probe2"],
                 key |-> k]
Readiness(c) == [commit |-> c, of |-> cost]
ProbeDry(c) == [commit |-> c, of |-> plan]
ProbeDryV02(c, k) == [commit |-> c, of |-> plan, failed |-> output["probe1"], key |-> k]
DryOf(s, c, k) ==
    CASE s = "first" -> FirstDry(c)
      [] s \in {"v1", "v2"} -> ReopenDry(c)
      [] s = "v3" -> DryV03(c, k)
      [] s = "post" -> Readiness(c)
      [] s = "probe1" -> ProbeDry(c)
      [] s = "probe2" -> ProbeDryV02(c, k)

(* A dry run; all but the first family's refuse to replace theirs.         *)
DryRun(s) ==
    /\ Between /\ s \in StepsOf[family] /\ Bound(s, head, env)
    /\ s # "first" => dry[s] = None
    /\ dry' = [dry EXCEPT ![s] = DryOf(s, head, env)]
    /\ UNCHANGED <<family, head, env, preflights, approval, rebuttalFiles, run, sent, crashes>>

(* The owner approves the dry artifact on disk, by its hash.               *)
Approve(s) ==
    /\ Between /\ s \in StepsOf[family] /\ dry[s] # None /\ approval[s] # dry[s]
    /\ approval' = [approval EXCEPT ![s] = dry[s]]
    /\ UNCHANGED <<family, head, env, preflights, dry, rebuttalFiles, run, sent, crashes>>

-----------------------------------------------------------------------------
(* A paid invocation checks its artifacts, the approval and that nothing   *)
(* it would write exists; the reopened steps only look for their output.   *)
FirstApproved(c, k) == approval["first"] = DryOf("first", c, k)
FirstFresh == output["first"] = None /\ auth["first"] = None /\ journal["first"] = Blank
VerifyDry(s, c, k) == dry[s] # None /\ dry[s] = DryOf(s, c, k)
StartFirst(c, k) == FirstApproved(c, k) /\ FirstFresh
StartReopened(s, c, k) ==
    /\ VerifyDry(s, c, k) /\ output[s] = None
    /\ auth[s] = None => approval[s] = dry[s]
    /\ Between   \* assumed: nothing in the code keeps two of them apart
StartPost(c, k) ==
    /\ VerifyDry("post", c, k) /\ approval["post"] = dry["post"]
    /\ auth["post"] = None /\ raws = {} /\ output["post"] = None

Start(p, s) ==
    /\ run[p].pc = "idle" /\ s \in StepsOf[family] /\ Bound(s, head, env)
    /\ CASE s = "first" -> StartFirst(head, env)
         [] s = "post" -> StartPost(head, env)
         [] OTHER -> StartReopened(s, head, env)
    /\ run' = [run EXCEPT ![p] = [Idle EXCEPT !.pc = "started", !.step = s, !.code = head,
                                     !.key = env, !.dry = DryOf(s, head, env)]]
    /\ UNCHANGED <<family, head, env, preflights, dry, approval, rebuttalFiles, sent, crashes>>

At(p, pc) == run[p].pc = pc
Go(p, pc) == run' = [run EXCEPT ![p].pc = pc]
Exit(p) == run' = [run EXCEPT ![p] = Idle]
Quiet == UNCHANGED <<family, head, env, preflights, dry, approval>>

(* The authorization (the ledger of "post") is created, never replaced; a  *)
(* reopened step goes on with one that says what this invocation checked.  *)
(* v03 and the second probe sign what they write with their key.           *)
Signed(e, k) == [e EXCEPT !.key = k]
FirstAuth(d) == [dry |-> d, calls |-> Calls, key |-> None]
ReopenAuth(d) == [dry |-> d, calls |-> Calls, key |-> None]
AuthV03(d, k) == Signed(ReopenAuth(d), k)
ProbeAuth(d) == [dry |-> d, calls |-> 1, key |-> None]
ProbeAuthV02(d, k) == Signed(ProbeAuth(d), k)
PostLedger(d) == [dry |-> d, calls |-> Calls, key |-> None]
AuthOf(s, d, k) ==
    CASE s = "first" -> FirstAuth(d)
      [] s \in {"v1", "v2"} -> ReopenAuth(d)
      [] s = "v3" -> AuthV03(d, k)
      [] s = "probe1" -> ProbeAuth(d)
      [] s = "probe2" -> ProbeAuthV02(d, k)
      [] s = "post" -> PostLedger(d)
CreateAuth(p) ==
    LET s == run[p].step
    IN  /\ auth[s] = None
        /\ auth' = [auth EXCEPT ![s] = AuthOf(s, run[p].dry, run[p].key)]
        /\ Go(p, IF s \in {"first", "post"} THEN "ready" ELSE "journal")
VerifyExistingAuth(p) ==
    LET s == run[p].step
    IN  /\ auth[s] # None /\ UNCHANGED auth
        /\ IF s \notin {"first", "post"} /\ auth[s] = AuthOf(s, run[p].dry, run[p].key)
           THEN Go(p, "journal") ELSE Exit(p)
Authorize(p) ==
    /\ At(p, "started") /\ (CreateAuth(p) \/ VerifyExistingAuth(p))
    /\ Quiet /\ UNCHANGED <<journal, raws, output, sent, crashes>>

-----------------------------------------------------------------------------
(* The rows of a journal: the attempts and the receipts of their answers,  *)
(* the verdict on those, and the artifacts written from them.              *)
DispatchAttempt(i) == [i |-> i, key |-> None]
AttemptV03(i, k) == Signed(DispatchAttempt(i), k)
ProbeAttempt == [i |-> 1, key |-> None]
ProbeAttemptV02(k) == Signed(ProbeAttempt, k)
AttemptOf(s, i, k) ==
    CASE s \in {"v1", "v2", "post"} -> DispatchAttempt(i)
      [] s = "v3" -> AttemptV03(i, k)
      [] s = "probe1" -> ProbeAttempt
      [] s = "probe2" -> ProbeAttemptV02(k)

FirstReceipt(i, a) == [i |-> i, answer |-> a, key |-> None]
ResultReceipt(i, a) == [i |-> i, answer |-> a, key |-> None]
ReceiptV03(i, a, k) == Signed(ResultReceipt(i, a), k)
ProbeReceipt(a) == [i |-> 1, answer |-> a, key |-> None]
ProbeReceiptV02(a, k) == Signed(ProbeReceipt(a), k)
ReceiptOf(s, i, a, k) ==
    CASE s = "first" -> FirstReceipt(i, a)
      [] s \in {"v1", "v2", "post"} -> ResultReceipt(i, a)
      [] s = "v3" -> ReceiptV03(i, a, k)
      [] s = "probe1" -> ProbeReceipt(a)
      [] s = "probe2" -> ProbeReceiptV02(a, k)

Complete(a) == a.received /\ a.usage
Known(rs) == Total([k \in DOMAIN rs |-> IF Complete(rs[k].answer) THEN rs[k].answer.cost ELSE 0])
Passed(a) == Complete(a) /\ a.valid
Unique(rs) == \A i, j \in DOMAIN rs : rs[i].answer.bundle = rs[j].answer.bundle => i = j
Indices(es) == [k \in DOMAIN es |-> es[k].i]
AllIndices == [k \in 1..Calls |-> k]

AcceptsUncosted(a) ==   \* mutant: the usage is not looked at
    CASE ~a.received -> "UNKNOWN_DISPATCH"
      [] OTHER -> IF a.valid THEN "PASS" ELSE "VALIDATION_FAILED"
ResultVerdict(a) ==
    CASE ~a.received -> "UNKNOWN_DISPATCH"
      [] a.received /\ ~a.usage -> "INCOMPLETE_COST"
      [] OTHER -> IF a.valid THEN "PASS" ELSE "VALIDATION_FAILED"
(* The running invocation also looks at the ceiling, before validity.      *)
StopReason(rs) ==
    LET a == rs[Len(rs)].answer
    IN  IF Complete(a) /\ Known(rs) > Ceiling THEN "CEILING" ELSE ResultVerdict(a)
(* The reason a later invocation reads from a journal.                     *)
JournalReason(j) ==
    LET failing == {k \in DOMAIN j.results : ~Passed(j.results[k].answer)}
    IN  IF Len(j.attempts) > Len(j.results) THEN "UNKNOWN_DISPATCH"
        ELSE IF failing # {} THEN ResultVerdict(j.results[Min(failing)].answer) ELSE "PARTIAL"

FirstFreeze(code, rs) ==
    [status |-> "FROZEN", code |-> code, known |-> Known(rs), calls |-> Len(rs), key |-> None]
ReopenFreeze(code, rs) ==
    [status |-> "FROZEN", code |-> code, known |-> Known(rs), calls |-> Len(rs), key |-> None]
FreezeV03(code, rs, k) == Signed(ReopenFreeze(code, rs), k)
FreezeOf(s, code, rs, k) ==
    CASE s = "first" -> FirstFreeze(code, rs)
      [] s \in {"v1", "v2"} -> ReopenFreeze(code, rs)
      [] s = "v3" -> FreezeV03(code, rs, k)
FirstBlocked(code, why, rs) ==
    [status |-> why, code |-> code, known |-> Known(rs), calls |-> Len(rs), key |-> None]
ReopenBlocked(code, why, calls, rs) ==
    [status |-> why, code |-> code, known |-> Known(rs), calls |-> calls, key |-> None]
BlockedV03(code, why, calls, rs, k) == Signed(ReopenBlocked(code, why, calls, rs), k)
BlockedOf(s, code, why, calls, rs, k) ==
    CASE s = "first" -> FirstBlocked(code, why, rs)
      [] s \in {"v1", "v2"} -> ReopenBlocked(code, why, calls, rs)
      [] s = "v3" -> BlockedV03(code, why, calls, rs, k)
ProbeFinal(code, r) ==
    [status |-> IF r.answer.valid THEN "PASS" ELSE IF r.answer.rejected THEN "REJECTED" ELSE "FAIL",
     code |-> code, key |-> None]
ProbeFinalV02(code, r) == Signed(ProbeFinal(code, r), r.key)
ProbeFinalOf(s, code, r) == IF s = "probe1" THEN ProbeFinal(code, r) ELSE ProbeFinalV02(code, r)
Write(s, artifact) == output[s] = None /\ output' = [output EXCEPT ![s] = artifact]

-----------------------------------------------------------------------------
(* A reopened step reads its journal.  Empty: it dispatches.  A journal    *)
(* with every attempt and result is frozen without a call, or the step     *)
(* raises and writes nothing; any other is reported as blocked.  A probe   *)
(* is finalized from its attempt and result, and raises on less.  The rows *)
(* of v03 carry the key of its dry artifact, so its check of them passes.  *)
Whole(j) == Indices(j.attempts) = AllIndices /\ Indices(j.results) = AllIndices
Finalizable(rs) == (\A k \in DOMAIN rs : Passed(rs[k].answer)) /\ Known(rs) <= Ceiling
JournalKeys(j, key) ==
    /\ \A k \in DOMAIN j.attempts : j.attempts[k].key = key
    /\ \A k \in DOMAIN j.results : j.results[k].key = key
Unresolved(j) == j.results = <<>>   \* mutant: an attempt alone is not consumed
Fresh(j) == j = Blank
Finalize(s, code, key, j) ==
    /\ Whole(j) /\ Finalizable(j.results) /\ Unique(j.results)
    /\ Write(s, FreezeOf(s, code, j.results, key))
BlockFromJournal(s, code, key, j) ==
    /\ ~Whole(j)
    /\ Write(s, BlockedOf(s, code, JournalReason(j), Len(j.attempts), j.results, key))
ProbeAnswered(j) == Len(j.attempts) = 1 /\ Len(j.results) = 1
FinalizeProbe(s, code, j) == ProbeAnswered(j) /\ Write(s, ProbeFinalOf(s, code, j.results[1]))
Raises(s, j) ==
    /\ IF s \in Probes THEN ~ProbeAnswered(j)
       ELSE Whole(j) /\ ~(Finalizable(j.results) /\ Unique(j.results))
    /\ UNCHANGED output

ReadJournal(p) ==
    LET s == run[p].step   j == journal[s]   code == run[p].code   key == run[p].key
    IN  /\ At(p, "journal")
        /\ s \in {"v3", "probe2"} => JournalKeys(j, key)
        /\ \/ Fresh(j) /\ Go(p, "ready") /\ UNCHANGED output
           \/ /\ ~Fresh(j) /\ Exit(p)
              /\ \/ s \in Runs /\ (Finalize(s, code, key, j) \/ BlockFromJournal(s, code, key, j))
                 \/ s \in Probes /\ FinalizeProbe(s, code, j)
                 \/ Raises(s, j)
        /\ Quiet /\ UNCHANGED <<auth, journal, raws, sent, crashes>>

-----------------------------------------------------------------------------
(* One call: the attempt, except in "first", is on disk before it.         *)
Index(p) == Len(run[p].memory) + 1
AppendRow(s, kind, row) == journal' = [journal EXCEPT ![s][kind] = Append(@, row)]
Attempt(p) ==
    /\ At(p, "ready") /\ run[p].step # "first"
    /\ AppendRow(run[p].step, "attempts", AttemptOf(run[p].step, Index(p), run[p].key))
    /\ Go(p, "attempted")
    /\ Quiet /\ UNCHANGED <<auth, raws, output, sent, crashes>>

(* What the provider answers: 401 to a key it does not know, for a probe   *)
(* a response that says so; a probe of a good key passes or fails.         *)
NoAnswer == [received |-> FALSE, rejected |-> FALSE, usage |-> FALSE, valid |-> FALSE,
             bundle |-> 1, cost |-> 0]
Unauthorized == [NoAnswer EXCEPT !.rejected = TRUE]
Metadata == [NoAnswer EXCEPT !.received = TRUE, !.valid = TRUE]
ProviderAnswers(s, key) ==
    IF key \notin Valid THEN {Unauthorized}
    ELSE IF s \in Probes THEN {NoAnswer, Metadata}
    ELSE RebuttalAnswers
Dispatch(p) ==
    LET s == run[p].step
    IN  /\ At(p, IF s = "first" THEN "ready" ELSE "attempted")
        /\ \E a \in ProviderAnswers(s, run[p].key) :
              /\ run' = [run EXCEPT ![p].pc = "answered", ![p].answer = a]
              /\ sent' = [sent EXCEPT ![s] = Append(@,
                    [i |-> Index(p), key |-> run[p].key, code |-> run[p].code, cost |-> a.cost])]
        /\ Quiet /\ UNCHANGED <<rebuttalFiles, crashes>>

(* The receipt, of every step but "post".                                  *)
Received(p) == ReceiptOf(run[p].step, Index(p), run[p].answer, run[p].key)
Keep(p, pc) ==
    run' = [run EXCEPT ![p].pc = pc, ![p].answer = None,
                       ![p].memory = Append(run[p].memory, Received(p))]
Receipt(p) ==
    /\ At(p, "answered") /\ run[p].step # "post"
    /\ AppendRow(run[p].step, "results", Received(p)) /\ Keep(p, "noted")
    /\ Quiet /\ UNCHANGED <<auth, raws, output, sent, crashes>>

(* The script looks at the last result: it stops with an artifact, goes on *)
(* to the next candidate, or freezes; bundles with one identifier make the *)
(* freeze raise.  The freeze and the blocked artifact are exclusive except *)
(* in "first", where nothing else can write them.                          *)
Settle(p) ==
    LET s == run[p].step   rs == run[p].memory   code == run[p].code   key == run[p].key
        why == StopReason(rs)
    IN  /\ At(p, "noted") /\ s \in Runs
        /\ \/ /\ why # "PASS" /\ Exit(p)
              /\ Write(s, BlockedOf(s, code, why, Len(rs), rs, key))
           \/ why = "PASS" /\ Len(rs) < Calls /\ Go(p, "ready") /\ UNCHANGED output
           \/ /\ why = "PASS" /\ Len(rs) = Calls /\ Exit(p)
              /\ IF Unique(rs) THEN Write(s, FreezeOf(s, code, rs, key)) ELSE UNCHANGED output
        /\ Quiet /\ UNCHANGED <<auth, journal, raws, sent, crashes>>
SettleProbe(p) ==
    LET s == run[p].step
    IN  /\ At(p, "noted") /\ s \in Probes /\ Exit(p)
        /\ Write(s, ProbeFinalOf(s, run[p].code, run[p].memory[1]))
        /\ Quiet /\ UNCHANGED <<auth, journal, raws, sent, crashes>>

(* "post": the response is captured before it is looked at; every outcome  *)
(* is an update of the ledger, except that going over the ceiling raises.  *)
Stopped(why) == [stopped |-> why]
Ambiguous(p) ==
    /\ At(p, "answered") /\ run[p].step = "post" /\ ~run[p].answer.received
    /\ AppendRow("post", "notes", Stopped("AMBIGUOUS_PROVIDER_OUTCOME")) /\ Exit(p)
    /\ Quiet /\ UNCHANGED <<auth, raws, output, sent, crashes>>
CaptureFromZero(p) ==   \* mutant: responses are counted from zero
    /\ At(p, "answered") /\ run[p].step = "post" /\ run[p].answer.received
    /\ raws' = raws \cup {Len(run[p].memory)} /\ Go(p, "captured")
    /\ Quiet /\ UNCHANGED <<auth, journal, output, sent, crashes>>
Capture(p) ==
    /\ At(p, "answered") /\ run[p].step = "post" /\ run[p].answer.received
    /\ raws' = raws \cup {Index(p)} /\ Go(p, "captured")
    /\ Quiet /\ UNCHANGED <<auth, journal, output, sent, crashes>>
NoteCapture(p) ==
    /\ At(p, "captured")
    /\ AppendRow("post", "notes", [captured |-> Index(p)]) /\ Go(p, "process")
    /\ Quiet /\ UNCHANGED <<auth, raws, output, sent, crashes>>
Process(p) ==
    LET r == Received(p)
    IN  /\ At(p, "process")
        /\ \/ /\ ~Passed(r.answer) /\ Exit(p)
              /\ AppendRow("post", "notes", Stopped("RESPONSE_CAPTURED_BUT_NOT_ACCEPTED"))
           \/ /\ Passed(r.answer) /\ Known(run[p].memory) + r.answer.cost > Ceiling
              /\ Exit(p) /\ UNCHANGED journal
           \/ /\ Passed(r.answer) /\ Known(run[p].memory) + r.answer.cost <= Ceiling
              /\ AppendRow("post", "results", r)
              /\ Keep(p, IF Index(p) < Calls THEN "ready" ELSE "done")
        /\ Quiet /\ UNCHANGED <<auth, raws, output, sent, crashes>>
PostFreeze(code, rs) ==
    [status |-> "FROZEN", code |-> code, known |-> Known(rs), calls |-> Len(rs), key |-> None]
FreezePost(p) ==
    /\ At(p, "done") /\ Exit(p)
    /\ Write("post", PostFreeze(run[p].code, run[p].memory))
    /\ Quiet /\ UNCHANGED <<auth, journal, raws, sent, crashes>>

Crash(p) ==
    /\ run[p].pc # "idle" /\ crashes < MaxCrashes
    /\ Exit(p) /\ crashes' = crashes + 1
    /\ Quiet /\ UNCHANGED <<rebuttalFiles, sent>>

Step(p) ==
    \/ Authorize(p) \/ ReadJournal(p) \/ Attempt(p) \/ Dispatch(p) \/ Receipt(p)
    \/ Settle(p) \/ SettleProbe(p)
    \/ Ambiguous(p) \/ Capture(p) \/ NoteCapture(p) \/ Process(p) \/ FreezePost(p)
RebuttalNext ==
    \/ Checkout \/ ChangeKey \/ Preflight
    \/ \E s \in Steps : DryRun(s) \/ Approve(s) \/ \E p \in Procs : Start(p, s)
    \/ \E p \in Procs : Step(p) \/ Crash(p)
RebuttalSpec == RebuttalInit /\ [][RebuttalNext]_rebuttalVars

-----------------------------------------------------------------------------
RebuttalTypeOK ==
    /\ family \in DOMAIN StepsOf /\ head \in Revisions /\ env \in Keys
    /\ raws \subseteq 1..Calls /\ crashes \in 0..MaxCrashes
    /\ \A p \in Procs : run[p] # Idle =>
          run[p].step \in StepsOf[family] /\ run[p].code \in Revisions /\ run[p].key \in Keys
    /\ \A s \in Steps : s \notin StepsOf[family] =>
          dry[s] = None /\ journal[s] = Blank /\ sent[s] = <<>> /\ output[s] = None

(* A step pays for each candidate at most once, in order, over all its     *)
(* invocations and crashes, with the requests that were frozen; the call   *)
(* is on disk before it is made ("first": the receipts before the last     *)
(* call are); and nothing is paid after the step has its artifact.         *)
PaidOnceAhead ==
    /\ \A s \in Steps :
          /\ Indices(sent[s]) = [k \in 1..Len(sent[s]) |-> k]
          /\ sent[s] # <<>> => Len(sent[s]) <= auth[s].calls
          /\ Len(sent[s]) <= (IF s = "first" THEN Len(journal[s].results) + 1
                              ELSE Len(journal[s].attempts))
          /\ s \in Runs => \A k \in DOMAIN sent[s] :
                LET bound == auth[s].dry.of
                IN  Builds[sent[s][k].code] = (IF s = "first" THEN bound.of.of ELSE bound).requests
    /\ \A p \in Procs : run[p].pc \in {"attempted", "answered"} => output[run[p].step] = None

(* The run that replaces a rejected key only uses the key the second probe *)
(* was made with and passed, whatever the environment holds by then.       *)
ProbedKeyOnly ==
    \A k \in DOMAIN sent["v3"] :
       /\ output["probe1"].status = "REJECTED" /\ output["probe2"].status = "PASS"
       /\ sent["probe2"] # <<>> /\ sent["v3"][k].key = sent["probe2"][1].key
       /\ sent["v3"][k].key # sent["v1"][1].key

Charged(s) == Total([k \in DOMAIN sent[s] |-> sent[s][k].cost])

(* A frozen Rebuttal has one valid answer for every candidate and costs    *)
(* what the provider charged, within the ceiling; a blocked one never      *)
(* claims a cost the provider did not charge.  The call that replaced a    *)
(* rejected key was made with the key of the probe.                        *)
FrozenIsPaid ==
    /\ ProbedKeyOnly
    /\ \A s \in Runs : output[s] # None =>
          /\ output[s].known <= Charged(s)
          /\ output[s].calls >= Len(sent[s])
          /\ output[s].status = "FROZEN" =>
                /\ Len(sent[s]) = Calls /\ output[s].known = Charged(s) /\ Charged(s) <= Ceiling
                /\ \A i \in 1..Calls : \E k \in DOMAIN journal[s].results :
                      LET r == journal[s].results[k] IN r.i = i /\ Passed(r.answer)

(* The steps that announce each call before it is made: all but the first  *)
(* run, whose journal only has receipts, and the probes, which end in      *)
(* neither a freeze nor a block.  Each is one paid pass over the           *)
(* candidates, in the sense of OneShotPaidRun: its attempts are the        *)
(* announced calls, what the provider saw the served ones, and its         *)
(* artifact the verdict.                                                   *)
Announced == Runs \ {"first"}
ShownVerdict(artifact) ==
    IF artifact = None THEN "NONE" ELSE IF artifact.status = "FROZEN" THEN "FROZEN" ELSE "BLOCKED"
StepContract(s, maxCost) == INSTANCE OneShotPaidRun WITH
    N <- Calls, MaxCost <- maxCost,
    attempted <- Len(journal[s].attempts),
    served <- DOMAIN sent[s],
    spent <- Charged(s),
    verdict <- ShownVerdict(output[s])
=============================================================================
