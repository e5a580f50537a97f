--------------------------- MODULE ModelEvaluation ---------------------------
(***************************************************************************)
(* Choosing the model of a stage: the paid evaluations of the research     *)
(* model (b3_real_model_eval), of the Initial, the Rebuttal and the Judge  *)
(* model (b4_*_model_eval), and the authority that freezes what one of     *)
(* them selected.  A behaviour is about one stage, chosen at the start;    *)
(* all paths are the defaults of the scripts.                              *)
(*   An evaluation calls every candidate of the ladder with every case,    *)
(* once, and selects the cheapest candidate that passed them all.  In the  *)
(* three B4 stages it needs the owner's approval of the preflight          *)
(* artifacts, creates an authorization before the first call and appends a *)
(* receipt after every call.                                               *)
(***************************************************************************)
EXTENDS PaidStage

CONSTANTS
    Ladder,       \* the candidates, in the order of the ladder
    Cases,        \* the evaluation cases, in order
    Critical,     \* the cases a failure of which is a safety failure
    EvalAnswers,  \* what the provider answers
    MaxCharge,    \* the most that the provider charges for one call
    MaxVersions   \* bound on the versions of the code

Stages == {"RESEARCH", "INITIAL", "REBUTTAL", "JUDGE"}
Council == Stages \ {"RESEARCH"}
CommitBound == {"REBUTTAL", "JUDGE"}       \* the evaluations bound to a commit

(* An answer: did a response arrive, does it report its usage, what is      *)
(* wrong with the proposal, what does the provider charge, how long did it *)
(* take.  "protocol": the response cannot be parsed into a proposal.       *)
Defects == {"none", "protocol", "authority"} \cup ToSet(Cases)
ASSUME EvalAnswersAssumption ==
    /\ EvalAnswers \subseteq [received : BOOLEAN, usage : BOOLEAN, defect : Defects,
                              cost : Nat \ {0}, latency : Nat]
    /\ MaxCharge \in Nat /\ \A a \in EvalAnswers : a.cost <= MaxCharge
ASSUME LadderAssumption ==
    /\ Len(Ladder) \in Nat \ {0} /\ DOMAIN Ladder = 1..Len(Ladder) /\ IsInjective(Ladder)
    /\ Len(Cases) \in Nat \ {0} /\ DOMAIN Cases = 1..Len(Cases) /\ IsInjective(Cases)
    /\ MaxVersions \in Nat \ {0}

VARIABLES
    stage,          \* the stage evaluated
    work,           \* version of the code in the work tree; head is the one committed
    frozen,         \* the request preflight: the version it froze, or None
    rehearsed,      \* the Judge's dry artifact: the version it froze, or None
    receipts,       \* the journal of receipts on disk
    authority,      \* the frozen selection, or None
    paid, spent     \* calls and charges of the provider

(* cost is the version the cost preflight froze, or None; run is           *)
(* [pc, code, read, memory, answer] of each invocation.                    *)
evalFiles == <<frozen, cost, rehearsed, approval, auth, receipts, output, authority>>
evalVars == <<stage, work, head, evalFiles, run, paid, spent, crashes>>

IdleEval == [pc |-> "idle", code |-> 0, read |-> None, memory |-> <<>>, answer |-> None]

(* The calls of an evaluation: for each candidate, each case. *)
Planned == [i \in 1..(Len(Ladder) * Len(Cases)) |->
              <<Ladder[((i - 1) \div Len(Cases)) + 1], Cases[((i - 1) % Len(Cases)) + 1]>>]

-----------------------------------------------------------------------------
(* Scoring.  Every proposal must parse and keep to its authority; a case   *)
(* is about a defect of its own, and one that belongs to another case does *)
(* not fail it.                                                            *)
InitialCase(c) == {c}
RebuttalCase(c) == {c}
JudgeCase(c) == {c}
ResearchFails(c) == {"protocol", "authority", c}
InitialFails(c) == {"protocol", "authority"} \cup InitialCase(c)
RebuttalFails(c) == {"protocol", "authority"} \cup RebuttalCase(c)
JudgeFails(c) == {"protocol", "authority"} \cup JudgeCase(c)
Fails(c) == CASE stage = "RESEARCH" -> ResearchFails(c)
              [] stage = "INITIAL" -> InitialFails(c)
              [] stage = "REBUTTAL" -> RebuttalFails(c)
              [] stage = "JUDGE" -> JudgeFails(c)

(* What a run makes of an answer: [at, received, passed, known, latency,   *)
(* replay], where "known" is the cost it knows of.  The research and the   *)
(* Initial runs charge nothing for a response without usage (the former    *)
(* only when it cannot be parsed either: see Settle); the others leave its *)
(* cost open and fail the case.  Only a parsed proposal can be replayed.   *)
Outcome(i, a, passed, known) ==
    [at |-> Planned[i], received |-> a.received, passed |-> passed, known |-> known,
     open |-> FALSE, latency |-> a.latency,
     defect |-> a.defect, replay |-> a.received /\ a.defect # "protocol"]
CasePassed(i, a) == a.received /\ a.defect \notin Fails(Planned[i][2])

ResearchOutcome(i, a) ==
    Outcome(i, a, CasePassed(i, a), IF a.received /\ a.defect # "protocol" THEN a.cost ELSE 0)
InitialOutcome(i, a) ==
    Outcome(i, a, CasePassed(i, a), IF a.received /\ a.usage THEN a.cost ELSE 0)
RebuttalOutcome(i, a) ==
    [Outcome(i, a, CasePassed(i, a) /\ a.usage, IF a.usage THEN a.cost ELSE 0)
        EXCEPT !.open = ~a.usage]
JudgeOutcome(i, a) ==
    [Outcome(i, a, CasePassed(i, a) /\ a.usage, IF a.usage THEN a.cost ELSE 0)
        EXCEPT !.open = ~a.usage]
OutcomeOf(i, a) == CASE stage = "RESEARCH" -> ResearchOutcome(i, a)
                     [] stage = "INITIAL" -> InitialOutcome(i, a)
                     [] stage = "REBUTTAL" -> RebuttalOutcome(i, a)
                     [] stage = "JUDGE" -> JudgeOutcome(i, a)

KnownSum(s) == Total([i \in DOMAIN s |-> s[i].known])

(* The record of a candidate: all its cases passed, how many critical ones *)
(* failed, its cost and latency.                                           *)
CandidateRecord(s, k) ==
    LET mine == {i \in DOMAIN s : s[i].at[1] = k}
    IN  [passed |-> \A i \in mine : s[i].passed,
         failures |-> Cardinality({i \in mine : s[i].at[2] \in Critical /\ ~s[i].passed}),
         cost |-> Total([i \in DOMAIN s |-> IF i \in mine THEN s[i].known ELSE 0]),
         latency |-> Total([i \in DOMAIN s |-> IF i \in mine THEN s[i].latency ELSE 0])]

(* The cheapest candidate that passed, then the fastest, then the first    *)
(* (the code looks at the tokens before the position).                     *)
Passing(s) == {k \in DOMAIN Ladder :
                 LET r == CandidateRecord(s, Ladder[k]) IN r.passed /\ r.failures = 0}
BeforeByLatency(s, j, k) ==   \* mutant: the fastest of them
    LET a == CandidateRecord(s, Ladder[j])
        b == CandidateRecord(s, Ladder[k])
    IN  a.latency < b.latency \/ (a.latency = b.latency /\ j < k)
Before(s, j, k) ==
    LET a == CandidateRecord(s, Ladder[j])
        b == CandidateRecord(s, Ladder[k])
    IN  \/ a.cost < b.cost
        \/ a.cost = b.cost /\ a.latency < b.latency
        \/ a.cost = b.cost /\ a.latency = b.latency /\ j < k
Select(s) == IF Passing(s) = {} THEN None
             ELSE [candidate |-> Ladder[CHOOSE j \in Passing(s) :
                                          \A k \in Passing(s) \ {j} : Before(s, j, k)]]

-----------------------------------------------------------------------------
EvalInit ==
    /\ stage \in Stages
    /\ work = 1 /\ head = 1
    /\ frozen = None /\ cost = None /\ rehearsed = None /\ approval = <<>>
    /\ auth = None /\ receipts = <<>> /\ output = None /\ authority = None
    /\ run = [p \in Procs |-> IdleEval]
    /\ paid = [c \in ToSet(Planned) |-> 0] /\ spent = 0
    /\ crashes = 0

(* Bound: the developer and the owner act until the first call; a paid     *)
(* invocation has loaded the code and the artifacts by then, and no other  *)
(* gets past Check.  Only a dry run is explored after that.                *)
Unpaid == spent = 0
NoneAhead == \A p \in Procs : run[p].memory = <<>> /\ run[p].pc \notin {"answered", "settle"}

(* The developer edits the code, and commits it. *)
Develop ==
    /\ Unpaid /\ work = head /\ work < MaxVersions
    /\ work' = work + 1
    /\ UNCHANGED <<stage, head, evalFiles, run, paid, spent, crashes>>

Commit ==
    /\ Unpaid /\ head # work
    /\ head' = work
    /\ UNCHANGED <<stage, work, evalFiles, run, paid, spent, crashes>>

(* The preflights freeze the requests the code builds and name the commit; *)
(* the cost preflight binds the request preflight.  All overwrite.         *)
FrozenRequest == [commit |-> head, code |-> work]

InitialRequest == stage = "INITIAL" /\ frozen' = FrozenRequest /\ cost' = cost
InitialCost == stage = "INITIAL" /\ frozen # None /\ cost' = frozen /\ frozen' = frozen
RebuttalRequest == stage = "REBUTTAL" /\ frozen' = FrozenRequest /\ cost' = cost
RebuttalCost == stage = "REBUTTAL" /\ frozen # None /\ cost' = frozen /\ frozen' = frozen
JudgePreflights == stage = "JUDGE" /\ frozen' = FrozenRequest /\ cost' = FrozenRequest

PreflightEval ==
    /\ Unpaid
    /\ InitialRequest \/ InitialCost \/ RebuttalRequest \/ RebuttalCost \/ JudgePreflights
    /\ UNCHANGED <<stage, work, head, rehearsed, approval, auth, receipts, output, authority,
                   run, paid, spent, crashes>>

(* The check before anything is paid or written: the code at hand rebuilds *)
(* the frozen requests.  The Initial one only bounds their size.           *)
InitialRebuilds(code, read) == read.cost # None
RebuttalRebuilds(code, read) ==
    read.request # None /\ read.cost = read.request /\ read.request.code = code
JudgeRebuilds(code, read) ==
    read.request # None /\ read.cost = read.request /\ read.request.code = code
Rebuilds(code, read) == CASE stage = "INITIAL" -> InitialRebuilds(code, read)
                          [] stage = "REBUTTAL" -> RebuttalRebuilds(code, read)
                          [] stage = "JUDGE" -> JudgeRebuilds(code, read)

OnDisk == [request |-> frozen, cost |-> cost, dry |-> rehearsed]

(* Without --execute-paid-eval a script only describes what it would do:   *)
(* the Initial one into the file of its result, the Judge's into an        *)
(* artifact of its own, which the owner approves too.                      *)
InitialDryRun == stage = "INITIAL" /\ output' = [status |-> "DRY"] /\ rehearsed' = rehearsed
JudgeDryRun == stage = "JUDGE" /\ rehearsed' = frozen /\ output' = output

DryRunEval ==
    /\ NoneAhead /\ stage \in Council /\ Rebuilds(work, OnDisk)
    /\ InitialDryRun \/ JudgeDryRun
    /\ UNCHANGED <<stage, work, head, frozen, cost, approval, auth, receipts, authority,
                   run, paid, spent, crashes>>

(* The owner approves the artifacts on disk, by the hashes the options of  *)
(* the script name; bound: the Initial's once.                             *)
Named(read) == CASE stage = "INITIAL" -> <<read.cost>>
                 [] stage = "REBUTTAL" -> <<read.request, read.cost>>
                 [] stage = "JUDGE" -> <<read.request, read.cost, read.dry>>
ApproveEval ==
    /\ Unpaid /\ stage \in Council /\ cost # None /\ approval # Named(OnDisk)
    /\ stage = "INITIAL" => approval = <<>>
    /\ approval' = Named(OnDisk)
    /\ UNCHANGED <<stage, work, head, frozen, cost, rehearsed, auth, receipts, output, authority,
                   run, paid, spent, crashes>>

InitialApproved(read) == approval = Named(read)
RebuttalApproved(read) == approval = Named(read)
JudgeApproved(read) == approval = Named(read) /\ read.dry = read.request
Approved(read) == CASE stage = "INITIAL" -> InitialApproved(read)
                    [] stage = "REBUTTAL" -> RebuttalApproved(read)
                    [] stage = "JUDGE" -> JudgeApproved(read)

(* A paid invocation: it loads the code, reads the artifacts and checks    *)
(* them and the approval.                                                  *)
StartEval(p) ==
    /\ run[p].pc = "idle" /\ stage \in Council
    /\ Rebuilds(work, OnDisk) /\ Approved(OnDisk)
    /\ run' = [run EXCEPT ![p] = [IdleEval EXCEPT !.pc = "started", !.code = work,
                                                   !.read = OnDisk]]
    /\ UNCHANGED <<stage, work, head, evalFiles, paid, spent, crashes>>

(* The evaluation of the research model needs no approval and nothing      *)
(* stops it from being run again; bound: one invocation.                   *)
ResearchStart(p) ==
    /\ run[p].pc = "idle" /\ stage = "RESEARCH" /\ \A q \in Procs : run[q].pc = "idle"
    /\ spent = 0
    /\ run' = [run EXCEPT ![p] = [IdleEval EXCEPT !.pc = "ready", !.code = work]]
    /\ UNCHANGED <<stage, work, head, evalFiles, paid, spent, crashes>>

(* The work tree must be clean; the Rebuttal and the Judge evaluation also *)
(* require the commit of the preflight.                                    *)
InitialClean(read) == work = head
RebuttalClean(read) == work = head /\ head = read.request.commit
JudgeClean(read) == work = head /\ head = read.request.commit
Clean(read) == CASE stage = "INITIAL" -> InitialClean(read)
                 [] stage = "REBUTTAL" -> RebuttalClean(read)
                 [] stage = "JUDGE" -> JudgeClean(read)
FreshEval == output = None /\ auth = None /\ receipts = <<>>

Check(p) ==
    /\ run[p].pc = "started"
    /\ run' = [run EXCEPT ![p] = IF Clean(run[p].read) /\ FreshEval
                                 THEN [@ EXCEPT !.pc = "checked"] ELSE IdleEval]
    /\ UNCHANGED <<stage, work, head, evalFiles, paid, spent, crashes>>

(* The authorization is created, never overwritten. *)
Create(p) == auth = None /\ auth' = [by |-> p]
AuthorizeEval(p) ==
    /\ run[p].pc = "checked"
    /\ \/ /\ Create(p)
          /\ run' = [run EXCEPT ![p].pc = "ready"]
       \/ /\ auth # None
          /\ auth' = auth
          /\ run' = [run EXCEPT ![p] = IdleEval]
    /\ UNCHANGED <<stage, work, head, frozen, cost, rehearsed, approval, receipts, output,
                   authority, paid, spent, crashes>>

(* Only then is the key loaded.  Without one the script exits: the          *)
(* authorization stays and no call was made.                               *)
KeyMissing(p) ==
    /\ run[p].pc = "ready" /\ run[p].memory = <<>> /\ stage \in Council
    /\ run' = [run EXCEPT ![p].pc = "keyless"]
    /\ UNCHANGED <<stage, work, head, evalFiles, paid, spent, crashes>>

NextUnreceipted(p) == Len(receipts) + 1   \* mutant: counts what is on disk
NextCall(p) == Len(run[p].memory) + 1

Post(p) ==
    /\ run[p].pc = "ready" /\ NextCall(p) <= Len(Planned)
    /\ \E a \in EvalAnswers :
        /\ run' = [run EXCEPT ![p] = [@ EXCEPT !.pc = IF stage = "RESEARCH" THEN "settle"
                                                       ELSE "answered",
                                                !.answer = a]]
        /\ spent' = spent + a.cost
    /\ paid' = [paid EXCEPT ![Planned[NextCall(p)]] = @ + 1]
    /\ UNCHANGED <<stage, work, head, evalFiles, crashes>>

(* The receipt of a call, appended when the call is over.  The Initial one *)
(* calls the cost complete as soon as there is a response.                 *)
Verdict(o) == IF ~o.received THEN "UNKNOWN" ELSE IF o.passed THEN "PASS" ELSE "FAIL"
ReceiptFor(o, complete) ==
    [at |-> o.at, result |-> Verdict(o), complete |-> complete, defect |-> o.defect,
     replay |-> o.replay, known |-> o.known, latency |-> o.latency]
InitialReceipt(o) == ReceiptFor(o, o.received)
RebuttalReceipt(o) == ReceiptFor(o, ~o.open)
JudgeReceipt(o) == ReceiptFor(o, ~o.open)
EvalReceipt(o) == CASE stage = "INITIAL" -> InitialReceipt(o)
                    [] stage = "REBUTTAL" -> RebuttalReceipt(o)
                    [] stage = "JUDGE" -> JudgeReceipt(o)

AppendReceipt(p) ==
    /\ run[p].pc = "answered"
    /\ receipts' = Append(receipts, EvalReceipt(OutcomeOf(NextCall(p), run[p].answer)))
    /\ run' = [run EXCEPT ![p].pc = "settle"]
    /\ UNCHANGED <<stage, work, head, frozen, cost, rehearsed, approval, auth, output, authority,
                   paid, spent, crashes>>

(* Why a run stops with a blocked result; s are the outcomes so far, with  *)
(* that of this call.                                                      *)
InitialStop(o, s) == IF ~o.received THEN "UNKNOWN_DISPATCH" ELSE "none"
StopAtCeiling(o, s) ==   \* mutant: an open cost is no reason to stop
    IF ~o.received THEN "UNKNOWN_DISPATCH"
    ELSE IF KnownSum(s) > Ceiling THEN "CEILING_EXCEEDED" ELSE "none"
RebuttalStop(o, s) == IF ~o.received THEN "UNKNOWN_DISPATCH"
                      ELSE IF o.open THEN "INCOMPLETE_COST"
                      ELSE IF KnownSum(s) > Ceiling THEN "CEILING_EXCEEDED" ELSE "none"
JudgeStop(o, s) == IF ~o.received THEN "UNKNOWN_DISPATCH"
                   ELSE IF o.open THEN "INCOMPLETE_COST"
                   ELSE IF KnownSum(s) > Ceiling THEN "CEILING_EXCEEDED" ELSE "none"
Stop(o, s) == CASE stage = "RESEARCH" -> "none"
                [] stage = "INITIAL" -> InitialStop(o, s)
                [] stage = "REBUTTAL" -> RebuttalStop(o, s)
                [] stage = "JUDGE" -> JudgeStop(o, s)

(* Why it dies without a result: the Initial run above the ceiling, the    *)
(* research run on a parsed response without usage.                        *)
ResearchRaises(a) == a.received /\ a.defect # "protocol" /\ ~a.usage
InitialRaises(s) == KnownSum(s) > Ceiling
Dies(a, s) == \/ stage = "RESEARCH" /\ ResearchRaises(a)
              \/ stage = "INITIAL" /\ InitialRaises(s)

(* The result of a run that stops: the reason and the cost known so far,   *)
(* that of the last call included only when it is what exceeds the ceiling.*)
Blocked(p, why, s) ==
    output' = [status |-> why,
               known |-> KnownSum(IF why = "CEILING_EXCEEDED" THEN s ELSE run[p].memory)]

SettleCall(p) ==
    LET a == run[p].answer
        o == OutcomeOf(NextCall(p), a)
        s == Append(run[p].memory, o)
    IN  /\ run[p].pc = "settle"
        /\ \/ /\ Stop(o, s) # "none"
              /\ Blocked(p, Stop(o, s), s)
              /\ run' = [run EXCEPT ![p] = IdleEval]
           \/ /\ Stop(o, s) = "none" /\ Dies(a, s)
              /\ output' = output
              /\ run' = [run EXCEPT ![p] = IdleEval]
           \/ /\ Stop(o, s) = "none" /\ ~Dies(a, s)
              /\ output' = output
              /\ run' = [run EXCEPT ![p] = [@ EXCEPT !.pc = "ready", !.memory = s,
                                                     !.answer = None]]
        /\ UNCHANGED <<stage, work, head, frozen, cost, rehearsed, approval, auth, receipts,
                       authority, paid, spent, crashes>>

(* All calls settled: the result names the selection. *)
AllSettled(p) == run[p].pc = "ready" /\ Len(run[p].memory) = Len(Planned)
ResultOf(s) == [status |-> IF Select(s) = None THEN "NO_PASSING_MODEL" ELSE "PASS_SELECTED",
                selection |-> Select(s), results |-> s, receipts |-> Len(receipts)]

InitialFinish(p) ==
    stage = "INITIAL" /\ Len(receipts) = Len(Planned) /\ output' = ResultOf(run[p].memory)
RebuttalFinish(p) ==
    stage = "REBUTTAL" /\ Len(receipts) = Len(Planned) /\ output' = ResultOf(run[p].memory)
JudgeFinish(p) ==
    stage = "JUDGE" /\ Len(receipts) = Len(Planned) /\ output' = ResultOf(run[p].memory)
ResearchFinish(p) == stage = "RESEARCH" /\ output' = ResultOf(run[p].memory)

Finish(p) ==
    /\ AllSettled(p)
    /\ InitialFinish(p) \/ RebuttalFinish(p) \/ JudgeFinish(p) \/ ResearchFinish(p)
    /\ run' = [run EXCEPT ![p] = IdleEval]
    /\ UNCHANGED <<stage, work, head, frozen, cost, rehearsed, approval, auth, receipts, authority,
                   paid, spent, crashes>>

(* An invocation dies: what is on disk and what was paid stays. *)
EvalCrash(p) ==
    /\ run[p].pc \notin {"idle", "keyless"} /\ crashes < MaxCrashes
    /\ run' = [run EXCEPT ![p] = IdleEval]
    /\ crashes' = crashes + 1
    /\ UNCHANGED <<stage, work, head, evalFiles, paid, spent>>

-----------------------------------------------------------------------------
(* Freezing the selection.  The Rebuttal's and the Judge's is rebuilt from *)
(* the receipts: every proposal is scored again, the records and the       *)
(* selection must come out as the result has them; the Judge's accepts     *)
(* passing receipts only.  The research and the Initial authority are      *)
(* written by the developer and verified against the result.               *)
Selected == output # None /\ output.status = "PASS_SELECTED"
Rescored(r) == r.replay /\ r.defect \notin Fails(r.at[2])
MatchesResult(r, o) ==
    /\ r.at = o.at /\ r.known = o.known /\ r.latency = o.latency
    /\ (r.result = "PASS") = o.passed
Replayed ==
    /\ Len(receipts) = Len(Planned)
    /\ \A i \in DOMAIN receipts :
        /\ receipts[i].at = Planned[i] /\ receipts[i].result # "UNKNOWN"
        /\ receipts[i].complete
        /\ MatchesResult(receipts[i], output.results[i])
    /\ Select(output.results) = output.selection

Semantic(r) == r.replay /\ (r.result = "PASS") = Rescored(r)
FreezesRebuttal == stage = "REBUTTAL" /\ Replayed /\ \A r \in ToSet(receipts) : Semantic(r)
PassedReplay(r) == Semantic(r) /\ r.result = "PASS"
FreezesJudge == stage = "JUDGE" /\ Replayed /\ \A r \in ToSet(receipts) : PassedReplay(r)
FreezesInitial ==
    /\ stage = "INITIAL" /\ Select(output.results) = output.selection
    /\ \A i \in DOMAIN output.results : output.results[i].replay
FreezesResearch == stage = "RESEARCH" /\ Select(output.results) = output.selection

Freeze ==
    /\ authority = None /\ Selected
    /\ FreezesRebuttal \/ FreezesJudge \/ FreezesInitial \/ FreezesResearch
    /\ authority' = [candidate |-> output.selection.candidate, source |-> output]
    /\ UNCHANGED <<stage, work, head, frozen, cost, rehearsed, approval, auth, receipts, output,
                   run, paid, spent, crashes>>

EvalNext ==
    \/ Develop \/ Commit \/ PreflightEval \/ DryRunEval \/ ApproveEval \/ Freeze
    \/ \E p \in Procs :
        \/ StartEval(p) \/ ResearchStart(p) \/ Check(p) \/ AuthorizeEval(p) \/ KeyMissing(p)
        \/ EvalCrash(p) \/ Post(p) \/ AppendReceipt(p) \/ SettleCall(p) \/ Finish(p)

EvalSpec == EvalInit /\ [][EvalNext]_evalVars

-----------------------------------------------------------------------------
EvalTypeOK ==
    /\ stage \in Stages /\ work \in 1..MaxVersions /\ head \in 1..work
    /\ paid \in [ToSet(Planned) -> Nat] /\ Len(receipts) <= Len(Planned)
    /\ \A p \in Procs :
        /\ run[p].pc \in {"idle", "started", "checked", "ready", "keyless", "answered", "settle"}
        /\ Len(run[p].memory) <= Len(Planned)

(* Whatever is started, restarted or run at the same time, a council        *)
(* evaluation pays for a candidate's case at most once, and in the order   *)
(* of the plan; and all but the last payment have their receipt, in place, *)
(* even after a crash.                                                     *)
PaidOnceAndReceipted ==
    stage \in Council =>
        /\ \A i \in DOMAIN Planned :
            /\ paid[Planned[i]] <= 1
            /\ paid[Planned[i]] = 1 => Len(receipts) >= i - 1
        /\ \A i \in DOMAIN receipts : receipts[i].at = Planned[i] /\ paid[Planned[i]] = 1

(* The Rebuttal and the Judge evaluation pay only for requests that their  *)
(* preflight froze and the owner approved, at the commit it names, even if *)
(* the code or the artifacts change while they start.                      *)
PaysWhatIsFrozen ==
    stage \in CommitBound =>
        \A p \in Procs : run[p].pc \in {"ready", "answered", "settle"} =>
            /\ run[p].read.request.code = run[p].code
            /\ run[p].read.cost = run[p].read.request
            /\ run[p].read.request.commit = run[p].code

(* The Rebuttal and the Judge evaluation stop at the first call that takes *)
(* the known cost above the ceiling, and at a call whose cost is open: the *)
(* provider charged at most one call more than was approved.               *)
SpendIsBounded == stage \in CommitBound => spent <= Ceiling + MaxCharge

(* An authorized Rebuttal or Judge evaluation stops without a result on    *)
(* disk only if its process dies, or before its first call if it finds no  *)
(* key, and not for anything the provider answers; the authorization bars  *)
(* every later evaluation in either case.                                  *)
AuthorizedLeavesResult ==
    stage \in CommitBound /\ auth # None /\ crashes = 0 =>
        \/ output # None
        \/ \E p \in Procs : run[p].pc \in {"ready", "answered", "settle"}
        \/ spent = 0 /\ \E p \in Procs : run[p].pc = "keyless"

(* What a paid evaluation spends is paid once, approved, bounded and shown. *)
PaymentsAreAccounted ==
    /\ PaidOnceAndReceipted
    /\ PaysWhatIsFrozen
    /\ SpendIsBounded
    /\ AuthorizedLeavesResult

(* A frozen model earned it: the provider's answers to all its cases were  *)
(* right, and no candidate of that quality was known to be cheaper.        *)
AuthorityIsEarned ==
    authority # None =>
        LET s == authority.source.results
            mine == {i \in DOMAIN s : s[i].at[1] = authority.candidate}
            bill(k) == CandidateRecord(s, k).cost
        IN  /\ {s[i].at[2] : i \in mine} = ToSet(Cases)
            /\ \A i \in mine : s[i].received /\ s[i].defect \notin Fails(s[i].at[2])
            /\ \A k \in ToSet(Ladder) :
                (\A i \in DOMAIN s : s[i].at[1] = k => s[i].passed) =>
                    bill(authority.candidate) <= bill(k)
=============================================================================
