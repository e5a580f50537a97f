------------------------- MODULE FirstInitialRunner -------------------------
(***************************************************************************)
(* The first generation of the Initial council: five paid runners, v0.1 to *)
(* v0.5.  Each later one wraps the one before it: v0.2 corrects the cost,  *)
(* v0.3 to v0.5 build repaired requests.  A runner has an authorization, a *)
(* receipt journal and an output of its own, but the zero-call artifacts   *)
(* that lead to it (source preflight, runtime preflight, cost preflight)   *)
(* are written over by the next version's scripts; the wrappers write them *)
(* twice, first as the wrapped script does, then with their marks.         *)
(*                                                                         *)
(* A call is recorded after it was made.  A blocked run can be replayed    *)
(* without a call (a diagnosis), and a repair is shown to reject what its  *)
(* predecessor was blocked by (a proof, in the words of the scripts).      *)
(***************************************************************************)
EXTENDS PaidStage

CONSTANTS
    Live,         \* sets of runner versions: a behaviour uses one of them
    N,            \* calls of a council: nine
    Commits,      \* commits of the code, all with the five versions
    RunnerAnswers, \* what the provider answers
    MaxBuilds     \* bound on the zero-call builds explored

Versions == {"v1", "v2", "v3", "v4", "v5"}
Repaired == {"v3", "v4", "v5"}
ContractDefects == {"none", "material", "provenance", "stage", "other"}

(* An answer: did one arrive, can its structured output be read, its first *)
(* defect, what it says of its usage ("partial": not what was written to   *)
(* the cache), what it costs, and how much of that is for cache writes.    *)
ASSUME RunnerAssumption ==
    /\ N \in Nat \ {0} /\ MaxBuilds \in Nat /\ Commits # {}
    /\ \A live \in Live : live \subseteq Versions
    /\ RunnerAnswers \subseteq [received : BOOLEAN, parsed : BOOLEAN, defect : ContractDefects,
                                usage : {"full", "partial", "none"}, cost : Nat, written : Nat]
    /\ \A a \in RunnerAnswers : a.written <= a.cost

VARIABLES
    live, builds,               \* versions in use, zero-call builds so far
    sourceFile, runtime,        \* the zero-call artifacts before the cost preflights
    receiptLog,                 \* of each version: the receipts of its calls
    diagnosis, proof,           \* of each version: what the zero-call steps derived
    calls                       \* of each version: the provider's view of its calls

(* cost has a file for each pricing, auth and output have one for each     *)
(* version; run is [pc, v, code, cost, answers] of each invocation.        *)
artifacts == <<sourceFile, runtime, cost>>
runnerFiles == <<auth, receiptLog, output>>
derived == <<diagnosis, proof>>
runnerVars == <<live, head, builds, artifacts, approval, runnerFiles, derived, run, calls, crashes>>

IdleRunner == [pc |-> "idle", v |-> "v1", code |-> None, cost |-> None, answers |-> <<>>]

RunnerInit ==
    /\ live \in Live /\ head = (CHOOSE c \in Commits : TRUE) /\ builds = 0
    /\ sourceFile = None /\ runtime = None /\ cost = [f \in {"v1", "v2"} |-> None]
    /\ approval = None
    /\ auth = [v \in Versions |-> None] /\ receiptLog = [v \in Versions |-> <<>>]
    /\ output = [v \in Versions |-> None]
    /\ diagnosis = [v \in Versions |-> None] /\ proof = [v \in Versions |-> None]
    /\ run = [p \in Procs |-> IdleRunner]
    /\ calls = [v \in Versions |-> <<>>] /\ crashes = 0

MoveHead ==
    /\ \A p \in Procs : run[p].pc = "idle"
    /\ head' \in Commits \ {head}
    /\ UNCHANGED <<live, builds, artifacts, approval, runnerFiles, derived, run, calls, crashes>>

-----------------------------------------------------------------------------
(* What the versions' scripts build.  A request is named by its builder.   *)
RequestV1 == "base"
RequestV3 == "v3"
RequestV4 == "v4"
RequestV5 == "v5"
Builder(v) ==
    CASE v = "v3" -> RequestV3 [] v = "v4" -> RequestV4 [] v = "v5" -> RequestV5
      [] OTHER -> RequestV1

(* What a repaired schema rejects.                                         *)
RejectsV3(a) == a.defect = "material"
RejectsV4(a) == a.defect \in {"material", "provenance"}
RejectsV5(a) == a.defect \in {"material", "provenance", "stage"}
Rejects(v, a) ==
    CASE v = "v3" -> RejectsV3(a) [] v = "v4" -> RejectsV4(a) [] v = "v5" -> RejectsV5(a)

Marked(artifact, v) == artifact # None /\ (v \in Repaired => artifact.marks = v)
Enter(p, pc, v) == run' = [run EXCEPT ![p].pc = pc, ![p].v = v]
BuildStarts(p) ==
    /\ run[p].pc = "idle" /\ builds < MaxBuilds
    /\ builds' = builds + 1

(* The source preflight: the requests of all models.                       *)
SourceArtifact(v) == [builder |-> Builder(v), marks |-> "none"]
BuildSource(p, v) ==
    /\ BuildStarts(p)
    /\ sourceFile' = SourceArtifact(v)
    /\ IF v \in Repaired THEN Enter(p, "source", v) ELSE UNCHANGED run
    /\ UNCHANGED <<live, head, runtime, cost, approval, runnerFiles, derived, calls, crashes>>
(* A wrapper reads what is on disk by then, and writes it with its marks.  *)
MarksV3(artifact) == [artifact EXCEPT !.marks = "v3"]
MarksV4(artifact) == [artifact EXCEPT !.marks = "v4"]
MarksV5(artifact) == [artifact EXCEPT !.marks = "v5"]
Marks(artifact, v) ==
    CASE v = "v3" -> MarksV3(artifact) [] v = "v4" -> MarksV4(artifact)
      [] v = "v5" -> MarksV5(artifact)
MarkSource(p) ==
    /\ run[p].pc = "source"
    /\ sourceFile' = Marks(sourceFile, run[p].v)
    /\ Enter(p, "idle", "v1")
    /\ UNCHANGED <<live, head, builds, runtime, cost, approval, runnerFiles, derived, calls, crashes>>

(* The runtime preflight: the requests of the selected model, at a commit. *)
AnyCommit(c) == [of |-> sourceFile, marks |-> "none", commit |-> None]   \* mutant
RuntimePreflight(c) == [of |-> sourceFile, marks |-> "none", commit |-> c]
SourceBindsV3 == Marked(sourceFile, "v3")
SourceBindsV4 == Marked(sourceFile, "v4")
SourceBindsV5 == Marked(sourceFile, "v5")
SourceBinds(v) ==
    /\ sourceFile # None
    /\ v = "v3" => SourceBindsV3
    /\ v = "v4" => SourceBindsV4
    /\ v = "v5" => SourceBindsV5
BuildRuntime(p, v) ==
    /\ BuildStarts(p) /\ SourceBinds(v)
    /\ runtime' = RuntimePreflight(head)
    /\ IF v \in Repaired THEN Enter(p, "runtime", v) ELSE UNCHANGED run
    /\ UNCHANGED <<live, head, sourceFile, cost, approval, runnerFiles, derived, calls, crashes>>
MarkRuntime(p) ==
    /\ run[p].pc = "runtime"
    /\ runtime' = Marks(runtime, run[p].v)
    /\ Enter(p, "idle", "v1")
    /\ UNCHANGED <<live, head, builds, sourceFile, cost, approval, runnerFiles, derived, calls, crashes>>

(* The cost preflight, with the pricing of v0.1 or with that of v0.2.      *)
CostFile(v) == IF v = "v1" THEN "v1" ELSE "v2"
CostV1 == [pricing |-> "v1", of |-> runtime]
CostV2 == [pricing |-> "v2", of |-> runtime]
BuildCost(p, v) ==
    /\ BuildStarts(p) /\ runtime # None
    /\ cost' = [cost EXCEPT ![CostFile(v)] = IF v = "v1" THEN CostV1 ELSE CostV2]
    /\ UNCHANGED <<live, head, sourceFile, runtime, approval, runnerFiles, derived, run, calls, crashes>>

ApproveCost(v) ==
    /\ cost[CostFile(v)] \notin {None, approval}
    /\ approval' = cost[CostFile(v)]
    /\ UNCHANGED <<live, head, builds, artifacts, runnerFiles, derived, run, calls, crashes>>

-----------------------------------------------------------------------------
(* A paid invocation: the requests it builds are those of the runtime      *)
(* preflight, the cost preflight is about that one, the owner approved the *)
(* cost, the commit is theirs, and its files do not exist.                 *)
AnyPlan(v) == runtime # None   \* mutant: the requests are not built again and compared
PlanMatches(v) == runtime # None /\ runtime.of.builder = Builder(v)
CostBinds(v) == cost[CostFile(v)] # None /\ cost[CostFile(v)].of = runtime
BindingV3 == Marked(runtime, "v3")
BindingV4 == Marked(runtime, "v4")
BindingV5 == Marked(runtime, "v5")
SchemaRepairBinding(v) ==
    /\ v = "v3" => BindingV3
    /\ v = "v4" => BindingV4
    /\ v = "v5" => BindingV5
Authorized(v) == approval = cost[CostFile(v)] /\ head = runtime.commit
FreshPaths(v) == auth[v] = None /\ receiptLog[v] = <<>> /\ output[v] = None
StartRunner(p, v) ==
    /\ run[p].pc = "idle"
    /\ SchemaRepairBinding(v) /\ PlanMatches(v) /\ CostBinds(v)
    /\ FreshPaths(v) /\ Authorized(v)
    /\ run' = [run EXCEPT ![p] = [pc |-> "started", v |-> v, code |-> head, cost |-> approval,
                                  answers |-> <<>>]]
    /\ UNCHANGED <<live, head, builds, artifacts, approval, runnerFiles, derived, calls, crashes>>

EndRun(p) == run' = [run EXCEPT ![p] = IdleRunner]
Goto(p, pc) == run' = [run EXCEPT ![p].pc = pc]
Exclusive(v) == auth[v] = None
CreateAuthorization(p) ==
    LET v == run[p].v
    IN  /\ run[p].pc = "started"
        /\ \/ /\ Exclusive(v)
              /\ auth' = [auth EXCEPT ![v] = [of |-> run[p].cost, commit |-> run[p].code]]
              /\ Goto(p, "ready")
           \/ ~Exclusive(v) /\ UNCHANGED auth /\ EndRun(p)
        /\ UNCHANGED <<live, head, builds, artifacts, approval, receiptLog, output, derived, calls,
                       crashes>>

(* The key is loaded after the authorization was written.                  *)
NoKey(p) ==
    /\ run[p].pc = "ready" /\ run[p].answers = <<>>
    /\ EndRun(p)
    /\ UNCHANGED <<live, head, builds, artifacts, approval, runnerFiles, derived, calls, crashes>>

Call(p) ==
    LET r == run[p]
    IN  /\ r.pc = "ready" /\ Len(r.answers) < N
        /\ \E a \in RunnerAnswers :
              /\ calls' = [calls EXCEPT ![r.v] = Append(@,
                    [cost |-> r.cost, commit |-> r.code, item |-> Len(r.answers) + 1,
                     builder |-> Builder(r.v), answer |-> a])]
              /\ run' = [run EXCEPT ![p].pc = "answered", ![p].answers = Append(@, a)]
        /\ UNCHANGED <<live, head, builds, artifacts, approval, runnerFiles, derived, crashes>>

(* The known cost of a call: v0.1 takes missing usage for no tokens and    *)
(* cache writes for ordinary input.                                        *)
CostOfV1(a) == IF a.usage = "none" THEN 0 ELSE a.cost - a.written
KnownV1(a) == IF a.received THEN {CostOfV1(a)} ELSE {}
UsageOrNone(a) == IF a.received THEN {CostOfV1(a)} ELSE {}   \* mutant: v0.1's cost
KnownV2(a) == IF a.received /\ a.usage = "full" THEN {a.cost} ELSE {}
KnownCost(v, a) == IF v = "v1" THEN KnownV1(a) ELSE KnownV2(a)
Promotes(a) == a.received /\ a.parsed /\ a.defect = "none"
ProcessV1(a) == Promotes(a)
ProcessV2(a) == Promotes(a) /\ KnownV2(a) # {}
Processed(v, a) == IF v = "v1" THEN ProcessV1(a) ELSE ProcessV2(a)

ReceiptV1(i, a) == [item |-> i, answer |-> a, known |-> KnownV1(a), pass |-> ProcessV1(a)]
ReceiptV2(v, i, a) == [item |-> i, answer |-> a, known |-> KnownV2(a), pass |-> ProcessV2(a)]
CallReceipt(v, i, a) == IF v = "v1" THEN ReceiptV1(i, a) ELSE ReceiptV2(v, i, a)
Amount(known) == IF known = {} THEN 0 ELSE CHOOSE k \in known : TRUE
Spent(receipts) == Total([i \in DOMAIN receipts |-> Amount(receipts[i].known)])
AppendCallReceipt(p) ==
    LET v == run[p].v
        i == Len(run[p].answers)
        receipts == Append(receiptLog[v], CallReceipt(v, i, Last(run[p].answers)))
    IN  /\ run[p].pc = "answered"
        /\ receiptLog' = [receiptLog EXCEPT ![v] = receipts]
        /\ Goto(p, IF Spent(receipts) > Ceiling \/ ~Last(receipts).pass THEN "blocked"
                   ELSE IF i = N THEN "complete" ELSE "ready")
        /\ UNCHANGED <<live, head, builds, artifacts, approval, auth, output, derived, calls,
                       crashes>>

(* A run is blocked by the first call that does not pass, or that takes    *)
(* the sum over the ceiling.                                               *)
Reason(receipts) ==
    LET a == Last(receipts).answer
    IN  IF Spent(receipts) > Ceiling THEN "ceiling"
        ELSE IF ~a.received THEN "transport"
        ELSE IF ~Promotes(a) THEN a.defect
        ELSE IF a.usage = "partial" THEN "cache_write" ELSE "usage"
BlockedV1(receipts) ==
    [status |-> "BLOCKED", processed |-> Len(receipts) - 1, known |-> Spent(receipts),
     attempts |-> Len(receipts),
     calls |-> Cardinality({i \in DOMAIN receipts : receipts[i].answer.received}),
     complete |-> Last(receipts).answer.received, reason |-> Reason(receipts)]
BlockedV2(receipts) ==
    [BlockedV1(receipts) EXCEPT !.complete = @ /\ Reason(receipts) # "cache_write"]
Block(p) ==
    LET v == run[p].v
    IN  /\ run[p].pc = "blocked"
        /\ output' = [output EXCEPT ![v] = IF v = "v1" THEN BlockedV1(receiptLog[v])
                                           ELSE BlockedV2(receiptLog[v])]
        /\ EndRun(p)
        /\ UNCHANGED <<live, head, builds, artifacts, approval, auth, receiptLog, derived, calls,
                       crashes>>
Frozen(v, receipts) ==
    [status |-> "FROZEN", known |-> Spent(receipts), of |-> auth[v].of,
     opinions |-> [i \in DOMAIN receipts |-> receipts[i].answer]]
(* The opinions of a council differ, also by their names, which the model  *)
(* gives them; where two have the same, the run ends in an exception when  *)
(* all its calls are paid.                                                 *)
RejectCouncil(p) ==
    /\ run[p].pc = "complete" /\ N > 1
    /\ EndRun(p)
    /\ UNCHANGED <<live, head, builds, artifacts, approval, runnerFiles, derived, calls, crashes>>
FreezeCouncil(p) ==
    /\ run[p].pc = "complete"
    /\ output' = [output EXCEPT ![run[p].v] = Frozen(run[p].v, receiptLog[run[p].v])]
    /\ EndRun(p)
    /\ UNCHANGED <<live, head, builds, artifacts, approval, auth, receiptLog, derived, calls, crashes>>

-----------------------------------------------------------------------------
(* A diagnosis replays the receipts of a blocked run, against the runtime  *)
(* preflight that is on disk by then; it is written over by the next one.  *)
IsBlocked(v) == output[v] # None /\ output[v].status = "BLOCKED"
PlanItem(v) == runtime # None /\ runtime.of.builder = Builder(v)
Replayable(v) ==
    /\ IsBlocked(v) /\ output[v].attempts = output[v].calls
    /\ Len(receiptLog[v]) = output[v].attempts /\ PlanItem(v)
    /\ \A r \in ToSet(receiptLog[v]) : r.known # {} /\ r.answer.parsed
ReplayedCalls(v) == Cardinality({i \in DOMAIN receiptLog[v] : Promotes(receiptLog[v][i].answer)})
Gap(v, defect) ==
    /\ output[v].reason = defect
    /\ \A r \in ToSet(receiptLog[v]) : r.answer.defect \in {"none", defect}
AsRecorded(v) == \A r \in ToSet(receiptLog[v]) : r.pass <=> Promotes(r.answer)
NothingPromotes(v) == ReplayedCalls(v) = 0
DiagnosisV2 == [gap |-> output["v2"].reason = "material", replayed |-> 0, of |-> output["v2"],
                commit |-> runtime.commit]
DiagnosisV3 == [gap |-> output["v3"].reason = "provenance", replayed |-> 0, of |-> output["v3"],
                commit |-> runtime.commit]
ProposalRules == Gap("v4", "stage")
DiagnosisV4 == [gap |-> ProposalRules, replayed |-> ReplayedCalls("v4"), of |-> output["v4"],
                commit |-> runtime.commit]
Diagnose(v) ==
    /\ v \in {"v2", "v3", "v4"} /\ Replayable(v)
    /\ IF v = "v4" THEN AsRecorded(v) ELSE NothingPromotes(v)
    /\ diagnosis' = [diagnosis EXCEPT ![v] = CASE v = "v2" -> DiagnosisV2
                                               [] v = "v3" -> DiagnosisV3
                                               [] v = "v4" -> DiagnosisV4]
    /\ UNCHANGED <<live, head, builds, artifacts, approval, runnerFiles, proof, run, calls, crashes>>

(* A repair rejects what the version before it was blocked by; those of    *)
(* v0.4 and v0.5 name the artifacts of the one run they are about.         *)
ProvesV3 ==
    LET r == receiptLog["v2"][1]
    IN  receiptLog["v2"] # <<>> /\ ~r.pass /\ r.answer.parsed /\ RejectsV3(r.answer)
ProvesV4 ==
    LET r == receiptLog["v3"][1]
    IN  /\ IsBlocked("v3") /\ Len(receiptLog["v3"]) = 1 /\ output["v3"].reason = "provenance"
        /\ r.answer.parsed /\ ~RejectsV3(r.answer) /\ RejectsV4(r.answer)
ProvesV5 ==
    LET r == Last(receiptLog["v4"])
    IN  /\ IsBlocked("v4") /\ output["v4"].reason = "stage"
        /\ output["v4"].processed = Len(receiptLog["v4"]) - 1
        /\ diagnosis["v4"] # None /\ diagnosis["v4"].gap
        /\ diagnosis["v4"].replayed = Len(receiptLog["v4"]) - 1
        /\ r.answer.parsed /\ ~RejectsV4(r.answer) /\ RejectsV5(r.answer)
Predecessor == [v3 |-> "v2", v4 |-> "v3", v5 |-> "v4"]
Prove(v) ==
    /\ v \in Repaired
    /\ v = "v3" => ProvesV3
    /\ v = "v4" => ProvesV4
    /\ v = "v5" => ProvesV5
    /\ proof' = [proof EXCEPT ![v] = [receipt |-> IF v = "v5" THEN Last(receiptLog["v4"])
                                                  ELSE receiptLog[Predecessor[v]][1]]]
    /\ UNCHANGED <<live, head, builds, artifacts, approval, runnerFiles, diagnosis, run, calls,
                   crashes>>

(* An invocation dies.                                                     *)
RunnerCrash(p) ==
    /\ run[p].pc # "idle" /\ crashes < MaxCrashes
    /\ EndRun(p) /\ crashes' = crashes + 1
    /\ UNCHANGED <<live, head, builds, artifacts, approval, runnerFiles, derived, calls>>

RunnerNext ==
    \/ MoveHead
    \/ \E p \in Procs, v \in live :
          BuildSource(p, v) \/ BuildRuntime(p, v) \/ BuildCost(p, v) \/ StartRunner(p, v)
    \/ \E p \in Procs :
          \/ MarkSource(p) \/ MarkRuntime(p)
          \/ CreateAuthorization(p) \/ NoKey(p) \/ Call(p) \/ AppendCallReceipt(p)
          \/ Block(p) \/ RejectCouncil(p) \/ FreezeCouncil(p)
          \/ RunnerCrash(p)
    \/ \E v \in live : ApproveCost(v) \/ Diagnose(v) \/ Prove(v)

RunnerSpec == RunnerInit /\ [][RunnerNext]_runnerVars

-----------------------------------------------------------------------------
(* The shape of the state.                                                 *)
RunnerTypeOK ==
    /\ live \in Live /\ head \in Commits /\ builds \in 0..MaxBuilds
    /\ sourceFile # None => sourceFile.builder \in {"base"} \cup Repaired
    /\ runtime # None => runtime.commit \in Commits
    /\ \A v \in Versions :
          /\ auth[v] # None => auth[v].commit \in Commits
          /\ Len(receiptLog[v]) <= N
          /\ output[v] # None => output[v].status \in {"BLOCKED", "FROZEN"}
    /\ \A p \in Procs : run[p].pc \in {"idle", "source", "runtime", "started", "ready",
                                       "answered", "blocked", "complete"}
    /\ crashes \in 0..MaxCrashes

(* The owner's approval pays each request of a council once, whatever      *)
(* versions share the preflights it was given for, whatever invocations    *)
(* overlap, write over them or die; what is sent is what was approved, by  *)
(* the code it was approved for, under an authorization on disk.           *)
OncePerApproval ==
    \A v \in Versions : \A i \in DOMAIN calls[v] :
        LET c == calls[v][i]
        IN  /\ auth[v].of = c.cost
            /\ c.commit = c.cost.of.commit /\ c.builder = c.cost.of.of.builder
            /\ \A w \in Versions : \A j \in DOMAIN calls[w] :
                  calls[w][j].cost = c.cost /\ calls[w][j].item = c.item => w = v /\ j = i

Written(v) == \A i \in DOMAIN receiptLog[v] :
    receiptLog[v][i].item = i /\ receiptLog[v][i].answer = calls[v][i].answer
Charge(v) == Total([i \in DOMAIN calls[v] |-> calls[v][i].answer.cost])
(* An answer that tells the runner what it costs: v0.1 takes cache writes  *)
(* for ordinary input, so to it only one that wrote nothing does.          *)
Told(v, a) == a.received /\ a.usage = "full" /\ (v = "v1" => a.written = 0)
(* What is written of a run agrees with its calls, as far as the answers   *)
(* tell.  Its receipts are those of its calls, in order; the last may be   *)
(* missing, while it is made or after its invocation died, and then the    *)
(* version never gets an output.  A receipt that knows a cost never knows  *)
(* more than the charge, nor an output; they know exactly the charge where *)
(* the answers told it.  An untold answer can be taken for free: by v0.1   *)
(* in any run, from v0.2 on as the last of a blocked one, and either may   *)
(* call its cost receipt complete; what complete does say is that every    *)
(* call was answered.  A frozen council has an opinion from each call,     *)
(* within the ceiling, and from v0.2 on its cost is the charge.            *)
RunRecord ==
    \A v \in Versions :
        LET missing == Len(calls[v]) - Len(receiptLog[v])
            made == ToSet(calls[v])
        IN  /\ missing \in {0, 1} /\ Written(v)
            /\ missing = 1 =>
                  /\ output[v] = None
                  /\ crashes > 0 \/ \E p \in Procs : run[p].pc = "answered" /\ run[p].v = v
            /\ \A r \in ToSet(receiptLog[v]) :
                  /\ Amount(r.known) <= r.answer.cost /\ (v # "v1" /\ r.known # {} => Told(v, r.answer))
                  /\ Told(v, r.answer) => r.known = {r.answer.cost}
            /\ output[v] # None =>
                  /\ output[v].known <= Charge(v)
                  /\ (\A c \in made : Told(v, c.answer)) => output[v].known = Charge(v)
            /\ output[v] # None /\ output[v].status = "BLOCKED" =>
                  /\ output[v].attempts = Len(calls[v])
                  /\ output[v].calls = Cardinality({i \in DOMAIN calls[v] : calls[v][i].answer.received})
                  /\ output[v].complete => \A c \in made : c.answer.received
                  /\ v # "v1" => \A i \in 1..(Len(calls[v]) - 1) : Told(v, calls[v][i].answer)
            /\ output[v] # None /\ output[v].status = "FROZEN" =>
                  /\ Len(calls[v]) = N /\ output[v].known <= Ceiling
                  /\ \A c \in made : Promotes(c.answer) /\ (v # "v1" => Told(v, c.answer))

(* What is derived of a blocked run is true of it.  A contract gap is      *)
(* diagnosed only where a defect ended the run after calls that all        *)
(* passed, one that the version's schema admits and the next one's does    *)
(* not; a repair is proved on the answer that ended the run before it.     *)
After == [v2 |-> "v3", v3 |-> "v4", v4 |-> "v5"]
Admits(v, a) == v \in Repaired => ~Rejects(v, a)
ReplayIsHonest ==
    /\ \A v \in DOMAIN After : diagnosis[v] # None =>
          /\ diagnosis[v].of = output[v]
          /\ diagnosis[v].replayed \in {output[v].processed, output[v].processed + 1}
          /\ diagnosis[v].gap =>
                /\ Admits(v, Last(calls[v]).answer) /\ Rejects(After[v], Last(calls[v]).answer)
                /\ \A i \in 1..(Len(calls[v]) - 1) : Promotes(calls[v][i].answer)
                /\ output[v].known = Charge(v)
    /\ \A v \in Repaired : proof[v] # None =>
          LET u == Predecessor[v]
          IN  /\ proof[v].receipt.answer = Last(calls[u]).answer
              /\ Rejects(v, Last(calls[u]).answer) /\ Len(receiptLog[u]) = Len(calls[u])

(* What is written of a run agrees with its calls, and what is derived     *)
(* from it later is true of them.                                          *)
RecordIsHonest == RunRecord /\ ReplayIsHonest
=============================================================================
