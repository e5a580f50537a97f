--------------------------- MODULE JudgeProduction ---------------------------
(***************************************************************************)
(* The production Judge: one paid call, whose decision is frozen.  Six     *)
(* scripts make it, each with files of its own; a behaviour is about one:  *)
(*   "first"     b4_run_judge_production_v01;                              *)
(*   "reopen"    b4_reopen_execute_judge_production_v02, and the step that *)
(*               turns its decision into a request to reopen the research; *)
(*   "v1".."v4"  the executors after the research was reopened; what v4    *)
(*               captured but did not accept can be recovered without a    *)
(*               second call.                                              *)
(* Zero-call scripts build what the owner approves, one file at a time.  A *)
(* write and its fsync are one action, and an invocation may die between   *)
(* any two of them.  The ledger of "v1".."v4", replaced in place, is the   *)
(* sequence of its updates.                                                *)
(***************************************************************************)
EXTENDS Naturals, FiniteSets, SequencesExt

CONSTANTS
    Procs,        \* invocations of the scripts
    Keys,         \* credentials the environment may hold
    Probed,       \* the one the provider was seen to accept
    Answers,      \* what the provider answers
    Builds,       \* what each commit of the code puts into the request
    Ceiling,      \* the approved cost ceiling
    MaxCrashes    \* bound on the crashes explored

Commits == DOMAIN Builds
Outcomes == {"INVEST", "WATCH", "ABSTAIN"}
Later == {"v1", "v2", "v3", "v4"}
Families == {"first", "reopen"} \cup Later

ASSUME BuildsAssumption == 1 \in Commits   \* the one checked out at first
ASSUME CrashAssumption == MaxCrashes \in Nat
ASSUME CeilingAssumption == Ceiling \in Nat

(* An answer: did one arrive, does it report its usage, what does it cost, *)
(* the outcome, is its primary candidate eligible, does it ask to reopen   *)
(* the research, the commits whose parser reads it and those whose         *)
(* validator also accepts the rest of it, and the executors that can       *)
(* capture it (all want finite numbers, v1 also an identifier of text).    *)
ASSUME AnswersAssumption ==
    /\ Probed \in Keys
    /\ Answers \subseteq [received : BOOLEAN, usage : BOOLEAN, cost : Nat, outcome : Outcomes,
                          eligible : BOOLEAN, reopen : BOOLEAN, reads : SUBSET Commits,
                          sound : SUBSET Commits, capturable : SUBSET Later]
    /\ \A a \in Answers : a.sound \subseteq a.reads

VARIABLES
    family,             \* the script the behaviour is about
    head, env,          \* the commit checked out, the key in the environment
    files,              \* zero-call artifacts on disk, by name
    approval,           \* what the owner approved, or None
    auth, journal, raw, output,   \* authorization, journal, captured response, verdict
    derived,            \* what a zero-call step derived from it: two files
    run,                \* [pc, next, code, answer] of each invocation
    sent,               \* the provider's view of the calls
    crashes

evidence == <<auth, journal, raw, output>>
vars == <<family, head, env, files, approval, evidence, derived, run, sent, crashes>>

None == [none |-> TRUE]
Idle == [pc |-> "idle", next |-> 1, code |-> 0, answer |-> None]
Names == [f \in Families |->
            CASE f = "first" -> <<"request", "cost", "dry">>
              [] f = "reopen" -> <<"entry", "request", "cost", "dry">>
              [] f = "v4" -> <<"gate", "entry", "preflight", "readiness">>
              [] OTHER -> <<"preflight", "readiness">>]
FileNames == {"entry", "gate", "request", "cost", "dry", "preflight", "readiness"}
Kinds == ToSet(journal)
Noted(kind) == \E e \in Kinds : e.kind = kind

Init ==
    /\ family \in Families
    /\ head = 1 /\ env \in Keys
    /\ files = [n \in FileNames |-> None] /\ approval = None
    /\ auth = None /\ journal = <<>> /\ raw = None /\ output = None
    /\ derived = <<None, None>>
    /\ run = [p \in Procs |-> Idle]
    /\ sent = <<>> /\ crashes = 0

-----------------------------------------------------------------------------
(* The developer checks a commit out and the operator changes the key      *)
(* between invocations, which read what they need when they start.         *)
Between == \A p \in Procs : run[p].pc = "idle"
Checkout ==
    /\ Between /\ head' \in Commits \ {head}
    /\ UNCHANGED <<family, env, files, approval, evidence, derived, run, sent, crashes>>
ChangeKey ==
    /\ Between /\ family = "reopen" /\ env' \in Keys \ {env}
    /\ UNCHANGED <<family, head, files, approval, evidence, derived, run, sent, crashes>>

-----------------------------------------------------------------------------
(* What the code of a commit builds.  The entry says which outcomes the    *)
(* Judge may reach; the gate of v4 lets it invest only in a candidate that *)
(* passes, and one is assumed to.                                          *)
UnboundEntry(c) == [commit |-> 0, outcomes |-> {"WATCH", "ABSTAIN"}]   \* mutant: names no commit
EntryFirst(c) == [commit |-> c, outcomes |-> {"WATCH", "ABSTAIN"}]
EntryReopen(c) == [commit |-> c, outcomes |-> Outcomes]
EntryV1(c) == [commit |-> c, outcomes |-> Outcomes]
EntryV2(c) == [commit |-> c, outcomes |-> {"WATCH", "ABSTAIN"}]
EntryV3(c) == [commit |-> c, outcomes |-> {"WATCH", "ABSTAIN"}]
Gate(c) == [commit |-> c, outcomes |-> Outcomes]
EntryV4(c) == [commit |-> c, outcomes |-> Gate(c).outcomes]
Entry(c) ==
    CASE family = "first" -> files["entry"]     \* another script's, see JudgeEntry
      [] family = "reopen" -> EntryReopen(c)
      [] family = "v1" -> EntryV1(c)
      [] family = "v2" -> EntryV2(c)
      [] family = "v3" -> EntryV3(c)
      [] family = "v4" -> EntryV4(c)

(* The context, and the request: bound to the entry.                       *)
ContextFirst(c) == [build |-> Builds[c], entry |-> files["entry"]]
ContextReopen(c) == [build |-> Builds[c], entry |-> EntryReopen(c)]
ContextV3(c) == [build |-> Builds[c], entry |-> EntryV3(c)]
ContextV4(c) == [build |-> Builds[c], entry |-> EntryV4(c)]
RequestV1(c) == [build |-> Builds[c], entry |-> EntryV1(c)]
RequestV2(c) == [build |-> Builds[c], entry |-> EntryV2(c)]
Request(c) ==
    CASE family = "first" -> ContextFirst(c)
      [] family = "reopen" -> ContextReopen(c)
      [] family = "v1" -> RequestV1(c)
      [] family = "v2" -> RequestV2(c)
      [] family = "v3" -> ContextV3(c)
      [] family = "v4" -> ContextV4(c)

RequestFirst(c) == [commit |-> c, request |-> Request(c)]
CostFirst(c) == [commit |-> c, of |-> RequestFirst(c), ceiling |-> Ceiling]
DryFirst(c) == [commit |-> c, request |-> RequestFirst(c), cost |-> CostFirst(c)]
PreflightReopen(c) == [commit |-> c, entry |-> EntryReopen(c), request |-> Request(c)]
CostReopen(c) == [commit |-> c, of |-> PreflightReopen(c), ceiling |-> Ceiling]
DryReopen(c) == [commit |-> c, request |-> PreflightReopen(c), cost |-> CostReopen(c)]
PreflightV1(c) == [commit |-> c, request |-> Request(c), ceiling |-> Ceiling]
PreflightV2(c) == [commit |-> c, request |-> Request(c), ceiling |-> Ceiling]
PreflightV3(c) == [commit |-> c, request |-> Request(c), ceiling |-> Ceiling]
PreflightV4(c) == [commit |-> c, request |-> Request(c), ceiling |-> Ceiling]
ReadinessV1(c) == [commit |-> c, of |-> PreflightV1(c)]
ReadinessV2(c) == [commit |-> c, of |-> PreflightV2(c)]
ReadinessV3(c) == [commit |-> c, of |-> PreflightV3(c)]
ReadinessV4(c) == [commit |-> c, of |-> PreflightV4(c)]

File(n, c) ==
    CASE n = "gate" -> Gate(c)
      [] n = "entry" -> Entry(c)
      [] n = "request" -> IF family = "first" THEN RequestFirst(c) ELSE PreflightReopen(c)
      [] n = "cost" -> IF family = "first" THEN CostFirst(c) ELSE CostReopen(c)
      [] n = "dry" -> IF family = "first" THEN DryFirst(c) ELSE DryReopen(c)
      [] n = "preflight" ->
            (CASE family = "v1" -> PreflightV1(c) [] family = "v2" -> PreflightV2(c)
               [] family = "v3" -> PreflightV3(c) [] family = "v4" -> PreflightV4(c))
      [] n = "readiness" ->
            (CASE family = "v1" -> ReadinessV1(c) [] family = "v2" -> ReadinessV2(c)
               [] family = "v3" -> ReadinessV3(c) [] family = "v4" -> ReadinessV4(c))
Approvable == Last(Names[family])   \* the dry artifact, or the readiness

(* The entry of the first family is its own script's, which overwrites it. *)
Unpaid == auth = None   \* bound: artifacts are built until then
JudgeEntry ==
    /\ Between /\ family = "first" /\ Unpaid
    /\ files' = [files EXCEPT !["entry"] = EntryFirst(head)]
    /\ UNCHANGED <<family, head, env, approval, evidence, derived, run, sent, crashes>>

(* A zero-call build starts, then writes its files in their order; only    *)
(* the first family's may overwrite, and only the reopened one looks for   *)
(* all of them before it starts.                                           *)
BuildFirst == family = "first" /\ files["entry"] # None
BuildReopen == family = "reopen" /\ \A n \in ToSet(Names[family]) : files[n] = None
BuildLater == family \in Later
StartBuild(p) ==
    /\ run[p].pc = "idle" /\ Unpaid /\ (BuildFirst \/ BuildReopen \/ BuildLater)
    /\ run' = [run EXCEPT ![p] = [Idle EXCEPT !.pc = "building", !.code = head]]
    /\ UNCHANGED <<family, head, env, files, approval, evidence, derived, sent, crashes>>
WriteNew(n) == family # "first" => files[n] = None
Build(p) ==
    LET r == run[p]
        n == Names[family][r.next]
        done == ~WriteNew(n) \/ r.next = Len(Names[family])
    IN  /\ r.pc = "building"
        /\ files' = IF WriteNew(n) THEN [files EXCEPT ![n] = File(n, r.code)] ELSE files
        /\ run' = [run EXCEPT ![p] = IF done THEN Idle ELSE [r EXCEPT !.next = r.next + 1]]
        /\ UNCHANGED <<family, head, env, approval, evidence, derived, sent, crashes>>

(* The owner approves what is on disk, by its hash.                        *)
Approve ==
    /\ Between /\ files[Approvable] \notin {None, approval}
    /\ approval' = files[Approvable]
    /\ UNCHANGED <<family, head, env, files, evidence, derived, run, sent, crashes>>

-----------------------------------------------------------------------------
(* A paid invocation: every artifact equals what the code at hand builds,  *)
(* the owner approved it, and nothing it would write exists.               *)
Rebuilt(c) == \A n \in ToSet(Names[family]) : files[n] = File(n, c)
DeterministicDry(c) == files["entry"] # None /\ Rebuilt(c)
FirstAuthorized(c) == approval = DryFirst(c)
SourcesReopen(c) == Rebuilt(c)
ReopenApproved(c) == approval = DryReopen(c)
PrepareV1(c) == Rebuilt(c) /\ approval = ReadinessV1(c)
PrepareV2(c) == Rebuilt(c) /\ approval = ReadinessV2(c)
PrepareV3(c) == Rebuilt(c) /\ approval = ReadinessV3(c)
PrepareV4(c) == Rebuilt(c) /\ approval = ReadinessV4(c)
Prepared(c) ==
    CASE family = "first" -> DeterministicDry(c) /\ FirstAuthorized(c)
      [] family = "reopen" -> SourcesReopen(c) /\ ReopenApproved(c) /\ env = Probed
      [] family = "v1" -> PrepareV1(c)
      [] family = "v2" -> PrepareV2(c)
      [] family = "v3" -> PrepareV3(c)
      [] family = "v4" -> PrepareV4(c)
FreshPaths == auth = None /\ journal = <<>> /\ raw = None /\ output = None

Start(p) ==
    /\ run[p].pc = "idle" /\ Prepared(head) /\ FreshPaths
    /\ run' = [run EXCEPT ![p] = [Idle EXCEPT !.pc = "started", !.code = head]]
    /\ UNCHANGED <<family, head, env, files, approval, evidence, derived, sent, crashes>>

Goto(p, pc) == run' = [run EXCEPT ![p].pc = pc]
Finish(p) == run' = [run EXCEPT ![p] = Idle]

(* The authorization is created exclusively, as is the ledger, which says  *)
(* that nothing was dispatched; whoever comes second stops.                *)
AuthFirst(c) == [commit |-> c, of |-> approval]
AuthReopen(c) == [commit |-> c, of |-> approval]
LedgerLater(c) == [commit |-> c, of |-> approval]
Auth(c) ==
    CASE family = "first" -> AuthFirst(c)
      [] family = "reopen" -> AuthReopen(c)
      [] OTHER -> LedgerLater(c)
Overwrite == TRUE   \* mutant: the authorization is not created exclusively
Exclusive == auth = None
Create(p) ==
    /\ run[p].pc = "started"
    /\ \/ Exclusive /\ auth' = Auth(run[p].code) /\ Goto(p, "authorized")
       \/ ~Exclusive /\ auth' = auth /\ Finish(p)
    /\ UNCHANGED <<family, head, env, files, approval, journal, raw, output, derived, sent,
                   crashes>>

(* The dispatch is announced, except in the first family.                  *)
Attempt(p) ==
    /\ run[p].pc = "authorized" /\ family # "first"
    /\ journal' = Append(journal, [kind |-> "attempt", request |-> Request(run[p].code)])
    /\ Goto(p, "attempted")
    /\ UNCHANGED <<family, head, env, files, approval, auth, raw, output, derived, sent, crashes>>

(* The key is loaded after that in "v1".."v4" (v3 and v4 note a failure).  *)
NoTransport(p) ==
    /\ run[p].pc = "attempted" /\ family \in Later
    /\ IF family \in {"v3", "v4"} THEN Goto(p, "failed") ELSE Finish(p)
    /\ UNCHANGED <<family, head, env, files, approval, evidence, derived, sent, crashes>>

Dispatch(p) ==
    /\ run[p].pc = IF family = "first" THEN "authorized" ELSE "attempted"
    /\ \E a \in Answers :
          /\ sent' = Append(sent, [commit |-> run[p].code, request |-> Request(run[p].code),
                                   answer |-> a])
          /\ run' = [run EXCEPT ![p].pc = IF a.received \/ family \notin Later
                                           THEN "answered" ELSE "failed",
                                ![p].answer = a]
    /\ UNCHANGED <<family, head, env, files, approval, evidence, derived, crashes>>

-----------------------------------------------------------------------------
(* What each validator asks of a proposal: an outcome of the entry, and    *)
(* whether the research is to be reopened; investing takes an eligible     *)
(* candidate and closed research.                                          *)
ValidFirst(a) == a.outcome \in {"WATCH", "ABSTAIN"} /\ a.reopen
ValidReopen(a) == IF a.outcome = "INVEST" THEN a.eligible /\ ~a.reopen ELSE a.reopen
ValidV1(a) == ~a.reopen /\ (a.outcome = "INVEST" => a.eligible)
ValidV2(a) == a.outcome \in {"WATCH", "ABSTAIN"} /\ ~a.reopen
ValidV3(a) == a.outcome \in {"WATCH", "ABSTAIN"} /\ ~a.reopen
AnyCandidate(a) == ~a.reopen   \* mutant: the candidate's eligibility is not looked at
ValidV4(a) == ~a.reopen /\ (a.outcome = "INVEST" => a.eligible)
Valid(c, a) ==
    /\ c \in a.sound
    /\ CASE family = "first" -> ValidFirst(a)
         [] family = "reopen" -> ValidReopen(a)
         [] family = "v1" -> ValidV1(a)
         [] family = "v2" -> ValidV2(a)
         [] family = "v3" -> ValidV3(a)
         [] family = "v4" -> ValidV4(a)

(* The known cost of a call: the set is empty when it is not known.  Of an *)
(* answer it cannot read the code keeps nothing else.                      *)
Known(a) == IF a.received /\ a.usage THEN {a.cost} ELSE {}
Parsed(c, a) == IF a.received /\ c \in a.reads THEN a ELSE None
CompleteFirst(c, a) == [received |-> a.received, known |-> Known(a), proposal |-> Parsed(c, a),
                        pass |-> a.received /\ Valid(c, a) /\ Known(a) # {}]
CompleteReopen(c, a) == [received |-> a.received, known |-> Known(a), proposal |-> Parsed(c, a),
                         pass |-> a.received /\ Valid(c, a)]
Completed(c, a) == IF family = "first" THEN CompleteFirst(c, a) ELSE CompleteReopen(c, a)

(* The first two families: a receipt of what came of the call ...          *)
ReceiptFirst(d) == [kind |-> "result", of |-> d]
ReceiptReopen(d) == [kind |-> "result", of |-> d]
Receipt(p) ==
    LET d == Completed(run[p].code, run[p].answer)
    IN  /\ run[p].pc = "answered" /\ family \notin Later
        /\ journal' = Append(journal, IF family = "first" THEN ReceiptFirst(d)
                                      ELSE ReceiptReopen(d))
        /\ Goto(p, "recorded")
        /\ UNCHANGED <<family, head, env, files, approval, auth, raw, output, derived, sent,
                       crashes>>

(* ... and a verdict, for the first reason that applies.                   *)
Verdict(d) ==
    IF ~d.received THEN "UNKNOWN_DISPATCH"
    ELSE IF d.known = {} THEN "INCOMPLETE_COST"
    ELSE IF \E k \in d.known : k > Ceiling THEN "CEILING"
    ELSE IF ~d.pass THEN "INVALID"
    ELSE "FROZEN"
BlockedFirst(d) == [status |-> Verdict(d), known |-> d.known,
                    calls |-> IF d.known = {} THEN 0 ELSE 1]
BlockedReopen(d) == [status |-> Verdict(d), known |-> d.known,
                     calls |-> IF d.received THEN 1 ELSE 0]
FrozenFirst(c, d) == [status |-> "FROZEN", answer |-> d.proposal, known |-> d.known, commit |-> c,
                      handoff |-> FALSE, reopen |-> TRUE]
FrozenReopen(c, d) == [status |-> "FROZEN", answer |-> d.proposal, known |-> d.known, commit |-> c,
                       handoff |-> FALSE, reopen |-> d.proposal.reopen]
Conclude(p) ==
    LET d == Completed(run[p].code, run[p].answer)
        first == family = "first"
    IN  /\ run[p].pc = "recorded"
        /\ output' = IF Verdict(d) = "FROZEN"
                     THEN IF first THEN FrozenFirst(run[p].code, d)
                          ELSE FrozenReopen(run[p].code, d)
                     ELSE IF first THEN BlockedFirst(d) ELSE BlockedReopen(d)
        /\ Finish(p)
        /\ UNCHANGED <<family, head, env, files, approval, auth, journal, raw, derived, sent,
                       crashes>>

(* The later ones capture the response before they look into it, and the   *)
(* ledger says how far they came.  One that cannot be captured raises,     *)
(* with nothing noted of it.                                               *)
Ambiguous(p) ==
    /\ run[p].pc = "failed"
    /\ journal' = Append(journal, [kind |-> "ambiguous"])
    /\ Finish(p)
    /\ UNCHANGED <<family, head, env, files, approval, auth, raw, output, derived, sent, crashes>>
CaptureV1(c, a) == [request |-> Request(c), answer |-> a]
CaptureV2(c, a) == [request |-> Request(c), answer |-> a]
CaptureV3(c, a) == [request |-> Request(c), answer |-> a]
CaptureV4(c, a) == [request |-> Request(c), answer |-> a]
Capture(p) ==
    LET c == run[p].code
        a == run[p].answer
    IN  /\ run[p].pc = "answered" /\ family \in Later \cap a.capturable /\ raw = None
        /\ raw' = CASE family = "v1" -> CaptureV1(c, a) [] family = "v2" -> CaptureV2(c, a)
                    [] family = "v3" -> CaptureV3(c, a) [] family = "v4" -> CaptureV4(c, a)
        /\ Goto(p, "captured")
        /\ UNCHANGED <<family, head, env, files, approval, auth, journal, output, derived, sent,
                       crashes>>
Uncaptured(p) ==
    /\ run[p].pc = "answered" /\ family \in Later \ run[p].answer.capturable
    /\ Finish(p)
    /\ UNCHANGED <<family, head, env, files, approval, evidence, derived, sent, crashes>>
NoteCapture(p) ==
    /\ run[p].pc = "captured"
    /\ journal' = Append(journal, [kind |-> "captured"])
    /\ Goto(p, "noted")
    /\ UNCHANGED <<family, head, env, files, approval, auth, raw, output, derived, sent, crashes>>

(* A response that is not accepted is noted; v1 finds the cost too high    *)
(* only afterwards, and then notes nothing.                                *)
Within(a) == Known(a) # {} /\ \A k \in Known(a) : k <= Ceiling
AcceptsV1(c, a) == Valid(c, a) /\ Known(a) # {}
AcceptsV2(c, a) == Valid(c, a) /\ Within(a)
AcceptsV3(c, a) == Valid(c, a) /\ Within(a)
AcceptsV4(c, a) == Valid(c, a) /\ Within(a)
Accepts(c, a) ==
    CASE family = "v1" -> AcceptsV1(c, a) [] family = "v2" -> AcceptsV2(c, a)
      [] family = "v3" -> AcceptsV3(c, a) [] family = "v4" -> AcceptsV4(c, a)
Judge(p) ==
    LET c == run[p].code
        a == run[p].answer
    IN  /\ run[p].pc = "noted"
        /\ \/ /\ Accepts(c, a) /\ Within(a)
              /\ journal' = Append(journal, [kind |-> "completed"])
              /\ Goto(p, "completed")
           \/ /\ Accepts(c, a) /\ ~Within(a)
              /\ UNCHANGED journal /\ Finish(p)
           \/ /\ ~Accepts(c, a)
              /\ journal' = Append(journal, [kind |-> "rejected"])
              /\ Finish(p)
        /\ UNCHANGED <<family, head, env, files, approval, auth, raw, output, derived, sent,
                       crashes>>
FrozenLater(c, a) == [status |-> "FROZEN", answer |-> a, known |-> Known(a), commit |-> c,
                      handoff |-> family \in {"v1", "v4"} /\ a.outcome = "INVEST",
                      reopen |-> FALSE]
Freeze(p) ==
    /\ run[p].pc = "completed" /\ output = None
    /\ output' = FrozenLater(run[p].code, run[p].answer)
    /\ Finish(p)
    /\ UNCHANGED <<family, head, env, files, approval, auth, journal, raw, derived, sent, crashes>>

-----------------------------------------------------------------------------
(* Zero-call steps after a paid one.  What v4 captured and did not accept, *)
(* another commit that builds the same request may accept.                 *)
SourceLineage ==
    /\ auth # None /\ auth.of = approval /\ Builds[head] = Builds[auth.commit]
    /\ \A n \in ToSet(Names["v4"]) : files[n] = File(n, auth.commit)
AnyCaptured == raw # None   \* mutant: the ledger is not asked why there is no result
Unaccepted == journal # <<>> /\ Last(journal).kind = "rejected"
Recoverable ==
    /\ family = "v4" /\ output = None
    /\ SourceLineage /\ Unaccepted /\ raw # None
    /\ AcceptsV4(head, raw.answer)

(* The decision of the reopened Judge becomes a request to reopen.         *)
VerifyResult == output # None /\ output.status = "FROZEN" /\ output.answer.outcome = "WATCH"
VerifyAuthorization == auth # None
VerifyJournal ==
    /\ Len(journal) = 2 /\ journal[1].kind = "attempt" /\ journal[2].kind = "result"
    /\ journal[2].of.received /\ journal[2].of.pass /\ journal[2].of.proposal = output.answer
Processable == family = "reopen" /\ VerifyResult /\ VerifyAuthorization /\ VerifyJournal

Recovered(c) == [kind |-> "recovered", answer |-> raw.answer, known |-> Known(raw.answer),
                 commit |-> c]
RecoveryReceipt(c) == [kind |-> "receipt", of |-> Recovered(c), commit |-> c]
ReopenRequest == [kind |-> "reopen", of |-> output.answer]
Postprocess(c) == [kind |-> "postprocess", of |-> ReopenRequest, commit |-> c]
Derived(i, c) ==
    IF family = "v4" THEN IF i = 1 THEN Recovered(c) ELSE RecoveryReceipt(c)
    ELSE IF i = 1 THEN ReopenRequest ELSE Postprocess(c)

StartDerive(p) ==
    /\ run[p].pc = "idle" /\ (Recoverable \/ Processable)
    /\ run' = [run EXCEPT ![p] = [Idle EXCEPT !.pc = "deriving", !.code = head]]
    /\ UNCHANGED <<family, head, env, files, approval, evidence, derived, sent, crashes>>
(* Each file is created, or found to be what it would create.              *)
PersistOrVerify(i, value) ==
    \/ derived[i] = None /\ derived' = [derived EXCEPT ![i] = value]
    \/ derived[i] = value /\ derived' = derived
Derive(p) ==
    LET i == run[p].next
        value == Derived(i, run[p].code)
    IN  /\ run[p].pc = "deriving"
        /\ \/ /\ PersistOrVerify(i, value)
              /\ run' = [run EXCEPT ![p] = IF i = 2 THEN Idle ELSE [@ EXCEPT !.next = 2]]
           \/ /\ derived[i] \notin {None, value}
              /\ UNCHANGED derived /\ Finish(p)
        /\ UNCHANGED <<family, head, env, files, approval, evidence, sent, crashes>>

(* An invocation dies.                                                     *)
Crash(p) ==
    /\ run[p].pc # "idle" /\ crashes < MaxCrashes
    /\ Finish(p)
    /\ crashes' = crashes + 1
    /\ UNCHANGED <<family, head, env, files, approval, evidence, derived, sent>>

Next ==
    \/ Checkout \/ ChangeKey \/ JudgeEntry \/ Approve
    \/ \E p \in Procs :
          \/ StartBuild(p) \/ Build(p)
          \/ Start(p) \/ Create(p) \/ Attempt(p) \/ NoTransport(p) \/ Dispatch(p)
          \/ Receipt(p) \/ Conclude(p)
          \/ Ambiguous(p) \/ Capture(p) \/ Uncaptured(p) \/ NoteCapture(p) \/ Judge(p) \/ Freeze(p)
          \/ StartDerive(p) \/ Derive(p)
          \/ Crash(p)

Spec == Init /\ [][Next]_vars

-----------------------------------------------------------------------------
(* The shape of the state.                                                 *)
TypeOK ==
    /\ family \in Families /\ head \in Commits /\ env \in Keys
    /\ \A n \in FileNames : files[n] # None =>
          \E c \in Commits : files[n].commit = c
    /\ approval # None => approval.commit \in Commits
    /\ auth # None => auth.commit \in Commits
    /\ \A e \in Kinds : e.kind \in {"attempt", "result", "ambiguous", "captured", "rejected",
                                    "completed"}
    /\ output # None => output.status \in {"UNKNOWN_DISPATCH", "INCOMPLETE_COST", "CEILING",
                                           "INVALID", "FROZEN"}
    /\ \A p \in Procs : run[p].pc \in {"idle", "building", "started", "authorized", "attempted",
                                       "answered", "failed", "recorded", "captured", "noted",
                                       "completed", "deriving"}
    /\ crashes \in 0..MaxCrashes

(* The Judge is asked once whatever invocations overlap or die, and before *)
(* it is asked the disk holds what the owner approved it for, the very     *)
(* request, and (but for the first family) the announcement.               *)
ApprovedRequest == IF family \in Later THEN auth.of.of.request ELSE auth.of.request.request
PaidOnceAhead ==
    /\ Len(sent) <= 1
    /\ \A s \in ToSet(sent) :
          /\ auth # None /\ auth.commit = s.commit
          /\ s.request = ApprovedRequest
          /\ family # "first" => Noted("attempt") /\ journal[1].request = s.request

(* A decision, frozen or recovered, is the one the Judge was paid for: it  *)
(* can be read in what was captured or received, its cost is what the call *)
(* cost, within the ceiling, and it invests only in an eligible candidate  *)
(* with its research closed, and never where the entry forbids that.       *)
Decisions ==
    {d \in {output} : d # None /\ d.status = "FROZEN"}
    \cup {d \in {derived[1]} : d # None /\ family = "v4"}
DecisionIsPaid ==
    \A d \in Decisions :
        /\ sent # <<>> /\ d.answer = sent[1].answer
        /\ IF family \in Later THEN raw.answer = d.answer
           ELSE \E e \in Kinds : e.kind = "result" /\ e.of.proposal = d.answer
        /\ d.known = {sent[1].answer.cost} /\ sent[1].answer.cost <= Ceiling
        /\ d.answer.outcome = "INVEST" =>
              d.answer.eligible /\ ~d.answer.reopen /\ family \in {"reopen", "v1", "v4"}

(* What is written of a call is true of it: an outcome called ambiguous    *)
(* has no captured response, a known cost is the charge, "not accepted" is *)
(* about a response that is on disk, and a receipt says whether a response *)
(* arrived, what it is known to cost, and the answer itself exactly when   *)
(* the code that paid for it can read it.  Who says that one call was made *)
(* got its response (the converse is false: the first family counts none   *)
(* when the cost is unknown).  Once its invocation is over without a crash *)
(* a response that arrived has left its capture or its receipt, but for    *)
(* one that the executor cannot capture.                                   *)
Tells(d, s) ==
    /\ d.received = s.answer.received /\ d.known = Known(s.answer)
    /\ d.proposal = Parsed(s.commit, s.answer)
RecordIsHonest ==
    /\ DecisionIsPaid
    /\ \A e \in Kinds : e.kind = "result" => sent # <<>> /\ Tells(e.of, sent[1])
    /\ Noted("ambiguous") => raw = None /\ output = None
    /\ Noted("rejected") \/ Noted("completed") => raw # None
    /\ output # None =>
          /\ sent # <<>> /\ output.known \subseteq {sent[1].answer.cost}
          /\ output.status = "UNKNOWN_DISPATCH" <=> ~sent[1].answer.received
          /\ output.status # "FROZEN" /\ output.calls = 1 => sent[1].answer.received
    /\ Between /\ crashes = 0 /\ sent # <<>> /\ sent[1].answer.received =>
          \/ raw # None
          \/ Noted("result")
          \/ family \in Later \ sent[1].answer.capturable

(* A call yields one decision, for good: a verdict never changes, and what *)
(* was recovered is never joined by a verdict of the executor, nor the     *)
(* other way round; the research is reopened only by what was frozen.      *)
DecisionIsFinal ==
    [][/\ output # None => output' = output
       /\ \A i \in 1..2 : derived[i] # None => derived'[i] = derived[i]
       /\ family = "v4" => output' = None \/ derived'[1] = None
       /\ family = "reopen" /\ derived'[1] # None =>
             output # None /\ output.status = "FROZEN" /\ output.answer.reopen]_vars
=============================================================================
