-------------------------- MODULE RecoveryRuntime --------------------------
(***************************************************************************)
(* The v0.2 recovery of the last Initial call, whose first dispatch ended  *)
(* unknown (scripts/b4_reopen_run_initial_recovery_runtime_v02.py): the    *)
(* opinions of the blocked run are reused, the missing call is made again. *)
(* The script may be run again after a crash: an existing authorization is *)
(* verified and reused, and an existing journal is finalized locally       *)
(* instead of dispatching a second time.  Its checks are exists() tests on *)
(* files, so invocations that overlap can pass the same test.              *)
(***************************************************************************)
EXTENDS Naturals, FiniteSets, SequencesExt

CONSTANTS
    Procs,      \* invocations that may be alive
    Approvals,  \* owner approval arguments an invocation can be given
    NoApproval,
    Overlap,    \* may two invocations be alive at once
    MaxCrashes, \* bound on the crashes explored
    Commits,    \* commits HEAD can be at
    NoCommit,
    N,          \* calls of the source run: nine in the code
    Sources,    \* what the source run can have left: its receipts, and the
                \* known cost its blocked artifact states
    Known,      \* EXPECTED_KNOWN_COST_USD of the reusable calls
    Ceiling,    \* EXPECTED_ONE_CALL_RECOVERY_CEILING_USD
    MaxCost,    \* worst cost of one call
    Costs,      \* costs the recovery call can have
    Doubts      \* costs the unknown source dispatch can have had: nothing
                \* bounds them

ASSUME ApprovalAssumption == NoApproval \notin Approvals
ASSUME CommitAssumption == NoCommit \notin Commits
ASSUME CrashAssumption == MaxCrashes \in Nat
ASSUME MoneyAssumption ==
    /\ N \in Nat /\ N > 1 /\ Known \in Nat /\ Ceiling \in Nat /\ MaxCost \in Nat
    /\ Costs \subseteq 0..MaxCost /\ Doubts \subseteq Nat

(* Of each receipt, was an answer received, did it pass, and at what cost (0  *)
(* if none was priced); the cumulative cost the source runner kept of them.  *)
SpentOn(receipts) == FoldSeq(LAMBDA r, sum : sum + r.cost, 0, receipts)

\* A blocked artifact states exactly what its receipts cost (VerdictIsHonest
\* of PaidInitialRunner: the call in doubt has no cost yet).
ASSUME SourceAssumption ==
    \A s \in Sources :
        /\ s.receipts \in Seq([received : BOOLEAN, pass : BOOLEAN, cost : Nat])
        /\ s.known = SpentOn(s.receipts)

VARIABLES
    source,     \* what the run to be recovered left
    head,       \* the commit HEAD is at
    dry,        \* the dry artifact: [state, head], head the commit it is for
    auth,       \* the authorization: [state, approval]
    hasJournal, \* PAID_JOURNAL.exists()
    journal,    \* its complete lines
    output,     \* [status, cost, upper, opinions], an opinion by its cost
    pc, approval, outcome,    \* memory of each invocation
    record,                   \* cost of the processed record it holds
    posts,      \* requests the provider was sent
    wire, reply,              \* the request of each invocation and its cost
    billed,     \* cost of the recovery requests executed
    inDoubt,    \* what the unknown source dispatch really cost
    crashes

files  == <<source, head, dry, auth, hasJournal, journal, output>>
memory == <<pc, approval, outcome, record>>
remote == <<posts, wire, reply, billed, inDoubt>>
vars   == <<files, memory, remote, crashes>>

Over == {"idle", "done", "dead"}
Live == {"auth", "create", "authOpen", "check", "openJournal", "attempt", "post",
         "waiting", "receipt", "finalize", "freeze", "freezeOpen", "block", "blockOpen"}
Outcomes == {"PASS", "REPEAT", "FAIL", "UNKNOWN"}

NoOutput == [status |-> "ABSENT", cost |-> 0, upper |-> 0, opinions |-> <<>>]

(* An answer passes its own validation though its opinion may have the id or *)
(* the content of one the source run left: only the freeze compares them.    *)
Processed(o) == o \in {"PASS", "REPEAT"}

AttemptEvent == [kind |-> "ATTEMPT", pass |-> FALSE, unique |-> FALSE, cost |-> 0]

(* build_result_receipt: only a validated record carries a cost. *)
ResultReceipt(o, c) ==
    [kind |-> "RECEIPT", pass |-> Processed(o), unique |-> o = "PASS", cost |-> c]

(* aggregate_initial_spend_upper_bound_usd: the source dispatch in doubt     *)
(* is charged at the full one-call ceiling.                                 *)
UpperBound(c) == Known + c + Ceiling

\* mutant: every call of the source run is reused, the unknown one included
ReuseAll(c) == [status |-> "FROZEN", cost |-> c, upper |-> UpperBound(c),
                opinions |-> Append([i \in DOMAIN source.receipts |-> source.receipts[i].cost], c)]
RecoveredFreeze(c) ==
    [status |-> "FROZEN", cost |-> c, upper |-> UpperBound(c),
     opinions |-> Append([i \in 1..(N - 1) |-> source.receipts[i].cost], c)]
\* mutant: the status constant of another artifact
MislabelledBlocked == [NoOutput EXCEPT !.status = "WRITTEN"]

RecoveryBlocked == [NoOutput EXCEPT !.status = "BLOCKED"]

Goto(p, label) == pc' = [pc EXCEPT ![p] = label]

Init ==
    /\ source \in Sources
    /\ head \in Commits
    /\ dry = [state |-> "ABSENT", head |-> NoCommit]
    /\ auth = [state |-> "ABSENT", approval |-> NoApproval]
    /\ hasJournal = FALSE
    /\ journal = <<>>
    /\ output = NoOutput
    /\ pc = [p \in Procs |-> "idle"]
    /\ approval = [p \in Procs |-> NoApproval]
    /\ outcome = [p \in Procs |-> "UNKNOWN"]
    /\ record = [p \in Procs |-> 0]
    /\ posts = 0
    /\ wire = [p \in Procs |-> "idle"]
    /\ reply = [p \in Procs |-> 0]
    /\ billed = 0
    /\ inDoubt \in Doubts
    /\ crashes = 0
-----------------------------------------------------------------------------
(* The plan of the recovery is built from what the source run left, and every *)
(* invocation builds it again: a journal of all N dispatches, of which all   *)
(* but the last were answered and validated and the last is in doubt, and a  *)
(* blocked artifact that states their known cost.                            *)
JournalOfSource ==
    LET receipts == source.receipts IN
    /\ Len(receipts) = N
    /\ \A i \in 1..(N - 1) : receipts[i].received /\ receipts[i].pass
    /\ ~receipts[N].received /\ ~receipts[N].pass /\ receipts[N].cost = 0
BlockedSource == source.known = Known
RecoveryPlan == [before |-> Known + Ceiling, after |-> Known + 2 * Ceiling]
LoadContext == JournalOfSource /\ BlockedSource

MayStart(p) == pc[p] \in Over /\ (Overlap \/ \A q \in Procs : pc[q] \in Over)

(* The owner checks out another commit, whatever the script is at. *)
MoveHead(c) ==
    /\ c # head
    /\ head' = c
    /\ UNCHANGED <<source, dry, auth, hasJournal, journal, output, memory, remote, crashes>>

(* run_dry, which refuses to run once there is paid evidence. *)
DryRun(p) ==
    /\ MayStart(p)
    /\ dry.state = "ABSENT" /\ auth.state = "ABSENT" /\ ~hasJournal /\ output = NoOutput
    /\ LoadContext
    /\ \E s \in {"TORN", "WRITTEN"} : dry' = [state |-> s, head |-> head]
    /\ UNCHANGED <<source, head, auth, hasJournal, journal, output, memory, remote, crashes>>

(* run_paid up to its checks of the output, the dry artifact and the owner's *)
(* arguments; a run that fails them ends where it began.  The dry artifact   *)
(* must be the one of HEAD, which is read once: the authorization and its    *)
(* verification are then of that same commit.                                *)
Begin(p, a) ==
    /\ MayStart(p)
    /\ LoadContext /\ dry = [state |-> "WRITTEN", head |-> head]
    /\ output.status = "ABSENT"
    /\ approval' = [approval EXCEPT ![p] = a]
    /\ outcome' = [outcome EXCEPT ![p] = "UNKNOWN"]
    /\ record' = [record EXCEPT ![p] = 0]
    /\ Goto(p, "auth")
    /\ UNCHANGED <<files, remote, crashes>>

(* verify_existing_auth *)
Reusable(p) == auth.state = "WRITTEN" /\ auth.approval = approval[p]

ReadAuthorization(p) ==
    /\ pc[p] = "auth"
    /\ Goto(p, IF auth.state = "ABSENT" THEN "create"
               ELSE IF Reusable(p) THEN "check" ELSE "done")
    /\ UNCHANGED <<files, approval, outcome, record, remote, crashes>>

(* O_EXCL: an invocation that lost the race ends with FileExistsError. *)
CreateAuthorization(p) ==
    /\ pc[p] = "create"
    /\ IF auth.state = "ABSENT"
       THEN /\ auth' = [state |-> "TORN", approval |-> approval[p]]
            /\ Goto(p, "authOpen")
       ELSE /\ Goto(p, "done")
            /\ UNCHANGED auth
    /\ UNCHANGED <<source, head, dry, hasJournal, journal, output, approval, outcome, record, remote, crashes>>

SealAuthorization(p) ==
    /\ pc[p] = "authOpen"
    /\ auth' = [auth EXCEPT !.state = "WRITTEN"]
    /\ Goto(p, "check")
    /\ UNCHANGED <<source, head, dry, hasJournal, journal, output, approval, outcome, record, remote, crashes>>

\* mutant: a journal of one attempt and no receipt is taken as not dispatched
JournalSettled == hasJournal /\ Len(journal) # 1

JournalExists == hasJournal

\* mutant: as in the v0.1 runner, a run that finds a journal gives up
RefuseJournal(p) ==
    /\ pc[p] = "check"
    /\ Goto(p, IF JournalExists THEN "done" ELSE "openJournal")
    /\ UNCHANGED <<files, approval, outcome, record, remote, crashes>>

(* "NEVER POST again" when there is a journal. *)
CheckJournal(p) ==
    /\ pc[p] = "check"
    /\ Goto(p, IF JournalExists THEN "finalize" ELSE "openJournal")
    /\ UNCHANGED <<files, approval, outcome, record, remote, crashes>>

(* load_openai_api_key raises when there is none. *)
MissingKey(p) ==
    /\ pc[p] = "openJournal"
    /\ Goto(p, "done")
    /\ UNCHANGED <<files, approval, outcome, record, remote, crashes>>

(* append_jsonl_fsync creates the file before it writes the line. *)
OpenJournal(p) ==
    /\ pc[p] = "openJournal"
    /\ hasJournal' = TRUE
    /\ Goto(p, "attempt")
    /\ UNCHANGED <<source, head, dry, auth, journal, output, approval, outcome, record, remote, crashes>>

AppendAttempt(p) ==
    /\ pc[p] = "attempt"
    /\ journal' = Append(journal, AttemptEvent)
    /\ Goto(p, "post")
    /\ UNCHANGED <<source, head, dry, auth, hasJournal, output, approval, outcome, record, remote, crashes>>

Post(p) ==
    /\ pc[p] = "post"
    /\ posts' = posts + 1
    /\ wire' = [wire EXCEPT ![p] = "sent"]
    /\ Goto(p, "waiting")
    /\ UNCHANGED <<files, approval, outcome, record, reply, billed, inDoubt, crashes>>

(* The provider executes a request, also after the sender has gone. *)
Serve(p, c) ==
    /\ wire[p] = "sent"
    /\ wire' = [wire EXCEPT ![p] = "served"]
    /\ reply' = [reply EXCEPT ![p] = c]
    /\ billed' = billed + c
    /\ UNCHANGED <<files, memory, posts, inDoubt, crashes>>

(* The answer, if any, and what its validation comes to. *)
Answer(p, o) ==
    /\ pc[p] = "waiting"
    /\ wire[p] = "served" \/ o = "UNKNOWN"
    /\ outcome' = [outcome EXCEPT ![p] = o]
    /\ record' = [record EXCEPT ![p] = IF Processed(o) THEN reply[p] ELSE 0]
    /\ Goto(p, "receipt")
    /\ UNCHANGED <<files, approval, remote, crashes>>

(* The freeze builder raises, and leaves no artifact, above the ceiling or   *)
(* when the recovered opinion repeats one that is reused.                    *)
Freezable(receipt) == receipt.unique /\ receipt.cost <= Ceiling

Verdict(receipt) ==
    CASE ~receipt.pass -> "block"
      [] receipt.pass /\ Freezable(receipt) -> "freeze"
      [] OTHER -> "done"

AppendReceipt(p) ==
    /\ pc[p] = "receipt"
    /\ LET receipt == ResultReceipt(outcome[p], record[p]) IN
       /\ journal' = Append(journal, receipt)
       /\ Goto(p, Verdict(receipt))
    /\ UNCHANGED <<source, head, dry, auth, hasJournal, output, approval, outcome, record, remote, crashes>>

(* finalize_from_existing_journal: one event is an attempt of unknown fate,  *)
(* two are an attempt and its receipt; anything else raises.                 *)
Finalize(p) ==
    /\ pc[p] = "finalize"
    /\ CASE Len(journal) = 1 ->
              Goto(p, "block") /\ UNCHANGED record
         [] Len(journal) = 2 /\ journal[2].kind = "RECEIPT" ->
              /\ Goto(p, Verdict(journal[2]))
              /\ record' = [record EXCEPT ![p] = journal[2].cost]
         [] OTHER -> Goto(p, "done") /\ UNCHANGED record
    /\ UNCHANGED <<files, approval, outcome, remote, crashes>>

(* write_json_fsync of the verdict: O_EXCL, then the bytes. *)
OpenOutput(p) ==
    /\ pc[p] \in {"freeze", "block"}
    /\ IF output.status = "ABSENT"
       THEN /\ output' = [NoOutput EXCEPT !.status = "TORN"]
            /\ Goto(p, IF pc[p] = "freeze" THEN "freezeOpen" ELSE "blockOpen")
       ELSE /\ Goto(p, "done")
            /\ UNCHANGED output
    /\ UNCHANGED <<source, head, dry, auth, hasJournal, journal, approval, outcome, record, remote, crashes>>

SealOutput(p) ==
    /\ \/ pc[p] = "freezeOpen" /\ output' = RecoveredFreeze(record[p])
       \/ pc[p] = "blockOpen" /\ output' = RecoveryBlocked
    /\ Goto(p, "done")
    /\ UNCHANGED <<source, head, dry, auth, hasJournal, journal, approval, outcome, record, remote, crashes>>

(* The process dies, or is killed. *)
Crash(p) ==
    /\ pc[p] \in Live
    /\ crashes < MaxCrashes
    /\ crashes' = crashes + 1
    /\ Goto(p, "dead")
    /\ UNCHANGED <<files, approval, outcome, record, remote>>

Step(p) ==
    \/ ReadAuthorization(p)
    \/ CreateAuthorization(p)
    \/ SealAuthorization(p)
    \/ CheckJournal(p)
    \/ MissingKey(p)
    \/ OpenJournal(p)
    \/ AppendAttempt(p)
    \/ Post(p)
    \/ \E o \in Outcomes : Answer(p, o)
    \/ AppendReceipt(p)
    \/ Finalize(p)
    \/ OpenOutput(p)
    \/ SealOutput(p)

Run(p) == Step(p) \/ \E a \in Approvals : Begin(p, a)

Next == \/ \E p \in Procs : \/ DryRun(p)
                            \/ Run(p)
                            \/ \E c \in Costs : Serve(p, c)
                            \/ Crash(p)
        \/ \E c \in Commits : MoveHead(c)

Spec == Init /\ [][Next]_vars

(* A live invocation goes on, and the owner runs the script again, with the  *)
(* approval the authorization holds, until there is an output.              *)
Fairness ==
    /\ \A p \in Procs : WF_vars(Step(p))
    /\ \A a \in Approvals : SF_vars(auth.approval = a /\ \E p \in Procs : Begin(p, a))

FairSpec == Spec /\ Fairness
-----------------------------------------------------------------------------
Attempts == Cardinality({k \in 1..Len(journal) : journal[k].kind = "ATTEMPT"})

PassReceipts == {k \in 1..Len(journal) : journal[k].kind = "RECEIPT" /\ journal[k].pass}

(* Every variable has the values the code can give it. *)
TypeOK ==
    /\ head \in Commits
    /\ dry \in [state : {"ABSENT", "TORN", "WRITTEN"}, head : Commits \cup {NoCommit}]
    /\ auth \in [state : {"ABSENT", "TORN", "WRITTEN"}, approval : Approvals \cup {NoApproval}]
    /\ hasJournal \in BOOLEAN
    /\ journal \in Seq([kind : {"ATTEMPT", "RECEIPT"}, pass : BOOLEAN, unique : BOOLEAN,
                       cost : Nat])
    /\ journal # <<>> => hasJournal
    /\ output \in [status : {"ABSENT", "TORN", "FROZEN", "BLOCKED"}, cost : Nat, upper : Nat,
                   opinions : Seq(Nat)]
    /\ pc \in [Procs -> Over \cup Live]
    /\ approval \in [Procs -> Approvals \cup {NoApproval}]
    /\ outcome \in [Procs -> Outcomes]
    /\ posts \in Nat
    /\ record \in [Procs -> Nat]
    /\ wire \in [Procs -> {"idle", "sent", "served"}]
    /\ reply \in [Procs -> Nat]
    /\ billed \in Nat /\ inDoubt \in Doubts
    /\ crashes \in 0..MaxCrashes

(* The approval that was consumed is the one its owner gave to the run that  *)
(* dispatches.                                                               *)
ApprovalIsBound ==
    \A p \in Procs : pc[p] \in {"post", "waiting", "receipt"} =>
        auth.state = "WRITTEN" /\ auth.approval = approval[p]

(* recovery_paid_calls_max is 1: crashes and reruns of the script at any     *)
(* point never lead to a second POST of the recovery call, and its approval  *)
(* is bound to the run that sends it.                                        *)
AtMostOneRecoveryPost == posts <= 1 /\ ApprovalIsBound

(* The same promise as the comment of run_paid words it: no process POSTs    *)
(* once another one has written dispatch evidence to the journal.           *)
NeverPostAgain == [][posts' # posts => Attempts = 1]_vars

(* The verdict follows from the journal whoever writes it: a freeze has the  *)
(* receipt of an answer that passed, repeats no reused opinion and cost no   *)
(* more than the ceiling, and an opinion of each planned call, those of the  *)
(* source run as they were; a block means no answer passed.  The upper bound *)
(* in a freeze covers all the Initial stage cost, but for what the unknown   *)
(* dispatch cost beyond the ceiling it is charged at, which the code cannot  *)
(* know; and it is within the plan the owner approved.                       *)
FreezeAgrees ==
    output.status = "FROZEN" =>
        /\ \E k \in PassReceipts : Freezable(journal[k]) /\ journal[k].cost = output.cost
        /\ Len(output.opinions) = N /\ output.opinions[N] = output.cost
        /\ \A i \in 1..(N - 1) :
              source.receipts[i].pass /\ output.opinions[i] = source.receipts[i].cost

Overrun == IF inDoubt > Ceiling THEN inDoubt - Ceiling ELSE 0

AggregateBound ==
    output.status = "FROZEN" =>
        /\ SpentOn(source.receipts) + inDoubt + billed <= output.upper + Overrun
        /\ output.upper <= RecoveryPlan.after

BlockAgrees == output.status = "BLOCKED" => PassReceipts = {} /\ Attempts > 0

VerdictAgreesWithJournal == FreezeAgrees /\ AggregateBound /\ BlockAgrees

(* A process died between opening the verdict and writing it: every later    *)
(* run finds the output and refuses.                                         *)
TornForGood ==
    output.status = "TORN" /\ \A p \in Procs : pc[p] \notin {"freezeOpen", "blockOpen"}

(* The crash-safe local finalize, and where it ends: while the owner keeps   *)
(* running the script on the commit of the dry artifact, a durable attempt   *)
(* ends in a verdict, unless a process died while writing it, or the answer  *)
(* that passed cannot be frozen (it cost more than the ceiling, or repeats a *)
(* reused opinion): then every run raises and there never is an artifact.    *)
AttemptIsSettled ==
    []<>(head = dry.head) =>
        ((journal # <<>>) ~>
            \/ output.status \in {"FROZEN", "BLOCKED"}
            \/ TornForGood
            \/ \E k \in PassReceipts : ~Freezable(journal[k]))
=============================================================================
