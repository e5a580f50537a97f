--------------------------- MODULE JudgeExecution ---------------------------
(***************************************************************************)
(* The one paid call of the TTL Judge and the recovery of its answer.      *)
(* The executor (scripts/b4_ttl_judge_paid_executor_v01.py) reserves the   *)
(* call in a consumption file, dispatches it, captures the answer, and     *)
(* writes the decision before it completes the consumption.  An answer it  *)
(* captured and refused, a WATCH that asks for research to be reopened, is *)
(* projected without a further call by the recovery script                 *)
(* (scripts/b4_ttl_judge_captured_watch_recovery_zero_call_v01.py), which  *)
(* may be run again and then verifies what it finds.  JudgeAuthority says  *)
(* what the executor must find before it may reserve the call.             *)
(***************************************************************************)
EXTENDS JudgeAuthority

CONSTANTS
    Procs,      \* invocations of the executor and of the recovery
    Ceiling,    \* judge_max_cost_usd
    MaxCost,
    Costs,      \* what the call may turn out to cost
    MaxCrashes  \* bound on the crashes explored

ASSUME MoneyAssumption ==
    /\ Ceiling \in Nat /\ MaxCost \in Nat
    /\ Costs \subseteq 0..MaxCost
ASSUME CrashAssumption == MaxCrashes \in Nat

VARIABLES
    consumption,    \* [file, status, stop, head: the commit that was authorized]
    raw,            \* the capture
    result,         \* the executor's decision
    recovered,      \* the recovered decision: [file, head]
    receipt,        \* the recovery receipt: [file, head]
    pc, status, stop, then, seen,   \* of each invocation
    posts, wire, answer, spent,     \* the provider
    crashes

files  == <<consumption, raw, result, recovered, receipt>>
memory == <<pc, status, stop, then, seen>>
provider == <<posts, wire, answer, spent>>
vars   == <<authority, files, memory, provider, crashes>>

Over == {"idle", "done", "dead"}
Live == {"check", "reserve", "truncate", "write", "start", "send", "waiting",
         "capture", "captureOpen", "validate", "result", "resultOpen",
         "complete", "authority", "recovered", "recoveredOpen",
         "receipt", "receiptOpen"}

\* "VALID" passes validation; "WATCH_REOPEN" fails it only because the
\* proposal reopens research; "INVALID" is any other answer.
Answers == {"VALID", "WATCH_REOPEN", "INVALID"}

NoFile == [file |-> "ABSENT", head |-> 0]

Init ==
    /\ AuthorityInit
    /\ consumption = [file |-> "ABSENT", status |-> "NONE", stop |-> "NONE", head |-> 0]
    /\ raw = "ABSENT" /\ result = "ABSENT"
    /\ recovered = NoFile /\ receipt = NoFile
    /\ pc = [p \in Procs |-> "idle"]
    /\ status = [p \in Procs |-> "NONE"]
    /\ stop = [p \in Procs |-> "NONE"]
    /\ then = [p \in Procs |-> "done"]
    /\ seen = [p \in Procs |-> 0]
    /\ posts = 0 /\ wire = "idle" /\ answer = "INVALID" /\ spent = 0
    /\ crashes = 0

Goto(p, label) == pc' = [pc EXCEPT ![p] = label]

(* _update_consumption(status, stop_reason), after which p goes on at label. *)
Update(p, s, r, label) ==
    /\ status' = [status EXCEPT ![p] = s]
    /\ stop' = [stop EXCEPT ![p] = r]
    /\ then' = [then EXCEPT ![p] = label]
    /\ Goto(p, "truncate")


NoOutputs == consumption.file = "ABSENT" /\ raw = "ABSENT" /\ result = "ABSENT"
-----------------------------------------------------------------------------
(* The executor. *)

(* _prepare: no output exists, this is the head of the remote branch, and    *)
(* the gate and the approvals authorize it; the request is built anew.      *)
Authorized == remote = head /\ AuthorityPair /\ SourceReadiness

Prepare(p) ==
    /\ pc[p] \in Over
    /\ NoOutputs
    /\ Authorized
    /\ Goto(p, "check")
    /\ status' = [status EXCEPT ![p] = "NONE"]
    /\ stop' = [stop EXCEPT ![p] = "NONE"]
    /\ then' = [then EXCEPT ![p] = "done"]
    /\ seen' = [seen EXCEPT ![p] = head]
    /\ UNCHANGED <<authority, files, provider, crashes>>

(* _execute_once looks at the three outputs again. *)
Check(p) ==
    /\ pc[p] = "check"
    /\ Goto(p, IF NoOutputs THEN "reserve" ELSE "done")
    /\ UNCHANGED <<authority, files, status, stop, then, seen, provider, crashes>>

\* mutant: the reservation replaces a consumption that appeared meanwhile
ReserveAgain(p) ==
    /\ pc[p] = "reserve"
    /\ consumption' = [consumption EXCEPT !.file = "TORN"]
    /\ status' = [status EXCEPT ![p] = "RESERVED"]
    /\ then' = [then EXCEPT ![p] = "start"]
    /\ Goto(p, "write")
    /\ UNCHANGED <<authority, raw, result, recovered, receipt, stop, seen, provider, crashes>>

(* The reservation is created exclusively. *)
Reserve(p) ==
    /\ pc[p] = "reserve"
    /\ IF consumption.file = "ABSENT"
       THEN /\ consumption' = [consumption EXCEPT !.file = "TORN"]
            /\ status' = [status EXCEPT ![p] = "RESERVED"]
            /\ then' = [then EXCEPT ![p] = "start"]
            /\ Goto(p, "write")
       ELSE /\ Goto(p, "done")
            /\ UNCHANGED <<consumption, status, then>>
    /\ UNCHANGED <<authority, raw, result, recovered, receipt, stop, seen, provider, crashes>>

Truncate(p) ==
    /\ pc[p] = "truncate"
    /\ consumption' = [consumption EXCEPT !.file = "TORN"]
    /\ Goto(p, "write")
    /\ UNCHANGED <<authority, raw, result, recovered, receipt, status, stop, then, seen, provider, crashes>>

Write(p) ==
    /\ pc[p] = "write"
    /\ consumption' = [file |-> "WRITTEN", status |-> status[p], stop |-> stop[p],
                       head |-> seen[p]]
    /\ Goto(p, then[p])
    /\ UNCHANGED <<authority, raw, result, recovered, receipt, status, stop, then, seen, provider, crashes>>

\* mutant: a status the recovery does not know
StartUnnamed(p) ==
    /\ pc[p] = "start"
    /\ Update(p, "DISPATCHED", "NONE", "send")
    /\ UNCHANGED <<authority, files, seen, provider, crashes>>

Start(p) ==
    /\ pc[p] = "start"
    /\ Update(p, "STARTED_UNKNOWN", "NONE", "send")
    /\ UNCHANGED <<authority, files, seen, provider, crashes>>

Send(p) ==
    /\ pc[p] = "send"
    /\ posts' = posts + 1
    /\ wire' = "sent"
    /\ Goto(p, "waiting")
    /\ UNCHANGED <<authority, files, status, stop, then, seen, answer, spent, crashes>>

(* The provider executes the request, even when nobody waits any more. *)
Serve(a, c) ==
    /\ wire = "sent"
    /\ wire' = "served"
    /\ answer' = a
    /\ spent' = spent + c
    /\ UNCHANGED <<authority, files, memory, posts, crashes>>

LoseAnswer(p) ==
    /\ pc[p] = "waiting"
    /\ Update(p, "STARTED_UNKNOWN", "AMBIGUOUS", "done")
    /\ UNCHANGED <<authority, files, seen, provider, crashes>>

Respond(p) ==
    /\ pc[p] = "waiting"
    /\ wire = "served"
    /\ Goto(p, "capture")
    /\ UNCHANGED <<authority, files, status, stop, then, seen, provider, crashes>>

OpenCapture(p) ==
    /\ pc[p] = "capture"
    /\ raw = "ABSENT"
    /\ raw' = "TORN"
    /\ Goto(p, "captureOpen")
    /\ UNCHANGED <<authority, consumption, result, recovered, receipt, status, stop, then, seen, provider, crashes>>

SealCapture(p) ==
    /\ pc[p] = "captureOpen"
    /\ raw' = "WRITTEN"
    /\ Update(p, "CAPTURED", "NONE", "validate")
    /\ UNCHANGED <<authority, consumption, result, recovered, receipt, seen, provider, crashes>>

(* Building, writing or linking the capture raises. *)
CaptureFails(p) ==
    /\ \/ pc[p] \in {"capture", "captureOpen"}
       \/ pc[p] \in {"truncate", "write"} /\ then[p] = "validate"
    /\ Update(p, "CAPTURE_FAILED", "CAPTURE", "done")
    /\ UNCHANGED <<authority, files, seen, provider, crashes>>

Acceptable == answer = "VALID" /\ spent <= Ceiling

Reject(p) ==
    /\ pc[p] = "validate"
    /\ ~Acceptable
    /\ Update(p, "NOT_ACCEPTED", IF answer = "VALID" THEN "COST" ELSE "VALIDATION", "done")
    /\ UNCHANGED <<authority, files, seen, provider, crashes>>

Accept(p) ==
    /\ pc[p] = "validate"
    /\ Acceptable
    /\ Goto(p, "result")
    /\ UNCHANGED <<authority, files, status, stop, then, seen, provider, crashes>>

OpenResult(p) ==
    /\ pc[p] = "result"
    /\ result = "ABSENT"
    /\ result' = "TORN"
    /\ Goto(p, "resultOpen")
    /\ UNCHANGED <<authority, consumption, raw, recovered, receipt, status, stop, then, seen, provider, crashes>>

SealResult(p) ==
    /\ pc[p] = "resultOpen"
    /\ result' = "WRITTEN"
    /\ Goto(p, "complete")
    /\ UNCHANGED <<authority, consumption, raw, recovered, receipt, status, stop, then, seen, provider, crashes>>

ResultFails(p) ==
    /\ pc[p] \in {"result", "resultOpen"}
    /\ Update(p, "RESULT_FAILED", "RESULT", "done")
    /\ UNCHANGED <<authority, files, seen, provider, crashes>>

Complete(p) ==
    /\ pc[p] = "complete"
    /\ Update(p, "COMPLETED", "NONE", "done")
    /\ UNCHANGED <<authority, files, seen, provider, crashes>>
-----------------------------------------------------------------------------
(* The recovery. *)

(* The gate and the sources are those of the commit that paid. *)
SameSources ==
    /\ gates[consumption.head] = "ELIGIBLE"
    /\ Builds[head].judge = Builds[consumption.head].judge

(* The replayed answer fails validation exactly as the projection expects. *)
RefusedWatch == answer = "WATCH_REOPEN" /\ spent <= Ceiling

(* build_recovery: the consumption, its stop reason and the capture are      *)
(* those of a refused WATCH, and there is no decision.                      *)
Recoverable ==
    /\ consumption.file = "WRITTEN" /\ consumption.status = "NOT_ACCEPTED"
    /\ consumption.stop = "VALIDATION"
    /\ raw = "WRITTEN" /\ result = "ABSENT"
    /\ SameSources
    /\ RefusedWatch

BeginRecovery(p) ==
    /\ pc[p] \in Over
    /\ Recoverable
    /\ Goto(p, "authority")
    /\ seen' = [seen EXCEPT ![p] = head]
    /\ UNCHANGED <<authority, files, status, stop, then, provider, crashes>>

(* _require_write_authority: HEAD is still the commit that was read, on the *)
(* canonical branch with a clean worktree, and the remote branch has it as   *)
(* its head: after a push the recovery at an older commit is refused.       *)
RequireWriteAuthority(p) ==
    /\ pc[p] = "authority"
    /\ Goto(p, IF canonical /\ head = seen[p] /\ remote = seen[p]
               THEN "recovered" ELSE "done")
    /\ UNCHANGED <<authority, files, status, stop, then, seen, provider, crashes>>

\* mutant: as in the executor, an artifact that exists ends the run
RefuseExisting(p, artifact, open, next) == IF artifact.file = "ABSENT" THEN open ELSE "done"

(* _persist_or_verify: an artifact that exists must be the one to write. *)
PersistOrVerify(p, artifact, open, next) ==
    IF artifact.file = "ABSENT" THEN open
    ELSE IF artifact = [file |-> "WRITTEN", head |-> seen[p]] THEN next ELSE "done"

PersistRecovered(p) ==
    /\ pc[p] = "recovered"
    /\ Goto(p, PersistOrVerify(p, recovered, "recoveredOpen", "receipt"))
    /\ recovered' = IF recovered.file = "ABSENT" THEN [file |-> "TORN", head |-> 0] ELSE recovered
    /\ UNCHANGED <<authority, consumption, raw, result, receipt, status, stop, then, seen, provider, crashes>>

SealRecovered(p) ==
    /\ pc[p] = "recoveredOpen"
    /\ recovered' = [file |-> "WRITTEN", head |-> seen[p]]
    /\ Goto(p, "receipt")
    /\ UNCHANGED <<authority, consumption, raw, result, receipt, status, stop, then, seen, provider, crashes>>

PersistReceipt(p) ==
    /\ pc[p] = "receipt"
    /\ Goto(p, PersistOrVerify(p, receipt, "receiptOpen", "done"))
    /\ receipt' = IF receipt.file = "ABSENT" THEN [file |-> "TORN", head |-> 0] ELSE receipt
    /\ UNCHANGED <<authority, consumption, raw, result, recovered, status, stop, then, seen, provider, crashes>>

SealReceipt(p) ==
    /\ pc[p] = "receiptOpen"
    /\ receipt' = [file |-> "WRITTEN", head |-> seen[p]]
    /\ Goto(p, "done")
    /\ UNCHANGED <<authority, consumption, raw, result, recovered, status, stop, then, seen, provider, crashes>>

Crash(p) ==
    /\ pc[p] \in Live
    /\ crashes < MaxCrashes
    /\ crashes' = crashes + 1
    /\ Goto(p, "dead")
    /\ UNCHANGED <<authority, files, status, stop, then, seen, provider>>

Execute(p) ==
    \/ Check(p) \/ Reserve(p) \/ Truncate(p) \/ Write(p) \/ Start(p) \/ Send(p)
    \/ LoseAnswer(p) \/ Respond(p) \/ OpenCapture(p) \/ SealCapture(p)
    \/ CaptureFails(p) \/ Reject(p) \/ Accept(p) \/ OpenResult(p)
    \/ SealResult(p) \/ ResultFails(p) \/ Complete(p)

Recover(p) ==
    \/ RequireWriteAuthority(p)
    \/ PersistRecovered(p) \/ SealRecovered(p)
    \/ PersistReceipt(p) \/ SealReceipt(p)

(* Bound: the documents are built and approved between invocations, and    *)
(* not after the call is reserved, when nothing reads a new one any more.   *)
PrepareAuthority ==
    /\ \A p \in Procs : pc[p] \in Over
    /\ consumption.file = "ABSENT"
    /\ Authorize
    /\ UNCHANGED <<files, memory, provider, crashes>>

Next ==
    \/ (Checkout \/ Push) /\ UNCHANGED <<files, memory, provider, crashes>>
    \/ PrepareAuthority
    \/ \E a \in Answers, c \in Costs : Serve(a, c)
    \/ \E p \in Procs : \/ Prepare(p) \/ BeginRecovery(p)
                        \/ Execute(p) \/ Recover(p) \/ Crash(p)

Spec == Init /\ [][Next]_vars

(* A live invocation goes on and the owner runs the recovery again. *)
FairSpec ==
    /\ Spec
    /\ \A p \in Procs : WF_vars(Execute(p) \/ Recover(p))
    /\ SF_vars(\E p \in Procs : BeginRecovery(p))
-----------------------------------------------------------------------------
FileState == {"ABSENT", "TORN", "WRITTEN"}
StatusType == {"NONE", "RESERVED", "STARTED_UNKNOWN", "CAPTURED", "CAPTURE_FAILED",
               "NOT_ACCEPTED", "RESULT_FAILED", "COMPLETED"}
StopType == {"NONE", "AMBIGUOUS", "CAPTURE", "VALIDATION", "COST", "RESULT"}

(* Every variable has the values the code can give it. *)
TypeOK ==
    /\ AuthorityTypeOK
    /\ consumption \in [file : FileState, status : StatusType, stop : StopType,
                        head : Heads \cup {0}]
    /\ raw \in FileState /\ result \in FileState
    /\ recovered \in [file : FileState, head : Heads \cup {0}]
    /\ receipt \in [file : FileState, head : Heads \cup {0}]
    /\ pc \in [Procs -> Over \cup Live]
    /\ status \in [Procs -> StatusType] /\ stop \in [Procs -> StopType]
    /\ then \in [Procs -> {"start", "send", "validate", "result", "done"}]
    /\ seen \in [Procs -> Heads \cup {0}]
    /\ posts \in Nat
    /\ wire \in {"idle", "sent", "served"}
    /\ answer \in Answers
    /\ spent \in Nat
    /\ crashes \in 0..MaxCrashes

(* The consumption, when it can be read, never understates what was done:    *)
(* a reserved call was not sent, a judged answer was captured, a completed   *)
(* call has its decision.                                                   *)
ConsumptionIsHonest ==
    consumption.file = "WRITTEN" =>
        /\ consumption.status = "RESERVED" => posts = 0
        /\ consumption.status \in {"CAPTURED", "NOT_ACCEPTED", "RESULT_FAILED", "COMPLETED"}
              => raw = "WRITTEN"
        /\ consumption.status = "COMPLETED" => result = "WRITTEN"

(* A recovery receipt goes with the recovered decision of the same commit,   *)
(* however often and at whatever commits the recovery is run.               *)
ReceiptMatchesDecision ==
    receipt.file # "ABSENT" =>
        /\ recovered.file = "WRITTEN"
        /\ receipt.file = "WRITTEN" => receipt.head = recovered.head

(* The call was reserved at a commit whose gate the owner activated and then *)
(* approved the payment of, and that builds the request the gate names,      *)
(* whatever has been checked out, built, approved and pushed since.          *)
CallIsAuthorized ==
    consumption.head # 0 =>
        /\ gates[consumption.head] = "ELIGIBLE"
        /\ activation = consumption.head
        /\ paid = [gate |-> consumption.head, activation |-> activation, later |-> TRUE]
        /\ Builds[consumption.head].request = ProspectiveRequest

(* max_call_count is 1: however many commits have a gate and approvals, and   *)
(* however invocations overlap, die and repeat, they send the Judge request   *)
(* once at most and as authorized, and its paid answer becomes at most one    *)
(* decision, an acceptable one of the executor or the recovered refused      *)
(* WATCH, that the consumption and the recovery receipt agree with.          *)
OneDecision ==
    /\ posts <= 1
    /\ CallIsAuthorized
    /\ result # "ABSENT" => answer = "VALID" /\ spent <= Ceiling
    /\ recovered.file # "ABSENT" =>
          result = "ABSENT" /\ answer = "WATCH_REOPEN" /\ spent <= Ceiling
    /\ ConsumptionIsHonest
    /\ ReceiptMatchesDecision

(* The recovery may write its receipt for the recovered decision. *)
SameCommit == canonical /\ head = recovered.head /\ remote = head

(* A crash left the receipt half written: every rerun fails to read it. *)
TornForGood ==
    /\ crashes > 0 /\ receipt.file = "TORN"
    /\ \A p \in Procs : pc[p] # "receiptOpen"

(* Running the recovery again finishes what a crash left: a recovered        *)
(* decision gets a receipt that can be read, unless the crash tore that very *)
(* receipt, or another commit was checked out or pushed before it was written*)
(* (the remote branch never goes back, so a push refuses it for good).       *)
DecisionGetsReceipt ==
    (recovered.file = "WRITTEN") ~>
        (receipt.file = "WRITTEN" \/ TornForGood \/ ~SameCommit)
=============================================================================
