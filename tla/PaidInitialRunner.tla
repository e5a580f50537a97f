------------------------- MODULE PaidInitialRunner -------------------------
(***************************************************************************)
(* The paid runner of the reopened Council's Initial stage                 *)
(* (scripts/b4_reopen_run_initial_runtime_v01.py over                      *)
(* aic/council/reopen_initial_runtime.py).  Any number of processes run    *)
(* the same script against the same working tree: a dry run leaves the     *)
(* zero-call evidence, a paid run checks it, creates the authorization     *)
(* with open(..., "x"), and then for each planned call appends an attempt  *)
(* event to the journal, POSTs once, appends the receipt, and decides.     *)
(* Files survive a crash, the memory of a process does not.  The provider  *)
(* may execute and bill a request at any time after it was sent, also      *)
(* after the runner has given the answer up.                               *)
(***************************************************************************)
EXTENDS Naturals, Sequences, FiniteSets

CONSTANTS
    Procs,      \* invocations of the script
    NoProc,     \* "no invocation yet"
    Commits,    \* git commits HEAD can be at
    NoCommit,   \* "no commit": an absent or unreadable dry artifact
    N,          \* EXPECTED_CALLS
    Ceiling,    \* EXPECTED_COST_CEILING_USD
    MaxCost,    \* worst cost of one call
    Costs       \* costs a call can have

ASSUME ProcAssumption == NoProc \notin Procs /\ NoCommit \notin Commits
ASSUME NAssumption == N \in Nat \ {0}
ASSUME MoneyAssumption ==
    Ceiling \in Nat /\ MaxCost \in Nat /\ Costs \subseteq 0..MaxCost

VARIABLES
    \* the working tree and the files under it
    head,       \* git HEAD
    dryFile,    \* does the dry artifact exist
    dry,        \* code_commit_sha of the dry artifact
    auth,       \* the authorization: [state, by, head]
    journal,    \* complete lines of the receipt journal
    output,     \* the freeze or blocked artifact
    \* the memory of each process
    pc,
    runHead,    \* head read by _git_context
    attempts,   \* dispatch_attempts
    responses,  \* provider_responses
    processed,  \* len(processed_records)
    cost,       \* cumulative_cost
    outcome,    \* what the POST of the current call came to
    costStatus, \* cost_status handed to _blocked
    \* the provider
    posts,      \* requests received for each call
    served,     \* calls executed
    billed,     \* what they cost in total
    wire,       \* the request of each process that is not yet accounted for
    reply       \* the cost of that request once executed

files  == <<head, dryFile, dry, auth, journal, output>>
memory == <<pc, runHead, attempts, responses, processed, cost, outcome, costStatus>>
remote == <<posts, served, billed, wire, reply>>
vars   == <<files, memory, remote>>

Items == 1..N
Outcomes == {"VALID", "INVALID", "NO_USAGE", "UNKNOWN"}
CostStatuses == {"COMPLETE", "COMPLETE_COST_CEILING_BREACH",
                 "INCOMPLETE_USAGE_OR_CACHE_WRITE",
                 "INCOMPLETE_UNKNOWN_PROVIDER_DISPATCH"}

\* Control points; "open" ones sit between open("x") and the fsync of a file.
Live == {"cleared", "authOpen", "sealed", "loop", "attempted", "waiting",
         "resulted", "freezing", "freezeOpen", "blocking", "blockOpen"}

\* The exceptions of the code itself that end a run after its authorization
\* exists: main() turns both into exit status 2 and leaves no artifact.
Raised == {"keyMissing", "notUnique"}

\* mutant: the 0-based index of the loop taken for the 1-based dispatch_index
ShiftedAttemptEvent(p, i) ==
    [kind |-> "ATTEMPT", by |-> p, item |-> i + 1, pass |-> FALSE, costed |-> FALSE]

(* build_dispatch_attempt_event *)
AttemptEvent(p, i) ==
    [kind |-> "ATTEMPT", by |-> p, item |-> i, pass |-> FALSE, costed |-> FALSE]

(* build_paid_call_receipt: the usage is priced even when the opinion fails *)
(* validation; without a response, or without usage, the cost is unknown.   *)
Receipt(p, i, o) ==
    [kind |-> "RECEIPT", by |-> p, item |-> i,
     pass |-> o = "VALID", costed |-> o \in {"VALID", "INVALID"}]

ReceiptCostStatus(o) ==
    CASE o \in {"VALID", "INVALID"} -> "COMPLETE"
      [] o = "NO_USAGE" -> "INCOMPLETE_USAGE_OR_CACHE_WRITE"
      [] o = "UNKNOWN" -> "INCOMPLETE_UNKNOWN_PROVIDER_DISPATCH"

NoOutput == [status |-> "ABSENT", by |-> NoProc, attempts |-> 0,
             responses |-> 0, cost |-> 0, costStatus |-> "COMPLETE"]

TornOutput(p) == [status |-> "TORN", by |-> p, attempts |-> 0,
                  responses |-> 0, cost |-> 0, costStatus |-> "COMPLETE"]

FreezeArtifact(p) ==
    [status |-> "FROZEN", by |-> p, attempts |-> N,
     responses |-> N, cost |-> cost[p], costStatus |-> "COMPLETE"]

BlockedArtifact(p) ==
    [status |-> "BLOCKED", by |-> p, attempts |-> attempts[p],
     responses |-> responses[p], cost |-> cost[p], costStatus |-> costStatus[p]]

\* mutant: open(path, "w")
OverwritingCreate(state) == TRUE

(* open(path, "x") succeeds exactly when the file does not exist. *)
ExclusiveCreate(state) == state = "ABSENT"

Goto(p, label) == pc' = [pc EXCEPT ![p] = label]

Init ==
    /\ head \in Commits
    /\ dryFile = FALSE
    /\ dry = NoCommit
    /\ auth = [state |-> "ABSENT", by |-> NoProc, head |-> NoCommit]
    /\ journal = <<>>
    /\ output = NoOutput
    /\ pc = [p \in Procs |-> "idle"]
    /\ runHead = [p \in Procs |-> NoCommit]
    /\ attempts = [p \in Procs |-> 0]
    /\ responses = [p \in Procs |-> 0]
    /\ processed = [p \in Procs |-> 0]
    /\ cost = [p \in Procs |-> 0]
    /\ outcome = [p \in Procs |-> "UNKNOWN"]
    /\ costStatus = [p \in Procs |-> "COMPLETE"]
    /\ posts = [i \in Items |-> 0]
    /\ served = {}
    /\ billed = 0
    /\ wire = [p \in Procs |-> "idle"]
    /\ reply = [p \in Procs |-> 0]
-----------------------------------------------------------------------------
(* The owner commits or checks out other code. *)
MoveHead(c) ==
    /\ head' = c
    /\ UNCHANGED <<dryFile, dry, auth, journal, output, memory, remote>>

(* A run without --execute-paid-reopen-initial: the dry artifact is created *)
(* once; a crash before the fsync leaves a file that no reader can parse.   *)
DryRun(p) ==
    /\ pc[p] = "idle"
    /\ ~dryFile
    /\ dryFile' = TRUE
    /\ dry' \in {head, NoCommit}
    /\ Goto(p, "done")
    /\ UNCHANGED <<head, auth, journal, output, runHead, attempts, responses,
                   processed, cost, outcome, costStatus, remote>>

DryVerified(approved) == dryFile /\ dry = head /\ approved = dry

FreshPaths ==
    /\ output.status = "ABSENT"
    /\ auth.state = "ABSENT"
    /\ journal = <<>>

(* A paid run up to its freshness check; approved is the commit whose dry   *)
(* artifact hash the owner passed on the command line.                      *)
Preflight(p, approved) ==
    /\ pc[p] = "idle"
    /\ DryVerified(approved)
    /\ FreshPaths
    /\ runHead' = [runHead EXCEPT ![p] = head]
    /\ Goto(p, "cleared")
    /\ UNCHANGED <<files, attempts, responses, processed, cost, outcome,
                   costStatus, remote>>

(* Either run mode ends without a trace when one of its checks fails. *)
Refuse(p) ==
    /\ pc[p] = "idle"
    /\ Goto(p, "done")
    /\ UNCHANGED <<files, runHead, attempts, responses, processed, cost,
                   outcome, costStatus, remote>>

(* open("x") of the authorization: one of the processes that found the      *)
(* paths fresh creates it, the others get FileExistsError and return 2.     *)
OpenAuthorization(p) ==
    /\ pc[p] = "cleared"
    /\ \/ /\ ExclusiveCreate(auth.state)
          /\ auth' = [state |-> "TORN", by |-> p, head |-> runHead[p]]
          /\ Goto(p, "authOpen")
       \/ /\ ~ExclusiveCreate(auth.state)
          /\ Goto(p, "done")
          /\ UNCHANGED auth
    /\ UNCHANGED <<head, dryFile, dry, journal, output, runHead, attempts,
                   responses, processed, cost, outcome, costStatus, remote>>

SealAuthorization(p) ==
    /\ pc[p] = "authOpen"
    /\ auth' = [auth EXCEPT !.state = "WRITTEN"]
    /\ Goto(p, "sealed")
    /\ UNCHANGED <<head, dryFile, dry, journal, output, runHead, attempts,
                   responses, processed, cost, outcome, costStatus, remote>>

(* The key is looked for only now: without one load_openai_api_key raises,  *)
(* and the authorization is used up.                                        *)
LoadKey(p) ==
    /\ pc[p] = "sealed"
    /\ \E label \in {"loop", "keyMissing"} : Goto(p, label)
    /\ UNCHANGED <<files, runHead, attempts, responses, processed, cost,
                   outcome, costStatus, remote>>

(* The attempt event is durable before the request leaves. *)
AppendAttempt(p) ==
    /\ pc[p] = "loop"
    /\ attempts[p] < N
    /\ journal' = Append(journal, AttemptEvent(p, attempts[p] + 1))
    /\ attempts' = [attempts EXCEPT ![p] = @ + 1]
    /\ Goto(p, "attempted")
    /\ UNCHANGED <<head, dryFile, dry, auth, output, runHead, responses,
                   processed, cost, outcome, costStatus, remote>>

(* transport.post sends the request, once. *)
Post(p) ==
    /\ pc[p] = "attempted"
    /\ posts' = [posts EXCEPT ![attempts[p]] = @ + 1]
    /\ wire' = [wire EXCEPT ![p] = "sent"]
    /\ Goto(p, "waiting")
    /\ UNCHANGED <<files, runHead, attempts, responses, processed, cost,
                   outcome, costStatus, served, billed, reply>>

(* The provider executes and bills a request it has. *)
Serve(p, c) ==
    /\ wire[p] = "sent"
    /\ wire' = [wire EXCEPT ![p] = "served"]
    /\ served' = served \cup {attempts[p]}
    /\ billed' = billed + c
    /\ reply' = [reply EXCEPT ![p] = c]
    /\ UNCHANGED <<files, memory, posts>>

(* The answer arrives and is validated: an opinion, an answer with priced   *)
(* usage that fails validation, or an answer whose usage cannot be priced.  *)
Respond(p, o) ==
    /\ pc[p] = "waiting"
    /\ wire[p] = "served"
    /\ o # "UNKNOWN"
    /\ outcome' = [outcome EXCEPT ![p] = o]
    /\ responses' = [responses EXCEPT ![p] = @ + 1]
    /\ Goto(p, "resulted")
    /\ UNCHANGED <<files, runHead, attempts, processed, cost, costStatus, remote>>

\* mutant: a lost answer is retried with another POST
RetryLostAnswer(p) ==
    /\ pc[p] = "waiting"
    /\ Goto(p, "attempted")
    /\ UNCHANGED <<files, runHead, attempts, responses, processed, cost,
                   outcome, costStatus, remote>>

(* The transport raises (timeout, connection, HTTP error): the runner does  *)
(* not know whether the provider executed the request.                      *)
LoseAnswer(p) ==
    /\ pc[p] = "waiting"
    /\ outcome' = [outcome EXCEPT ![p] = "UNKNOWN"]
    /\ Goto(p, "resulted")
    /\ UNCHANGED <<files, runHead, attempts, responses, processed, cost,
                   costStatus, remote>>

\* mutant: the ceiling is not checked after a call
NoCeilingCheck(total) == FALSE

Breach(total) == total > Ceiling

\* mutant: a missing processed record does not stop the run
AnyAnswerPasses(o) == TRUE

Passed(o) == o = "VALID"

\* mutant: the loop is entered once too often
OneMoreCall(p) == IF attempts[p] <= N THEN "loop" ELSE "freezing"

AfterPass(p) == IF attempts[p] < N THEN "loop" ELSE "freezing"

(* The receipt is durable, then the three checks in the order of the code.  *)
AppendReceipt(p) ==
    LET o == outcome[p]
        costed == ReceiptCostStatus(o) = "COMPLETE"
        total == IF costed THEN cost[p] + reply[p] ELSE cost[p]
    IN  /\ pc[p] = "resulted"
        /\ journal' = Append(journal, Receipt(p, attempts[p], o))
        /\ cost' = [cost EXCEPT ![p] = total]
        /\ wire' = [wire EXCEPT ![p] = IF costed THEN "idle" ELSE @]
        /\ \/ /\ ~costed
              /\ costStatus' = [costStatus EXCEPT ![p] = ReceiptCostStatus(o)]
              /\ Goto(p, "blocking")
              /\ UNCHANGED processed
           \/ /\ costed /\ Breach(total)
              /\ costStatus' = [costStatus EXCEPT ![p] = "COMPLETE_COST_CEILING_BREACH"]
              /\ Goto(p, "blocking")
              /\ UNCHANGED processed
           \/ /\ costed /\ ~Breach(total) /\ ~Passed(o)
              /\ costStatus' = [costStatus EXCEPT ![p] = "COMPLETE"]
              /\ Goto(p, "blocking")
              /\ UNCHANGED processed
           \/ /\ costed /\ ~Breach(total) /\ Passed(o)
              /\ processed' = [processed EXCEPT ![p] = @ + 1]
              /\ Goto(p, AfterPass(p))
              /\ UNCHANGED costStatus
        /\ UNCHANGED <<head, dryFile, dry, auth, output, runHead, attempts,
                       responses, outcome, posts, served, billed, reply>>

(* The exact-N surface check and the checks of the freeze builder. *)
Freezable(p) ==
    /\ attempts[p] = N
    /\ responses[p] = N
    /\ processed[p] = N
    /\ cost[p] <= Ceiling

(* open("x") of the output, which exists as an empty file until the fsync. *)
OpenOutput(p, from, to) ==
    /\ pc[p] = from
    /\ \/ /\ ExclusiveCreate(output.status)
          /\ output' = TornOutput(p)
          /\ Goto(p, to)
       \/ /\ ~ExclusiveCreate(output.status)
          /\ Goto(p, "done")
          /\ UNCHANGED output
    /\ UNCHANGED <<head, dryFile, dry, auth, journal, runHead, attempts,
                   responses, processed, cost, outcome, costStatus, remote>>

OpenFreeze(p) == Freezable(p) /\ OpenOutput(p, "freezing", "freezeOpen")

(* The model names its opinions: if two of them have one identifier or one  *)
(* hash, the freeze builder raises, and all N calls have been paid for.     *)
RejectCouncil(p) ==
    /\ pc[p] = "freezing"
    /\ N > 1
    /\ Goto(p, "notUnique")
    /\ UNCHANGED <<files, runHead, attempts, responses, processed, cost,
                   outcome, costStatus, remote>>
OpenBlocked(p) == OpenOutput(p, "blocking", "blockOpen")

SealOutput(p) ==
    /\ \/ pc[p] = "freezeOpen" /\ output' = FreezeArtifact(p)
       \/ pc[p] = "blockOpen" /\ output' = BlockedArtifact(p)
    /\ Goto(p, "done")
    /\ UNCHANGED <<head, dryFile, dry, auth, journal, runHead, attempts,
                   responses, processed, cost, outcome, costStatus, remote>>

(* The process is killed, or an error of the operating system ends it. *)
Crash(p) ==
    /\ pc[p] \in Live
    /\ Goto(p, "dead")
    /\ UNCHANGED <<files, runHead, attempts, responses, processed, cost,
                   outcome, costStatus, remote>>

Step(p) ==
    \/ \E c \in Commits : Preflight(p, c)
    \/ OpenAuthorization(p)
    \/ SealAuthorization(p)
    \/ LoadKey(p)
    \/ AppendAttempt(p)
    \/ Post(p)
    \/ \E o \in Outcomes : Respond(p, o)
    \/ LoseAnswer(p)
    \/ AppendReceipt(p)
    \/ OpenFreeze(p)
    \/ RejectCouncil(p)
    \/ OpenBlocked(p)
    \/ SealOutput(p)

Next ==
    \/ \E c \in Commits : MoveHead(c)
    \/ \E p \in Procs : \/ DryRun(p)
                        \/ Refuse(p)
                        \/ Step(p)
                        \/ \E c \in Costs : Serve(p, c)
                        \/ Crash(p)

Spec == Init /\ [][Next]_vars

(* A process that runs keeps running; the transport has a 60 s timeout, so  *)
(* a call ends.  Nobody is bound to start a run, and the provider need not  *)
(* answer.                                                                  *)
Fairness == \A p \in Procs : WF_vars(pc[p] # "idle" /\ Step(p))

FairSpec == Spec /\ Fairness
-----------------------------------------------------------------------------
OutputStatuses == {"ABSENT", "TORN", "FROZEN", "BLOCKED"}

Event == [kind : {"ATTEMPT", "RECEIPT"}, by : Procs, item : Items,
          pass : BOOLEAN, costed : BOOLEAN]

Artifact == [status : OutputStatuses, by : Procs \cup {NoProc},
             attempts : Nat, responses : Nat, cost : Nat,
             costStatus : CostStatuses]

FilesTypeOK ==
    /\ head \in Commits
    /\ dryFile \in BOOLEAN
    /\ dry \in Commits \cup {NoCommit}
    /\ auth \in [state : {"ABSENT", "TORN", "WRITTEN"},
                 by : Procs \cup {NoProc}, head : Commits \cup {NoCommit}]
    /\ journal \in Seq(Event)
    /\ output \in Artifact

MemoryTypeOK ==
    /\ pc \in [Procs -> {"idle", "done", "dead"} \cup Live \cup Raised]
    /\ runHead \in [Procs -> Commits \cup {NoCommit}]
    /\ attempts \in [Procs -> 0..N]
    /\ responses \in [Procs -> Nat]
    /\ processed \in [Procs -> Nat]
    /\ cost \in [Procs -> Nat]
    /\ outcome \in [Procs -> Outcomes]
    /\ costStatus \in [Procs -> CostStatuses]

ProviderTypeOK ==
    /\ posts \in [Items -> Nat]
    /\ served \in SUBSET Items
    /\ billed \in Nat
    /\ wire \in [Procs -> {"idle", "sent", "served"}]
    /\ reply \in [Procs -> 0..MaxCost]
    /\ \A p \in Procs : wire[p] # "idle" => attempts[p] \in Items

(* Every variable has the values the code can give it. *)
TypeOK ==
    /\ FilesTypeOK
    /\ MemoryTypeOK
    /\ ProviderTypeOK
    /\ \A p \in Procs :
          pc[p] \in {"attempted", "waiting", "resulted"} => attempts[p] \in Items

(* However many processes run the script, crash and are started again, no   *)
(* planned call is POSTed twice.                                            *)
AtMostOncePerItem == \A i \in Items : posts[i] <= 1

(* Write-ahead: a call the provider may have received has its attempt event *)
(* in the journal, so a crash cannot hide a paid dispatch from recovery.    *)
DispatchIsJournaled ==
    \A i \in Items : posts[i] > 0 =>
        \E k \in 1..Len(journal) :
            journal[k].kind = "ATTEMPT" /\ journal[k].item = i

(* The authorization binds the code the owner saw dry-run, although HEAD    *)
(* may move between the check and the write, and between any two calls.     *)
AuthorizationBindsDryCode ==
    auth.state # "ABSENT" => auth.head = dry /\ auth.head \in Commits

(* ONE_B4_REOPEN_INITIAL_PRODUCTION_RUN: what is paid for was approved, for *)
(* this code, and is paid for once, with a record of it.                    *)
PaidAsApproved ==
    /\ AtMostOncePerItem
    /\ DispatchIsJournaled
    /\ AuthorizationBindsDryCode

(* The provider's bill never exceeds the approved ceiling by more than one  *)
(* call: the runner checks after each call and has no call of slack more.   *)
SpendBound == billed <= Ceiling + MaxCost

(* The Initial freeze barrier: a frozen artifact stands for N calls, each   *)
(* POSTed once and passed, in order, at the cost the provider billed.       *)
FrozenIsComplete ==
    output.status = "FROZEN" =>
        /\ \A i \in Items : posts[i] = 1
        /\ served = Items
        /\ Len(journal) = 2 * N
        /\ \A i \in Items : /\ journal[2 * i].kind = "RECEIPT"
                            /\ journal[2 * i].item = i
                            /\ journal[2 * i].pass
        /\ output.cost = billed
        /\ billed <= Ceiling

(* A blocked artifact never overstates the cost; one that calls its cost    *)
(* complete states it exactly, one that does not is short of at most the    *)
(* one call in doubt, whenever the provider executes that call.             *)
BlockedCostIsHonest ==
    output.status = "BLOCKED" =>
        /\ output.attempts > 0
        /\ output.cost <= billed
        /\ billed <= output.cost + MaxCost
        /\ output.costStatus \in {"COMPLETE", "COMPLETE_COST_CEILING_BREACH"}
               => output.cost = billed
        /\ output.costStatus = "COMPLETE_COST_CEILING_BREACH" <=> output.cost > Ceiling

(* Whatever the verdict says of the run is so. *)
VerdictIsHonest == FrozenIsComplete /\ BlockedCostIsHonest

OwnerAt(label) == \E p \in Procs : p = auth.by /\ pc[p] = label

(* An authorized run reaches a verdict.  Its approval is used up without    *)
(* one in three ways and no other: the process that was authorized is       *)
(* killed; it finds no key, and then nothing was sent or billed; or all N   *)
(* calls were executed and the opinions are not unique.                     *)
AuthorizedRunEnds ==
    (auth.state = "WRITTEN") ~>
        \/ output.status \in {"FROZEN", "BLOCKED"}
        \/ OwnerAt("dead")
        \/ OwnerAt("keyMissing") /\ journal = <<>> /\ billed = 0
        \/ OwnerAt("notUnique") /\ served = Items

(* The runner implements the one-shot contract. *)
OneShot == INSTANCE OneShotPaidRun WITH
    attempted <- (Len(journal) + 1) \div 2,
    served <- served,
    spent <- billed,
    verdict <- IF output.status \in {"FROZEN", "BLOCKED"}
               THEN output.status ELSE "NONE"

ImplementsOneShot == OneShot!Spec
=============================================================================
