-------------------------- MODULE DispatchLineage --------------------------
(***************************************************************************)
(* The post-research Initial dispatch and the two recoveries that followed *)
(* it, each with an owner approval, a ledger, a directory of raw responses *)
(* and a result of its own (the modules post_research_reopen_initial_...): *)
(*   "initial"  dispatches all N frozen requests;                          *)
(*   "recovery" does so again when the first request of "initial" was lost *)
(*              and nothing else was sent;                                 *)
(*   "resume"   reuses the answer to the first request that "recovery"     *)
(*              captured but refused, and dispatches the other N - 1.      *)
(* A ledger is replaced in place: truncated, then written.  Before each     *)
(* pass come files made once and never replaced, each at the commit then    *)
(* checked out: the frozen requests, the zero-call preflight, a readiness,  *)
(* the forensic record of the lost answer, the reconciliation of the        *)
(* refused one; and an owner approval that names a commit and a readiness.  *)
(***************************************************************************)
EXTENDS Naturals, Functions

CONSTANTS
    Procs,      \* invocations of the three executors
    Commits,    \* what may be checked out
    None,       \* no commit
    Saves,      \* the evidence B3 may have saved: [closed, articles]
    N,          \* EXPECTED_CALL_COUNT
    Bytes,      \* the size of each serialized request
    WriteRate,  \* the price of an input token at the cache-write rate
    OutputMax,  \* the price of max_output_tokens
    Overrun,    \* by how much a call may exceed its estimate
    Prices      \* the costs each request may turn out to have

Items == 1..N
Stages == {"initial", "recovery", "resume"}

ASSUME CallAssumption == N \in Nat \ {0, 1}
ASSUME NoneAssumption == None \notin Commits

(* One input token per byte of the request, every token at the highest      *)
(* input rate: estimated_max_cost_usd.                                      *)
Est == [i \in Items |-> Bytes[i] * WriteRate + OutputMax]

ASSUME PriceAssumption ==
    /\ Bytes \in [Items -> Nat] /\ WriteRate \in Nat /\ OutputMax \in Nat
    /\ Overrun \in Nat
    /\ Prices \in [Items -> SUBSET Nat]
    /\ \A i \in Items : \A c \in Prices[i] : c <= Est[i] + Overrun

VARIABLES
    ledger,     \* of each stage: [file, entries]
    raw,        \* captured responses: [file, cost] for each stage and item
    result,     \* of each stage: [file, cost]
    head,       \* the commit checked out
    saved,      \* the evidence B3 saved
    requests,   \* the cost preflight that freezes the N requests
    preflight,  \* the zero-call dispatch preflight
    forensic,   \* the failure-recovery preflight
    parity,     \* the gap parity of all N requests
    recon,      \* the reconciliation of the captured first response
    ready,      \* of each stage: [file, commit], its readiness
    approval,   \* of each stage: [commit, of], the owner's latest approval
    pc, then,   \* where an invocation is; where it goes after a ledger write
    code, stage, item, mem, total, got,     \* what it remembers
    posts, served, bill,    \* the provider, by stage and item
    spent       \* what the provider has charged for each stage

made   == <<head, saved, requests, preflight, forensic, parity, recon, ready, approval>>
files  == <<ledger, raw, result, made>>
memory == <<then, code, stage, item, mem, total, got>>
remote == <<posts, served, bill, spent>>
vars   == <<files, pc, memory, remote>>

Over == {"idle", "done", "dead"}
Live == {"create", "truncate", "write", "loop", "post", "waiting", "capture",
         "captureOpen", "validate", "result", "resultOpen"}

First(s) == IF s = "resume" THEN 2 ELSE 1
ItemsOf(s) == First(s)..N

(* The worst case of the requests from the i-th on; N + 1 is none.          *)
Cost[i \in 1..(N + 1)] == IF i = N + 1 THEN 0 ELSE Est[i] + Cost[i + 1]
Ceiling(s) == Cost[First(s)]

\* mutant: a state name the verifier of the ledger does not know
PendingEntry == [state |-> "PENDING", stop |-> "NONE", linked |-> FALSE]

NotDispatched == [state |-> "NOT_DISPATCHED", stop |-> "NONE", linked |-> FALSE]

FreshEntries == [i \in Items |-> NotDispatched]

Init ==
    /\ ledger = [s \in Stages |-> [file |-> "ABSENT", entries |-> FreshEntries]]
    /\ raw = [s \in Stages |-> [i \in Items |-> [file |-> "ABSENT", cost |-> 0]]]
    /\ result = [s \in Stages |-> [file |-> "ABSENT", cost |-> 0, code |-> None]]
    /\ head \in Commits /\ saved \in Saves
    /\ requests = "ABSENT" /\ preflight = "ABSENT" /\ forensic = "ABSENT"
    /\ parity = "ABSENT" /\ recon = "ABSENT"
    /\ ready = [s \in Stages |-> [file |-> "ABSENT", commit |-> None]]
    /\ approval = [s \in Stages |-> [commit |-> None, of |-> None]]
    /\ pc = [p \in Procs |-> "idle"]
    /\ then = [p \in Procs |-> "done"]
    /\ code = [p \in Procs |-> None]
    /\ stage = [p \in Procs |-> "initial"]
    /\ item = [p \in Procs |-> 1]
    /\ mem = [p \in Procs |-> FreshEntries]
    /\ total = [p \in Procs |-> 0]
    /\ got = [p \in Procs |-> 0]
    /\ posts = [s \in Stages |-> [i \in Items |-> 0]]
    /\ served = [s \in Stages |-> {}]
    /\ bill = [s \in Stages |-> [i \in Items |-> 0]]
    /\ spent = [s \in Stages |-> 0]

Goto(p, label) == pc' = [pc EXCEPT ![p] = label]

(* Persist entries e of p's ledger and go on at label. *)
Store(p, e, label) ==
    /\ mem' = [mem EXCEPT ![p] = e]
    /\ then' = [then EXCEPT ![p] = label]
    /\ Goto(p, "truncate")
-----------------------------------------------------------------------------
Ended(s) == \A p \in Procs : stage[p] = s => pc[p] \in Over
RawAbsent(s) == \A i \in Items : raw[s][i].file = "ABSENT"

(* forensic._verify_ledger: the first request was lost, no other was sent. *)
FirstRequestLost ==
    LET e == ledger["initial"].entries
    IN  /\ e[1].state = "UNKNOWN" /\ ~e[1].linked
        /\ \A i \in 2..N : e[i].state = "NOT_DISPATCHED"

(* The facts about the failed pass were pinned, by hash, after its terminal *)
(* error: its process had ended.                                            *)
NothingRecovered ==
    /\ ledger["initial"].file = "WRITTEN" /\ Ended("initial")
    /\ FirstRequestLost
    /\ RawAbsent("initial") /\ result["initial"].file = "ABSENT"

(* _historical_inputs: the forensic record exists and is still true. *)
RecoveryFacts ==
    /\ forensic = "WRITTEN" /\ NothingRecovered
    /\ result["recovery"].file = "ABSENT"

(* An exclusive file as its writer leaves it, perhaps dying meanwhile. *)
Published == {"TORN", "WRITTEN"}

Quiet == \A p \in Procs : pc[p] \in Over

(* Another commit is checked out, between two invocations. *)
CheckOut(c) ==
    /\ Quiet /\ c # head
    /\ head' = c
    /\ UNCHANGED <<ledger, raw, result, saved, requests, preflight, forensic, parity,
                   recon, ready, approval, pc, memory, remote>>

(* _materialize_saved_evidence: every requirement closed as the council may *)
(* use it, no article twice.                                                *)
Materialized ==
    /\ saved.closed
    /\ IsInjective(saved.articles)

(* verify_cost_preflight_for_dispatch: every later step reads the frozen set. *)
RequestsFrozen == requests = "WRITTEN"

(* The cost preflight freezes the requests of all candidates and lanes. *)
FreezeRequests ==
    /\ Quiet /\ requests = "ABSENT" /\ Materialized
    /\ requests' \in Published
    /\ UNCHANGED <<ledger, raw, result, head, saved, preflight, forensic, parity, recon,
                   ready, approval, pc, memory, remote>>

(* The first zero-call preflight; versions 0.2 to 0.4 are readiness. *)
DispatchPreflight ==
    /\ Quiet /\ RequestsFrozen
    /\ preflight = "ABSENT" /\ result["initial"].file = "ABSENT"
    /\ preflight' \in Published
    /\ UNCHANGED <<ledger, raw, result, head, saved, requests, forensic, parity, recon,
                   ready, approval, pc, memory, remote>>

ForensicPreflight ==
    /\ Quiet /\ RequestsFrozen
    /\ forensic = "ABSENT" /\ NothingRecovered
    /\ forensic' \in Published
    /\ UNCHANGED <<ledger, raw, result, head, saved, requests, preflight, parity, recon,
                   ready, approval, pc, memory, remote>>

InitialAdmissible == preflight = "WRITTEN" /\ result["initial"].file = "ABSENT"
ResumeAdmissible == parity = "WRITTEN" /\ recon = "WRITTEN"

Admissible(s) ==
    \/ s = "initial" /\ InitialAdmissible
    \/ s = "recovery" /\ RecoveryFacts
    \/ s = "resume" /\ ResumeAdmissible

(* Readiness is built once, at the commit then checked out. *)
GetReady(s) ==
    /\ Quiet /\ RequestsFrozen
    /\ ready[s].file = "ABSENT" /\ Admissible(s)
    /\ \E f \in Published :
           ready' = [ready EXCEPT ![s] = [file |-> f, commit |-> head]]
    /\ UNCHANGED <<ledger, raw, result, head, saved, requests, preflight, forensic, parity,
                   recon, approval, pc, memory, remote>>

(* The owner approves the commit checked out and the readiness in the file, *)
(* whether or not they go together.                                         *)
Approve(s) ==
    /\ Quiet /\ RequestsFrozen /\ ready[s].file = "WRITTEN"
    /\ approval' = [approval EXCEPT ![s] = [commit |-> head, of |-> ready[s].commit]]
    /\ UNCHANGED <<ledger, raw, result, head, saved, requests, preflight, forensic, parity,
                   recon, ready, pc, memory, remote>>

\* mutant: a readiness of any commit will do
AnyReadiness(s) == ready[s].file = "WRITTEN"

(* verify_readiness builds the readiness again, at HEAD. *)
ReadinessHolds(s) == ready[s] = [file |-> "WRITTEN", commit |-> head]

(* verify_owner_approval: for the code that runs and its readiness. *)
ApprovalHolds(s) == approval[s] = [commit |-> head, of |-> ready[s].commit]

InitialGate == ledger["initial"].file = "ABSENT" /\ result["initial"].file = "ABSENT"

RecoveryGate ==
    RecoveryFacts /\ ledger["recovery"].file = "ABSENT" /\ RawAbsent("recovery")

ResumeGate ==
    /\ ResumeAdmissible
    /\ ledger["resume"].file = "ABSENT" /\ result["resume"].file = "ABSENT"
    /\ RawAbsent("resume")

Gate(s) ==
    /\ ReadinessHolds(s) /\ ApprovalHolds(s)
    /\ \/ s = "initial" /\ InitialGate
       \/ s = "recovery" /\ RecoveryGate
       \/ s = "resume" /\ ResumeGate

(* An invocation that passes every gate of its executor. *)
Launch(p, s) ==
    /\ pc[p] \in Over
    /\ RequestsFrozen /\ Gate(s)
    /\ Goto(p, "create")
    /\ code' = [code EXCEPT ![p] = head]
    /\ stage' = [stage EXCEPT ![p] = s]
    /\ item' = [item EXCEPT ![p] = First(s)]
    /\ mem' = [mem EXCEPT ![p] = FreshEntries]
    /\ total' = [total EXCEPT ![p] = 0]
    /\ got' = [got EXCEPT ![p] = 0]
    /\ then' = [then EXCEPT ![p] = "loop"]
    /\ UNCHANGED <<files, remote>>

\* mutant: the new ledger replaces whatever is there
OverwritingCreate(p) ==
    /\ pc[p] = "create"
    /\ ledger' = [ledger EXCEPT ![stage[p]].file = "TORN"]
    /\ Goto(p, "write")
    /\ UNCHANGED <<raw, result, made, memory, remote>>

(* _write_exclusive of the ledger: of two invocations one gets the file. *)
CreateLedger(p) ==
    /\ pc[p] = "create"
    /\ IF ledger[stage[p]].file = "ABSENT"
       THEN /\ ledger' = [ledger EXCEPT ![stage[p]].file = "TORN"]
            /\ Goto(p, "write")
       ELSE /\ Goto(p, "done")
            /\ UNCHANGED ledger
    /\ UNCHANGED <<raw, result, made, memory, remote>>

(* _replace_durable: O_TRUNC first ... *)
TruncateLedger(p) ==
    /\ pc[p] = "truncate"
    /\ ledger' = [ledger EXCEPT ![stage[p]].file = "TORN"]
    /\ Goto(p, "write")
    /\ UNCHANGED <<raw, result, made, memory, remote>>

(* ... then the bytes, flushed and synced. *)
WriteLedger(p) ==
    /\ pc[p] = "write"
    /\ ledger' = [ledger EXCEPT ![stage[p]] = [file |-> "WRITTEN", entries |-> mem[p]]]
    /\ Goto(p, then[p])
    /\ UNCHANGED <<raw, result, made, memory, remote>>

\* mutant: the worst case of the remaining requests is not reserved
AlwaysFunded(p) == TRUE

(* Before a request the executor reserves the estimates of all that remain; *)
(* the resumed pass has no such check.                                      *)
Funded(p) ==
    stage[p] # "resume" => total[p] + Cost[item[p]] <= Ceiling(stage[p])

Announce(p) ==
    /\ pc[p] = "loop"
    /\ IF Funded(p)
       THEN Store(p, [mem[p] EXCEPT ![item[p]].state = "UNKNOWN"], "post")
       ELSE Goto(p, "done") /\ UNCHANGED <<mem, then>>
    /\ UNCHANGED <<files, code, stage, item, total, got, remote>>

Post(p) ==
    /\ pc[p] = "post"
    /\ posts' = [posts EXCEPT ![stage[p]][item[p]] = @ + 1]
    /\ Goto(p, "waiting")
    /\ UNCHANGED <<files, memory, served, bill, spent>>

(* The provider executes and bills a request, perhaps after the executor    *)
(* stopped waiting for it.                                                  *)
Serve(s, i, c) ==
    /\ posts[s][i] > 0 /\ i \notin served[s]
    /\ served' = [served EXCEPT ![s] = @ \cup {i}]
    /\ bill' = [bill EXCEPT ![s][i] = c]
    /\ spent' = [spent EXCEPT ![s] = @ + c]
    /\ UNCHANGED <<files, pc, memory, posts>>

(* The transport raises: a timeout, a lost connection, an error status. *)
LoseAnswer(p) ==
    /\ pc[p] = "waiting"
    /\ Store(p, [mem[p] EXCEPT ![item[p]].stop = "AMBIGUOUS"], "done")
    /\ UNCHANGED <<files, code, stage, item, total, got, remote>>

(* The answer cannot be made a capture; the executor just raises. *)
Unserializable(p) ==
    /\ pc[p] = "waiting"
    /\ item[p] \in served[stage[p]]
    /\ Goto(p, "done")
    /\ UNCHANGED <<files, memory, remote>>

Respond(p) ==
    /\ pc[p] = "waiting"
    /\ item[p] \in served[stage[p]]
    /\ got' = [got EXCEPT ![p] = bill[stage[p]][item[p]]]
    /\ Goto(p, "capture")
    /\ UNCHANGED <<files, then, code, stage, item, mem, total, remote>>

OpenCapture(p) ==
    /\ pc[p] = "capture"
    /\ IF raw[stage[p]][item[p]].file = "ABSENT"
       THEN /\ raw' = [raw EXCEPT ![stage[p]][item[p]].file = "TORN"]
            /\ Goto(p, "captureOpen")
       ELSE /\ Goto(p, "done")
            /\ UNCHANGED raw
    /\ UNCHANGED <<ledger, result, made, memory, remote>>

(* The capture is durable and the ledger is linked to it, still unknown. *)
SealCapture(p) ==
    /\ pc[p] = "captureOpen"
    /\ raw' = [raw EXCEPT ![stage[p]][item[p]] = [file |-> "WRITTEN", cost |-> got[p]]]
    /\ Store(p, [mem[p] EXCEPT ![item[p]].linked = TRUE], "validate")
    /\ UNCHANGED <<ledger, result, made, code, stage, item, total, got, remote>>

(* Validation or pricing of the captured answer fails. *)
Reject(p) ==
    /\ pc[p] = "validate"
    /\ Store(p, [mem[p] EXCEPT ![item[p]].stop = "NOT_ACCEPTED"], "done")
    /\ UNCHANGED <<files, code, stage, item, total, got, remote>>

(* The answer is accepted, unless it takes the pass over its ceiling: then  *)
(* the executor raises and leaves the entry unknown.                        *)
Accept(p) ==
    /\ pc[p] = "validate"
    /\ total' = [total EXCEPT ![p] = @ + got[p]]
    /\ IF total'[p] <= Ceiling(stage[p])
       THEN /\ item' = [item EXCEPT ![p] = @ + 1]
            /\ Store(p, [mem[p] EXCEPT ![item[p]].state = "COMPLETED"],
                     IF item[p] = N THEN "result" ELSE "loop")
       ELSE Goto(p, "done") /\ UNCHANGED <<item, mem, then>>
    /\ UNCHANGED <<files, code, stage, got, remote>>

OpenResult(p) ==
    /\ pc[p] = "result"
    /\ IF result[stage[p]].file = "ABSENT"
       THEN /\ result' = [result EXCEPT ![stage[p]].file = "TORN"]
            /\ Goto(p, "resultOpen")
       ELSE /\ Goto(p, "done")
            /\ UNCHANGED result
    /\ UNCHANGED <<ledger, raw, made, memory, remote>>

SealResult(p) ==
    /\ pc[p] = "resultOpen"
    /\ result' = [result EXCEPT ![stage[p]] = 
            [file |-> "WRITTEN", cost |-> total[p], code |-> code[p]]]
    /\ Goto(p, "done")
    /\ UNCHANGED <<ledger, raw, made, memory, remote>>

(* The parity and the reconciliation are written one after the other, each  *)
(* once: a script that dies in between cannot be run again.                 *)
WriteReconciliation ==
    /\ \/ parity' = "TORN" /\ recon' = recon
       \/ parity' = "WRITTEN" /\ recon' \in {recon, "TORN", "WRITTEN"}
    /\ UNCHANGED <<ledger, raw, result, head, saved, requests, preflight, forensic, ready,
                   approval, pc, memory, remote>>

(* reconcile_captured_response replays the capture of the refused first     *)
(* request through the repaired validator; no request is sent.              *)
Reconcile ==
    /\ Quiet /\ parity = "ABSENT"
    /\ ledger["recovery"].file = "WRITTEN"
    /\ ledger["recovery"].entries[1].stop = "NOT_ACCEPTED"
    /\ raw["recovery"][1].file = "WRITTEN"
    /\ WriteReconciliation

(* The process dies, or a write or the transport factory raises. *)
Crash(p) ==
    /\ pc[p] \in Live
    /\ Goto(p, "dead")
    /\ UNCHANGED <<files, memory, remote>>

Step(p) ==
    \/ CreateLedger(p)
    \/ TruncateLedger(p)
    \/ WriteLedger(p)
    \/ Announce(p)
    \/ Post(p)
    \/ LoseAnswer(p)
    \/ Unserializable(p)
    \/ Respond(p)
    \/ OpenCapture(p)
    \/ SealCapture(p)
    \/ Reject(p)
    \/ Accept(p)
    \/ OpenResult(p)
    \/ SealResult(p)

Next ==
    \/ \E p \in Procs : \/ \E s \in Stages : Launch(p, s)
                        \/ Step(p)
                        \/ Crash(p)
    \/ \E s \in Stages, i \in Items : \E c \in Prices[i] : Serve(s, i, c)
    \/ \E c \in Commits : CheckOut(c)
    \/ FreezeRequests
    \/ DispatchPreflight
    \/ ForensicPreflight
    \/ \E s \in Stages : GetReady(s) \/ Approve(s)
    \/ Reconcile

Spec == Init /\ [][Next]_vars
-----------------------------------------------------------------------------
EntryType == [state : {"NOT_DISPATCHED", "UNKNOWN", "COMPLETED"},
              stop : {"NONE", "AMBIGUOUS", "NOT_ACCEPTED"}, linked : BOOLEAN]
FileState == {"ABSENT", "TORN", "WRITTEN"}

Frozen(s) == result[s].file = "WRITTEN"

(* Every variable has the values the code can give it. *)
TypeOK ==
    /\ ledger \in [Stages -> [file : FileState, entries : [Items -> EntryType]]]
    /\ raw \in [Stages -> [Items -> [file : FileState, cost : Nat]]]
    /\ result \in [Stages -> [file : FileState, cost : Nat, code : Commits \cup {None}]]
    /\ head \in Commits /\ saved \in Saves
    /\ {requests, preflight, forensic, parity, recon} \subseteq FileState
    /\ ready \in [Stages -> [file : FileState, commit : Commits \cup {None}]]
    /\ approval \in [Stages -> [commit : Commits \cup {None}, of : Commits \cup {None}]]
    /\ pc \in [Procs -> Over \cup Live]
    /\ then \in [Procs -> {"loop", "post", "validate", "result", "done"}]
    /\ code \in [Procs -> Commits \cup {None}]
    /\ stage \in [Procs -> Stages]
    /\ item \in [Procs -> 1..(N + 1)]
    /\ mem \in [Procs -> [Items -> EntryType]]
    /\ total \in [Procs -> Nat] /\ got \in [Procs -> Nat]
    /\ posts \in [Stages -> [Items -> Nat]]
    /\ served \in [Stages -> SUBSET Items]
    /\ bill \in [Stages -> [Items -> Nat]] /\ spent \in [Stages -> Nat]

(* A request the provider may have received is never, in a readable ledger, *)
(* one that was not dispatched; and "no later validation or cost defect may *)
(* discard a provider response already paid for": a ledger that judges an   *)
(* answer has its capture.                                                  *)
LedgerKnows ==
    \A s \in Stages, i \in Items :
        LET e == ledger[s].entries[i]
        IN  /\ posts[s][i] > 0 /\ ledger[s].file = "WRITTEN" => e.state # "NOT_DISPATCHED"
            /\ e.state = "COMPLETED" \/ e.stop = "NOT_ACCEPTED" =>
                   raw[s][i] = [file |-> "WRITTEN", cost |-> bill[s][i]]

(* One approval buys one POST of each request, although invocations of the  *)
(* same executor may overlap and may die anywhere; over the whole lineage   *)
(* only the first request, whose answer was lost, is ever sent again        *)
(* (automatic_resend_permitted is false); and the ledger knows.             *)
PaidOnce ==
    /\ LedgerKnows
    /\ \A i \in Items :
           /\ \A s \in Stages : posts[s][i] <= 1
           /\ posts["initial"][i] + posts["recovery"][i] + posts["resume"][i]
                 <= IF i = 1 THEN 2 ELSE 1

(* Where the remaining worst case is reserved before each request, a bad    *)
(* estimate costs the overrun of one call and no more; and if no call costs *)
(* more than its estimate the whole lineage costs one pass and one first    *)
(* request at most (total_lineage_conservative_max_usd).                    *)
SpendIsBounded ==
    /\ \A s \in {"initial", "recovery"} : spent[s] <= Ceiling(s) + Overrun
    /\ (\A s \in Stages, i \in Items : bill[s][i] <= Est[i]) =>
          spent["initial"] + spent["recovery"] + spent["resume"] <= Cost[1] + Est[1]

(* A frozen result rests on N captured answers, one for each request, costs *)
(* no more than was approved, and was made by the code the owner approved;  *)
(* and the lineage freezes one council at most.                             *)
FrozenIsBacked ==
    \A s \in Stages : Frozen(s) =>
        /\ ledger[s].file = "WRITTEN"
        /\ \A i \in ItemsOf(s) : /\ ledger[s].entries[i].state = "COMPLETED"
                                 /\ raw[s][i].file = "WRITTEN"
        /\ s = "resume" => raw["recovery"][1].file = "WRITTEN"
        /\ result[s].cost <= Ceiling(s)
        /\ ready[s].commit = result[s].code
        /\ \A t \in Stages : Frozen(t) => s = t

(* A frozen result is backed so, and states what its pass cost. *)
FrozenIsAccountedFor ==
    /\ FrozenIsBacked
    /\ \A s \in Stages : Frozen(s) => result[s].cost = spent[s]
=============================================================================
