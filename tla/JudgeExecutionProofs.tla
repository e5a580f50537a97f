------------------------ MODULE JudgeExecutionProofs ------------------------
(***************************************************************************)
(* Proofs about JudgeExecution for any number of invocations, commits and  *)
(* crashes, and any costs.  The argument: the consumption is created       *)
(* exclusively, so one invocation at most is ever past its reservation;    *)
(* what it has done is a function of where it is; once it has left, the    *)
(* consumption, the capture and the answer do not change any more, so the  *)
(* recoveries all read the same refused WATCH; and one of them at most has *)
(* the recovered decision open.                                            *)
(***************************************************************************)
EXTENDS JudgeExecution, TLAPS

Writing == {"truncate", "write"}

(* Past the reservation, before the end. *)
Executing(p) ==
    pc[p] \in Writing \cup {"start", "send", "waiting", "capture", "captureOpen",
                            "validate", "result", "resultOpen", "complete"}

Recovering(p) ==
    pc[p] \in {"authority", "recovered", "recoveredOpen", "receipt", "receiptOpen"}

(* Until the consumption exists nothing was sent, captured or decided. *)
NothingBeforeReservation ==
    consumption.file = "ABSENT" =>
        /\ consumption.status = "NONE" /\ consumption.head = 0
        /\ posts = 0
        /\ raw = "ABSENT" /\ result = "ABSENT"
        /\ \A p \in Procs : ~Executing(p)

OneExecutor == \A p, q \in Procs : Executing(p) /\ Executing(q) => p = q

(* What the provider has executed, and what of it is on disk. *)
AnswerAndFiles ==
    /\ posts = IF wire = "idle" THEN 0 ELSE 1
    /\ raw # "ABSENT" => wire = "served"
    /\ result # "ABSENT" => raw = "WRITTEN" /\ Acceptable

(* The executor has not sent its request yet. *)
Unsent(p) ==
    \/ pc[p] \in {"start", "send"}
    \/ pc[p] \in Writing /\ then[p] \in {"start", "send"}

Captured(p) ==
    \/ pc[p] \in {"validate", "result", "resultOpen", "complete"}
    \/ /\ pc[p] \in Writing
       /\ status[p] \in {"CAPTURED", "NOT_ACCEPTED", "RESULT_FAILED", "COMPLETED"}

Decided(p) ==
    \/ pc[p] \in {"resultOpen", "complete"}
    \/ pc[p] \in Writing /\ status[p] \in {"RESULT_FAILED", "COMPLETED"}

(* Where the executor is tells what it has done and written. *)
Knows(p) ==
    /\ consumption.status \in {"NONE", "RESERVED", "STARTED_UNKNOWN", "CAPTURED"}
    /\ pc[p] = "send" => consumption.status # "RESERVED"
    /\ Unsent(p) => wire = "idle" /\ raw = "ABSENT"
    /\ ~Unsent(p) => wire # "idle" /\ consumption.status # "RESERVED"
    /\ pc[p] \in {"capture", "captureOpen"} => wire = "served"
    /\ Captured(p) => raw = "WRITTEN"
    /\ ~Decided(p) => result = "ABSENT"
    /\ pc[p] \in {"result", "resultOpen", "complete"} => Acceptable
    /\ pc[p] = "complete" => result = "WRITTEN"
    /\ pc[p] \in Writing =>
          /\ status[p] = "COMPLETED" => result = "WRITTEN"
          /\ status[p] = "RESERVED" => then[p] = "start"
          /\ then[p] # "done" =>
                <<status[p], then[p]>> \in {<<"RESERVED", "start">>,
                    <<"STARTED_UNKNOWN", "send">>, <<"CAPTURED", "validate">>}

ExecutorKnows == \A p \in Procs : Executing(p) => Knows(p)

(* The consumption says the answer was refused and nothing was decided, and *)
(* the captured answer is a WATCH that reopens research.                    *)
Settled ==
    /\ consumption.file = "WRITTEN" /\ consumption.status = "NOT_ACCEPTED"
    /\ raw = "WRITTEN" /\ result = "ABSENT"
    /\ answer = "WATCH_REOPEN" /\ spent <= Ceiling

(* What a recovery has read stays so, and one of them at most has the       *)
(* recovered decision open.                                                 *)
RecoveryKnows ==
    /\ recovered.file # "ABSENT" => Settled
    /\ \A p \in Procs : Recovering(p) => Settled
    /\ \A p \in Procs : pc[p] = "recoveredOpen" =>
          /\ recovered.file = "TORN"
          /\ \A q \in Procs : pc[q] = "recoveredOpen" => p = q
    /\ \A p \in Procs : pc[p] \in {"receipt", "receiptOpen"} =>
          recovered = [file |-> "WRITTEN", head |-> seen[p]]
    /\ ReceiptMatchesDecision

(* The commit h has its gate and both approvals, for the pinned request. *)
AuthorizedAt(h) ==
    /\ gates[h] = "ELIGIBLE"
    /\ activation = h
    /\ paid = [gate |-> h, activation |-> activation, later |-> TRUE]
    /\ Builds[h].request = ProspectiveRequest

(* What a prepared invocation has read of the documents stays so. *)
AuthorityKept ==
    /\ \A p \in Procs : pc[p] \in {"check", "reserve"} \/ Executing(p)
          => AuthorizedAt(seen[p])
    /\ CallIsAuthorized

IInv ==
    /\ TypeOK
    /\ NothingBeforeReservation
    /\ OneExecutor
    /\ AnswerAndFiles
    /\ ExecutorKnows
    /\ ConsumptionIsHonest
    /\ RecoveryKnows
    /\ AuthorityKept
-----------------------------------------------------------------------------
(* The documents of the authority keep their types, whoever writes them. *)
LEMMA AuthorityTypeNext ==
  ASSUME AuthorityTypeOK, Checkout \/ Push \/ Authorize
  PROVE  AuthorityTypeOK'
<1> USE BuildsAssumption DEF AuthorityTypeOK, Heads, CanonicalHead
<1>1. CASE Checkout
  BY <1>1 DEF Checkout, documents, approvals
<1>2. CASE Push
  BY <1>2 DEF Push, tree, documents, approvals
<1>3. CASE BuildLineage \/ BuildPreflight
  BY <1>3 DEF BuildLineage, BuildPreflight, tree, approvals
<1>4. CASE BuildGate
  BY <1>4 DEF BuildGate, GateNow, tree, approvals
<1>5. CASE Activate
  BY <1>5 DEF Activate, tree, documents
<1>6. CASE ApprovePayment
  BY <1>6 DEF ApprovePayment, tree, documents
<1> QED
  BY <1>1, <1>2, <1>3, <1>4, <1>5, <1>6 DEF Authorize

(* Every variable keeps the values the code can give it. *)
LEMMA TypeInit == Init => TypeOK
<1> SUFFICES ASSUME Init
             PROVE  TypeOK
  OBVIOUS
<1> USE BuildsAssumption, MoneyAssumption, CrashAssumption
<1>1. AuthorityTypeOK
  BY DEF Init, AuthorityInit, AuthorityTypeOK, Heads, CanonicalHead, NoApproval
<1> QED
  BY <1>1 DEF Init, TypeOK, NoFile, FileState, StatusType, StopType, Over, Answers

(* Every step keeps the types. *)
LEMMA TypeNext == TypeOK /\ [Next]_vars => TypeOK'
<1> SUFFICES ASSUME TypeOK, [Next]_vars
             PROVE  TypeOK'
  OBVIOUS
<1> USE BuildsAssumption, MoneyAssumption, CrashAssumption DEF TypeOK
<1>a. ASSUME UNCHANGED <<head, canonical, remote, lineage, preflight, gates,
                         activation, paid>>
      PROVE  AuthorityTypeOK'
  BY <1>a DEF AuthorityTypeOK
<1>b. head \in Heads
  BY DEF AuthorityTypeOK
<1> USE DEF authority, tree, documents, approvals, files, memory, provider, Goto,
            Update, FileState, StatusType, StopType, Over, Live
<1>1. ASSUME NEW p \in Procs, Prepare(p)
      PROVE  TypeOK'
  BY <1>a, <1>b, <1>1 DEF Prepare
<1>2. ASSUME NEW p \in Procs, Check(p)
      PROVE  TypeOK'
  BY <1>a, <1>b, <1>2 DEF Check
<1>3. ASSUME NEW p \in Procs, Reserve(p)
      PROVE  TypeOK'
  BY <1>a, <1>b, <1>3 DEF Reserve
<1>4. ASSUME NEW p \in Procs, Truncate(p)
      PROVE  TypeOK'
  BY <1>a, <1>b, <1>4 DEF Truncate
<1>5. ASSUME NEW p \in Procs, Write(p)
      PROVE  TypeOK'
  BY <1>a, <1>b, <1>5 DEF Write
<1>6. ASSUME NEW p \in Procs, Start(p)
      PROVE  TypeOK'
  BY <1>a, <1>b, <1>6 DEF Start
<1>7. ASSUME NEW p \in Procs, Send(p)
      PROVE  TypeOK'
  BY <1>a, <1>b, <1>7 DEF Send
<1>8. ASSUME NEW p \in Procs, LoseAnswer(p)
      PROVE  TypeOK'
  BY <1>a, <1>b, <1>8 DEF LoseAnswer
<1>9. ASSUME NEW p \in Procs, Respond(p)
      PROVE  TypeOK'
  BY <1>a, <1>b, <1>9 DEF Respond
<1>10. ASSUME NEW p \in Procs, OpenCapture(p)
      PROVE  TypeOK'
  BY <1>a, <1>b, <1>10 DEF OpenCapture
<1>11. ASSUME NEW p \in Procs, SealCapture(p)
      PROVE  TypeOK'
  BY <1>a, <1>b, <1>11 DEF SealCapture
<1>12. ASSUME NEW p \in Procs, CaptureFails(p)
      PROVE  TypeOK'
  BY <1>a, <1>b, <1>12 DEF CaptureFails
<1>13. ASSUME NEW p \in Procs, Reject(p)
      PROVE  TypeOK'
  BY <1>a, <1>b, <1>13 DEF Reject
<1>14. ASSUME NEW p \in Procs, Accept(p)
      PROVE  TypeOK'
  BY <1>a, <1>b, <1>14 DEF Accept
<1>15. ASSUME NEW p \in Procs, OpenResult(p)
      PROVE  TypeOK'
  BY <1>a, <1>b, <1>15 DEF OpenResult
<1>16. ASSUME NEW p \in Procs, SealResult(p)
      PROVE  TypeOK'
  BY <1>a, <1>b, <1>16 DEF SealResult
<1>17. ASSUME NEW p \in Procs, ResultFails(p)
      PROVE  TypeOK'
  BY <1>a, <1>b, <1>17 DEF ResultFails
<1>18. ASSUME NEW p \in Procs, Complete(p)
      PROVE  TypeOK'
  BY <1>a, <1>b, <1>18 DEF Complete
<1>19. ASSUME NEW p \in Procs, BeginRecovery(p)
      PROVE  TypeOK'
  BY <1>a, <1>b, <1>19 DEF BeginRecovery
<1>20. ASSUME NEW p \in Procs, RequireWriteAuthority(p)
      PROVE  TypeOK'
  BY <1>a, <1>b, <1>20 DEF RequireWriteAuthority
<1>21. ASSUME NEW p \in Procs, PersistRecovered(p)
      PROVE  TypeOK'
  BY <1>a, <1>b, <1>21 DEF PersistRecovered, PersistOrVerify
<1>22. ASSUME NEW p \in Procs, SealRecovered(p)
      PROVE  TypeOK'
  BY <1>a, <1>b, <1>22 DEF SealRecovered
<1>23. ASSUME NEW p \in Procs, PersistReceipt(p)
      PROVE  TypeOK'
  BY <1>a, <1>b, <1>23 DEF PersistReceipt, PersistOrVerify
<1>24. ASSUME NEW p \in Procs, SealReceipt(p)
      PROVE  TypeOK'
  BY <1>a, <1>b, <1>24 DEF SealReceipt
<1>25. ASSUME NEW p \in Procs, Crash(p)
      PROVE  TypeOK'
  BY <1>a, <1>b, <1>25 DEF Crash
<1>26. ASSUME NEW a \in Answers, NEW c \in Costs, Serve(a, c)
      PROVE  TypeOK'
  <2>1. c \in Nat
    <3>1. c \in 0..MaxCost /\ MaxCost \in Nat
      OBVIOUS
    <3> QED
      BY <3>1
  <2> QED
    BY <1>a, <1>26, <2>1 DEF Serve
<1>27. CASE ((Checkout \/ Push) /\ UNCHANGED <<files, memory, provider, crashes>>) \/ PrepareAuthority
  <2>1. AuthorityTypeOK'
    BY <1>27, AuthorityTypeNext DEF PrepareAuthority
  <2> QED
    BY <1>27, <2>1 DEF PrepareAuthority
<1>28. CASE UNCHANGED vars
  BY <1>a, <1>28 DEF vars
<1> QED
  BY <1>1, <1>2, <1>3, <1>4, <1>5, <1>6, <1>7, <1>8, <1>9, <1>10, <1>11, <1>12, <1>13,
       <1>14, <1>15, <1>16, <1>17, <1>18, <1>19, <1>20, <1>21, <1>22, <1>23, <1>24,
       <1>25, <1>26, <1>27, <1>28
     DEF Next, Execute, Recover

(* The type invariant of the executor and of the recovery. *)
THEOREM TypeCorrect == Spec => []TypeOK
BY TypeInit, TypeNext, PTL DEF Spec
-----------------------------------------------------------------------------
(* Before the reservation all of it holds trivially. *)
LEMMA IndInit == Init => IInv
<1> SUFFICES ASSUME Init
             PROVE  IInv
  OBVIOUS
<1>1. TypeOK
  BY TypeInit
<1>2. \A p \in Procs : ~Executing(p) /\ ~Recovering(p) /\ pc[p] = "idle"
  BY DEF Init, Executing, Recovering, Writing
<1>3. NothingBeforeReservation /\ OneExecutor /\ AnswerAndFiles /\ ExecutorKnows
  BY <1>2 DEF Init, NothingBeforeReservation, OneExecutor, AnswerAndFiles,
       ExecutorKnows, Knows
<1>4. ConsumptionIsHonest /\ RecoveryKnows /\ AuthorityKept
  BY <1>2 DEF Init, NoFile, ConsumptionIsHonest, RecoveryKnows, ReceiptMatchesDecision,
              AuthorityKept, CallIsAuthorized
<1> QED
  BY <1>1, <1>3, <1>4 DEF IInv

(* Nobody but p is where only one may be, and what p does leaves the        *)
(* authority, the answer and the recovery alone.                            *)
ExecutorStep(p) ==
    /\ Executing(p)
    /\ UNCHANGED <<authority, recovered, receipt, seen>>
    /\ \A q \in Procs : q # p =>
          pc'[q] = pc[q] /\ status'[q] = status[q] /\ then'[q] = then[q]
    /\ Executing(p)' \/ pc'[p] \in Over
    /\ consumption'.file # "ABSENT"
    /\ consumption'.head \in {consumption.head, seen[p]}

(* A step of the one executor disturbs neither the authority nor a recovery.*)
LEMMA ExecutorAlone ==
  ASSUME IInv, NEW p \in Procs, ExecutorStep(p)
  PROVE  /\ NothingBeforeReservation' /\ OneExecutor' /\ RecoveryKnows' /\ AuthorityKept'
         /\ \A q \in Procs : q # p => ~Executing(q)'
<1> USE DEF IInv, ExecutorStep, Over
<1>1. \A q \in Procs : q # p => ~Executing(q) /\ ~Executing(q)'
  BY DEF OneExecutor, Executing
<1>2. ~Settled
  BY DEF ExecutorKnows, Knows, Settled
<1>3. recovered.file = "ABSENT" /\ receipt.file = "ABSENT" /\ \A q \in Procs : ~Recovering(q)
  BY <1>2 DEF RecoveryKnows, ReceiptMatchesDecision
<1>4. \A q \in Procs : ~Recovering(q)'
  BY <1>3 DEF Recovering, Executing, Writing
<1>5. RecoveryKnows'
  BY <1>3, <1>4 DEF RecoveryKnows, ReceiptMatchesDecision, Recovering
<1>6. \A h : AuthorizedAt(h)' <=> AuthorizedAt(h)
  BY DEF AuthorizedAt, authority, documents, approvals
<1>7. AuthorityKept'
  <2>1. AuthorizedAt(seen[p])
    BY DEF AuthorityKept
  <2>2. CallIsAuthorized'
    BY <1>6, <2>1 DEF AuthorityKept, CallIsAuthorized, AuthorizedAt, authority,
         documents, approvals
  <2>3. \A q \in Procs : pc'[q] \in {"check", "reserve"} \/ Executing(q)'
          => AuthorizedAt(seen[q])
    BY <1>1, <2>1 DEF AuthorityKept, Executing, Writing
  <2> QED
    BY <1>6, <2>2, <2>3 DEF AuthorityKept
<1>8. NothingBeforeReservation' /\ OneExecutor'
  BY <1>1 DEF NothingBeforeReservation, OneExecutor
<1> QED
  BY <1>1, <1>5, <1>7, <1>8

(* A process that is not executing, before or after, and writes no file:    *)
(* only what a recovery or a prepared invocation relies on is at stake.     *)
LEMMA Elsewhere ==
  ASSUME IInv, NEW p \in Procs, ~Executing(p), ~Executing(p)',
         UNCHANGED <<authority, files, provider>>,
         \A q \in Procs : q # p =>
            /\ pc'[q] = pc[q] /\ status'[q] = status[q] /\ then'[q] = then[q]
            /\ seen'[q] = seen[q],
         pc'[p] \in {"check", "reserve"} => AuthorizedAt(seen'[p]),
         Recovering(p)' => Settled,
         pc'[p] # "recoveredOpen",
         pc'[p] \in {"receipt", "receiptOpen"} =>
            recovered = [file |-> "WRITTEN", head |-> seen'[p]]
  PROVE  /\ NothingBeforeReservation' /\ OneExecutor' /\ AnswerAndFiles' /\ ExecutorKnows'
         /\ ConsumptionIsHonest' /\ RecoveryKnows' /\ AuthorityKept'
<1> USE DEF IInv, files, provider
<1>1. \A q \in Procs : Executing(q)' => Executing(q) /\ q # p
  BY DEF Executing
<1>2. Settled' <=> Settled
  BY DEF Settled
<1>3. NothingBeforeReservation' /\ OneExecutor'
  BY <1>1 DEF NothingBeforeReservation, OneExecutor
<1>4. AnswerAndFiles' /\ ConsumptionIsHonest'
  BY DEF AnswerAndFiles, Acceptable, ConsumptionIsHonest
<1>5. ExecutorKnows'
  <2>1. ASSUME NEW q \in Procs, Executing(q)'
        PROVE  Knows(q)'
    <3>1. q # p /\ Knows(q)
      BY <1>1, <2>1 DEF ExecutorKnows
    <3> QED
      BY <3>1 DEF Knows, Unsent, Captured, Decided, Acceptable
  <2> QED
    BY <2>1 DEF ExecutorKnows
<1>6. RecoveryKnows'
  <2>1. \A q \in Procs : Recovering(q)' => Settled
    BY DEF RecoveryKnows, Recovering
  <2>2. \A q \in Procs : pc'[q] = "recoveredOpen" => q # p /\ pc[q] = "recoveredOpen"
    OBVIOUS
  <2>3. \A q \in Procs : pc'[q] \in {"receipt", "receiptOpen"} =>
          recovered = [file |-> "WRITTEN", head |-> seen'[q]]
    BY DEF RecoveryKnows
  <2> QED
    BY <1>2, <2>1, <2>2, <2>3 DEF RecoveryKnows, ReceiptMatchesDecision
<1>7. \A h : AuthorizedAt(h)' <=> AuthorizedAt(h)
  BY DEF AuthorizedAt, authority, documents, approvals
<1>8. AuthorityKept'
  <2>1. CallIsAuthorized'
    BY DEF AuthorityKept, CallIsAuthorized, authority, documents, approvals
  <2>2. \A q \in Procs : pc'[q] \in {"check", "reserve"} \/ Executing(q)'
          => AuthorizedAt(seen'[q])
    BY <1>1 DEF AuthorityKept
  <2> QED
    BY <1>7, <2>1, <2>2 DEF AuthorityKept
<1> QED
  BY <1>3, <1>4, <1>5, <1>6, <1>8

(* A recovery changes only its two artifacts: the executor is over. *)
LEMMA RecoveryAlone ==
  ASSUME IInv, NEW p \in Procs, Recovering(p), ~Executing(p)',
         pc'[p] \notin {"check", "reserve"},
         UNCHANGED <<authority, consumption, raw, result, status, stop, then, seen, provider>>,
         \A q \in Procs : q # p => pc'[q] = pc[q]
  PROVE  /\ NothingBeforeReservation' /\ OneExecutor' /\ AnswerAndFiles' /\ ExecutorKnows'
         /\ ConsumptionIsHonest' /\ AuthorityKept' /\ Settled /\ Settled'
<1> USE DEF IInv, provider
<1>1. Settled /\ Settled'
  BY DEF RecoveryKnows, Settled
<1>2. \A q \in Procs : ~Executing(q) /\ ~Executing(q)'
  BY <1>1 DEF ExecutorKnows, Knows, Settled, Executing
<1>3. NothingBeforeReservation' /\ OneExecutor' /\ ExecutorKnows'
  BY <1>2 DEF NothingBeforeReservation, OneExecutor, ExecutorKnows, Knows
<1>4. AnswerAndFiles' /\ ConsumptionIsHonest'
  BY DEF AnswerAndFiles, Acceptable, ConsumptionIsHonest
<1>5. \A h : AuthorizedAt(h)' <=> AuthorizedAt(h)
  BY DEF AuthorizedAt, authority, documents, approvals
<1>6. AuthorityKept'
  BY <1>2, <1>5 DEF AuthorityKept, CallIsAuthorized, authority, documents, approvals
<1> QED
  BY <1>1, <1>3, <1>4, <1>6

(* The consumption is rewritten in place: first emptied, keeping its fields.*)
LEMMA Torn ==
  ASSUME TypeOK, consumption' = [consumption EXCEPT !.file = "TORN"]
  PROVE  /\ consumption'.file = "TORN"
         /\ consumption'.status = consumption.status
         /\ consumption'.head = consumption.head
BY DEF TypeOK

(* An _update_consumption that is about to begin. *)
LEMMA Updating ==
  ASSUME TypeOK, NEW p \in Procs, NEW s, NEW r, NEW l, Update(p, s, r, l)
  PROVE  /\ pc' = [pc EXCEPT ![p] = "truncate"]
         /\ pc'[p] = "truncate" /\ status'[p] = s /\ then'[p] = l
         /\ \A q \in Procs : q # p =>
               pc'[q] = pc[q] /\ status'[q] = status[q] /\ then'[q] = then[q]
BY DEF TypeOK, Update, Goto

(* Each step preserves the invariant. *)
LEMMA IndNext == IInv /\ [Next]_vars => IInv'
<1> SUFFICES ASSUME IInv, [Next]_vars
             PROVE  IInv'
  OBVIOUS
<1>t. TypeOK /\ TypeOK'
  BY TypeNext DEF IInv
<1> DEFINE Kept == /\ NothingBeforeReservation /\ OneExecutor /\ AnswerAndFiles
                   /\ ExecutorKnows /\ ConsumptionIsHonest /\ RecoveryKnows
                   /\ AuthorityKept
<1> SUFFICES Kept'
  BY <1>t DEF IInv
<1> USE MoneyAssumption DEF IInv
<1>p. pc \in [Procs -> Over \cup Live] /\ status \in [Procs -> StatusType]
      /\ then \in [Procs -> {"start", "send", "validate", "result", "done"}]
      /\ seen \in [Procs -> Heads \cup {0}] /\ posts \in Nat /\ spent \in Nat
  BY <1>t DEF TypeOK
(* Steps of a process that is not executing. *)
<1>1. ASSUME NEW p \in Procs, Prepare(p)
      PROVE  Kept'
  <2>1. ~Executing(p) /\ ~Executing(p)' /\ ~Recovering(p)' /\ pc'[p] = "check"
    BY <1>1, <1>p DEF Prepare, Goto, Executing, Recovering, Writing, Over
  <2>2. AuthorizedAt(seen'[p])
    <3>1. paid = [gate |-> head, activation |-> activation, later |-> TRUE]
      BY <1>1, <1>t DEF Prepare, Authorized, AuthorityPair, VerifyPaid, TypeOK,
           AuthorityTypeOK
    <3>2. seen'[p] = head
      BY <1>1, <1>p DEF Prepare
    <3> QED
      BY <1>1, <3>1, <3>2 DEF Prepare, Authorized, AuthorityPair, VerifyGate,
              VerifyActivation, SourceReadiness, Request, AuthorizedAt
  <2>3. \A q \in Procs : q # p =>
            /\ pc'[q] = pc[q] /\ status'[q] = status[q] /\ then'[q] = then[q]
            /\ seen'[q] = seen[q]
    BY <1>1, <1>p DEF Prepare, Goto
  <2> QED
    BY <1>1, <2>1, <2>2, <2>3, Elsewhere DEF Prepare
<1>2. ASSUME NEW p \in Procs, Check(p)
      PROVE  Kept'
  <2>1. pc'[p] \in {"reserve", "done"} /\ \A q \in Procs : q # p => pc'[q] = pc[q]
    BY <1>2, <1>p DEF Check, Goto
  <2>2. ~Executing(p) /\ ~Executing(p)' /\ ~Recovering(p)'
    BY <1>2, <2>1 DEF Check, Executing, Recovering, Writing
  <2>3. AuthorizedAt(seen[p])
    BY <1>2 DEF Check, AuthorityKept
  <2> QED
    BY <1>2, <2>1, <2>2, <2>3, Elsewhere DEF Check
<1>3. ASSUME NEW p \in Procs, Reserve(p)
      PROVE  Kept'
  <2>1. CASE consumption.file # "ABSENT"
    <3>1. pc'[p] = "done" /\ \A q \in Procs : q # p => pc'[q] = pc[q]
      BY <1>3, <1>p, <2>1 DEF Reserve, Goto
    <3>2. ~Executing(p) /\ ~Executing(p)' /\ ~Recovering(p)'
      BY <1>3, <3>1 DEF Reserve, Executing, Recovering, Writing
    <3> QED
      BY <1>3, <2>1, <3>1, <3>2, Elsewhere DEF Reserve, files
  <2>2. CASE consumption.file = "ABSENT"
    <3>1. /\ consumption'.file = "TORN" /\ consumption'.status = consumption.status
          /\ consumption'.head = consumption.head
      BY <1>3, <1>t, <2>2, Torn DEF Reserve
    <3>2. /\ pc[p] = "reserve" /\ pc'[p] = "write"
          /\ status'[p] = "RESERVED" /\ then'[p] = "start"
          /\ \A q \in Procs : q # p =>
               pc'[q] = pc[q] /\ status'[q] = status[q] /\ then'[q] = then[q]
          /\ UNCHANGED <<authority, raw, result, recovered, receipt, stop, seen, provider>>
      BY <1>3, <1>p, <2>2 DEF Reserve, Goto
    <3>3. consumption.head = 0 /\ posts = 0 /\ raw = "ABSENT" /\ result = "ABSENT"
          /\ \A q \in Procs : ~Executing(q)
      BY <2>2 DEF NothingBeforeReservation
    <3>4. \A q \in Procs : q # p => ~Executing(q)'
      BY <3>2, <3>3 DEF Executing
    <3>5. ~Settled /\ recovered.file = "ABSENT" /\ receipt.file = "ABSENT"
          /\ \A q \in Procs : ~Recovering(q)
      BY <2>2 DEF Settled, RecoveryKnows, ReceiptMatchesDecision
    <3>6. \A q \in Procs : ~Recovering(q)'
      BY <3>2, <3>5 DEF Recovering
    <3>7. RecoveryKnows'
      BY <3>2, <3>5, <3>6 DEF RecoveryKnows, ReceiptMatchesDecision, Recovering
    <3>8. AuthorityKept'
      <4>1. \A h : AuthorizedAt(h)' <=> AuthorizedAt(h)
        BY <3>2 DEF AuthorizedAt, authority, documents, approvals
      <4>2. \A q \in Procs : pc'[q] \in {"check", "reserve"} \/ Executing(q)'
              => pc[q] \in {"check", "reserve"}
        BY <3>2, <3>4 DEF Executing
      <4>3. CallIsAuthorized'
        BY <3>1, <3>3 DEF CallIsAuthorized
      <4> QED
        BY <3>2, <4>1, <4>2, <4>3 DEF AuthorityKept
    <3>9. NothingBeforeReservation' /\ OneExecutor' /\ ConsumptionIsHonest'
      BY <3>1, <3>4 DEF NothingBeforeReservation, OneExecutor, ConsumptionIsHonest
    <3>10. AnswerAndFiles' /\ wire = "idle"
      BY <3>2, <3>3 DEF AnswerAndFiles, Acceptable, provider
    <3>11. ExecutorKnows'
      <4>1. Unsent(p)' /\ ~Captured(p)' /\ ~Decided(p)'
        BY <3>2 DEF Unsent, Captured, Decided, Writing
      <4>2. consumption.status = "NONE"
        BY <1>3, <2>2 DEF NothingBeforeReservation
      <4> QED
        BY <3>1, <3>2, <3>3, <3>4, <3>10, <4>1, <4>2 DEF ExecutorKnows, Knows, provider
    <3> QED
      BY <3>7, <3>8, <3>9, <3>10, <3>11
  <2> QED
    BY <2>1, <2>2
(* Steps of the executor: what is left to show of each is what p knows. *)
<1>e. ASSUME NEW p \in Procs, ExecutorStep(p), Executing(p)' => Knows(p)',
             AnswerAndFiles', ConsumptionIsHonest'
      PROVE  Kept'
  BY <1>e, ExecutorAlone DEF ExecutorKnows
<1>u. ASSUME NEW p \in Procs, NEW s, NEW r, NEW l, Executing(p), Update(p, s, r, l),
             UNCHANGED <<authority, files, seen, provider>>,
             Unsent(p)' <=> Unsent(p),
             Captured(p)' => Captured(p),
             Decided(p) => Decided(p)',
             s = "COMPLETED" => result = "WRITTEN",
             s = "RESERVED" => l = "start",
             l # "done" => <<s, l>> \in {<<"RESERVED", "start">>,
                              <<"STARTED_UNKNOWN", "send">>, <<"CAPTURED", "validate">>}
      PROVE  Kept'
  <2>1. /\ pc'[p] = "truncate" /\ status'[p] = s /\ then'[p] = l
        /\ \A q \in Procs : q # p =>
              pc'[q] = pc[q] /\ status'[q] = status[q] /\ then'[q] = then[q]
    BY <1>t, <1>u, Updating
  <2>2. Executing(p)' /\ consumption.file # "ABSENT" /\ Knows(p)
    BY <1>u, <2>1 DEF Executing, Writing, NothingBeforeReservation, ExecutorKnows
  <2>3. ExecutorStep(p)
    BY <1>u, <2>1, <2>2 DEF ExecutorStep, files
  <2>4. Knows(p)'
    BY <1>u, <2>1, <2>2 DEF Knows, files, provider
  <2>5. AnswerAndFiles' /\ ConsumptionIsHonest'
    BY <1>u DEF AnswerAndFiles, Acceptable, ConsumptionIsHonest, files, provider
  <2> QED
    BY <1>e, <2>3, <2>4, <2>5
<1>4. ASSUME NEW p \in Procs, Truncate(p)
      PROVE  Kept'
  <2>1. /\ consumption'.file = "TORN" /\ consumption'.status = consumption.status
        /\ consumption'.head = consumption.head
    BY <1>4, <1>t, Torn DEF Truncate
  <2>2. /\ pc[p] = "truncate" /\ pc'[p] = "write"
        /\ \A q \in Procs : q # p => pc'[q] = pc[q]
        /\ UNCHANGED <<authority, raw, result, recovered, receipt, status, stop, then,
                       seen, provider>>
    BY <1>4, <1>p DEF Truncate, Goto
  <2>3. Executing(p) /\ Executing(p)' /\ Knows(p)
    BY <2>2 DEF Executing, Writing, ExecutorKnows
  <2>4. ExecutorStep(p)
    BY <2>1, <2>2, <2>3 DEF ExecutorStep
  <2>5. Knows(p)'
    BY <2>1, <2>2, <2>3 DEF Knows, Unsent, Captured, Decided, Acceptable, Writing, provider
  <2>6. AnswerAndFiles' /\ ConsumptionIsHonest'
    BY <2>1, <2>2 DEF AnswerAndFiles, Acceptable, ConsumptionIsHonest, provider
  <2> QED
    BY <1>e, <2>4, <2>5, <2>6
<1>5. ASSUME NEW p \in Procs, Write(p)
      PROVE  Kept'
  <2>1. /\ consumption'.file = "WRITTEN" /\ consumption'.status = status[p]
        /\ consumption'.head = seen[p]
    BY <1>5 DEF Write
  <2>2. /\ pc[p] = "write" /\ pc'[p] = then[p]
        /\ \A q \in Procs : q # p => pc'[q] = pc[q]
        /\ UNCHANGED <<authority, raw, result, recovered, receipt, status, stop, then,
                       seen, provider>>
    BY <1>5, <1>p DEF Write, Goto
  <2>3. Executing(p) /\ Knows(p)
    BY <2>2 DEF Executing, Writing, ExecutorKnows
  <2>4. then[p] \in {"start", "send", "validate", "result", "done"}
    BY <1>p
  <2>5. ExecutorStep(p)
    BY <2>1, <2>2, <2>3, <2>4 DEF ExecutorStep, Executing, Over
  <2>6. ASSUME Executing(p)' PROVE Knows(p)'
    <3>1. then[p] # "done"
      BY <2>2, <2>6 DEF Executing, Writing
    <3>2. \/ status[p] = "RESERVED" /\ then[p] = "start"
          \/ status[p] = "STARTED_UNKNOWN" /\ then[p] = "send"
          \/ status[p] = "CAPTURED" /\ then[p] = "validate"
      BY <2>2, <2>3, <3>1 DEF Knows, Writing
    <3> QED
      BY <2>1, <2>2, <2>3, <3>2 DEF Knows, Unsent, Captured, Decided, Acceptable,
           Writing, provider
  <2>7. AnswerAndFiles'
    BY <2>2 DEF AnswerAndFiles, Acceptable, provider
  <2>8. ConsumptionIsHonest'
    <3>1. status[p] = "RESERVED" => posts = 0
      BY <2>2, <2>3 DEF Knows, Unsent, Writing, AnswerAndFiles
    <3>2. status[p] \in {"CAPTURED", "NOT_ACCEPTED", "RESULT_FAILED", "COMPLETED"}
             => raw = "WRITTEN"
      BY <2>2, <2>3 DEF Knows, Captured, Writing
    <3>3. status[p] = "COMPLETED" => result = "WRITTEN"
      BY <2>2, <2>3 DEF Knows, Writing
    <3> QED
      BY <2>1, <2>2, <3>1, <3>2, <3>3 DEF ConsumptionIsHonest, provider
  <2> QED
    BY <1>e, <2>5, <2>6, <2>7, <2>8
<1>6. ASSUME NEW p \in Procs, Start(p)
      PROVE  Kept'
  <2>1. pc'[p] = "truncate" /\ status'[p] = "STARTED_UNKNOWN" /\ then'[p] = "send"
    BY <1>6, <1>t, Updating DEF Start
  <2> QED
    BY <1>u, <1>6, <2>1 DEF Start, Executing, Unsent, Captured, Decided, Writing
<1>7. ASSUME NEW p \in Procs, Send(p)
      PROVE  Kept'
  <2>1. /\ pc[p] = "send" /\ pc'[p] = "waiting" /\ \A q \in Procs : q # p => pc'[q] = pc[q]
        /\ wire' = "sent" /\ posts' = posts + 1
        /\ UNCHANGED <<authority, files, status, stop, then, seen, answer, spent>>
    BY <1>7, <1>p DEF Send, Goto
  <2>2. Executing(p) /\ Executing(p)' /\ Knows(p) /\ Unsent(p) /\ consumption.file # "ABSENT"
    BY <2>1 DEF Executing, Unsent, NothingBeforeReservation, ExecutorKnows
  <2>3. wire = "idle" /\ raw = "ABSENT" /\ result = "ABSENT" /\ posts = 0
    BY <2>2 DEF Knows, AnswerAndFiles
  <2>4. ExecutorStep(p)
    BY <2>1, <2>2 DEF ExecutorStep, files
  <2>5. Knows(p)'
    BY <2>1, <2>2, <2>3 DEF Knows, Unsent, Captured, Decided, Writing, files
  <2>6. AnswerAndFiles'
    BY <2>1, <2>3 DEF AnswerAndFiles, files
  <2>7. ConsumptionIsHonest'
    BY <2>1, <2>2 DEF ConsumptionIsHonest, Knows, files
  <2> QED
    BY <1>e, <2>4, <2>5, <2>6, <2>7
<1>8. ASSUME NEW p \in Procs, LoseAnswer(p)
      PROVE  Kept'
  <2>1. pc'[p] = "truncate" /\ status'[p] = "STARTED_UNKNOWN" /\ then'[p] = "done"
    BY <1>8, <1>t, Updating DEF LoseAnswer
  <2> QED
    BY <1>u, <1>8, <2>1 DEF LoseAnswer, Executing, Unsent, Captured, Decided, Writing
(* A step of the executor that only goes from one place to another. *)
<1>g. ASSUME NEW p \in Procs, NEW l, Executing(p), Goto(p, l),
             UNCHANGED <<authority, consumption, recovered, receipt, status, then, seen>>
      PROVE  /\ pc'[p] = l /\ \A q \in Procs : q # p => pc'[q] = pc[q]
             /\ Knows(p) /\ consumption.file # "ABSENT"
             /\ Executing(p)' \/ l \in Over => ExecutorStep(p)
  BY <1>g, <1>p DEF Goto, ExecutorStep, ExecutorKnows, NothingBeforeReservation
<1>9. ASSUME NEW p \in Procs, Respond(p)
      PROVE  Kept'
  <2>1. pc[p] = "waiting" /\ wire = "served" /\ Executing(p)
        /\ UNCHANGED <<authority, files, status, stop, then, seen, provider>>
    BY <1>9 DEF Respond, Executing
  <2>2. pc'[p] = "capture" /\ Knows(p) /\ Executing(p)' /\ ExecutorStep(p)
    BY <1>g, <1>9, <2>1 DEF Respond, files, Executing
  <2>3. Knows(p)'
    BY <2>1, <2>2 DEF Knows, Unsent, Captured, Decided, Writing, files, provider
  <2>4. AnswerAndFiles' /\ ConsumptionIsHonest'
    BY <2>1 DEF AnswerAndFiles, Acceptable, ConsumptionIsHonest, files, provider
  <2> QED
    BY <1>e, <2>2, <2>3, <2>4
<1>10. ASSUME NEW p \in Procs, OpenCapture(p)
       PROVE  Kept'
  <2>1. pc[p] = "capture" /\ raw = "ABSENT" /\ raw' = "TORN" /\ Executing(p)
        /\ UNCHANGED <<authority, consumption, result, recovered, receipt, status, stop,
                       then, seen, provider>>
    BY <1>10 DEF OpenCapture, Executing
  <2>2. pc'[p] = "captureOpen" /\ Knows(p) /\ Executing(p)' /\ ExecutorStep(p)
        /\ consumption.file # "ABSENT"
    BY <1>g, <1>10, <2>1 DEF OpenCapture, Executing
  <2>3. wire = "served" /\ result = "ABSENT"
    BY <2>1, <2>2 DEF Knows, AnswerAndFiles
  <2>4. Knows(p)'
    BY <2>1, <2>2, <2>3 DEF Knows, Unsent, Captured, Decided, Writing, provider
  <2>5. AnswerAndFiles' /\ ConsumptionIsHonest'
    BY <2>1, <2>2, <2>3 DEF AnswerAndFiles, Acceptable, ConsumptionIsHonest, provider
  <2> QED
    BY <1>e, <2>2, <2>4, <2>5
<1>11. ASSUME NEW p \in Procs, SealCapture(p)
       PROVE  Kept'
  <2>1. pc[p] = "captureOpen" /\ raw' = "WRITTEN" /\ Executing(p)
        /\ UNCHANGED <<authority, consumption, result, recovered, receipt, seen, provider>>
    BY <1>11 DEF SealCapture, Executing
  <2>2. /\ pc'[p] = "truncate" /\ status'[p] = "CAPTURED" /\ then'[p] = "validate"
        /\ \A q \in Procs : q # p =>
              pc'[q] = pc[q] /\ status'[q] = status[q] /\ then'[q] = then[q]
    BY <1>11, <1>t, Updating DEF SealCapture
  <2>3. Executing(p)' /\ consumption.file # "ABSENT" /\ Knows(p)
    BY <2>1, <2>2 DEF Executing, Writing, NothingBeforeReservation, ExecutorKnows
  <2>4. ExecutorStep(p)
    BY <2>1, <2>2, <2>3 DEF ExecutorStep
  <2>5. wire = "served" /\ result = "ABSENT"
    BY <2>1, <2>3 DEF Knows, Decided, Writing
  <2>6. Knows(p)'
    BY <2>1, <2>2, <2>3, <2>5 DEF Knows, Unsent, Captured, Decided, Writing, provider
  <2>7. AnswerAndFiles' /\ ConsumptionIsHonest'
    BY <2>1, <2>5 DEF AnswerAndFiles, Acceptable, ConsumptionIsHonest, provider
  <2> QED
    BY <1>e, <2>4, <2>6, <2>7
<1>12. ASSUME NEW p \in Procs, CaptureFails(p)
       PROVE  Kept'
  <2>1. pc'[p] = "truncate" /\ status'[p] = "CAPTURE_FAILED" /\ then'[p] = "done"
    BY <1>12, <1>t, Updating DEF CaptureFails
  <2>2. Executing(p)
    BY <1>12 DEF CaptureFails, Executing, Writing
  <2>3. Knows(p)
    BY <2>2 DEF ExecutorKnows
  <2>4. ~Unsent(p) /\ ~Decided(p)
    BY <1>12, <2>3 DEF CaptureFails, Unsent, Decided, Knows, Writing
  <2> QED
    BY <1>u, <1>12, <2>1, <2>2, <2>4 DEF CaptureFails, Unsent, Captured, Writing
<1>13. ASSUME NEW p \in Procs, Reject(p)
       PROVE  Kept'
  <2>1. pc'[p] = "truncate" /\ status'[p] = "NOT_ACCEPTED" /\ then'[p] = "done"
    BY <1>13, <1>t, Updating DEF Reject
  <2> QED
    BY <1>u, <1>13, <2>1 DEF Reject, Executing, Unsent, Captured, Decided, Writing
<1>14. ASSUME NEW p \in Procs, Accept(p)
       PROVE  Kept'
  <2>1. pc[p] = "validate" /\ Acceptable /\ Executing(p)
        /\ UNCHANGED <<authority, files, status, stop, then, seen, provider>>
    BY <1>14 DEF Accept, Executing
  <2>2. pc'[p] = "result" /\ Knows(p) /\ Executing(p)' /\ ExecutorStep(p)
    BY <1>g, <1>14, <2>1 DEF Accept, files, Executing
  <2>3. Knows(p)'
    BY <2>1, <2>2 DEF Knows, Unsent, Captured, Decided, Writing, Acceptable, files, provider
  <2>4. AnswerAndFiles' /\ ConsumptionIsHonest'
    BY <2>1 DEF AnswerAndFiles, Acceptable, ConsumptionIsHonest, files, provider
  <2> QED
    BY <1>e, <2>2, <2>3, <2>4
<1>15. ASSUME NEW p \in Procs, OpenResult(p) \/ SealResult(p)
       PROVE  Kept'
  <2>1. /\ \/ pc[p] = "result" /\ pc'[p] = "resultOpen" /\ result' = "TORN"
           \/ pc[p] = "resultOpen" /\ pc'[p] = "complete" /\ result' = "WRITTEN"
        /\ Executing(p) /\ Executing(p)'
        /\ UNCHANGED <<authority, consumption, raw, recovered, receipt, status, stop,
                       then, seen, provider>>
    BY <1>15, <1>p DEF OpenResult, SealResult, Executing, Goto
  <2>2. Knows(p) /\ ExecutorStep(p)
    BY <1>g, <1>15, <2>1 DEF OpenResult, SealResult
  <2>3. Acceptable /\ raw = "WRITTEN" /\ wire = "served"
    BY <2>1, <2>2 DEF Knows, Captured, AnswerAndFiles
  <2>4. Acceptable'
    BY <2>1, <2>3 DEF Acceptable, provider
  <2>5. Knows(p)'
    BY <2>1, <2>2, <2>3, <2>4 DEF Knows, Unsent, Captured, Decided, Writing, provider
  <2>6. AnswerAndFiles'
    BY <2>1, <2>3, <2>4 DEF AnswerAndFiles, provider
  <2>7. ConsumptionIsHonest'
    BY <2>1, <2>2 DEF ConsumptionIsHonest, Knows, provider
  <2> QED
    BY <1>e, <2>2, <2>5, <2>6, <2>7
<1>16. ASSUME NEW p \in Procs, ResultFails(p)
       PROVE  Kept'
  <2>1. pc'[p] = "truncate" /\ status'[p] = "RESULT_FAILED" /\ then'[p] = "done"
    BY <1>16, <1>t, Updating DEF ResultFails
  <2> QED
    BY <1>u, <1>16, <2>1 DEF ResultFails, Executing, Unsent, Captured, Decided, Writing
<1>17. ASSUME NEW p \in Procs, Complete(p)
       PROVE  Kept'
  <2>1. pc'[p] = "truncate" /\ status'[p] = "COMPLETED" /\ then'[p] = "done"
    BY <1>17, <1>t, Updating DEF Complete
  <2>2. Executing(p) /\ result = "WRITTEN"
    BY <1>17 DEF Complete, Executing, ExecutorKnows, Knows
  <2> QED
    BY <1>u, <1>17, <2>1, <2>2 DEF Complete, Unsent, Captured, Decided, Writing
(* Steps of a recovery. *)
<1>18. ASSUME NEW p \in Procs, BeginRecovery(p)
       PROVE  Kept'
  <2>1. /\ pc'[p] = "authority" /\ pc[p] \in Over
        /\ \A q \in Procs : q # p => pc'[q] = pc[q] /\ seen'[q] = seen[q]
        /\ UNCHANGED <<authority, files, status, stop, then, provider>>
    BY <1>18, <1>p DEF BeginRecovery, Goto
  <2>2. ~Executing(p) /\ ~Executing(p)' /\ Settled
    BY <1>18, <2>1 DEF BeginRecovery, Recoverable, RefusedWatch, Settled, Executing,
                       Writing, Over
  <2> QED
    BY <2>1, <2>2, Elsewhere
<1>19. ASSUME NEW p \in Procs, RequireWriteAuthority(p)
       PROVE  Kept'
  <2>1. /\ pc'[p] \in {"recovered", "done"} /\ pc[p] = "authority"
        /\ \A q \in Procs : q # p => pc'[q] = pc[q]
        /\ UNCHANGED <<authority, files, status, stop, then, seen, provider>>
    BY <1>19, <1>p DEF RequireWriteAuthority, Goto
  <2>2. ~Executing(p) /\ ~Executing(p)' /\ Settled
    BY <2>1 DEF Executing, Writing, Recovering, RecoveryKnows
  <2> QED
    BY <2>1, <2>2, Elsewhere
<1>r. ASSUME NEW p \in Procs, Recovering(p), pc'[p] \in {"recoveredOpen", "receipt", "receiptOpen", "done"},
             UNCHANGED <<authority, consumption, raw, result, status, stop, then, seen, provider>>,
             \A q \in Procs : q # p => pc'[q] = pc[q],
             RecoveryKnows'
      PROVE  Kept'
  BY <1>r, RecoveryAlone DEF Executing, Writing
<1>20. ASSUME NEW p \in Procs, PersistRecovered(p)
       PROVE  Kept'
  <2>1. /\ pc[p] = "recovered" /\ Recovering(p)
        /\ \A q \in Procs : q # p => pc'[q] = pc[q]
        /\ UNCHANGED <<authority, consumption, raw, result, receipt, status, stop, then,
                       seen, provider>>
    BY <1>20, <1>p DEF PersistRecovered, Goto, Recovering
  <2>2. \/ /\ recovered.file = "ABSENT" /\ pc'[p] = "recoveredOpen"
           /\ recovered' = [file |-> "TORN", head |-> 0]
        \/ /\ recovered = [file |-> "WRITTEN", head |-> seen[p]] /\ pc'[p] = "receipt"
           /\ recovered' = recovered
        \/ pc'[p] = "done" /\ recovered' = recovered
    BY <1>20, <1>p DEF PersistRecovered, PersistOrVerify, Goto
  <2>3. Settled /\ Settled'
    BY <2>1 DEF RecoveryKnows, Settled, provider
  <2>4. RecoveryKnows'
    BY <2>1, <2>2, <2>3 DEF RecoveryKnows, ReceiptMatchesDecision, Recovering
  <2> QED
    BY <1>r, <2>1, <2>2, <2>4
<1>21. ASSUME NEW p \in Procs, SealRecovered(p)
       PROVE  Kept'
  <2>1. /\ pc[p] = "recoveredOpen" /\ Recovering(p) /\ pc'[p] = "receipt"
        /\ recovered' = [file |-> "WRITTEN", head |-> seen[p]]
        /\ \A q \in Procs : q # p => pc'[q] = pc[q]
        /\ UNCHANGED <<authority, consumption, raw, result, receipt, status, stop, then,
                       seen, provider>>
    BY <1>21, <1>p DEF SealRecovered, Goto, Recovering
  <2>2. Settled /\ Settled'
    BY <2>1 DEF RecoveryKnows, Settled, provider
  <2>3. recovered.file = "TORN" /\ receipt.file = "ABSENT"
        /\ \A q \in Procs : pc[q] \notin {"receipt", "receiptOpen"}
    BY <2>1 DEF RecoveryKnows, ReceiptMatchesDecision
  <2>4. RecoveryKnows'
    BY <2>1, <2>2, <2>3 DEF RecoveryKnows, ReceiptMatchesDecision, Recovering
  <2> QED
    BY <1>r, <2>1, <2>4
<1>22. ASSUME NEW p \in Procs, PersistReceipt(p) \/ SealReceipt(p)
       PROVE  Kept'
  <2>1. /\ pc[p] \in {"receipt", "receiptOpen"} /\ Recovering(p)
        /\ pc'[p] \in {"receiptOpen", "done"}
        /\ \/ receipt' = receipt
           \/ receipt' = [file |-> "TORN", head |-> 0]
           \/ receipt' = [file |-> "WRITTEN", head |-> seen[p]]
        /\ \A q \in Procs : q # p => pc'[q] = pc[q]
        /\ UNCHANGED <<authority, consumption, raw, result, recovered, status, stop, then,
                       seen, provider>>
    BY <1>22, <1>p DEF PersistReceipt, PersistOrVerify, SealReceipt, Goto, Recovering
  <2>2. Settled /\ Settled'
    BY <2>1 DEF RecoveryKnows, Settled, provider
  <2>3. recovered = [file |-> "WRITTEN", head |-> seen[p]]
    BY <2>1 DEF RecoveryKnows
  <2>4. ReceiptMatchesDecision'
    BY <2>1, <2>3 DEF RecoveryKnows, ReceiptMatchesDecision
  <2>5. RecoveryKnows'
    BY <2>1, <2>2, <2>3, <2>4 DEF RecoveryKnows, Recovering
  <2> QED
    BY <1>r, <2>1, <2>5
(* A crash of either, the provider, and the owner's own steps. *)
<1>23. ASSUME NEW p \in Procs, Crash(p)
       PROVE  Kept'
  <2>1. /\ pc'[p] = "dead" /\ \A q \in Procs : q # p => pc'[q] = pc[q]
        /\ UNCHANGED <<authority, files, status, stop, then, seen, provider>>
    BY <1>23, <1>p DEF Crash, Goto
  <2>2. ~Executing(p)' /\ ~Recovering(p)'
    BY <2>1 DEF Executing, Recovering, Writing
  <2>3. CASE ~Executing(p)
    BY <2>1, <2>2, <2>3, Elsewhere
  <2>4. CASE Executing(p)
    <3>1. ExecutorStep(p)
      BY <2>1, <2>4 DEF ExecutorStep, Over, NothingBeforeReservation, files
    <3>2. AnswerAndFiles' /\ ConsumptionIsHonest'
      BY <2>1 DEF AnswerAndFiles, Acceptable, ConsumptionIsHonest, files, provider
    <3> QED
      BY <1>e, <2>2, <3>1, <3>2
  <2> QED
    BY <2>3, <2>4
<1>24. ASSUME NEW a \in Answers, NEW c \in Costs, Serve(a, c)
       PROVE  Kept'
  <2>1. wire = "sent" /\ wire' = "served" /\ posts' = posts
        /\ UNCHANGED <<authority, files, memory>>
    BY <1>24 DEF Serve
  <2>2. raw = "ABSENT" /\ result = "ABSENT" /\ posts = 1
    BY <2>1 DEF AnswerAndFiles
  <2>3. ~Settled /\ recovered.file = "ABSENT" /\ receipt.file = "ABSENT"
        /\ \A q \in Procs : ~Recovering(q)
    BY <2>2 DEF Settled, RecoveryKnows, ReceiptMatchesDecision
  <2>4. consumption.file # "ABSENT"
    BY <2>2 DEF NothingBeforeReservation
  <2>5. NothingBeforeReservation' /\ OneExecutor'
    BY <2>1, <2>4 DEF NothingBeforeReservation, OneExecutor, Executing, files, memory
  <2>6. AnswerAndFiles' /\ ConsumptionIsHonest'
    BY <2>1, <2>2 DEF AnswerAndFiles, ConsumptionIsHonest, files
  <2>7. ExecutorKnows'
    <3>1. ASSUME NEW q \in Procs, Executing(q)
          PROVE  Knows(q)'
      <4>1. Knows(q) /\ ~Unsent(q)
        BY <2>1, <3>1 DEF ExecutorKnows, Knows
      <4>2. ~Captured(q) /\ ~Decided(q)
        BY <2>2, <4>1 DEF Knows, Captured, Decided
      <4>3. pc[q] \notin {"result", "resultOpen", "complete"}
        BY <4>2 DEF Captured
      <4> QED
        BY <2>1, <2>2, <4>1, <4>2, <4>3 DEF Knows, Unsent, Captured, Decided, files, memory
    <3> QED
      BY <2>1, <3>1 DEF ExecutorKnows, Executing, memory
  <2>8. RecoveryKnows'
    BY <2>1, <2>3 DEF RecoveryKnows, ReceiptMatchesDecision, Recovering, files, memory
  <2>9. AuthorityKept'
    BY <2>1 DEF AuthorityKept, CallIsAuthorized, AuthorizedAt, Executing, authority,
                documents, approvals, files, memory
  <2> QED
    BY <2>5, <2>6, <2>7, <2>8, <2>9
<1>25. ASSUME UNCHANGED <<files, memory, provider>>,
              \/ UNCHANGED <<documents, approvals>>
              \/ /\ \A p \in Procs : pc[p] \in Over
                 /\ consumption.file = "ABSENT"
       PROVE  Kept'
  <2>1. NothingBeforeReservation' /\ OneExecutor'
    BY <1>25 DEF NothingBeforeReservation, OneExecutor, Executing, files, memory, provider
  <2>2. AnswerAndFiles' /\ ConsumptionIsHonest'
    BY <1>25 DEF AnswerAndFiles, Acceptable, ConsumptionIsHonest, files, provider
  <2>3. ExecutorKnows'
    BY <1>25 DEF ExecutorKnows, Knows, Executing, Unsent, Captured, Decided, Acceptable,
                 files, memory, provider
  <2>4. RecoveryKnows'
    BY <1>25 DEF RecoveryKnows, ReceiptMatchesDecision, Recovering, Settled, files,
                 memory, provider
  <2>5. AuthorityKept'
    <3>1. CASE UNCHANGED <<documents, approvals>>
      BY <1>25, <3>1 DEF AuthorityKept, CallIsAuthorized, AuthorizedAt, Executing,
                         documents, approvals, files, memory
    <3>2. CASE consumption.file = "ABSENT" /\ \A p \in Procs : pc[p] \in Over
      BY <1>25, <3>2 DEF AuthorityKept, CallIsAuthorized, NothingBeforeReservation,
                         Executing, Over, Writing, files, memory
    <3> QED
      BY <1>25, <3>1, <3>2
  <2> QED
    BY <2>1, <2>2, <2>3, <2>4, <2>5
<1>26. CASE ((Checkout \/ Push) /\ UNCHANGED <<files, memory, provider, crashes>>) \/ PrepareAuthority
  BY <1>25, <1>26 DEF Checkout, Push, PrepareAuthority
<1>27. CASE UNCHANGED vars
  BY <1>25, <1>27 DEF vars, authority
<1> QED
  BY <1>1, <1>2, <1>3, <1>4, <1>5, <1>6, <1>7, <1>8, <1>9, <1>10, <1>11, <1>12,
     <1>13, <1>14, <1>15, <1>16, <1>17, <1>18, <1>19, <1>20, <1>21, <1>22, <1>23,
     <1>24, <1>26, <1>27 DEF Next, Execute, Recover
-----------------------------------------------------------------------------
(* The account of the one executor and of the recoveries holds in every     *)
(* behaviour.                                                               *)
THEOREM Inductive == Spec => []IInv
BY IndInit, IndNext, PTL DEF Spec

(* However invocations overlap, die and repeat, and whatever is checked     *)
(* out, built, approved and pushed in between, the Judge request is sent    *)
(* once at most, as authorized, and its answer becomes at most one decision *)
(* that the consumption and the receipt agree with.                         *)
THEOREM DecidesOnce == Spec => []OneDecision
<1>1. IInv => OneDecision
  <2> SUFFICES ASSUME IInv
               PROVE  OneDecision
    OBVIOUS
  <2> USE DEF IInv
  <2>1. posts <= 1
    BY DEF AnswerAndFiles
  <2>2. CallIsAuthorized /\ ConsumptionIsHonest /\ ReceiptMatchesDecision
    BY DEF AuthorityKept, RecoveryKnows
  <2>3. result # "ABSENT" => answer = "VALID" /\ spent <= Ceiling
    BY DEF AnswerAndFiles, Acceptable
  <2>4. recovered.file # "ABSENT" =>
          result = "ABSENT" /\ answer = "WATCH_REOPEN" /\ spent <= Ceiling
    BY DEF RecoveryKnows, Settled
  <2> QED
    BY <2>1, <2>2, <2>3, <2>4 DEF OneDecision
<1> QED
  BY <1>1, Inductive, PTL
=============================================================================
