----------------------- MODULE RecoveryRuntimeProofs -----------------------
(***************************************************************************)
(* Proofs about RecoveryRuntime for any number of invocations, approvals,  *)
(* crashes, source runs and costs.  What an invocation may assume of the   *)
(* source run and of its authorization needs nothing of the order in which *)
(* the invocations run.  The two promises about the recovery call need     *)
(* that they do not overlap: the script tests for its journal before it    *)
(* creates it (recovery_race shows what happens otherwise).  The argument  *)
(* is then that the journal tells how far the recovery got, wherever the   *)
(* invocations before ended, and that one which finds a journal never goes *)
(* to its dispatch.                                                        *)
(***************************************************************************)
EXTENDS RecoveryRuntime, SequenceTheorems, FiniteSetTheorems, TLAPS

Alive(p) == pc[p] \in Live

Receipt == [received : BOOLEAN, pass : BOOLEAN, cost : Nat]
Event == [kind : {"ATTEMPT", "RECEIPT"}, pass : BOOLEAN, unique : BOOLEAN, cost : Nat]
Artifact == [status : {"ABSENT", "TORN", "FROZEN", "BLOCKED"}, cost : Nat, upper : Nat,
             opinions : Seq(Nat)]

(* What the invocations plan from does not change under them. *)
SourceKept ==
    /\ source \in Sources
    /\ \A p \in Procs : Alive(p) => LoadContext

(* An invocation past its authorization runs on the one with its approval,  *)
(* and past the opening of the journal on one that exists; one at most is   *)
(* writing the authorization.                                               *)
Authorized(p) ==
    /\ pc[p] = "authOpen" => auth = [state |-> "TORN", approval |-> approval[p]]
    /\ pc[p] \in {"check", "openJournal", "attempt", "post", "waiting", "receipt"} =>
          auth = [state |-> "WRITTEN", approval |-> approval[p]]
    /\ pc[p] \in {"attempt", "post", "waiting", "receipt"} => hasJournal

AuthorizationKept ==
    /\ \A p \in Procs : Authorized(p)
    /\ \A p, q \in Procs : pc[p] = "authOpen" /\ pc[q] = "authOpen" => p = q

AInv == TypeOK /\ SourceKept /\ AuthorizationKept
-----------------------------------------------------------------------------
(* The invocations do not overlap. *)
Alone == \A p, q \in Procs : Alive(p) /\ Alive(q) => p = q

(* The journal holds nothing, the attempt, or the attempt and its receipt. *)
JournalIsOneCall ==
    /\ Len(journal) <= 2
    /\ Len(journal) >= 1 => journal[1] = AttemptEvent
    /\ Len(journal) = 2 => journal[2].kind = "RECEIPT"

(* No request without its attempt, at most one, and what it cost. *)
PostsFollowJournal ==
    /\ posts <= 1
    /\ posts = 0 => billed = 0 /\ \A p \in Procs : wire[p] = "idle"
    /\ posts = 1 => Len(journal) >= 1
    /\ \A p, q \in Procs : wire[p] # "idle" /\ wire[q] # "idle" => p = q
    /\ \A p \in Procs : wire[p] = "sent" => billed = 0
    /\ \A p \in Procs : wire[p] = "served" => billed = reply[p]

(* A passing receipt has the cost of the request, which was executed. *)
Passed == Len(journal) = 2 /\ journal[2].pass

PassIsBilled ==
    Passed => /\ posts = 1
              /\ billed = journal[2].cost
              /\ \A p \in Procs : wire[p] # "sent"

(* What a live invocation knows where it is. *)
Knows(p) ==
    /\ output.status = IF pc[p] \in {"freezeOpen", "blockOpen"} THEN "TORN" ELSE "ABSENT"
    /\ pc[p] = "openJournal" => ~hasJournal
    /\ pc[p] = "attempt" => Len(journal) = 0
    /\ pc[p] = "post" => Len(journal) = 1 /\ posts = 0
    /\ pc[p] \in {"waiting", "receipt"} => Len(journal) = 1 /\ posts = 1 /\ wire[p] # "idle"
    /\ pc[p] = "receipt" /\ Processed(outcome[p]) => wire[p] = "served" /\ record[p] = reply[p]
    /\ pc[p] \in {"freeze", "freezeOpen"} =>
          Passed /\ Freezable(journal[2]) /\ journal[2].cost = record[p]
    /\ pc[p] \in {"block", "blockOpen"} => Len(journal) >= 1 /\ ~Passed

LiveKnows == \A p \in Procs : Alive(p) => Knows(p)

(* The verdict, in terms of the second event of the journal. *)
FrozenAsPassed ==
    output.status = "FROZEN" =>
        /\ LoadContext /\ Passed
        /\ Freezable(journal[2]) /\ journal[2].cost = output.cost
        /\ output = RecoveredFreeze(output.cost)

BlockedUnpassed == output.status = "BLOCKED" => Len(journal) >= 1 /\ ~Passed

SInv ==
    /\ Alone
    /\ JournalIsOneCall
    /\ PostsFollowJournal
    /\ PassIsBilled
    /\ LiveKnows
    /\ FrozenAsPassed
    /\ BlockedUnpassed
-----------------------------------------------------------------------------
(* The opinions of a freeze: those of the source run, and the recovered one. *)
LEMMA FreezeHasType ==
  ASSUME source \in Sources, LoadContext, NEW c \in Nat
  PROVE  /\ RecoveredFreeze(c).status = "FROZEN"
         /\ RecoveredFreeze(c).cost = c
         /\ RecoveredFreeze(c).upper = UpperBound(c)
         /\ UpperBound(c) \in Nat
         /\ RecoveredFreeze(c).opinions \in Seq(Nat)
         /\ Len(RecoveredFreeze(c).opinions) = N
         /\ RecoveredFreeze(c).opinions[N] = c
         /\ \A i \in 1..(N - 1) : RecoveredFreeze(c).opinions[i] = source.receipts[i].cost
         /\ RecoveredFreeze(c) \in Artifact
<1> DEFINE reused == [i \in 1..(N - 1) |-> source.receipts[i].cost]
<1> USE MoneyAssumption
<1>1. source.receipts \in Seq(Receipt)
  BY SourceAssumption DEF Receipt
<1>2. Len(source.receipts) = N
  BY DEF LoadContext, JournalOfSource
<1>3. \A i \in 1..(N - 1) : source.receipts[i].cost \in Nat
  <2> DEFINE receipts == source.receipts
  <2>1. /\ receipts \in Seq(Receipt)
        /\ Len(receipts) = N
    BY <1>1, <1>2
  <2> HIDE DEF receipts
  <2>2. \A i \in 1..(N - 1) : receipts[i] \in Receipt
    BY <2>1, ElementOfSeq
  <2>3. \A i \in 1..(N - 1) : receipts[i].cost \in Nat
    BY <2>2 DEF Receipt
  <2> QED
    BY <2>3 DEF receipts
<1>4. reused \in Seq(Nat) /\ Len(reused) = N - 1
  BY <1>3
<1>5. \A i \in 1..(N - 1) : reused[i] = source.receipts[i].cost
  OBVIOUS
<1>6. UpperBound(c) \in Nat
  BY DEF UpperBound
<1> HIDE DEF reused
<1>7. RecoveredFreeze(c) = [status |-> "FROZEN", cost |-> c, upper |-> UpperBound(c),
                            opinions |-> Append(reused, c)]
  BY DEF RecoveredFreeze, reused
<1>8. /\ Append(reused, c) \in Seq(Nat)
      /\ Len(Append(reused, c)) = N
      /\ Append(reused, c)[N] = c
      /\ \A i \in 1..(N - 1) : Append(reused, c)[i] = source.receipts[i].cost
  BY <1>4, <1>5
<1>9. RecoveredFreeze(c) \in Artifact
  BY <1>6, <1>7, <1>8 DEF Artifact
<1> QED
  BY <1>6, <1>7, <1>8, <1>9

(* Opening the verdict leaves the empty artifact torn. *)
LEMMA TornOutput ==
  /\ [NoOutput EXCEPT !.status = "TORN"] =
        [status |-> "TORN", cost |-> 0, upper |-> 0, opinions |-> <<>>]
  /\ RecoveryBlocked = [status |-> "BLOCKED", cost |-> 0, upper |-> 0, opinions |-> <<>>]
  /\ [NoOutput EXCEPT !.status = "TORN"] \in Artifact
  /\ RecoveryBlocked \in Artifact
<1>1. <<>> \in Seq(Nat)
  OBVIOUS
<1>2. \A s \in {"TORN", "BLOCKED"} :
         [status |-> s, cost |-> 0, upper |-> 0, opinions |-> <<>>] \in Artifact
  BY <1>1 DEF Artifact
<1>3. \A s \in {"TORN", "BLOCKED"} : [NoOutput EXCEPT !.status = s] =
         [status |-> s, cost |-> 0, upper |-> 0, opinions |-> <<>>]
  BY DEF NoOutput
<1> QED
  BY <1>2, <1>3 DEF RecoveryBlocked

(* Where a receipt takes the invocation that appended it, or found it. *)
LEMMA VerdictLabel ==
  ASSUME NEW receipt
  PROVE  /\ Verdict(receipt) \in {"block", "freeze", "done"}
         /\ Verdict(receipt) = "block" => ~receipt.pass
         /\ Verdict(receipt) = "freeze" => receipt.pass /\ Freezable(receipt)
BY DEF Verdict

(* Every action keeps the values the code can give each variable.  The only  *)
(* one that needs to know what its invocation loaded is the seal of the      *)
(* verdict, whose opinions are those of the source run.                      *)
LEMMA TypeInit == Init => TypeOK
<1> SUFFICES ASSUME Init
             PROVE  TypeOK
  OBVIOUS
<1> USE CrashAssumption DEF Init
<1>1. journal \in Seq(Event)
  OBVIOUS
<1>2. output \in [status : {"ABSENT", "TORN", "FROZEN", "BLOCKED"}, cost : Nat, upper : Nat,
                  opinions : Seq(Nat)]
  BY DEF NoOutput
<1>3. pc \in [Procs -> Over \cup Live]
  BY DEF Over
<1>4. /\ approval \in [Procs -> Approvals \cup {NoApproval}]
      /\ outcome \in [Procs -> Outcomes]
      /\ record \in [Procs -> Nat]
      /\ wire \in [Procs -> {"idle", "sent", "served"}]
      /\ reply \in [Procs -> Nat]
  BY DEF Outcomes
<1>5. /\ auth \in [state : {"ABSENT", "TORN", "WRITTEN"}, approval : Approvals \cup {NoApproval}]
      /\ dry \in [state : {"ABSENT", "TORN", "WRITTEN"}, head : Commits \cup {NoCommit}]
      /\ head \in Commits /\ hasJournal \in BOOLEAN
      /\ posts \in Nat /\ billed \in Nat /\ inDoubt \in Doubts
      /\ journal = <<>>
  OBVIOUS
<1>6. crashes \in 0..MaxCrashes
  OBVIOUS
<1> HIDE DEF Init
<1> QED
  BY <1>1, <1>2, <1>3, <1>4, <1>5, <1>6 DEF TypeOK, Event

(* Every step keeps the types. *)
LEMMA TypeNext ==
  TypeOK /\ SourceKept /\ AuthorizationKept /\ [Next]_vars => TypeOK'
<1> SUFFICES ASSUME TypeOK, SourceKept, AuthorizationKept, [Next]_vars
             PROVE  TypeOK'
  OBVIOUS
<1> USE MoneyAssumption, CrashAssumption
<1>1. CASE UNCHANGED vars
  BY <1>1 DEF TypeOK, vars, files, memory, remote
<1>2. ASSUME NEW p \in Procs, DryRun(p)
      PROVE  TypeOK'
  <2>1. dry' \in [state : {"ABSENT", "TORN", "WRITTEN"}, head : Commits \cup {NoCommit}]
    BY <1>2 DEF TypeOK, DryRun
  <2> QED
    BY <1>2, <2>1 DEF TypeOK, DryRun, memory, remote
<1>3. ASSUME NEW p \in Procs, NEW a \in Approvals, Begin(p, a)
      PROVE  TypeOK'
  BY <1>3 DEF TypeOK, Begin, Goto, Live, Outcomes, files, remote
<1>4. ASSUME NEW p \in Procs, ReadAuthorization(p)
      PROVE  TypeOK'
  BY <1>4 DEF TypeOK, ReadAuthorization, Goto, Over, Live, files, remote
<1>5. ASSUME NEW p \in Procs, CreateAuthorization(p)
      PROVE  TypeOK'
  <2>1. approval[p] \in Approvals \cup {NoApproval}
    BY DEF TypeOK
  <2>2. auth' \in [state : {"ABSENT", "TORN", "WRITTEN"}, approval : Approvals \cup {NoApproval}]
    BY <1>5, <2>1 DEF TypeOK, CreateAuthorization
  <2>3. pc' \in [Procs -> Over \cup Live]
    BY <1>5 DEF TypeOK, CreateAuthorization, Goto, Over, Live
  <2> QED
    BY <1>5, <2>2, <2>3 DEF TypeOK, CreateAuthorization, remote
<1>6. ASSUME NEW p \in Procs, SealAuthorization(p)
      PROVE  TypeOK'
  <2>1. auth' \in [state : {"ABSENT", "TORN", "WRITTEN"}, approval : Approvals \cup {NoApproval}]
    BY <1>6 DEF TypeOK, SealAuthorization
  <2>2. pc' \in [Procs -> Over \cup Live]
    BY <1>6 DEF TypeOK, SealAuthorization, Goto, Live
  <2> QED
    BY <1>6, <2>1, <2>2 DEF TypeOK, SealAuthorization, remote
<1>7. ASSUME NEW p \in Procs, CheckJournal(p) \/ MissingKey(p) \/ OpenJournal(p)
      PROVE  TypeOK'
  BY <1>7 DEF TypeOK, CheckJournal, MissingKey, OpenJournal, Goto, Over, Live, files, remote
<1>8. ASSUME NEW p \in Procs, AppendAttempt(p)
      PROVE  TypeOK'
  <2>1. AttemptEvent \in Event
    BY DEF AttemptEvent, Event
  <2>2. hasJournal
    BY <1>8 DEF AppendAttempt, AuthorizationKept, Authorized
  <2>3. /\ journal' \in Seq(Event)
        /\ hasJournal'
    BY <1>8, <2>1, <2>2 DEF TypeOK, AppendAttempt, Event
  <2>4. pc' \in [Procs -> Over \cup Live]
    BY <1>8 DEF TypeOK, AppendAttempt, Goto, Live
  <2> QED
    BY <1>8, <2>3, <2>4 DEF TypeOK, AppendAttempt, remote, Event
<1>9. ASSUME NEW p \in Procs, Post(p)
      PROVE  TypeOK'
  BY <1>9 DEF TypeOK, Post, Goto, Live, files
<1>10. ASSUME NEW p \in Procs, NEW c \in Costs, Serve(p, c)
       PROVE  TypeOK'
  BY <1>10 DEF TypeOK, Serve, files, memory
<1>11. ASSUME NEW p \in Procs, NEW o \in Outcomes, Answer(p, o)
       PROVE  TypeOK'
  BY <1>11 DEF TypeOK, Answer, Goto, Live, files, remote
<1>12. ASSUME NEW p \in Procs, AppendReceipt(p)
       PROVE  TypeOK'
  <2>1. ResultReceipt(outcome[p], record[p])
          \in Event
    BY DEF TypeOK, ResultReceipt, Processed, Event
  <2>2. hasJournal
    BY <1>12 DEF AppendReceipt, AuthorizationKept, Authorized
  <2>3. /\ journal' \in Seq(Event)
        /\ hasJournal'
    BY <1>12, <2>1, <2>2 DEF TypeOK, AppendReceipt, Event
  <2>4. pc' \in [Procs -> Over \cup Live]
    BY <1>12, VerdictLabel DEF TypeOK, AppendReceipt, Goto, Over, Live
  <2> QED
    BY <1>12, <2>3, <2>4 DEF TypeOK, AppendReceipt, remote, Event
<1>13. ASSUME NEW p \in Procs, Finalize(p)
       PROVE  TypeOK'
  <2>1. CASE Len(journal) = 2
    <3>1. journal \in Seq(Event)
      BY DEF TypeOK, Event
    <3>2. journal[2] \in Event
      BY <2>1, <3>1, ElementOfSeq
    <3>3. journal[2].cost \in Nat
      BY <3>2 DEF Event
    <3> QED
      <4>1. \E label \in Over \cup Live : pc' = [pc EXCEPT ![p] = label]
        BY <1>13, <2>1, VerdictLabel DEF Finalize, Goto, Over, Live
      <4>2. pc' \in [Procs -> Over \cup Live]
        BY <4>1 DEF TypeOK
      <4>3. record' \in [Procs -> Nat]
        BY <1>13, <2>1, <3>3 DEF TypeOK, Finalize
      <4> QED
        BY <1>13, <4>2, <4>3 DEF TypeOK, Finalize, files, remote
  <2>2. CASE Len(journal) # 2
    BY <1>13, <2>2 DEF TypeOK, Finalize, Goto, Over, Live, files, remote
  <2> QED
    BY <2>1, <2>2
<1>14. ASSUME NEW p \in Procs, OpenOutput(p)
       PROVE  TypeOK'
  <2>1. output' \in [status : {"ABSENT", "TORN", "FROZEN", "BLOCKED"}, cost : Nat, upper : Nat,
                     opinions : Seq(Nat)]
    <3>1. output \in Artifact
      BY DEF TypeOK, Artifact
    <3>2. output' \in Artifact
      BY <1>14, <3>1, TornOutput DEF OpenOutput
    <3> QED
      BY <3>2 DEF Artifact
  <2>2. pc' \in [Procs -> Over \cup Live]
    <3>1. \E label \in Over \cup Live : pc' = [pc EXCEPT ![p] = label]
      BY <1>14 DEF OpenOutput, Goto, Over, Live
    <3> QED
      BY <3>1 DEF TypeOK
  <2> QED
    BY <1>14, <2>1, <2>2 DEF TypeOK, OpenOutput, remote
<1>15. ASSUME NEW p \in Procs, SealOutput(p)
       PROVE  TypeOK'
  <2>1. record[p] \in Nat
    BY DEF TypeOK
  <2>2. pc[p] \in Live
    BY <1>15 DEF SealOutput, Live
  <2>3. output' \in [status : {"ABSENT", "TORN", "FROZEN", "BLOCKED"}, cost : Nat, upper : Nat,
                     opinions : Seq(Nat)]
    <3>1. CASE output' = RecoveredFreeze(record[p])
      BY <3>1, <2>1, <2>2, FreezeHasType DEF SourceKept, Alive, Artifact
    <3>2. CASE output' = RecoveryBlocked
      BY <3>2, TornOutput DEF Artifact
    <3> QED
      BY <1>15, <3>1, <3>2 DEF SealOutput
  <2> QED
    BY <1>15, <2>3 DEF TypeOK, SealOutput, Goto, Over, remote
<1>16. ASSUME NEW p \in Procs, Crash(p)
       PROVE  TypeOK'
  BY <1>16 DEF TypeOK, Crash, Goto, Over, files, remote
<1>17. ASSUME NEW c \in Commits, MoveHead(c)
       PROVE  TypeOK'
  BY <1>17 DEF TypeOK, MoveHead, memory, remote
<1> QED
  BY <1>1, <1>2, <1>3, <1>4, <1>5, <1>6, <1>7, <1>8, <1>9, <1>10, <1>11, <1>12, <1>13,
     <1>14, <1>15, <1>16, <1>17
  DEF Next, Run, Step
-----------------------------------------------------------------------------
(* A step is one of a live invocation and moves no other. *)
LEMMA OneMoves ==
  ASSUME TypeOK, NEW p \in Procs, Step(p) \/ Crash(p)
  PROVE  /\ UNCHANGED <<source, head, dry, inDoubt>>
         /\ pc[p] \in Live
         /\ \A q \in Procs : q # p => pc'[q] = pc[q]
<1> USE DEF TypeOK, Goto, Live, files, memory, remote
<1>1. CASE ReadAuthorization(p) \/ CreateAuthorization(p) \/ SealAuthorization(p)
  BY <1>1 DEF ReadAuthorization, CreateAuthorization, SealAuthorization
<1>2. CASE CheckJournal(p) \/ MissingKey(p) \/ OpenJournal(p) \/ AppendAttempt(p) \/ Post(p)
  BY <1>2 DEF CheckJournal, MissingKey, OpenJournal, AppendAttempt, Post
<1>3. CASE (\E o \in Outcomes : Answer(p, o)) \/ AppendReceipt(p)
  BY <1>3 DEF Answer, AppendReceipt
<1>4. CASE Finalize(p)
  BY <1>4 DEF Finalize
<1>5. CASE OpenOutput(p) \/ SealOutput(p) \/ Crash(p)
  BY <1>5 DEF OpenOutput, SealOutput, Crash
<1> QED
  BY <1>1, <1>2, <1>3, <1>4, <1>5 DEF Step

(* No action changes the source run, and one begins only after loading it. *)
LEMMA SourceNext == TypeOK /\ SourceKept /\ [Next]_vars => SourceKept'
<1> SUFFICES ASSUME TypeOK, SourceKept, [Next]_vars
             PROVE  SourceKept'
  OBVIOUS
<1> USE DEF SourceKept, Alive, LoadContext, JournalOfSource, BlockedSource
<1>1. CASE UNCHANGED vars
  BY <1>1 DEF vars, files, memory, remote
<1>2. ASSUME NEW p \in Procs, DryRun(p) \/ (\E c \in Costs : Serve(p, c))
      PROVE  SourceKept'
  BY <1>2 DEF DryRun, Serve, files, memory, remote
<1>3. ASSUME NEW p \in Procs, NEW a \in Approvals, Begin(p, a)
      PROVE  SourceKept'
  BY <1>3 DEF Begin, files, remote
<1>4. ASSUME NEW p \in Procs, Step(p) \/ Crash(p)
      PROVE  SourceKept'
  BY <1>4, OneMoves
<1>5. ASSUME NEW c \in Commits, MoveHead(c)
      PROVE  SourceKept'
  BY <1>5 DEF MoveHead, memory, remote
<1> QED
  BY <1>1, <1>2, <1>3, <1>4, <1>5 DEF Next, Run

(* The authorization is created exclusively and sealed by its creator. *)
LEMMA AuthorizationNext == TypeOK /\ AuthorizationKept /\ [Next]_vars => AuthorizationKept'
<1> SUFFICES ASSUME TypeOK, AuthorizationKept, [Next]_vars
             PROVE  AuthorizationKept'
  OBVIOUS
<1> USE DEF AuthorizationKept, Authorized, TypeOK, Goto, files, memory, remote
<1>1. CASE UNCHANGED vars
  BY <1>1 DEF vars
<1>2. ASSUME NEW p \in Procs, DryRun(p) \/ (\E c \in Costs : Serve(p, c))
      PROVE  AuthorizationKept'
  BY <1>2 DEF DryRun, Serve
<1>3. ASSUME NEW p \in Procs, NEW a \in Approvals, Begin(p, a)
      PROVE  AuthorizationKept'
  BY <1>3 DEF Begin, MayStart, Over
<1>4. ASSUME NEW p \in Procs, ReadAuthorization(p)
      PROVE  AuthorizationKept'
  BY <1>4 DEF ReadAuthorization, Reusable
<1>5. ASSUME NEW p \in Procs, CreateAuthorization(p)
      PROVE  AuthorizationKept'
  <2>1. CASE auth.state = "ABSENT"
    <3>1. auth' = [state |-> "TORN", approval |-> approval[p]]
      BY <1>5, <2>1 DEF CreateAuthorization
    <3>2. \A q \in Procs : pc[q] # "authOpen" /\ pc[q] \notin
             {"check", "openJournal", "attempt", "post", "waiting", "receipt"}
      BY <2>1
    <3> QED
      BY <1>5, <2>1, <3>1, <3>2 DEF CreateAuthorization
  <2>2. CASE auth.state # "ABSENT"
    <3>1. /\ UNCHANGED <<auth, approval, hasJournal>>
          /\ pc' = [pc EXCEPT ![p] = "done"]
      BY <1>5, <2>2 DEF CreateAuthorization
    <3> QED
      BY <3>1
  <2> QED
    BY <2>1, <2>2
<1>6. ASSUME NEW p \in Procs, SealAuthorization(p)
      PROVE  AuthorizationKept'
  <2>1. auth = [state |-> "TORN", approval |-> approval[p]]
    BY <1>6 DEF SealAuthorization
  <2>2. auth' = [state |-> "WRITTEN", approval |-> approval[p]]
    BY <1>6, <2>1 DEF SealAuthorization
  <2> QED
    BY <1>6, <2>1, <2>2 DEF SealAuthorization
<1>7. ASSUME NEW p \in Procs, \/ CheckJournal(p) \/ MissingKey(p) \/ OpenJournal(p)
                              \/ AppendAttempt(p) \/ Post(p)
      PROVE  AuthorizationKept'
  BY <1>7 DEF CheckJournal, MissingKey, OpenJournal, AppendAttempt, Post
<1>8. ASSUME NEW p \in Procs, (\E o \in Outcomes : Answer(p, o)) \/ AppendReceipt(p)
      PROVE  AuthorizationKept'
  <2>1. CASE \E o \in Outcomes : Answer(p, o)
    BY <2>1 DEF Answer
  <2>2. CASE AppendReceipt(p)
    <3>1. \E label \in {"block", "freeze", "done"} : pc' = [pc EXCEPT ![p] = label]
      BY <2>2, VerdictLabel DEF AppendReceipt
    <3> QED
      BY <2>2, <3>1 DEF AppendReceipt
  <2> QED
    BY <1>8, <2>1, <2>2
<1>9. ASSUME NEW p \in Procs, Finalize(p)
      PROVE  AuthorizationKept'
  <2>1. \E label \in {"block", "freeze", "done"} : pc' = [pc EXCEPT ![p] = label]
    BY <1>9, VerdictLabel DEF Finalize
  <2> QED
    BY <1>9, <2>1 DEF Finalize
<1>10. ASSUME NEW p \in Procs, OpenOutput(p) \/ SealOutput(p) \/ Crash(p)
       PROVE  AuthorizationKept'
  BY <1>10 DEF OpenOutput, SealOutput, Crash
<1>11. ASSUME NEW c \in Commits, MoveHead(c)
       PROVE  AuthorizationKept'
  BY <1>11 DEF MoveHead
<1> QED
  BY <1>1, <1>2, <1>3, <1>4, <1>5, <1>6, <1>7, <1>8, <1>9, <1>10, <1>11 DEF Next, Run, Step

(* AInv holds however the invocations overlap. *)
THEOREM Prepared == Spec => []AInv
<1>1. Init => AInv
  <2> SUFFICES ASSUME Init
               PROVE  AInv
    OBVIOUS
  <2>1. \A p \in Procs : pc[p] = "idle"
    BY DEF Init
  <2> QED
    BY <2>1, TypeInit DEF AInv, SourceKept, AuthorizationKept, Authorized, Alive, Live, Init
<1>2. AInv /\ [Next]_vars => AInv'
  BY TypeNext, SourceNext, AuthorizationNext DEF AInv
<1> QED
  BY <1>1, <1>2, PTL DEF Spec

(* Every variable has the values the code can give it. *)
THEOREM TypeCorrect == Spec => []TypeOK
<1>1. AInv => TypeOK
  BY DEF AInv
<1> QED
  BY <1>1, Prepared, PTL

(* The run that dispatches consumed the approval its owner gave it, however  *)
(* the invocations overlap.                                                  *)
THEOREM ApprovalBound == Spec => []ApprovalIsBound
<1>1. AInv => ApprovalIsBound
  BY DEF AInv, AuthorizationKept, Authorized, ApprovalIsBound
<1> QED
  BY <1>1, Prepared, PTL
-----------------------------------------------------------------------------
(* Appending an event to the journal. *)
LEMMA Appended ==
  ASSUME NEW j \in Seq(Event), NEW e \in Event
  PROVE  /\ Append(j, e) \in Seq(Event)
         /\ Len(Append(j, e)) = Len(j) + 1
         /\ Append(j, e)[Len(j) + 1] = e
         /\ \A k \in 1..Len(j) : Append(j, e)[k] = j[k]
OBVIOUS

(* The journal is a sequence of events. *)
LEMMA JournalEvents ==
  ASSUME TypeOK
  PROVE  /\ journal \in Seq(Event)
         /\ Len(journal) \in Nat
         /\ \A k \in 1..Len(journal) :
               /\ journal[k] \in Event
               /\ journal[k].pass \in BOOLEAN
               /\ journal[k].unique \in BOOLEAN
               /\ journal[k].cost \in Nat
<1>1. journal \in Seq(Event)
  BY DEF TypeOK, Event
<1>2. \A k \in 1..Len(journal) : journal[k] \in Event
  BY <1>1, ElementOfSeq
<1> QED
  BY <1>1, <1>2 DEF Event

(* The invocations do not overlap: one begins when none is alive. *)
LEMMA AloneNext ==
  ASSUME ~Overlap, TypeOK, Alone, [Next]_vars
  PROVE  Alone'
<1> USE DEF Alone, Alive
<1>1. CASE UNCHANGED vars
  BY <1>1 DEF vars, memory
<1>2. ASSUME NEW p \in Procs, DryRun(p) \/ (\E c \in Costs : Serve(p, c))
      PROVE  Alone'
  BY <1>2 DEF DryRun, Serve, memory
<1>3. ASSUME NEW p \in Procs, NEW a \in Approvals, Begin(p, a)
      PROVE  Alone'
  <2>1. \A q \in Procs : pc[q] \notin Live
    BY <1>3 DEF Begin, MayStart, Over, Live
  <2>2. \A q \in Procs : q # p => pc'[q] = pc[q]
    BY <1>3 DEF Begin, Goto, TypeOK
  <2> QED
    BY <2>1, <2>2
<1>4. ASSUME NEW p \in Procs, Step(p) \/ Crash(p)
      PROVE  Alone'
  BY <1>4, OneMoves
<1>5. ASSUME NEW c \in Commits, MoveHead(c)
      PROVE  Alone'
  BY <1>5 DEF MoveHead, memory
<1> QED
  BY <1>1, <1>2, <1>3, <1>4, <1>5 DEF Next, Run

(* While one is alive nothing is frozen or blocked, so the verdict stays.    *)
LEMMA SameJournal ==
  ASSUME TypeOK, SInv, UNCHANGED <<source, journal, output, posts, wire, reply, billed>>
  PROVE  /\ JournalIsOneCall' /\ PostsFollowJournal' /\ PassIsBilled'
         /\ FrozenAsPassed' /\ BlockedUnpassed'
BY DEF SInv, JournalIsOneCall, PostsFollowJournal, PassIsBilled, Passed, FrozenAsPassed,
       BlockedUnpassed, LoadContext, JournalOfSource, BlockedSource, RecoveredFreeze

(* The initial state satisfies the invariant of the runs that do not       *)
(* overlap.                                                                *)
LEMMA SequentialInit ==
  ASSUME Init
  PROVE  SInv
<1>1. \A p \in Procs : pc[p] \notin Live
  BY DEF Init, Live
<1>2. Len(journal) = 0 /\ posts = 0 /\ billed = 0 /\ \A p \in Procs : wire[p] = "idle"
  BY DEF Init
<1>3. output.status = "ABSENT"
  BY DEF Init, NoOutput
<1> QED
  BY <1>1, <1>2, <1>3 DEF SInv, Alone, Alive, JournalIsOneCall, PostsFollowJournal,
     PassIsBilled, Passed, LiveKnows, FrozenAsPassed, BlockedUnpassed

(* Where they do not overlap, every step preserves it. *)
LEMMA SequentialNext ==
  ASSUME ~Overlap, AInv, SInv, [Next]_vars
  PROVE  SInv'
<1> USE DEF AInv
<1>0. Alone'
  <2>1. TypeOK /\ Alone
    BY DEF SInv
  <2> QED
    BY <2>1, AloneNext
<1>1. CASE UNCHANGED vars
  <2>1. LiveKnows'
    BY <1>1 DEF SInv, LiveKnows, Alive, Knows, Passed, vars, files, memory, remote
  <2> QED
    BY <1>0, <1>1, <2>1, SameJournal DEF SInv, vars, files, memory, remote
<1>2. ASSUME NEW p \in Procs, DryRun(p)
      PROVE  SInv'
  <2>1. \A q \in Procs : pc'[q] \notin Live
    BY <1>2 DEF DryRun, MayStart, Over, Live, memory
  <2>2. LiveKnows'
    BY <2>1 DEF LiveKnows, Alive
  <2> QED
    BY <1>0, <1>2, <2>2, SameJournal DEF SInv, DryRun, memory, remote
<1>3. ASSUME NEW p \in Procs, NEW a \in Approvals, Begin(p, a)
      PROVE  SInv'
  <2>1. pc'[p] = "auth" /\ \A q \in Procs : pc[q] \notin Live /\ (q # p => pc'[q] = pc[q])
    BY <1>3 DEF Begin, MayStart, Over, Live, Goto, TypeOK
  <2>2. output.status = "ABSENT" /\ UNCHANGED <<files, remote>>
    BY <1>3 DEF Begin
  <2>3. LiveKnows'
    BY <2>1, <2>2 DEF LiveKnows, Alive, Knows, files
  <2> QED
    BY <1>0, <2>2, <2>3, SameJournal DEF SInv, files, remote
<1>4. ASSUME NEW p \in Procs, Step(p) \/ Crash(p)
      PROVE  /\ pc[p] \in Live /\ Knows(p)
             /\ \A q \in Procs : q # p => pc[q] \notin Live /\ pc'[q] \notin Live
  BY <1>4, OneMoves DEF SInv, LiveKnows, Alone, Alive
<1>5. ASSUME NEW p \in Procs, ReadAuthorization(p) \/ CreateAuthorization(p)
                              \/ SealAuthorization(p) \/ CheckJournal(p)
                              \/ MissingKey(p)
      PROVE  SInv'
  <2>1. UNCHANGED <<source, hasJournal, journal, output, posts, wire, reply, billed>>
    BY <1>5 DEF ReadAuthorization, CreateAuthorization, SealAuthorization, CheckJournal,
                MissingKey, files, remote
  <2>2. output.status = "ABSENT"
    BY <1>4, <1>5 DEF Step, Knows, ReadAuthorization, CreateAuthorization, SealAuthorization,
                      CheckJournal, MissingKey
  <2>3. \E label \in {"create", "check", "done", "authOpen", "openJournal", "finalize"} :
           /\ pc' = [pc EXCEPT ![p] = label]
           /\ label = "openJournal" => ~hasJournal
    BY <1>5 DEF ReadAuthorization, CreateAuthorization, SealAuthorization, CheckJournal,
                JournalExists, MissingKey, Goto
  <2>4. LiveKnows'
    BY <1>4, <1>5, <2>1, <2>2, <2>3 DEF Step, LiveKnows, Alive, Knows, TypeOK
  <2> QED
    BY <1>0, <2>1, <2>4, SameJournal DEF SInv
<1>6. ASSUME NEW p \in Procs, OpenJournal(p)
      PROVE  SInv'
  <2>1. journal = <<>>
    BY <1>4, <1>6 DEF Step, OpenJournal, Knows, TypeOK
  <2>2. LiveKnows'
    BY <1>4, <1>6, <2>1 DEF Step, OpenJournal, Goto, LiveKnows, Alive, Knows, TypeOK
  <2> QED
    BY <1>0, <1>6, <2>2, SameJournal DEF SInv, OpenJournal, remote
<1>7. ASSUME NEW p \in Procs, AppendAttempt(p)
      PROVE  SInv'
  <2>1. AttemptEvent \in Event
    BY DEF AttemptEvent, Event
  <2>2. Len(journal) = 0 /\ posts = 0 /\ output.status = "ABSENT"
    BY <1>4, <1>7 DEF Step, AppendAttempt, Knows, SInv, PostsFollowJournal, TypeOK
  <2>3. Len(journal') = 1 /\ journal'[1] = AttemptEvent
    BY <1>7, <2>1, <2>2, JournalEvents, Appended DEF AppendAttempt
  <2>4. UNCHANGED <<source, output, posts, wire, reply, billed>>
    BY <1>7 DEF AppendAttempt, remote
  <2>5. pc' = [pc EXCEPT ![p] = "post"]
    BY <1>7 DEF AppendAttempt, Goto
  <2>6. LiveKnows'
    BY <1>4, <1>7, <2>2, <2>3, <2>4, <2>5 DEF Step, LiveKnows, Alive, Knows, TypeOK
  <2> QED
    BY <1>0, <2>2, <2>3, <2>4, <2>6
    DEF SInv, JournalIsOneCall, PostsFollowJournal, PassIsBilled, Passed, FrozenAsPassed,
        BlockedUnpassed
<1>8. ASSUME NEW p \in Procs, Post(p)
      PROVE  SInv'
  <2>1. /\ Len(journal) = 1 /\ posts = 0 /\ billed = 0 /\ output.status = "ABSENT"
        /\ \A q \in Procs : wire[q] = "idle"
    BY <1>4, <1>8 DEF Step, Post, Knows, SInv, PostsFollowJournal
  <2>2. /\ UNCHANGED <<source, hasJournal, journal, output, reply, billed>>
        /\ posts' = 1
        /\ wire' = [wire EXCEPT ![p] = "sent"]
        /\ pc' = [pc EXCEPT ![p] = "waiting"]
    BY <1>8, <2>1 DEF Post, Goto, files
  <2>3. LiveKnows'
    BY <1>4, <1>8, <2>1, <2>2 DEF Step, LiveKnows, Alive, Knows, TypeOK
  <2>4. PostsFollowJournal'
    <3>1. \A q \in Procs : wire'[q] = IF q = p THEN "sent" ELSE "idle"
      BY <2>1, <2>2 DEF TypeOK
    <3>2. posts' = 1 /\ Len(journal') = 1 /\ billed' = 0
      BY <2>1, <2>2
    <3> QED
      BY <3>1, <3>2 DEF PostsFollowJournal
  <2>5. Len(journal') = 1 /\ journal'[1] = journal[1] /\ output'.status = "ABSENT"
    BY <2>1, <2>2
  <2> QED
    BY <1>0, <2>1, <2>3, <2>4, <2>5
    DEF SInv, JournalIsOneCall, PassIsBilled, Passed, FrozenAsPassed, BlockedUnpassed
<1>9. ASSUME NEW p \in Procs, NEW c \in Costs, Serve(p, c)
      PROVE  SInv'
  <2>1. wire[p] = "sent" /\ billed = 0 /\ ~Passed /\ c \in Nat
    BY <1>9, MoneyAssumption DEF Serve, SInv, PostsFollowJournal, PassIsBilled
  <2>2. /\ UNCHANGED <<files, memory, posts>>
        /\ wire' = [wire EXCEPT ![p] = "served"]
        /\ reply' = [reply EXCEPT ![p] = c]
        /\ billed' = c
    BY <1>9, <2>1 DEF Serve
  <2>3. \A q \in Procs : q # p => wire[q] = "idle" /\ wire'[q] = "idle"
    BY <2>1, <2>2 DEF SInv, PostsFollowJournal, TypeOK
  <2>4. posts # 0
    BY <2>1 DEF SInv, PostsFollowJournal
  <2>5. PostsFollowJournal'
    BY <2>1, <2>2, <2>3, <2>4 DEF SInv, PostsFollowJournal, TypeOK, files
  <2>6. ASSUME NEW q \in Procs, pc'[q] \in Live
        PROVE  Knows(q)'
    <3>1. Knows(q) /\ pc'[q] = pc[q] /\ outcome'[q] = outcome[q]
      BY <2>2, <2>6 DEF SInv, LiveKnows, Alive, memory
    <3>2. pc[q] = "receipt" => q = p
      BY <2>3, <3>1 DEF Knows
    <3>3. pc[p] = "receipt" => ~Processed(outcome[p])
      BY <2>1, <2>2, <2>6, <3>1 DEF SInv, LiveKnows, Alive, Knows, Live
    <3> QED
      BY <2>1, <2>2, <3>1, <3>2, <3>3 DEF Knows, Passed, files, memory, TypeOK
  <2> QED
    BY <1>0, <2>1, <2>2, <2>5, <2>6
    DEF SInv, JournalIsOneCall, PassIsBilled, Passed, LiveKnows, Alive, FrozenAsPassed,
        BlockedUnpassed, files
<1>10. ASSUME NEW p \in Procs, NEW o \in Outcomes, Answer(p, o)
       PROVE  SInv'
  <2>1. /\ UNCHANGED <<files, remote>>
        /\ pc' = [pc EXCEPT ![p] = "receipt"]
        /\ outcome'[p] = o
        /\ record'[p] = IF Processed(o) THEN reply[p] ELSE 0
        /\ Processed(o) => wire[p] = "served"
    BY <1>10 DEF Answer, Goto, Processed, TypeOK
  <2>2. LiveKnows'
    BY <1>4, <1>10, <2>1 DEF Step, Answer, LiveKnows, Alive, Knows, TypeOK, files, remote
  <2> QED
    BY <1>0, <2>1, <2>2, SameJournal DEF SInv, files, remote
<1>11. ASSUME NEW p \in Procs, AppendReceipt(p)
       PROVE  SInv'
  <2> DEFINE e == ResultReceipt(outcome[p], record[p])
  <2>1. e \in Event /\ e.kind = "RECEIPT" /\ e.cost = record[p]
    BY DEF TypeOK, ResultReceipt, Processed, Event
  <2>2. e.pass <=> Processed(outcome[p])
    BY DEF ResultReceipt
  <2> HIDE DEF e
  <2>3. /\ Len(journal) = 1 /\ posts = 1 /\ output.status = "ABSENT" /\ wire[p] # "idle"
        /\ Processed(outcome[p]) => wire[p] = "served" /\ record[p] = reply[p]
        /\ journal[1] = AttemptEvent
    BY <1>4, <1>11 DEF Step, AppendReceipt, Knows, SInv, JournalIsOneCall
  <2>4. Len(journal') = 2 /\ journal'[1] = AttemptEvent /\ journal'[2] = e
    <3>1. journal' = Append(journal, e)
      BY <1>11 DEF AppendReceipt, e
    <3>2. journal \in Seq(Event)
      BY JournalEvents
    <3>3. Len(journal) = 1 /\ 1 \in 1..Len(journal)
      BY <2>3
    <3>4. /\ Len(Append(journal, e)) = Len(journal) + 1
          /\ Append(journal, e)[Len(journal) + 1] = e
          /\ Append(journal, e)[1] = journal[1]
      BY <2>1, <3>2, <3>3, Appended
    <3> QED
      BY <2>3, <3>1, <3>4
  <2>5. UNCHANGED <<source, output, posts, wire, reply, billed, record>>
    BY <1>11 DEF AppendReceipt, remote
  <2>6. \E label \in {"freeze", "block", "done"} :
           /\ pc' = [pc EXCEPT ![p] = label]
           /\ label = "freeze" => e.pass /\ Freezable(e)
           /\ label = "block" => ~e.pass
    BY <1>11, VerdictLabel DEF AppendReceipt, Goto, e
  <2>7. LiveKnows'
    BY <1>4, <1>11, <2>1, <2>2, <2>3, <2>4, <2>5, <2>6
    DEF Step, LiveKnows, Alive, Knows, Passed, TypeOK
  <2>8. PassIsBilled' /\ PostsFollowJournal' /\ JournalIsOneCall'
    BY <2>1, <2>2, <2>3, <2>4, <2>5
    DEF SInv, PassIsBilled, Passed, PostsFollowJournal, JournalIsOneCall
  <2> QED
    BY <1>0, <2>3, <2>5, <2>7, <2>8 DEF SInv, FrozenAsPassed, BlockedUnpassed
<1>12. ASSUME NEW p \in Procs, Finalize(p)
       PROVE  SInv'
  <2>1. /\ UNCHANGED <<source, hasJournal, journal, output, posts, wire, reply, billed>>
        /\ output.status = "ABSENT"
    BY <1>4, <1>12 DEF Step, Finalize, Knows, files, remote
  <2>2. \E label \in {"freeze", "block", "done"} :
           /\ pc' = [pc EXCEPT ![p] = label]
           /\ label = "freeze" => Passed /\ record'[p] = journal[2].cost /\ Freezable(journal[2])
           /\ label = "block" => Len(journal) >= 1 /\ ~Passed
    <3> USE <1>12 DEF Finalize, Goto, TypeOK
    <3>1. CASE Len(journal) = 1
      BY <3>1 DEF Passed
    <3>2. CASE Len(journal) = 2 /\ journal[2].kind = "RECEIPT"
      <4> DEFINE label == Verdict(journal[2])
      <4>1. /\ pc' = [pc EXCEPT ![p] = label]
            /\ record'[p] = journal[2].cost
        BY <3>2
      <4>2. /\ label \in {"freeze", "block", "done"}
            /\ label = "freeze" => Passed /\ Freezable(journal[2])
            /\ label = "block" => Len(journal) >= 1 /\ ~Passed
        BY <3>2, VerdictLabel DEF Passed
      <4> HIDE DEF label
      <4> QED
        BY <4>1, <4>2
    <3>3. CASE Len(journal) # 1 /\ ~(Len(journal) = 2 /\ journal[2].kind = "RECEIPT")
      BY <3>3
    <3> QED
      BY <3>1, <3>2, <3>3
  <2>3. LiveKnows'
    BY <1>4, <1>12, <2>1, <2>2 DEF Step, LiveKnows, Alive, Knows, Passed, TypeOK
  <2> QED
    BY <1>0, <2>1, <2>3, SameJournal DEF SInv
<1>13. ASSUME NEW p \in Procs, OpenOutput(p)
       PROVE  SInv'
  <2>1. UNCHANGED <<source, journal, posts, wire, reply, billed, record>>
    BY <1>13 DEF OpenOutput, remote
  <2>2. pc[p] \in {"freeze", "block"} /\ output.status = "ABSENT"
    BY <1>4, <1>13 DEF Step, OpenOutput, Knows
  <2>3. /\ output'.status = "TORN"
        /\ pc' = [pc EXCEPT ![p] = IF pc[p] = "freeze" THEN "freezeOpen" ELSE "blockOpen"]
    BY <1>13, <2>2, TornOutput DEF OpenOutput, Goto
  <2>4. LiveKnows'
    BY <1>4, <1>13, <2>1, <2>2, <2>3 DEF Step, LiveKnows, Alive, Knows, Passed, TypeOK
  <2> QED
    BY <1>0, <2>1, <2>3, <2>4
    DEF SInv, JournalIsOneCall, PostsFollowJournal, PassIsBilled, Passed, FrozenAsPassed,
        BlockedUnpassed
<1>14. ASSUME NEW p \in Procs, SealOutput(p)
       PROVE  SInv'
  <2>1. UNCHANGED <<source, journal, posts, wire, reply, billed, record>>
    BY <1>14 DEF SealOutput, remote
  <2>2. pc' = [pc EXCEPT ![p] = "done"]
    BY <1>14 DEF SealOutput, Goto
  <2>3. LiveKnows'
    BY <1>4, <1>14, <2>2 DEF Step, LiveKnows, Alive, Live, TypeOK
  <2>4. JournalIsOneCall' /\ PostsFollowJournal' /\ PassIsBilled'
    BY <2>1 DEF SInv, JournalIsOneCall, PostsFollowJournal, PassIsBilled, Passed
  <2>5. LoadContext /\ record[p] \in Nat /\ source \in Sources
    BY <1>4, <1>14 DEF Step, SourceKept, Alive, TypeOK
  <2>6. CASE pc[p] = "freezeOpen"
    <3>1. output' = RecoveredFreeze(record[p])
      BY <1>14, <2>6 DEF SealOutput
    <3>2. output'.status = "FROZEN" /\ output'.cost = record[p]
      BY <2>5, <3>1, FreezeHasType
    <3>3. Passed /\ Freezable(journal[2]) /\ journal[2].cost = record[p]
      BY <1>4, <1>14, <2>6 DEF Step, Knows
    <3>4. FrozenAsPassed'
      BY <2>1, <2>5, <3>1, <3>2, <3>3
      DEF FrozenAsPassed, Passed, LoadContext, JournalOfSource, BlockedSource, RecoveredFreeze
    <3> QED
      BY <1>0, <2>3, <2>4, <3>2, <3>4 DEF SInv, BlockedUnpassed
  <2>7. CASE pc[p] = "blockOpen"
    <3>1. output'.status = "BLOCKED"
      BY <1>14, <2>7, TornOutput DEF SealOutput
    <3>2. Len(journal) >= 1 /\ ~Passed
      BY <1>4, <1>14, <2>7 DEF Step, Knows
    <3> QED
      BY <1>0, <2>1, <2>3, <2>4, <3>1, <3>2 DEF SInv, FrozenAsPassed, BlockedUnpassed, Passed
  <2> QED
    BY <1>14, <2>6, <2>7 DEF SealOutput
<1>15. ASSUME NEW p \in Procs, Crash(p)
       PROVE  SInv'
  <2>1. LiveKnows'
    BY <1>4, <1>15 DEF LiveKnows, Alive, Crash, Goto, Live, TypeOK
  <2> QED
    BY <1>0, <1>15, <2>1, SameJournal DEF SInv, Crash, files, remote
<1>16. ASSUME NEW c \in Commits, MoveHead(c)
       PROVE  SInv'
  <2>1. LiveKnows'
    BY <1>16 DEF SInv, LiveKnows, Alive, Knows, Passed, MoveHead, memory, remote
  <2> QED
    BY <1>0, <1>16, <2>1, SameJournal DEF SInv, MoveHead, memory, remote
<1> QED
  BY <1>1, <1>2, <1>3, <1>5, <1>6, <1>7, <1>8, <1>9, <1>10, <1>11, <1>12, <1>13, <1>14,
     <1>15, <1>16
  DEF Next, Run, Step
-----------------------------------------------------------------------------
(* Invocations that do not overlap keep AInv and SInv. *)
THEOREM SequentialInductive ==
  ASSUME ~Overlap
  PROVE  Spec => [](AInv /\ SInv)
<1>1. Init => SInv
  BY SequentialInit
<1>2. AInv /\ SInv /\ [Next]_vars => SInv'
  BY SequentialNext
<1> QED
  BY <1>1, <1>2, Prepared, PTL DEF Spec

(* Crashes and reruns of the script at any point never lead to a second     *)
(* POST of the recovery call, when its invocations do not overlap; the      *)
(* approval that was consumed is the one given to the run that dispatches.  *)
THEOREM PostedOnce ==
  ASSUME ~Overlap
  PROVE  Spec => []AtMostOneRecoveryPost
<1>1. AInv /\ SInv => AtMostOneRecoveryPost
  BY DEF AInv, AuthorizationKept, Authorized, SInv, PostsFollowJournal,
         AtMostOneRecoveryPost, ApprovalIsBound
<1> QED
  BY <1>1, SequentialInductive, PTL

(* The events of each kind in a journal of one call. *)
LEMMA OneCallCounts ==
  ASSUME TypeOK, JournalIsOneCall
  PROVE  /\ PassReceipts = IF Passed THEN {2} ELSE {}
         /\ Len(journal) >= 1 => Attempts > 0
<1>1. /\ Len(journal) \in 0..2
      /\ Len(journal) >= 1 => journal[1].kind = "ATTEMPT"
      /\ Len(journal) = 2 => journal[2].kind = "RECEIPT"
  <2>1. Len(journal) \in Nat
    BY JournalEvents
  <2>2. AttemptEvent.kind = "ATTEMPT"
    BY DEF AttemptEvent
  <2> QED
    <3>0. Len(journal) <= 2
      BY DEF JournalIsOneCall
    <3>1. Len(journal) \in 0..2
      <4>1. \A n \in Nat : n <= 2 => n \in 0..2
        OBVIOUS
      <4> QED
        BY <2>1, <3>0, <4>1
    <3>2. Len(journal) >= 1 => journal[1] = AttemptEvent
      BY DEF JournalIsOneCall
    <3>3. Len(journal) = 2 => journal[2].kind = "RECEIPT"
      BY DEF JournalIsOneCall
    <3> QED
      BY <2>2, <3>1, <3>2, <3>3
<1>2. PassReceipts = IF Passed THEN {2} ELSE {}
  <2>1. \A k \in 1..Len(journal) : k \in PassReceipts <=> k = 2 /\ Passed
    BY <1>1 DEF PassReceipts, Passed
  <2>2. PassReceipts \subseteq 1..Len(journal)
    BY DEF PassReceipts
  <2>3. Passed => 2 \in 1..Len(journal)
    BY DEF Passed
  <2> QED
    BY <2>1, <2>2, <2>3
<1>3. ASSUME Len(journal) >= 1
      PROVE  Attempts > 0
  <2> DEFINE sent == {k \in 1..Len(journal) : journal[k].kind = "ATTEMPT"}
  <2>1. 1 \in sent
    BY <1>1, <1>3
  <2>2. IsFiniteSet(sent)
    <3>1. IsFiniteSet(1..Len(journal))
      BY <1>1, FS_Interval
    <3>2. sent \subseteq 1..Len(journal)
      OBVIOUS
    <3> HIDE DEF sent
    <3> QED
      BY <3>1, <3>2, FS_Subset
  <2> HIDE DEF sent
  <2>3. Cardinality(sent) \in Nat /\ Cardinality(sent) # 0
    BY <2>1, <2>2, FS_CardinalityType, FS_EmptySet
  <2> QED
    BY <2>3 DEF Attempts, sent
<1> QED
  BY <1>2, <1>3

(* A frozen artifact charges the dispatch in doubt at the ceiling of a call, *)
(* so it is short only of what that dispatch cost beyond it, and it stays    *)
(* within what the plan announced.                                           *)
LEMMA FrozenWithinPlan ==
  ASSUME AInv, SInv, output.status = "FROZEN"
  PROVE  FreezeAgrees /\ AggregateBound
<1> USE MoneyAssumption
<1>1. /\ LoadContext /\ Passed
      /\ Freezable(journal[2]) /\ journal[2].cost = output.cost
      /\ output = RecoveredFreeze(output.cost)
      /\ source \in Sources /\ inDoubt \in Nat
  BY DEF AInv, SInv, FrozenAsPassed, SourceKept, TypeOK
<1>2. output.cost \in Nat /\ billed \in Nat /\ billed = output.cost
  BY <1>1 DEF AInv, TypeOK, SInv, PassIsBilled
<1> DEFINE c == output.cost
<1>3. /\ output.upper = UpperBound(c)
      /\ Len(output.opinions) = N /\ output.opinions[N] = c
      /\ \A i \in 1..(N - 1) : output.opinions[i] = source.receipts[i].cost
  <2> HIDE DEF c
  <2>1. c \in Nat /\ output = RecoveredFreeze(c)
    BY <1>1, <1>2 DEF c
  <2> QED
    BY <1>1, <2>1, FreezeHasType
<1>4. FreezeAgrees
  <2>1. \A i \in 1..(N - 1) : source.receipts[i].pass
    BY <1>1 DEF LoadContext, JournalOfSource
  <2>2. 2 \in PassReceipts
    BY <1>1, OneCallCounts DEF AInv, SInv
  <2> QED
    BY <1>1, <1>3, <2>1, <2>2 DEF FreezeAgrees
<1>5. SpentOn(source.receipts) = Known
  BY <1>1, SourceAssumption DEF LoadContext, BlockedSource
<1>6. AggregateBound
  <2>1. output.upper = Known + c + Ceiling
    BY <1>3 DEF UpperBound
  <2>2. c \in Nat /\ c <= Ceiling /\ billed = c /\ inDoubt \in Nat
    BY <1>1, <1>2 DEF Freezable
  <2> HIDE DEF c
  <2> QED
    BY <1>5, <2>1, <2>2 DEF AggregateBound, RecoveryPlan, Overrun
<1> QED
  BY <1>4, <1>6

(* Whoever writes the verdict, after however many crashes, it follows from   *)
(* the journal: a freeze has the receipt of an answer that passed, repeats   *)
(* nothing and is within the ceiling, the opinions of the source run, and an *)
(* upper bound on what the Initial stage cost that is short by exactly what  *)
(* the unknown dispatch cost beyond one ceiling; a block means no answer     *)
(* passed.                                                                   *)
THEOREM VerdictFollowsJournal ==
  ASSUME ~Overlap
  PROVE  Spec => []VerdictAgreesWithJournal
<1>1. ASSUME AInv, SInv
      PROVE  VerdictAgreesWithJournal
  <2>1. FreezeAgrees /\ AggregateBound
    BY <1>1, FrozenWithinPlan DEF FreezeAgrees, AggregateBound
  <2>2. BlockAgrees
    BY <1>1, OneCallCounts DEF AInv, SInv, BlockAgrees, BlockedUnpassed
  <2> QED
    BY <2>1, <2>2 DEF VerdictAgreesWithJournal
<1>2. AInv /\ SInv => VerdictAgreesWithJournal
  BY <1>1
<1> QED
  BY <1>2, SequentialInductive, PTL
=============================================================================
