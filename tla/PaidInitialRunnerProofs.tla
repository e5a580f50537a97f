----------------------- MODULE PaidInitialRunnerProofs -----------------------
(***************************************************************************)
(* Proofs about PaidInitialRunner for any number of processes, planned     *)
(* calls and commits, any ceiling and any costs.  The argument: the file   *)
(* created with open("x") names one run, auth.by; every other process is   *)
(* still before its own creation, or over, and has spent nothing.  So the  *)
(* journal, the requests and the bill are those of auth.by alone, and its  *)
(* own loop bounds them.                                                   *)
(***************************************************************************)
EXTENDS PaidInitialRunner, TLAPS

(* Nobody but the run named by the authorization has a footprint. *)
OnlyOwnerActs ==
    /\ (auth.state = "ABSENT") <=> (auth.by = NoProc)
    /\ \A p \in Procs : auth.by # p =>
        /\ pc[p] \in {"idle", "cleared", "done", "dead"}
        /\ wire[p] = "idle"
        /\ cost[p] = 0
        /\ attempts[p] = 0

(* Without an authorization nothing was sent or billed. *)
NothingWithoutAuth ==
    auth.by = NoProc => billed = 0 /\ \A i \in Items : posts[i] = 0

(* Where the owner is in its loop, and which calls it has POSTed. *)
OwnerLoop ==
    \A p \in Procs : auth.by = p =>
        /\ pc[p] \notin {"idle", "cleared"}
        /\ pc[p] \in {"attempted", "waiting", "resulted"} => attempts[p] > 0
        /\ \A i \in Items : posts[i] <= 1 /\ (i > attempts[p] => posts[i] = 0)
        /\ pc[p] = "attempted" => posts[attempts[p]] = 0
        /\ wire[p] = "sent" => attempts[p] > 0
        /\ pc[p] \in {"authOpen", "sealed", "loop", "attempted", "freezing", "freezeOpen"}
              => wire[p] = "idle"
        /\ pc[p] = "waiting" => wire[p] # "idle"
        /\ pc[p] = "resulted" /\ outcome[p] # "UNKNOWN" => wire[p] = "served"

(* The bill is the owner's known cost plus at most one call in doubt, and   *)
(* a call is in doubt only while the known cost is within the ceiling.      *)
Accounts ==
    \A p \in Procs : auth.by = p =>
        /\ billed = cost[p] + (IF wire[p] = "served" THEN reply[p] ELSE 0)
        /\ cost[p] <= Ceiling + MaxCost
        /\ wire[p] # "idle" => cost[p] <= Ceiling
        /\ pc[p] \in {"authOpen", "sealed", "loop", "attempted", "freezing", "freezeOpen"}
              => cost[p] <= Ceiling

(* The journal has an attempt event for each call the owner has announced. *)
Journaled(i) ==
    \E k \in 1..Len(journal) :
        journal[k].kind = "ATTEMPT" /\ journal[k].item = i

AttemptsJournaled ==
    \A p \in Procs : auth.by = p => \A i \in 1..attempts[p] : Journaled(i)

(* The dry artifact does not change once a process has verified it. *)
DryIsStable ==
    /\ ~dryFile => dry = NoCommit
    /\ \A p \in Procs : pc[p] = "cleared" => runHead[p] = dry /\ dry \in Commits
    /\ AuthorizationBindsDryCode

IInv ==
    /\ TypeOK
    /\ OnlyOwnerActs
    /\ NothingWithoutAuth
    /\ OwnerLoop
    /\ Accounts
    /\ AttemptsJournaled
    /\ DryIsStable
-----------------------------------------------------------------------------
(* An output that is missing, or has no bytes yet, is an artifact value. *)
LEMMA EmptyOutput == NoOutput \in Artifact /\ \A p \in Procs : TornOutput(p) \in Artifact
BY DEF NoOutput, TornOutput, Artifact, OutputStatuses, CostStatuses

(* Every variable keeps the values the code can give it. *)
LEMMA TypeInit == Init => TypeOK
<1> SUFFICES ASSUME Init
             PROVE  TypeOK
  OBVIOUS
<1> USE ProcAssumption, NAssumption, MoneyAssumption DEF Init
<1>0. 0 \in 0..MaxCost /\ 0 \in 0..N
  BY NAssumption, MoneyAssumption
<1>2. FilesTypeOK
  <2>1. journal \in Seq(Event)
    OBVIOUS
  <2>2. output \in Artifact
    BY EmptyOutput
  <2>3. auth \in [state : {"ABSENT", "TORN", "WRITTEN"},
                 by : Procs \cup {NoProc}, head : Commits \cup {NoCommit}]
    OBVIOUS
  <2>4. head \in Commits /\ dryFile \in BOOLEAN /\ dry \in Commits \cup {NoCommit}
    OBVIOUS
  <2> QED
    BY <2>1, <2>2, <2>3, <2>4 DEF FilesTypeOK
<1>3. MemoryTypeOK
  <2>1. attempts \in [Procs -> 0..N] /\ responses \in [Procs -> Nat]
        /\ processed \in [Procs -> Nat] /\ cost \in [Procs -> Nat]
    BY <1>0
  <2> QED
    BY <2>1 DEF MemoryTypeOK, Outcomes, CostStatuses
<1>4. ProviderTypeOK
  BY <1>0 DEF ProviderTypeOK, Items
<1> QED
  BY <1>2, <1>3, <1>4 DEF TypeOK

(* Every step keeps the types. *)
LEMMA TypeNext == TypeOK /\ [Next]_vars => TypeOK'
<1> SUFFICES ASSUME TypeOK, [Next]_vars
             PROVE  TypeOK'
  OBVIOUS
<1> USE ProcAssumption, NAssumption, MoneyAssumption DEF TypeOK
<1>1. ASSUME NEW c \in Commits, MoveHead(c)
      PROVE  TypeOK'
  BY <1>1 DEF MoveHead, FilesTypeOK, MemoryTypeOK, ProviderTypeOK, memory, remote
<1>2. ASSUME NEW p \in Procs, DryRun(p)
      PROVE  TypeOK'
  <2>1. FilesTypeOK'
    BY <1>2 DEF DryRun, FilesTypeOK
  <2>2. MemoryTypeOK'
    BY <1>2 DEF DryRun, Goto, MemoryTypeOK
  <2> QED
    BY <1>2, <2>1, <2>2 DEF DryRun, Goto, MemoryTypeOK, ProviderTypeOK, remote
<1>3. ASSUME NEW p \in Procs, Refuse(p)
      PROVE  TypeOK'
  <2>1. FilesTypeOK'
    BY <1>3 DEF Refuse, files, FilesTypeOK
  <2>2. MemoryTypeOK'
    BY <1>3 DEF Refuse, Goto, MemoryTypeOK
  <2> QED
    BY <1>3, <2>1, <2>2 DEF Refuse, Goto, MemoryTypeOK, ProviderTypeOK, remote
<1>4. ASSUME NEW p \in Procs, NEW c \in Commits, Preflight(p, c)
      PROVE  TypeOK'
  <2>1. FilesTypeOK'
    BY <1>4 DEF Preflight, files, FilesTypeOK
  <2>2. MemoryTypeOK'
    BY <1>4 DEF Preflight, Goto, MemoryTypeOK, FilesTypeOK, Live
  <2> QED
    BY <1>4, <2>1, <2>2 DEF Preflight, Goto, MemoryTypeOK, ProviderTypeOK, remote
<1>5. ASSUME NEW p \in Procs, OpenAuthorization(p)
      PROVE  TypeOK'
  <2>1. FilesTypeOK'
    BY <1>5 DEF OpenAuthorization, FilesTypeOK, MemoryTypeOK
  <2>2. MemoryTypeOK'
    BY <1>5 DEF OpenAuthorization, Goto, MemoryTypeOK, Live
  <2> QED
    BY <1>5, <2>1, <2>2 DEF OpenAuthorization, Goto, MemoryTypeOK, ProviderTypeOK, remote
<1>6. ASSUME NEW p \in Procs, SealAuthorization(p)
      PROVE  TypeOK'
  <2>1. FilesTypeOK'
    BY <1>6 DEF SealAuthorization, FilesTypeOK
  <2>2. MemoryTypeOK'
    BY <1>6 DEF SealAuthorization, Goto, MemoryTypeOK, Live
  <2> QED
    BY <1>6, <2>1, <2>2 DEF SealAuthorization, Goto, MemoryTypeOK, ProviderTypeOK, remote
<1>7. ASSUME NEW p \in Procs, AppendAttempt(p)
      PROVE  TypeOK'
  <2>1. attempts[p] + 1 \in Items
    BY <1>7 DEF AppendAttempt, MemoryTypeOK, Items
  <2>2. AttemptEvent(p, attempts[p] + 1) \in Event
    BY <2>1 DEF AttemptEvent, Event
  <2>3. FilesTypeOK'
    BY <1>7, <2>2 DEF AppendAttempt, FilesTypeOK
  <2>4. MemoryTypeOK'
    BY <1>7, <2>1 DEF AppendAttempt, Goto, MemoryTypeOK, Live, Items
  <2>5. \A q \in Procs : attempts'[q] = attempts[q] \/ attempts'[q] \in Items
    BY <1>7, <2>1 DEF AppendAttempt, MemoryTypeOK
  <2>6. ProviderTypeOK'
    BY <1>7, <2>5 DEF AppendAttempt, ProviderTypeOK, remote
  <2> QED
    BY <1>7, <2>1, <2>3, <2>4, <2>6 DEF AppendAttempt, Goto, MemoryTypeOK
<1>8. ASSUME NEW p \in Procs, Post(p)
      PROVE  TypeOK'
  <2>1. FilesTypeOK'
    BY <1>8 DEF Post, files, FilesTypeOK
  <2>2. MemoryTypeOK'
    BY <1>8 DEF Post, Goto, MemoryTypeOK, Live
  <2>3. ProviderTypeOK'
    BY <1>8 DEF Post, ProviderTypeOK
  <2> QED
    BY <1>8, <2>1, <2>2, <2>3 DEF Post, Goto, MemoryTypeOK
<1>9. ASSUME NEW p \in Procs, NEW c \in Costs, Serve(p, c)
      PROVE  TypeOK'
  <2>1. FilesTypeOK' /\ MemoryTypeOK'
    BY <1>9 DEF Serve, files, memory, FilesTypeOK, MemoryTypeOK
  <2>2. ProviderTypeOK'
    <3>1. c \in 0..MaxCost /\ c \in Nat
      <4>1. c \in 0..MaxCost /\ MaxCost \in Nat
        BY MoneyAssumption
      <4> QED
        BY <4>1
    <3>2. billed' \in Nat /\ reply' \in [Procs -> 0..MaxCost]
      BY <1>9, <3>1 DEF Serve, ProviderTypeOK
    <3>3. served' \in SUBSET Items
      BY <1>9 DEF Serve, ProviderTypeOK
    <3> QED
      BY <1>9, <3>2, <3>3 DEF Serve, memory, ProviderTypeOK
  <2> QED
    BY <1>9, <2>1, <2>2 DEF Serve, memory
<1>10. ASSUME NEW p \in Procs, NEW o \in Outcomes, Respond(p, o)
       PROVE  TypeOK'
  <2>1. FilesTypeOK'
    BY <1>10 DEF Respond, files, FilesTypeOK
  <2>2. MemoryTypeOK'
    BY <1>10 DEF Respond, Goto, MemoryTypeOK, Live
  <2> QED
    BY <1>10, <2>1, <2>2 DEF Respond, Goto, MemoryTypeOK, ProviderTypeOK, remote
<1>11. ASSUME NEW p \in Procs, LoseAnswer(p)
       PROVE  TypeOK'
  <2>1. FilesTypeOK'
    BY <1>11 DEF LoseAnswer, files, FilesTypeOK
  <2>2. MemoryTypeOK'
    BY <1>11 DEF LoseAnswer, Goto, MemoryTypeOK, Live, Outcomes
  <2> QED
    BY <1>11, <2>1, <2>2 DEF LoseAnswer, Goto, MemoryTypeOK, ProviderTypeOK, remote
<1>12. ASSUME NEW p \in Procs, AppendReceipt(p)
       PROVE  TypeOK'
  <2>1. attempts[p] \in Items
    BY <1>12 DEF AppendReceipt
  <2>2. Receipt(p, attempts[p], outcome[p]) \in Event
    BY <2>1 DEF Receipt, Event
  <2>3. FilesTypeOK'
    BY <1>12, <2>2 DEF AppendReceipt, FilesTypeOK
  <2>4. ReceiptCostStatus(outcome[p]) \in CostStatuses
    BY DEF ReceiptCostStatus, CostStatuses, MemoryTypeOK, Outcomes
  <2>5. cost' \in [Procs -> Nat]
    BY <1>12 DEF AppendReceipt, MemoryTypeOK, ProviderTypeOK
  <2>6. pc' \in [Procs -> {"idle", "done", "dead"} \cup Live \cup Raised]
    BY <1>12 DEF AppendReceipt, Goto, AfterPass, MemoryTypeOK, Live
  <2>7. costStatus' \in [Procs -> CostStatuses]
    BY <1>12, <2>4 DEF AppendReceipt, MemoryTypeOK, CostStatuses
  <2>8. processed' \in [Procs -> Nat]
    BY <1>12 DEF AppendReceipt, MemoryTypeOK
  <2>9. MemoryTypeOK'
    BY <1>12, <2>5, <2>6, <2>7, <2>8 DEF AppendReceipt, MemoryTypeOK
  <2>10. ProviderTypeOK'
    BY <1>12, <2>1 DEF AppendReceipt, ProviderTypeOK
  <2> QED
    BY <1>12, <2>1, <2>3, <2>9, <2>10 DEF AppendReceipt, Goto, MemoryTypeOK
<1>13. ASSUME NEW p \in Procs, NEW from, NEW to \in Live \ {"attempted", "waiting", "resulted"},
              OpenOutput(p, from, to)
       PROVE  TypeOK'
  <2>1. FilesTypeOK'
    BY <1>13, EmptyOutput DEF OpenOutput, FilesTypeOK
  <2>2. MemoryTypeOK'
    BY <1>13 DEF OpenOutput, Goto, MemoryTypeOK
  <2> QED
    BY <1>13, <2>1, <2>2 DEF OpenOutput, Goto, MemoryTypeOK, ProviderTypeOK, remote
<1>14. ASSUME NEW p \in Procs, OpenFreeze(p) \/ OpenBlocked(p)
       PROVE  TypeOK'
  BY <1>13, <1>14 DEF OpenFreeze, OpenBlocked, Live
<1>15. ASSUME NEW p \in Procs, SealOutput(p)
       PROVE  TypeOK'
  <2>1. FilesTypeOK'
    <3>1. FreezeArtifact(p) \in Artifact /\ BlockedArtifact(p) \in Artifact
      BY DEF FreezeArtifact, BlockedArtifact, Artifact, OutputStatuses,
             CostStatuses, MemoryTypeOK
    <3> QED
      BY <1>15, <3>1 DEF SealOutput, FilesTypeOK
  <2>2. MemoryTypeOK'
    BY <1>15 DEF SealOutput, Goto, MemoryTypeOK
  <2> QED
    BY <1>15, <2>1, <2>2 DEF SealOutput, Goto, MemoryTypeOK, ProviderTypeOK, remote
<1>16. ASSUME NEW p \in Procs, Crash(p)
       PROVE  TypeOK'
  <2>1. FilesTypeOK'
    BY <1>16 DEF Crash, files, FilesTypeOK
  <2>2. MemoryTypeOK'
    BY <1>16 DEF Crash, Goto, MemoryTypeOK
  <2> QED
    BY <1>16, <2>1, <2>2 DEF Crash, Goto, MemoryTypeOK, ProviderTypeOK, remote
<1>17. ASSUME NEW p \in Procs, LoadKey(p) \/ RejectCouncil(p)
       PROVE  TypeOK'
  <2>1. FilesTypeOK'
    BY <1>17 DEF LoadKey, RejectCouncil, files, FilesTypeOK
  <2>2. MemoryTypeOK'
    BY <1>17 DEF LoadKey, RejectCouncil, Goto, MemoryTypeOK, Live, Raised
  <2> QED
    BY <1>17, <2>1, <2>2
       DEF LoadKey, RejectCouncil, Goto, MemoryTypeOK, ProviderTypeOK, remote
<1>18. CASE UNCHANGED vars
  BY <1>18 DEF vars, files, memory, remote, FilesTypeOK, MemoryTypeOK, ProviderTypeOK
<1> QED
  BY <1>1, <1>2, <1>3, <1>4, <1>5, <1>6, <1>7, <1>8, <1>9, <1>10, <1>11,
     <1>12, <1>14, <1>15, <1>16, <1>17, <1>18 DEF Next, Step

(* The type invariant of the runner. *)
THEOREM TypeCorrect == Spec => []TypeOK
BY TypeInit, TypeNext, PTL DEF Spec
-----------------------------------------------------------------------------
(* A process past its authorization, or with a request out, is the owner. *)
LEMMA OwnerOfStep ==
  ASSUME OnlyOwnerActs, NEW p \in Procs,
         pc[p] \in Live \ {"cleared"} \/ wire[p] # "idle"
  PROVE  auth.by = p
BY DEF OnlyOwnerActs, Live

(* A process that ends, goes on to its calls, or creates its output,        *)
(* disturbs no invariant.                                                   *)
LEMMA Leaving ==
  ASSUME TypeOK, OnlyOwnerActs, NothingWithoutAuth, OwnerLoop, Accounts,
         AttemptsJournaled,
         NEW p \in Procs, NEW l \in {"done", "dead", "loop", "freezeOpen", "blockOpen"} \cup Raised,
         pc' = [pc EXCEPT ![p] = l],
         l = "loop" => pc[p] = "sealed",
         l \in Raised => pc[p] \in {"sealed", "freezing"},
         l = "freezeOpen" => pc[p] = "freezing",
         l = "blockOpen" => pc[p] = "blocking",
         pc[p] = "idle" \/ pc[p] \in Live,
         UNCHANGED <<auth, journal, attempts, cost, outcome, posts, billed,
                     wire, reply>>
  PROVE  (OnlyOwnerActs /\ NothingWithoutAuth /\ OwnerLoop /\ Accounts
          /\ AttemptsJournaled)'
<1> USE DEF TypeOK, MemoryTypeOK
<1>1. OnlyOwnerActs'
  <2>1. ASSUME NEW q \in Procs, auth.by # q
        PROVE  pc'[q] \in {"idle", "cleared", "done", "dead"}
    <3>1. pc[q] \in {"idle", "cleared", "done", "dead"}
      BY <2>1 DEF OnlyOwnerActs
    <3>2. CASE q # p
      BY <3>1, <3>2
    <3>3. CASE q = p
      BY <3>1, <3>3 DEF Raised, Live
    <3> QED
      BY <3>2, <3>3
  <2> QED
    BY <2>1 DEF OnlyOwnerActs
<1>2. NothingWithoutAuth'
  BY DEF NothingWithoutAuth
<1>3. OwnerLoop'
  BY DEF OwnerLoop, Raised
<1>4. Accounts'
  BY DEF Accounts, Raised
<1>5. AttemptsJournaled'
  BY DEF AttemptsJournaled, Journaled
<1> QED
  BY <1>1, <1>2, <1>3, <1>4, <1>5

(* Before anything is created all the invariants hold trivially. *)
LEMMA IndInit == Init => IInv
<1> SUFFICES ASSUME Init
             PROVE  IInv
  OBVIOUS
<1>1. TypeOK
  BY TypeInit
<1> USE ProcAssumption DEF Init
<1>2. OnlyOwnerActs
  BY DEF OnlyOwnerActs
<1>3. NothingWithoutAuth
  BY DEF NothingWithoutAuth
<1>4. OwnerLoop /\ Accounts /\ AttemptsJournaled
  BY DEF OwnerLoop, Accounts, AttemptsJournaled
<1>5. DryIsStable
  BY DEF DryIsStable, AuthorizationBindsDryCode
<1> QED
  BY <1>1, <1>2, <1>3, <1>4, <1>5 DEF IInv

(* The dry artifact and the head in the authorization stay bound together. *)
LEMMA DryNext == TypeOK /\ DryIsStable /\ OnlyOwnerActs /\ [Next]_vars => DryIsStable'
<1> SUFFICES ASSUME TypeOK, DryIsStable, OnlyOwnerActs, [Next]_vars
             PROVE  DryIsStable'
  OBVIOUS
<1> USE ProcAssumption
        DEF TypeOK, FilesTypeOK, MemoryTypeOK, DryIsStable, AuthorizationBindsDryCode
<1>1. ASSUME NEW p \in Procs, DryRun(p)
      PROVE  DryIsStable'
  <2>1. auth.state = "ABSENT" /\ \A q \in Procs : pc[q] # "cleared"
    BY <1>1 DEF DryRun
  <2> QED
    BY <1>1, <2>1 DEF DryRun, Goto
<1>2. ASSUME NEW p \in Procs, NEW c \in Commits, Preflight(p, c)
      PROVE  DryIsStable'
  BY <1>2 DEF Preflight, DryVerified, Goto, files
<1>3. ASSUME NEW p \in Procs, OpenAuthorization(p)
      PROVE  DryIsStable'
  BY <1>3 DEF OpenAuthorization, Goto
<1>4. ASSUME NEW p \in Procs, SealAuthorization(p)
      PROVE  DryIsStable'
  <2>1. auth.state # "ABSENT"
    BY <1>4, OwnerOfStep DEF SealAuthorization, Live, OnlyOwnerActs
  <2>2. auth'.head = auth.head
    BY <1>4 DEF SealAuthorization
  <2> QED
    BY <1>4, <2>1, <2>2 DEF SealAuthorization, Goto
<1>5. ASSUME UNCHANGED <<dryFile, dry, auth, runHead>>,
             \A q \in Procs : pc'[q] = "cleared" => pc[q] = "cleared"
      PROVE  DryIsStable'
  BY <1>5
<1>6. ASSUME NEW c \in Commits, MoveHead(c)
      PROVE  DryIsStable'
  BY <1>5, <1>6 DEF MoveHead, memory
<1>7. ASSUME NEW p \in Procs, Refuse(p) \/ LoadKey(p) \/ RejectCouncil(p) \/ Crash(p)
      PROVE  DryIsStable'
  BY <1>5, <1>7 DEF Refuse, LoadKey, RejectCouncil, Crash, Goto, files
<1>8. ASSUME NEW p \in Procs, AppendAttempt(p) \/ Post(p) \/ LoseAnswer(p)
      PROVE  DryIsStable'
  BY <1>5, <1>8 DEF AppendAttempt, Post, LoseAnswer, Goto, files
<1>9. ASSUME NEW p \in Procs, NEW o \in Outcomes, Respond(p, o)
      PROVE  DryIsStable'
  BY <1>5, <1>9 DEF Respond, Goto, files
<1>10. ASSUME NEW p \in Procs, NEW c \in Costs, Serve(p, c)
       PROVE  DryIsStable'
  BY <1>5, <1>10 DEF Serve, files, memory
<1>11. ASSUME NEW p \in Procs, AppendReceipt(p)
       PROVE  DryIsStable'
  BY <1>5, <1>11 DEF AppendReceipt, AfterPass, Goto
<1>12. ASSUME NEW p \in Procs, OpenFreeze(p) \/ OpenBlocked(p) \/ SealOutput(p)
       PROVE  DryIsStable'
  BY <1>5, <1>12 DEF OpenFreeze, OpenBlocked, OpenOutput, SealOutput, Goto
<1>13. CASE UNCHANGED vars
  BY <1>5, <1>13 DEF vars, files, memory
<1> QED
  BY <1>1, <1>2, <1>3, <1>4, <1>6, <1>7, <1>8, <1>9, <1>10, <1>11, <1>12,
     <1>13 DEF Next, Step

(* What is in the journal stays in it. *)
LEMMA StaysJournaled ==
  ASSUME journal \in Seq(Event), NEW e, journal' = Append(journal, e),
         NEW i, Journaled(i)
  PROVE  Journaled(i)'
<1>1. PICK k \in 1..Len(journal) : journal[k].kind = "ATTEMPT" /\ journal[k].item = i
  BY DEF Journaled
<1>2. Len(journal') = Len(journal) + 1 /\ Len(journal) \in Nat
  OBVIOUS
<1>3. k \in 1..Len(journal') /\ journal'[k] = journal[k]
  BY <1>2
<1> QED
  BY <1>1, <1>3 DEF Journaled

(* Each step of the runner and of the provider preserves the invariant. *)
LEMMA IndNext == IInv /\ [Next]_vars => IInv'
<1> SUFFICES ASSUME IInv, [Next]_vars
             PROVE  IInv'
  OBVIOUS
<1>1. TypeOK' /\ DryIsStable'
  BY TypeNext, DryNext DEF IInv
<1> DEFINE Kept == OnlyOwnerActs /\ NothingWithoutAuth /\ OwnerLoop /\ Accounts
                   /\ AttemptsJournaled
<1> SUFFICES Kept'
  BY <1>1 DEF IInv
<1> USE ProcAssumption, NAssumption, MoneyAssumption
        DEF IInv, TypeOK, MemoryTypeOK, ProviderTypeOK
<1>2. ASSUME UNCHANGED <<auth, journal, memory, remote>>
      PROVE  Kept'
  BY <1>2 DEF memory, remote, OnlyOwnerActs, NothingWithoutAuth, OwnerLoop,
              Accounts, AttemptsJournaled, Journaled
<1>3. ASSUME NEW c \in Commits, MoveHead(c)
      PROVE  Kept'
  BY <1>2, <1>3 DEF MoveHead
<1>4. ASSUME NEW p \in Procs, DryRun(p)
      PROVE  Kept'
  BY <1>4, Leaving DEF DryRun, Goto, remote, Raised
<1>5. ASSUME NEW p \in Procs, Refuse(p)
      PROVE  Kept'
  BY <1>5, Leaving DEF Refuse, Goto, files, remote, Raised
<1>6. ASSUME NEW p \in Procs, Crash(p)
      PROVE  Kept'
  BY <1>6, Leaving DEF Crash, Goto, files, remote, Raised
<1>7. ASSUME NEW p \in Procs, NEW c \in Commits, Preflight(p, c)
      PROVE  Kept'
  <2>1. auth.by # p
    BY <1>7 DEF Preflight, OwnerLoop
  <2>2. OnlyOwnerActs'
    BY <1>7, <2>1 DEF Preflight, Goto, files, remote, OnlyOwnerActs
  <2>3. NothingWithoutAuth'
    BY <1>7 DEF Preflight, files, remote, NothingWithoutAuth
  <2>4. OwnerLoop' /\ Accounts' /\ AttemptsJournaled'
    BY <1>7, <2>1 DEF Preflight, Goto, files, remote, OwnerLoop, Accounts,
                      AttemptsJournaled, Journaled
  <2> QED
    BY <2>2, <2>3, <2>4
<1>8. ASSUME NEW p \in Procs, OpenAuthorization(p)
      PROVE  Kept'
  <2>1. CASE ~ExclusiveCreate(auth.state)
    BY <1>8, <2>1, Leaving DEF OpenAuthorization, Goto, remote, Live, Raised
  <2>2. CASE ExclusiveCreate(auth.state)
    <3>1. auth.by = NoProc
      BY <2>2 DEF ExclusiveCreate, OnlyOwnerActs
    <3>2. auth'.by = p /\ auth'.state = "TORN" /\ pc' = [pc EXCEPT ![p] = "authOpen"]
      BY <1>8, <2>2 DEF OpenAuthorization, Goto
    <3>3. UNCHANGED <<journal, attempts, cost, outcome, remote>>
      BY <1>8 DEF OpenAuthorization
    <3>4. attempts[p] = 0 /\ cost[p] = 0 /\ wire[p] = "idle"
          /\ billed = 0 /\ \A i \in Items : posts[i] = 0
      BY <3>1 DEF OnlyOwnerActs, NothingWithoutAuth
    <3>5. OnlyOwnerActs'
      BY <3>1, <3>2, <3>3 DEF remote, OnlyOwnerActs
    <3>6. NothingWithoutAuth'
      BY <3>2 DEF NothingWithoutAuth
    <3>7. OwnerLoop'
      BY <3>2, <3>3, <3>4 DEF remote, OwnerLoop
    <3>8. Accounts'
      BY <3>2, <3>3, <3>4 DEF remote, Accounts
    <3>9. AttemptsJournaled'
      BY <3>2, <3>3, <3>4 DEF AttemptsJournaled
    <3> QED
      BY <3>5, <3>6, <3>7, <3>8, <3>9
  <2> QED
    BY <2>1, <2>2
<1>9. ASSUME NEW p \in Procs, SealAuthorization(p)
      PROVE  Kept'
  <2>1. auth.by = p
    BY <1>9, OwnerOfStep DEF SealAuthorization, Live
  <2>2. auth'.by = p /\ auth'.state = "WRITTEN"
    BY <1>9, <2>1 DEF SealAuthorization, FilesTypeOK
  <2>3. OnlyOwnerActs' /\ NothingWithoutAuth'
    BY <1>9, <2>1, <2>2 DEF SealAuthorization, Goto, remote, OnlyOwnerActs, NothingWithoutAuth
  <2>4. OwnerLoop' /\ Accounts'
    BY <1>9, <2>1, <2>2 DEF SealAuthorization, Goto, remote, OwnerLoop, Accounts
  <2>5. AttemptsJournaled'
    BY <1>9, <2>1, <2>2 DEF SealAuthorization, AttemptsJournaled, Journaled
  <2> QED
    BY <2>3, <2>4, <2>5
<1>10. ASSUME NEW p \in Procs, AppendAttempt(p)
       PROVE  Kept'
  <2>1. auth.by = p
    BY <1>10, OwnerOfStep DEF AppendAttempt, Live
  <2>2. OnlyOwnerActs' /\ NothingWithoutAuth'
    BY <1>10, <2>1 DEF AppendAttempt, Goto, remote, OnlyOwnerActs, NothingWithoutAuth
  <2>3. attempts[p] + 1 \in Items /\ attempts'[p] = attempts[p] + 1
    BY <1>10 DEF AppendAttempt, Items
  <2>4. OwnerLoop'
    BY <1>10, <2>1, <2>3 DEF AppendAttempt, Goto, remote, OwnerLoop, Items
  <2>5. Accounts'
    BY <1>10, <2>1 DEF AppendAttempt, Goto, remote, Accounts
  <2>6. AttemptsJournaled'
    <3>1. journal \in Seq(Event) /\ journal' = Append(journal, AttemptEvent(p, attempts[p] + 1))
      BY <1>10 DEF AppendAttempt, FilesTypeOK
    <3>2. Journaled(attempts[p])'
      <4>1. Len(journal') = Len(journal) + 1
            /\ journal'[Len(journal) + 1] = AttemptEvent(p, attempts[p] + 1)
        BY <3>1
      <4>2. Len(journal) + 1 \in 1..Len(journal')
        BY <3>1, <4>1
      <4>3. /\ journal'[Len(journal) + 1].kind = "ATTEMPT"
            /\ journal'[Len(journal) + 1].item = attempts'[p]
        BY <2>3, <4>1 DEF AttemptEvent
      <4> QED
        BY <4>2, <4>3 DEF Journaled
    <3>3. ASSUME NEW i \in 1..attempts[p] PROVE Journaled(i)'
      <4>1. Journaled(i)
        BY <2>1 DEF AttemptsJournaled
      <4> QED
        BY <3>1, <4>1, StaysJournaled
    <3>4. \A i \in 1..attempts'[p] : i \in 1..attempts[p] \/ i = attempts'[p]
      BY <2>3
    <3> QED
      BY <1>10, <2>1, <3>2, <3>3, <3>4 DEF AppendAttempt, AttemptsJournaled
  <2> QED
    BY <2>2, <2>4, <2>5, <2>6
<1>11. ASSUME NEW p \in Procs, Post(p)
       PROVE  Kept'
  <2>1. auth.by = p
    BY <1>11, OwnerOfStep DEF Post, Live
  <2>2. OnlyOwnerActs' /\ NothingWithoutAuth'
    BY <1>11, <2>1 DEF Post, Goto, files, OnlyOwnerActs, NothingWithoutAuth
  <2>3. attempts[p] \in Items /\ posts[attempts[p]] = 0
    BY <1>11, <2>1 DEF Post, OwnerLoop
  <2>4. OwnerLoop'
    BY <1>11, <2>1, <2>3 DEF Post, Goto, files, OwnerLoop, Items
  <2>5. Accounts' /\ AttemptsJournaled'
    BY <1>11, <2>1 DEF Post, Goto, files, OwnerLoop, Accounts, AttemptsJournaled, Journaled
  <2> QED
    BY <2>2, <2>4, <2>5
<1>12. ASSUME NEW p \in Procs, NEW c \in Costs, Serve(p, c)
       PROVE  Kept'
  <2>1. auth.by = p
    BY <1>12, OwnerOfStep DEF Serve
  <2>2. OnlyOwnerActs' /\ NothingWithoutAuth'
    BY <1>12, <2>1 DEF Serve, files, memory, OnlyOwnerActs, NothingWithoutAuth
  <2>3. OwnerLoop'
    BY <1>12, <2>1 DEF Serve, files, memory, OwnerLoop
  <2>4. Accounts'
    BY <1>12, <2>1 DEF Serve, files, memory, OwnerLoop, Accounts
  <2>5. AttemptsJournaled'
    BY <1>12 DEF Serve, files, memory, AttemptsJournaled, Journaled
  <2> QED
    BY <2>2, <2>3, <2>4, <2>5
<1>13. ASSUME NEW p \in Procs, NEW o \in Outcomes, Respond(p, o)
       PROVE  Kept'
  <2>1. auth.by = p
    BY <1>13, OwnerOfStep DEF Respond, Live
  <2>2. OnlyOwnerActs' /\ NothingWithoutAuth'
    BY <1>13, <2>1 DEF Respond, Goto, files, remote, OnlyOwnerActs, NothingWithoutAuth
  <2>3. OwnerLoop'
    BY <1>13, <2>1 DEF Respond, Goto, files, remote, OwnerLoop
  <2>4. Accounts' /\ AttemptsJournaled'
    BY <1>13 DEF Respond, Goto, files, remote, Accounts, AttemptsJournaled, Journaled
  <2> QED
    BY <2>2, <2>3, <2>4
<1>14. ASSUME NEW p \in Procs, LoseAnswer(p)
       PROVE  Kept'
  <2>1. auth.by = p
    BY <1>14, OwnerOfStep DEF LoseAnswer, Live
  <2>2. OnlyOwnerActs' /\ NothingWithoutAuth'
    BY <1>14, <2>1 DEF LoseAnswer, Goto, files, remote, OnlyOwnerActs, NothingWithoutAuth
  <2>3. OwnerLoop'
    BY <1>14, <2>1 DEF LoseAnswer, Goto, files, remote, OwnerLoop
  <2>4. Accounts' /\ AttemptsJournaled'
    BY <1>14 DEF LoseAnswer, Goto, files, remote, Accounts, AttemptsJournaled, Journaled
  <2> QED
    BY <2>2, <2>3, <2>4
<1>15. ASSUME NEW p \in Procs, AppendReceipt(p)
       PROVE  Kept'
  <2>1. auth.by = p
    BY <1>15, OwnerOfStep DEF AppendReceipt, Live
  <2> DEFINE costed == ReceiptCostStatus(outcome[p]) = "COMPLETE"
             total == IF costed THEN cost[p] + reply[p] ELSE cost[p]
  <2>2. costed => wire[p] = "served"
    BY <1>15, <2>1 DEF AppendReceipt, OwnerLoop, ReceiptCostStatus
  <2>3. /\ cost' = [cost EXCEPT ![p] = total]
        /\ wire' = [wire EXCEPT ![p] = IF costed THEN "idle" ELSE @]
        /\ UNCHANGED <<auth, attempts, outcome, posts, billed, reply>>
    BY <1>15 DEF AppendReceipt
  <2>4. \/ pc' = [pc EXCEPT ![p] = "blocking"]
        \/ /\ pc' \in {[pc EXCEPT ![p] = "loop"], [pc EXCEPT ![p] = "freezing"]}
           /\ costed /\ total <= Ceiling
    BY <1>15 DEF AppendReceipt, AfterPass, Goto, Breach
  <2>5. OnlyOwnerActs' /\ NothingWithoutAuth'
    BY <2>1, <2>3, <2>4 DEF OnlyOwnerActs, NothingWithoutAuth
  <2>6. OwnerLoop'
    BY <2>1, <2>3, <2>4 DEF OwnerLoop
  <2>7. Accounts'
    BY <2>1, <2>2, <2>3, <2>4 DEF Accounts
  <2>8. AttemptsJournaled'
    <3>1. journal \in Seq(Event)
          /\ journal' = Append(journal, Receipt(p, attempts[p], outcome[p]))
      BY <1>15 DEF AppendReceipt, FilesTypeOK
    <3>2. ASSUME NEW i \in Nat, Journaled(i)
          PROVE  Journaled(i)'
      BY <3>1, <3>2, StaysJournaled
    <3> QED
      BY <2>1, <2>3, <3>2 DEF AttemptsJournaled
  <2> QED
    BY <2>6, <2>7, <2>8, <2>5
<1>16. ASSUME NEW p \in Procs, OpenFreeze(p)
       PROVE  Kept'
  BY <1>16, Leaving DEF OpenFreeze, OpenOutput, Goto, remote, Live
<1>17. ASSUME NEW p \in Procs, OpenBlocked(p)
       PROVE  Kept'
  BY <1>17, Leaving DEF OpenBlocked, OpenOutput, Goto, remote, Live, Raised
<1>18. ASSUME NEW p \in Procs, SealOutput(p)
       PROVE  Kept'
  BY <1>18, Leaving DEF SealOutput, Goto, remote, Live, Raised
<1>19. ASSUME NEW p \in Procs, LoadKey(p)
       PROVE  Kept'
  BY <1>19, Leaving DEF LoadKey, Goto, files, remote, Live, Raised
<1>20. ASSUME NEW p \in Procs, RejectCouncil(p)
       PROVE  Kept'
  BY <1>20, Leaving DEF RejectCouncil, Goto, files, remote, Live, Raised
<1>21. CASE UNCHANGED vars
  BY <1>2, <1>21 DEF vars, files
<1> QED
  BY <1>3, <1>4, <1>5, <1>6, <1>7, <1>8, <1>9, <1>10, <1>11, <1>12, <1>13,
     <1>14, <1>15, <1>16, <1>17, <1>18, <1>19, <1>20, <1>21 DEF Next, Step
-----------------------------------------------------------------------------
(* IInv is inductive: the account of who acts, and of what it has spent,    *)
(* holds in every behaviour of the runner.                                  *)
THEOREM Inductive == Spec => []IInv
BY IndInit, IndNext, PTL DEF Spec

(* What the invariant says of the requests, the journal and the bill. *)
LEMMA IInvImplies ==
  ASSUME IInv
  PROVE  AtMostOncePerItem /\ DispatchIsJournaled /\ SpendBound
         /\ AuthorizationBindsDryCode
<1> USE ProcAssumption, NAssumption, MoneyAssumption DEF IInv
<1>1. AuthorizationBindsDryCode
  BY DEF DryIsStable
<1>2. CASE auth.by = NoProc
  BY <1>1, <1>2 DEF NothingWithoutAuth, AtMostOncePerItem, DispatchIsJournaled, SpendBound
<1>3. ASSUME NEW p \in Procs, auth.by = p
      PROVE  AtMostOncePerItem /\ DispatchIsJournaled /\ SpendBound
  <2>1. AtMostOncePerItem
    BY <1>3 DEF OwnerLoop, AtMostOncePerItem
  <2>2. DispatchIsJournaled
    <3>1. ASSUME NEW i \in Items, posts[i] > 0
          PROVE  i \in 1..attempts[p]
      BY <1>3, <3>1 DEF OwnerLoop, Items, TypeOK, MemoryTypeOK
    <3> QED
      BY <1>3, <3>1 DEF AttemptsJournaled, Journaled, DispatchIsJournaled
  <2>3. SpendBound
    BY <1>3 DEF Accounts, SpendBound, TypeOK, MemoryTypeOK, ProviderTypeOK
  <2> QED
    BY <2>1, <2>2, <2>3
<1> QED
  BY <1>1, <1>2, <1>3 DEF TypeOK, FilesTypeOK

(* However many processes run the script and wherever they die, no planned  *)
(* call is POSTed twice, every request the provider may have is announced   *)
(* in the durable journal, and the authorization names the commit whose dry *)
(* artifact was approved.                                                   *)
THEOREM PaysAsApproved == Spec => []PaidAsApproved
<1>1. IInv => PaidAsApproved
  BY IInvImplies DEF PaidAsApproved
<1> QED
  BY <1>1, Inductive, PTL

(* The bill passes the approved ceiling by at most the price of one call. *)
THEOREM BoundedSpend == Spec => []SpendBound
BY Inductive, IInvImplies, PTL
-----------------------------------------------------------------------------
(* From here on: what the verdict says of the run.  A run is on course      *)
(* while every receipt it wrote is a pass.                                  *)
InCall == {"attempted", "waiting", "resulted"}
Between == {"authOpen", "sealed", "loop", "freezing", "freezeOpen"}

OnCourse(p) == pc[p] \in InCall \cup Between \/ output.status = "FROZEN"

GaveUp(p) == pc[p] \in {"blocking", "blockOpen"} \/ output.status = "BLOCKED"

(* Nothing is written, executed or decided before there is an owner. *)
NothingBeforeOwner ==
    auth.by = NoProc => journal = <<>> /\ served = {} /\ output.status = "ABSENT"

(* Attempts and receipts alternate in the journal, one pair per call; while *)
(* a call is in progress its receipt is missing.                            *)
JournalAlternates ==
    \A p \in Procs : auth.by = p =>
        /\ Len(journal) = 2 * attempts[p] \/ Len(journal) + 1 = 2 * attempts[p]
        /\ pc[p] \in InCall => Len(journal) + 1 = 2 * attempts[p]
        /\ pc[p] \notin InCall \cup {"dead"} => Len(journal) = 2 * attempts[p]
        /\ \A i \in Items : 2 * i <= Len(journal) =>
              /\ journal[2 * i].kind = "RECEIPT"
              /\ journal[2 * i].item = i
              /\ OnCourse(p) => journal[2 * i].pass

(* Which of the announced calls the provider has executed. *)
ServedInOrder ==
    \A p \in Procs : auth.by = p =>
        /\ \A i \in served : i <= attempts[p] /\ posts[i] = 1
        /\ wire[p] = "sent" => attempts[p] \notin served /\ posts[attempts[p]] = 1
        /\ wire[p] = "served" => attempts[p] \in served
        /\ pc[p] = "resulted" => wire[p] # "idle"
        /\ OnCourse(p) => \A i \in Items : i < attempts[p] => i \in served
        /\ pc[p] \in Between /\ attempts[p] > 0 => attempts[p] \in served
        /\ pc[p] = "attempted" => attempts[p] \notin served

(* What the owner knows of its cost when it gives up. *)
ReasonIsExact ==
    \A p \in Procs : auth.by = p /\ GaveUp(p) =>
        /\ attempts[p] > 0
        /\ costStatus[p] \in {"COMPLETE", "COMPLETE_COST_CEILING_BREACH"}
              => wire[p] = "idle"
        /\ costStatus[p] = "COMPLETE_COST_CEILING_BREACH" <=> cost[p] > Ceiling

(* The verdict is the owner's last write, and repeats what it knew. *)
VerdictOfOwner ==
    \A p \in Procs : auth.by = p =>
        /\ pc[p] = "freezeOpen" => attempts[p] = N
        /\ output.status \in {"FROZEN", "BLOCKED"} =>
              /\ pc[p] = "done"
              /\ output.cost = cost[p]
        /\ output.status = "BLOCKED" =>
              /\ output.attempts = attempts[p]
              /\ output.costStatus = costStatus[p]
        /\ output.status = "FROZEN" =>
              /\ attempts[p] = N
              /\ N \in served
              /\ wire[p] = "idle"
              /\ cost[p] <= Ceiling

VInv ==
    /\ NothingBeforeOwner
    /\ JournalAlternates
    /\ ServedInOrder
    /\ ReasonIsExact
    /\ VerdictOfOwner
(* Before an owner exists there is nothing the verdict could be wrong about. *)
LEMMA VInit == Init => VInv
<1> SUFFICES ASSUME Init
             PROVE  VInv
  OBVIOUS
<1> USE ProcAssumption DEF Init
<1>1. NothingBeforeOwner
  BY DEF NothingBeforeOwner, NoOutput
<1>2. \A p \in Procs : auth.by # p
  OBVIOUS
<1> QED
  BY <1>1, <1>2 DEF VInv, JournalAlternates, ServedInOrder, ReasonIsExact, VerdictOfOwner

(* A step that touches neither the files nor the owner's memory, nor the    *)
(* provider, leaves the run where it was.                                   *)
LEMMA Elsewhere ==
  ASSUME VInv,
         UNCHANGED <<auth, journal, output, attempts, cost, costStatus, posts,
                     served, wire>>,
         \A p \in Procs : auth.by = p => pc'[p] = pc[p]
  PROVE  VInv'
<1> USE DEF VInv
<1>1. NothingBeforeOwner'
  BY DEF NothingBeforeOwner
<1>2. \A p \in Procs : auth.by = p =>
        /\ OnCourse(p)' <=> OnCourse(p)
        /\ GaveUp(p)' <=> GaveUp(p)
  BY DEF OnCourse, GaveUp
<1>3. JournalAlternates'
  BY <1>2 DEF JournalAlternates
<1>4. ServedInOrder'
  BY <1>2 DEF ServedInOrder
<1>5. ReasonIsExact'
  BY <1>2 DEF ReasonIsExact
<1>6. VerdictOfOwner'
  BY DEF VerdictOfOwner
<1> QED
  BY <1>1, <1>3, <1>4, <1>5, <1>6

(* Where the owner runs, no verdict is written yet. *)
LEMMA Undecided ==
  ASSUME VInv, NEW p \in Procs, auth.by = p, pc[p] # "done"
  PROVE  output.status \notin {"FROZEN", "BLOCKED"}
BY DEF VInv, VerdictOfOwner

(* Each step of the runner and of the provider preserves the account of the *)
(* journal, of the calls executed and of the reason to stop.                *)
LEMMA VNext == IInv /\ VInv /\ [Next]_vars => VInv'
<1> SUFFICES ASSUME IInv, VInv, [Next]_vars
             PROVE  VInv'
  OBVIOUS
<1> USE ProcAssumption, NAssumption, MoneyAssumption
        DEF IInv, TypeOK, MemoryTypeOK, ProviderTypeOK
<1>a. IInv'
  BY IndNext
<1>1. ASSUME NEW c \in Commits, MoveHead(c)
      PROVE  VInv'
  BY <1>1, Elsewhere DEF MoveHead, memory, remote
<1>2. ASSUME NEW p \in Procs, DryRun(p) \/ Refuse(p)
      PROVE  VInv'
  <2>1. auth.by # p
    BY <1>2 DEF DryRun, Refuse, OwnerLoop
  <2> QED
    BY <1>2, <2>1, Elsewhere DEF DryRun, Refuse, Goto, files, remote
<1>3. ASSUME NEW p \in Procs, NEW c \in Commits, Preflight(p, c)
      PROVE  VInv'
  <2>1. auth.by # p
    BY <1>3 DEF Preflight, OwnerLoop
  <2> QED
    BY <1>3, <2>1, Elsewhere DEF Preflight, Goto, files, remote
<1>4. ASSUME NEW p \in Procs, OpenAuthorization(p)
      PROVE  VInv'
  <2>1. auth.by # p
    BY <1>4 DEF OpenAuthorization, OwnerLoop
  <2>2. CASE ~ExclusiveCreate(auth.state)
    BY <1>4, <2>1, <2>2, Elsewhere DEF OpenAuthorization, Goto, remote
  <2>3. CASE ExclusiveCreate(auth.state)
    <3>1. auth.by = NoProc
      BY <2>3 DEF ExclusiveCreate, OnlyOwnerActs
    <3>2. auth'.by = p /\ pc' = [pc EXCEPT ![p] = "authOpen"]
          /\ UNCHANGED <<journal, output, attempts, cost, costStatus, remote>>
      BY <1>4, <2>3 DEF OpenAuthorization, Goto
    <3>3. attempts[p] = 0 /\ wire[p] = "idle" /\ journal = <<>> /\ served = {}
          /\ output.status = "ABSENT"
      BY <2>1, <3>1 DEF OnlyOwnerActs, VInv, NothingBeforeOwner
    <3>4. NothingBeforeOwner'
      BY <3>2 DEF NothingBeforeOwner
    <3>5. JournalAlternates'
      BY <3>2, <3>3 DEF JournalAlternates, remote, InCall, Items
    <3>6. ServedInOrder'
      BY <3>2, <3>3 DEF ServedInOrder, remote, Items
    <3>7. ReasonIsExact' /\ VerdictOfOwner'
      BY <3>2, <3>3 DEF ReasonIsExact, VerdictOfOwner, GaveUp, remote
    <3> QED
      BY <3>4, <3>5, <3>6, <3>7 DEF VInv
  <2> QED
    BY <2>2, <2>3
(* From here on the process that acts is the owner. *)
<1>5. ASSUME NEW p \in Procs, SealAuthorization(p)
      PROVE  VInv'
  <2>1. auth.by = p /\ pc[p] = "authOpen" /\ attempts[p] = attempts'[p]
        /\ pc' = [pc EXCEPT ![p] = "sealed"] /\ auth'.by = p
        /\ UNCHANGED <<journal, output, cost, costStatus, remote>>
    BY <1>5, OwnerOfStep DEF SealAuthorization, Goto, Live, FilesTypeOK
  <2>2. NothingBeforeOwner'
    BY <2>1 DEF NothingBeforeOwner
  <2>3. OnCourse(p) /\ ~GaveUp(p)'
    BY <2>1, Undecided DEF OnCourse, GaveUp, Between, InCall
  <2>4. JournalAlternates'
    BY <2>1, <2>3 DEF VInv, JournalAlternates, InCall
  <2>5. ServedInOrder'
    BY <2>1, <2>3 DEF VInv, ServedInOrder, remote, Between
  <2>6. ReasonIsExact' /\ VerdictOfOwner'
    BY <2>1, <2>3, Undecided DEF ReasonIsExact, VerdictOfOwner
  <2> QED
    BY <2>2, <2>4, <2>5, <2>6 DEF VInv
<1>6. ASSUME NEW p \in Procs, AppendAttempt(p)
      PROVE  VInv'
  <2>1. auth.by = p /\ pc[p] = "loop" /\ auth' = auth
        /\ pc' = [pc EXCEPT ![p] = "attempted"]
        /\ attempts' = [attempts EXCEPT ![p] = @ + 1]
        /\ UNCHANGED <<output, cost, costStatus, remote>>
    BY <1>6, OwnerOfStep DEF AppendAttempt, Goto, Live
  <2>2. /\ Len(journal') = Len(journal) + 1
        /\ \A k \in 1..Len(journal) : journal'[k] = journal[k]
        /\ Len(journal) \in Nat
    BY <1>6 DEF AppendAttempt, FilesTypeOK
  <2>3. OnCourse(p) /\ ~GaveUp(p)'
    BY <2>1, Undecided DEF OnCourse, GaveUp, Between, InCall
  <2>4. wire[p] = "idle" /\ Len(journal) = 2 * attempts[p]
        /\ attempts'[p] = attempts[p] + 1 /\ attempts[p] \in Nat
    BY <2>1 DEF OwnerLoop, VInv, JournalAlternates, InCall
  <2>5. NothingBeforeOwner'
    BY <2>1 DEF NothingBeforeOwner
  <2>6. JournalAlternates'
    <3>1. Len(journal') + 1 = 2 * attempts'[p]
      BY <2>2, <2>4
    <3>2. ASSUME NEW i \in Items, 2 * i <= Len(journal')
          PROVE  /\ journal'[2 * i].kind = "RECEIPT"
                 /\ journal'[2 * i].item = i
                 /\ journal'[2 * i].pass
      <4>1. 2 * i <= Len(journal) /\ 2 * i \in 1..Len(journal)
        BY <2>2, <2>4, <3>2 DEF Items
      <4> QED
        BY <2>1, <2>2, <2>3, <4>1 DEF VInv, JournalAlternates
    <3> QED
      BY <2>1, <3>1, <3>2 DEF JournalAlternates, InCall
  <2>7. ServedInOrder'
    <3>1. attempts'[p] \notin served
      BY <2>1, <2>4 DEF VInv, ServedInOrder
    <3>2. \A i \in Items : i < attempts'[p] => i \in served
      BY <2>1, <2>3, <2>4 DEF VInv, ServedInOrder, Between, Items
    <3>3. \A i \in served : i <= attempts'[p] /\ posts[i] = 1
      BY <2>1, <2>4 DEF VInv, ServedInOrder, Items
    <3> QED
      BY <2>1, <2>4, <3>1, <3>2, <3>3 DEF ServedInOrder, remote, Between
  <2>8. ReasonIsExact' /\ VerdictOfOwner'
    BY <2>1, <2>3, Undecided DEF ReasonIsExact, VerdictOfOwner
  <2> QED
    BY <2>5, <2>6, <2>7, <2>8 DEF VInv
<1>7. ASSUME NEW p \in Procs, Post(p)
      PROVE  VInv'
  <2>1. auth.by = p /\ pc[p] = "attempted" /\ attempts[p] \in Items
        /\ pc' = [pc EXCEPT ![p] = "waiting"]
        /\ posts' = [posts EXCEPT ![attempts[p]] = @ + 1]
        /\ wire' = [wire EXCEPT ![p] = "sent"]
        /\ UNCHANGED <<auth, journal, output, attempts, cost, costStatus, served>>
    BY <1>7, OwnerOfStep DEF Post, Goto, Live, files
  <2>2. OnCourse(p) /\ ~GaveUp(p)'
    BY <2>1, Undecided DEF OnCourse, GaveUp, Between, InCall
  <2>3. NothingBeforeOwner'
    BY <2>1 DEF NothingBeforeOwner
  <2>4. JournalAlternates'
    BY <2>1, <2>2 DEF VInv, JournalAlternates, InCall
  <2>5. ServedInOrder'
    <3>1. attempts[p] \notin served /\ posts[attempts[p]] = 0
      BY <2>1 DEF VInv, ServedInOrder, OwnerLoop
    <3>2. posts'[attempts[p]] = 1 /\ \A i \in served : posts'[i] = posts[i]
      BY <2>1, <3>1
    <3> QED
      BY <2>1, <2>2, <3>1, <3>2 DEF VInv, ServedInOrder, Between
  <2>6. ReasonIsExact' /\ VerdictOfOwner'
    BY <2>1, <2>2, Undecided DEF ReasonIsExact, VerdictOfOwner
  <2> QED
    BY <2>3, <2>4, <2>5, <2>6 DEF VInv
<1>8. ASSUME NEW p \in Procs, NEW c \in Costs, Serve(p, c)
      PROVE  VInv'
  <2>1. auth.by = p /\ wire[p] = "sent" /\ attempts[p] \in Items
        /\ wire' = [wire EXCEPT ![p] = "served"]
        /\ served' = served \cup {attempts[p]}
        /\ UNCHANGED <<auth, journal, output, pc, attempts, cost, costStatus, posts>>
    BY <1>8, OwnerOfStep DEF Serve, files, memory
  <2>2. (OnCourse(p)' <=> OnCourse(p)) /\ (GaveUp(p)' <=> GaveUp(p))
    BY <2>1 DEF OnCourse, GaveUp
  <2>3. NothingBeforeOwner'
    BY <2>1 DEF NothingBeforeOwner
  <2>4. JournalAlternates'
    BY <2>1, <2>2 DEF VInv, JournalAlternates
  <2>5. ServedInOrder'
    BY <2>1, <2>2 DEF VInv, ServedInOrder, OwnerLoop
  <2>6. ReasonIsExact' /\ VerdictOfOwner'
    BY <2>1, <2>2 DEF VInv, ReasonIsExact, VerdictOfOwner
  <2> QED
    BY <2>3, <2>4, <2>5, <2>6 DEF VInv
<1>9. ASSUME NEW p \in Procs,
             LoseAnswer(p) \/ \E o \in Outcomes : Respond(p, o)
      PROVE  VInv'
  <2>1. auth.by = p /\ pc[p] = "waiting"
        /\ pc' = [pc EXCEPT ![p] = "resulted"]
        /\ UNCHANGED <<auth, journal, output, attempts, cost, costStatus, remote>>
    BY <1>9, OwnerOfStep DEF LoseAnswer, Respond, Goto, Live, files
  <2>2. OnCourse(p) /\ ~GaveUp(p)'
    BY <2>1, Undecided DEF OnCourse, GaveUp, Between, InCall
  <2>3. NothingBeforeOwner'
    BY <2>1 DEF NothingBeforeOwner, remote
  <2>4. JournalAlternates'
    BY <2>1, <2>2 DEF VInv, JournalAlternates, InCall
  <2>5. ServedInOrder'
    BY <2>1, <2>2 DEF VInv, ServedInOrder, OwnerLoop, remote, Between
  <2>6. ReasonIsExact' /\ VerdictOfOwner'
    BY <2>1, <2>2, Undecided DEF ReasonIsExact, VerdictOfOwner
  <2> QED
    BY <2>3, <2>4, <2>5, <2>6 DEF VInv
<1>10. ASSUME NEW p \in Procs, AppendReceipt(p)
       PROVE  VInv'
  <2> DEFINE costed == ReceiptCostStatus(outcome[p]) = "COMPLETE"
             total == IF costed THEN cost[p] + reply[p] ELSE cost[p]
             passed == costed /\ ~Breach(total) /\ Passed(outcome[p])
  <2>1. auth.by = p /\ pc[p] = "resulted" /\ attempts[p] \in Items /\ auth' = auth
        /\ UNCHANGED <<output, attempts, posts, served>>
    BY <1>10, OwnerOfStep DEF AppendReceipt, Live
  <2>2. /\ cost' = [cost EXCEPT ![p] = total]
        /\ wire' = [wire EXCEPT ![p] = IF costed THEN "idle" ELSE @]
    BY <1>10 DEF AppendReceipt
  <2>3. \/ passed /\ pc' \in {[pc EXCEPT ![p] = "loop"], [pc EXCEPT ![p] = "freezing"]}
        \/ ~passed /\ pc' = [pc EXCEPT ![p] = "blocking"]
    BY <1>10 DEF AppendReceipt, AfterPass, Goto
  <2>4. /\ Len(journal') = Len(journal) + 1
        /\ \A k \in 1..Len(journal) : journal'[k] = journal[k]
        /\ journal'[Len(journal) + 1] = Receipt(p, attempts[p], outcome[p])
        /\ Len(journal) \in Nat
    BY <1>10 DEF AppendReceipt, FilesTypeOK
  <2>5. OnCourse(p) /\ output.status \notin {"FROZEN", "BLOCKED"}
    BY <2>1, Undecided DEF OnCourse, InCall
  <2>6. OnCourse(p)' => passed
    BY <2>1, <2>3, <2>5 DEF OnCourse, InCall, Between
  <2>7. Len(journal) + 1 = 2 * attempts[p]
    BY <2>1 DEF VInv, JournalAlternates, InCall
  <2>8. wire[p] # "idle" /\ (wire[p] = "served" => attempts[p] \in served)
        /\ (costed => wire[p] = "served")
    BY <2>1 DEF VInv, ServedInOrder, OwnerLoop, ReceiptCostStatus
  <2>9. NothingBeforeOwner'
    BY <2>1 DEF NothingBeforeOwner
  <2>10. JournalAlternates'
    <3>1. Len(journal') = 2 * attempts'[p]
      BY <2>1, <2>4, <2>7
    <3>2. ASSUME NEW i \in Items, 2 * i <= Len(journal')
          PROVE  /\ journal'[2 * i].kind = "RECEIPT"
                 /\ journal'[2 * i].item = i
                 /\ OnCourse(p)' => journal'[2 * i].pass
      <4>1. CASE i = attempts[p]
        <5>1. journal'[2 * i] = Receipt(p, i, outcome[p])
          BY <2>4, <2>7, <4>1
        <5>2. OnCourse(p)' => outcome[p] = "VALID"
          BY <2>6 DEF Passed
        <5>3. /\ Receipt(p, i, outcome[p]).kind = "RECEIPT"
              /\ Receipt(p, i, outcome[p]).item = i
              /\ Receipt(p, i, outcome[p]).pass = (outcome[p] = "VALID")
          BY Zenon DEF Receipt
        <5> QED
          BY <4>1, <5>1, <5>2, <5>3
      <4>2. CASE i # attempts[p]
        <5>1. 2 * i <= Len(journal) /\ 2 * i \in 1..Len(journal)
          BY <2>1, <2>4, <2>7, <3>2, <4>2 DEF Items
        <5> QED
          BY <2>1, <2>4, <2>5, <5>1 DEF VInv, JournalAlternates
      <4> QED
        BY <4>1, <4>2
    <3>3. pc'[p] \notin InCall
      BY <2>1, <2>3 DEF InCall
    <3> QED
      BY <2>1, <3>1, <3>2, <3>3 DEF JournalAlternates
  <2>11. ServedInOrder'
    <3>1. wire'[p] = "served" => wire[p] = "served"
      BY <2>2
    <3>2. wire'[p] = "sent" => wire[p] = "sent"
      BY <2>2
    <3>3. pc'[p] \in {"loop", "freezing", "blocking"}
      BY <2>1, <2>3
    <3>4. pc'[p] \in Between => attempts[p] \in served
      BY <2>1, <2>3, <2>8 DEF Between
    <3> QED
      BY <2>1, <2>5, <2>8, <3>1, <3>2, <3>3, <3>4 DEF VInv, ServedInOrder
  <2>12. ReasonIsExact'
    <3>1. GaveUp(p)' => ~passed
      BY <2>1, <2>3, <2>5 DEF GaveUp
    <3>2. CASE ~costed
      <4>1. costStatus'[p] \in {"INCOMPLETE_USAGE_OR_CACHE_WRITE",
                               "INCOMPLETE_UNKNOWN_PROVIDER_DISPATCH"}
        <5>1. costStatus' = [costStatus EXCEPT ![p] = ReceiptCostStatus(outcome[p])]
          BY <1>10, <3>2 DEF AppendReceipt
        <5> QED
          BY <3>2, <5>1 DEF ReceiptCostStatus, Outcomes
      <4>2. cost'[p] = cost[p] /\ cost[p] <= Ceiling /\ cost[p] \in Nat
        BY <2>1, <2>2, <2>8, <3>2 DEF Accounts
      <4> QED
        BY <2>1, <4>1, <4>2 DEF ReasonIsExact, Items
    <3>3. CASE costed /\ Breach(total)
      <4>1. costStatus'[p] = "COMPLETE_COST_CEILING_BREACH"
        BY <1>10, <3>3 DEF AppendReceipt
      <4> QED
        BY <2>1, <2>2, <3>3, <4>1 DEF ReasonIsExact, Breach, Items
    <3>4. CASE costed /\ ~Breach(total) /\ ~Passed(outcome[p])
      <4>1. costStatus'[p] = "COMPLETE"
        BY <1>10, <3>4 DEF AppendReceipt
      <4> QED
        BY <2>1, <2>2, <3>4, <4>1 DEF ReasonIsExact, Breach, Items
    <3>5. CASE passed
      BY <2>1, <3>1, <3>5 DEF ReasonIsExact
    <3> QED
      BY <3>2, <3>3, <3>4, <3>5
  <2>13. VerdictOfOwner'
    BY <2>1, <2>3, <2>5 DEF VerdictOfOwner
  <2> QED
    BY <2>9, <2>10, <2>11, <2>12, <2>13 DEF VInv
<1>11. ASSUME NEW p \in Procs, NEW from, NEW to,
              \/ from = "freezing" /\ to = "freezeOpen" /\ Freezable(p)
              \/ from = "blocking" /\ to = "blockOpen",
              OpenOutput(p, from, to)
       PROVE  VInv'
  <2>1. auth.by = p /\ pc[p] = from /\ auth' = auth
        /\ UNCHANGED <<journal, attempts, cost, costStatus, posts, served, wire>>
    BY <1>11, OwnerOfStep DEF OpenOutput, Live, remote
  <2>2. output'.status \notin {"FROZEN", "BLOCKED"} /\ output.status \notin {"FROZEN", "BLOCKED"}
    BY <1>11, <2>1, Undecided DEF OpenOutput, TornOutput
  <2>3. pc' = [pc EXCEPT ![p] = to] \/ pc' = [pc EXCEPT ![p] = "done"]
    BY <1>11 DEF OpenOutput, Goto
  <2>4. (OnCourse(p)' => OnCourse(p)) /\ (GaveUp(p)' => GaveUp(p))
    BY <1>11, <2>1, <2>2, <2>3 DEF OnCourse, GaveUp, InCall, Between
  <2>5. NothingBeforeOwner'
    BY <2>1 DEF NothingBeforeOwner
  <2>6. JournalAlternates'
    BY <1>11, <2>1, <2>3, <2>4 DEF VInv, JournalAlternates, InCall
  <2>7. ServedInOrder'
    BY <1>11, <2>1, <2>3, <2>4 DEF VInv, ServedInOrder, Between
  <2>8. ReasonIsExact'
    BY <2>1, <2>4 DEF VInv, ReasonIsExact
  <2>9. VerdictOfOwner'
    BY <1>11, <2>1, <2>2, <2>3 DEF VerdictOfOwner, Freezable
  <2> QED
    BY <2>5, <2>6, <2>7, <2>8, <2>9 DEF VInv
<1>12. ASSUME NEW p \in Procs, SealOutput(p)
       PROVE  VInv'
  <2>1. auth.by = p /\ auth' = auth /\ pc' = [pc EXCEPT ![p] = "done"]
        /\ UNCHANGED <<journal, attempts, cost, costStatus, posts, served, wire>>
    BY <1>12, OwnerOfStep DEF SealOutput, Goto, Live, remote
  <2>2. NothingBeforeOwner'
    BY <2>1 DEF NothingBeforeOwner
  <2>3. CASE pc[p] = "freezeOpen" /\ output' = FreezeArtifact(p)
    <3>1. OnCourse(p) /\ attempts[p] = N /\ wire[p] = "idle" /\ cost[p] <= Ceiling
      BY <2>1, <2>3 DEF OnCourse, Between, VInv, VerdictOfOwner, OwnerLoop, Accounts
    <3>2. output'.status = "FROZEN" /\ output'.cost = cost[p]
      BY <2>3 DEF FreezeArtifact
    <3>3. JournalAlternates'
      BY <2>1, <2>3, <3>1 DEF VInv, JournalAlternates, InCall
    <3>4. ServedInOrder'
      BY <2>1, <2>3, <3>1 DEF VInv, ServedInOrder, Between
    <3>5. N \in served
      BY <2>1, <2>3, <3>1 DEF VInv, ServedInOrder, Between
    <3>6. ReasonIsExact'
      BY <2>1, <3>2 DEF ReasonIsExact, GaveUp
    <3>7. VerdictOfOwner'
      BY <2>1, <3>1, <3>2, <3>5 DEF VerdictOfOwner
    <3> QED
      BY <2>2, <3>3, <3>4, <3>6, <3>7 DEF VInv
  <2>4. CASE pc[p] = "blockOpen" /\ output' = BlockedArtifact(p)
    <3>1. GaveUp(p) /\ ~OnCourse(p)'
      BY <2>1, <2>4 DEF GaveUp, OnCourse, InCall, Between, BlockedArtifact
    <3>2. output'.status = "BLOCKED" /\ output'.cost = cost[p]
          /\ output'.attempts = attempts[p] /\ output'.costStatus = costStatus[p]
      BY <2>4 DEF BlockedArtifact
    <3>3. JournalAlternates'
      BY <2>1, <2>4, <3>1 DEF VInv, JournalAlternates, InCall
    <3>4. ServedInOrder'
      BY <2>1, <2>4, <3>1 DEF VInv, ServedInOrder, Between
    <3>5. ReasonIsExact'
      BY <2>1, <3>1 DEF VInv, ReasonIsExact
    <3>6. VerdictOfOwner'
      BY <2>1, <3>2 DEF VerdictOfOwner
    <3> QED
      BY <2>2, <3>3, <3>4, <3>5, <3>6 DEF VInv
  <2> QED
    BY <1>12, <2>3, <2>4 DEF SealOutput
<1>13. ASSUME NEW p \in Procs, Crash(p)
       PROVE  VInv'
  <2>1. CASE auth.by # p
    BY <1>13, <2>1, Elsewhere DEF Crash, Goto, files, remote
  <2>2. CASE auth.by = p
    <3>1. pc[p] \in Live /\ pc' = [pc EXCEPT ![p] = "dead"]
          /\ UNCHANGED <<auth, journal, output, attempts, cost, costStatus, remote>>
      BY <1>13 DEF Crash, Goto, files
    <3>2. output.status \notin {"FROZEN", "BLOCKED"}
      BY <2>2, <3>1, Undecided DEF Live
    <3>3. ~OnCourse(p)' /\ ~GaveUp(p)'
      BY <2>2, <3>1, <3>2 DEF OnCourse, GaveUp, InCall, Between
    <3>4. NothingBeforeOwner'
      BY <2>2, <3>1 DEF NothingBeforeOwner
    <3>5. JournalAlternates'
      BY <2>2, <3>1, <3>3 DEF VInv, JournalAlternates, InCall
    <3>6. ServedInOrder'
      BY <2>2, <3>1, <3>3 DEF VInv, ServedInOrder, remote, Between
    <3>7. ReasonIsExact' /\ VerdictOfOwner'
      BY <2>2, <3>1, <3>2, <3>3 DEF ReasonIsExact, VerdictOfOwner
    <3> QED
      BY <3>4, <3>5, <3>6, <3>7 DEF VInv
  <2> QED
    BY <2>1, <2>2
<1>14. ASSUME NEW p \in Procs, OpenFreeze(p) \/ OpenBlocked(p)
       PROVE  VInv'
  BY <1>11, <1>14 DEF OpenFreeze, OpenBlocked
<1>15. ASSUME NEW p \in Procs, LoadKey(p) \/ RejectCouncil(p)
       PROVE  VInv'
  <2>1. /\ auth.by = p /\ pc[p] \in Between
        /\ \/ pc' = [pc EXCEPT ![p] = "loop"]
           \/ \E l \in Raised : pc' = [pc EXCEPT ![p] = l]
        /\ UNCHANGED <<auth, journal, output, attempts, cost, costStatus, remote>>
    BY <1>15, OwnerOfStep
       DEF LoadKey, RejectCouncil, Goto, Live, Raised, Between, files
  <2>2. output.status \notin {"FROZEN", "BLOCKED"} /\ OnCourse(p)
    BY <2>1, Undecided DEF Between, OnCourse
  <2>3. ~GaveUp(p)'
    BY <2>1, <2>2 DEF GaveUp, Raised
  <2>4. pc'[p] \notin InCall \cup {"freezeOpen"}
    BY <2>1 DEF InCall, Raised
  <2>5. NothingBeforeOwner'
    BY <2>1 DEF NothingBeforeOwner
  <2>6. JournalAlternates'
    BY <2>1, <2>2, <2>4 DEF VInv, JournalAlternates, InCall, Between
  <2>7. ServedInOrder'
    BY <2>1, <2>2, <2>4 DEF VInv, ServedInOrder, remote, Between, InCall
  <2>8. ReasonIsExact' /\ VerdictOfOwner'
    BY <2>1, <2>2, <2>3, <2>4 DEF ReasonIsExact, VerdictOfOwner
  <2> QED
    BY <2>5, <2>6, <2>7, <2>8 DEF VInv
<1>16. CASE UNCHANGED vars
  BY <1>16, Elsewhere DEF vars, files, memory, remote
<1> QED
  BY <1>1, <1>2, <1>3, <1>4, <1>5, <1>6, <1>7, <1>8, <1>9, <1>10,
     <1>12, <1>13, <1>14, <1>15, <1>16 DEF Next, Step

(* The longer account holds in every behaviour too. *)
THEOREM VerdictInductive == Spec => [](IInv /\ VInv)
<1>1. Init => IInv /\ VInv
  BY IndInit, VInit
<1>2. IInv /\ VInv /\ [Next]_vars => (IInv /\ VInv)'
  BY IndNext, VNext
<1> QED
  BY <1>1, <1>2, PTL DEF Spec

(* What the account says of a frozen and of a blocked artifact. *)
LEMMA VInvImplies ==
  ASSUME IInv, VInv
  PROVE  VerdictIsHonest
<1> USE ProcAssumption, NAssumption, MoneyAssumption
        DEF IInv, VInv, TypeOK, MemoryTypeOK, ProviderTypeOK
<1>1. SUFFICES ASSUME output.status \in {"FROZEN", "BLOCKED"}
               PROVE  VerdictIsHonest
  BY DEF VerdictIsHonest, FrozenIsComplete, BlockedCostIsHonest
<1>2. PICK p \in Procs : auth.by = p
  BY <1>1 DEF NothingBeforeOwner, FilesTypeOK
<1>3. /\ billed = cost[p] + (IF wire[p] = "served" THEN reply[p] ELSE 0)
      /\ cost[p] \in Nat /\ reply[p] \in 0..MaxCost /\ attempts[p] \in 0..N
      /\ output.cost = cost[p]
  BY <1>1, <1>2 DEF Accounts, VerdictOfOwner
<1>4. FrozenIsComplete
  <2> SUFFICES ASSUME output.status = "FROZEN"
               PROVE  FrozenIsComplete
    BY DEF FrozenIsComplete
  <2>1. attempts[p] = N /\ N \in served /\ wire[p] = "idle" /\ cost[p] <= Ceiling
        /\ OnCourse(p) /\ pc[p] = "done"
    BY <1>2 DEF VerdictOfOwner, OnCourse
  <2>2. served = Items
    <3>1. \A i \in Items : i \in served
      BY <1>2, <2>1 DEF ServedInOrder, Items
    <3> QED
      BY <3>1
  <2>3. \A i \in Items : posts[i] = 1
    BY <1>2, <2>2 DEF ServedInOrder
  <2>4. Len(journal) = 2 * N
    BY <1>2, <2>1 DEF JournalAlternates, InCall
  <2>5. \A i \in Items : /\ journal[2 * i].kind = "RECEIPT"
                         /\ journal[2 * i].item = i
                         /\ journal[2 * i].pass
    <3>1. \A i \in Items : 2 * i <= Len(journal)
      BY <2>4 DEF Items
    <3> QED
      BY <1>2, <2>1, <3>1 DEF JournalAlternates
  <2> QED
    BY <1>3, <2>1, <2>2, <2>3, <2>4, <2>5 DEF FrozenIsComplete
<1>5. BlockedCostIsHonest
  <2> SUFFICES ASSUME output.status = "BLOCKED"
               PROVE  BlockedCostIsHonest
    BY DEF BlockedCostIsHonest
  <2>1. GaveUp(p) /\ output.attempts = attempts[p] /\ output.costStatus = costStatus[p]
    BY <1>2 DEF VerdictOfOwner, GaveUp
  <2>2. /\ attempts[p] > 0
        /\ costStatus[p] \in {"COMPLETE", "COMPLETE_COST_CEILING_BREACH"}
              => wire[p] = "idle"
        /\ costStatus[p] = "COMPLETE_COST_CEILING_BREACH" <=> cost[p] > Ceiling
    BY <1>2, <2>1 DEF ReasonIsExact
  <2> QED
    BY <1>3, <2>1, <2>2 DEF BlockedCostIsHonest
<1> QED
  BY <1>4, <1>5 DEF VerdictIsHonest

(* A frozen artifact stands for N calls POSTed once, executed and passed,   *)
(* in order and at the billed cost; a blocked one never overstates the cost *)
(* and falls short of it by at most the call it says is in doubt.           *)
THEOREM HonestVerdict == Spec => []VerdictIsHonest
BY VerdictInductive, VInvImplies, PTL
-----------------------------------------------------------------------------
(* Of a journal in which attempts and receipts alternate, half is attempts. *)
LEMMA Half ==
  ASSUME NEW a \in Nat, NEW l \in Nat, l = 2 * a \/ l + 1 = 2 * a
  PROVE  (l + 1) \div 2 = a
OBVIOUS

(* The mapping: calls announced are those the owner has attempted. *)
LEMMA Announced ==
  ASSUME IInv, VInv, NEW p \in Procs, auth.by = p
  PROVE  (Len(journal) + 1) \div 2 = attempts[p]
<1>1. attempts[p] \in Nat /\ Len(journal) \in Nat
  BY DEF IInv, TypeOK, MemoryTypeOK, FilesTypeOK
<1>2. Len(journal) = 2 * attempts[p] \/ Len(journal) + 1 = 2 * attempts[p]
  BY DEF VInv, JournalAlternates
<1> QED
  BY <1>1, <1>2, Half

(* The empty files are the initial state of the contract. *)
LEMMA RefinesInit == Init => OneShot!Init
BY DEF Init, OneShot!Init, NoOutput

(* Every step of the runner and of the provider is a step of the contract,  *)
(* or does not show in it.                                                  *)
LEMMA RefinesNext ==
  IInv /\ VInv /\ [Next]_vars => [OneShot!Next]_(OneShot!vars)
<1> SUFFICES ASSUME IInv, VInv, [Next]_vars
             PROVE  [OneShot!Next]_(OneShot!vars)
  OBVIOUS
<1> USE ProcAssumption, NAssumption, MoneyAssumption
        DEF IInv, TypeOK, MemoryTypeOK, ProviderTypeOK
<1>a. (IInv /\ VInv)'
  BY IndNext, VNext
<1>1. ASSUME UNCHANGED <<journal, output, served, billed>>
      PROVE  UNCHANGED OneShot!vars
  BY <1>1 DEF OneShot!vars
<1>2. ASSUME NEW p \in Procs, AppendAttempt(p)
      PROVE  OneShot!Attempt
  <2>1. auth.by = p /\ auth' = auth /\ pc[p] = "loop"
        /\ attempts' = [attempts EXCEPT ![p] = @ + 1] /\ attempts[p] < N
        /\ UNCHANGED <<output, served, billed>>
    BY <1>2, OwnerOfStep DEF AppendAttempt, Live, remote
  <2>2. (Len(journal) + 1) \div 2 = attempts[p]
    BY <2>1, Announced
  <2>3. (Len(journal') + 1) \div 2 = attempts'[p]
    <3>1. (Len(journal') = 2 * attempts'[p] \/ Len(journal') + 1 = 2 * attempts'[p])
      BY <1>a, <2>1 DEF VInv, JournalAlternates
    <3>2. attempts'[p] \in Nat /\ Len(journal') \in Nat
      BY <1>a DEF FilesTypeOK
    <3> QED
      BY <3>1, <3>2, Half
  <2>4. billed <= Ceiling
    BY <2>1 DEF OwnerLoop, Accounts
  <2>5. output.status \notin {"FROZEN", "BLOCKED"}
    BY <2>1, Undecided
  <2> QED
    BY <2>1, <2>2, <2>3, <2>4, <2>5 DEF OneShot!Attempt
<1>3. ASSUME NEW p \in Procs, NEW c \in Costs, Serve(p, c)
      PROVE  OneShot!Serve(attempts[p]) /\ attempts[p] \in 1..N
  <2>1. auth.by = p /\ wire[p] = "sent" /\ attempts[p] \in Items
        /\ served' = served \cup {attempts[p]} /\ billed' = billed + c
        /\ UNCHANGED <<journal, output>>
    BY <1>3, OwnerOfStep DEF Serve, files
  <2>2. (Len(journal) + 1) \div 2 = attempts[p]
    BY <2>1, Announced
  <2>3. billed <= Ceiling /\ attempts[p] \notin served
    BY <2>1 DEF Accounts, VInv, ServedInOrder
  <2>4. c \in 0..MaxCost
    BY MoneyAssumption
  <2>5. attempts[p] <= (Len(journal) + 1) \div 2
    BY <2>1, <2>2 DEF Items
  <2> QED
    BY <2>1, <2>3, <2>4, <2>5 DEF OneShot!Serve, Items
<1>4. ASSUME NEW p \in Procs, AppendReceipt(p)
      PROVE  UNCHANGED OneShot!vars
  <2>1. auth.by = p /\ auth' = auth /\ UNCHANGED <<output, attempts, served, billed>>
    BY <1>4, OwnerOfStep DEF AppendReceipt, Live
  <2>2. (Len(journal) + 1) \div 2 = attempts[p]
    BY <2>1, Announced
  <2>3. (Len(journal') + 1) \div 2 = attempts'[p]
    <3>1. (Len(journal') = 2 * attempts'[p] \/ Len(journal') + 1 = 2 * attempts'[p])
      BY <1>a, <2>1 DEF VInv, JournalAlternates
    <3>2. attempts'[p] \in Nat /\ Len(journal') \in Nat
      BY <1>a DEF FilesTypeOK
    <3> QED
      BY <3>1, <3>2, Half
  <2> QED
    BY <2>1, <2>2, <2>3 DEF OneShot!vars
<1>5. ASSUME NEW p \in Procs, NEW from \in Live \ {"cleared"}, NEW to, OpenOutput(p, from, to)
      PROVE  UNCHANGED OneShot!vars
  <2>1. UNCHANGED <<journal, served, billed>> /\ pc[p] = from
    BY <1>5 DEF OpenOutput, remote
  <2>2. output.status \notin {"FROZEN", "BLOCKED"}
    BY <2>1, Undecided, OwnerOfStep DEF Live
  <2>3. output' = output \/ output'.status = "TORN"
    BY <1>5 DEF OpenOutput, TornOutput
  <2> QED
    BY <2>1, <2>2, <2>3 DEF OneShot!vars
<1>6. ASSUME NEW p \in Procs, SealOutput(p)
      PROVE  OneShot!Freeze \/ OneShot!Block
  <2>1. auth.by = p /\ UNCHANGED <<journal, served, billed>> /\ auth' = auth
    BY <1>6, OwnerOfStep DEF SealOutput, Live, remote
  <2>2. output.status \notin {"FROZEN", "BLOCKED"}
    BY <1>6, <2>1, Undecided DEF SealOutput
  <2>3. CASE pc[p] = "freezeOpen" /\ output' = FreezeArtifact(p)
    <3>1. attempts[p] = N /\ billed <= Ceiling
      BY <2>1, <2>3 DEF VInv, VerdictOfOwner, OwnerLoop, Accounts
    <3>2. OnCourse(p)
      BY <2>3 DEF OnCourse, Between
    <3>3. served = 1..N
      <4>1. N \in served /\ \A i \in Items : i < N => i \in served
        BY <2>1, <2>3, <3>1, <3>2 DEF VInv, ServedInOrder, Between
      <4>2. \A i \in Items : i \in served
        BY <4>1 DEF Items
      <4> QED
        BY <4>2 DEF Items
    <3> QED
      BY <2>1, <2>2, <2>3, <3>1, <3>3 DEF OneShot!Freeze, FreezeArtifact
  <2>4. CASE pc[p] = "blockOpen" /\ output' = BlockedArtifact(p)
    <3>1. attempts[p] > 0
      BY <2>1, <2>4 DEF VInv, ReasonIsExact, GaveUp
    <3>2. (Len(journal) + 1) \div 2 = attempts[p]
      BY <2>1, Announced
    <3>3. (Len(journal) + 1) \div 2 > 0
      BY <3>1, <3>2
    <3> QED
      BY <2>1, <2>2, <2>4, <3>3 DEF OneShot!Block, BlockedArtifact
  <2> QED
    BY <1>6, <2>3, <2>4 DEF SealOutput
<1>7. ASSUME NEW p \in Procs, NEW c \in Commits, Preflight(p, c)
      PROVE  UNCHANGED OneShot!vars
  BY <1>1, <1>7 DEF Preflight, files, remote
<1>8. ASSUME NEW p \in Procs, DryRun(p) \/ Refuse(p) \/ OpenAuthorization(p)
                             \/ SealAuthorization(p) \/ LoadKey(p) \/ LoseAnswer(p)
                             \/ RejectCouncil(p) \/ Crash(p)
      PROVE  UNCHANGED OneShot!vars
  BY <1>1, <1>8 DEF DryRun, Refuse, OpenAuthorization, SealAuthorization, LoadKey,
                    LoseAnswer, RejectCouncil, Crash, files, remote
<1>9. ASSUME NEW p \in Procs, NEW o \in Outcomes, Post(p) \/ Respond(p, o)
      PROVE  UNCHANGED OneShot!vars
  BY <1>1, <1>9 DEF Post, Respond, files, remote
<1>10. ASSUME NEW c \in Commits, MoveHead(c)
       PROVE  UNCHANGED OneShot!vars
  BY <1>1, <1>10 DEF MoveHead, remote
<1>11. CASE UNCHANGED vars
  BY <1>1, <1>11 DEF vars, files, remote
<1> QED
  <2>1. ASSUME NEW p \in Procs, OpenFreeze(p) \/ OpenBlocked(p)
        PROVE  UNCHANGED OneShot!vars
    BY <1>5, <2>1 DEF OpenFreeze, OpenBlocked, Live
  <2>2. ASSUME NEW p \in Procs, Post(p) \/ \E o \in Outcomes : Respond(p, o)
        PROVE  UNCHANGED OneShot!vars
    BY <1>9, <2>2 DEF Outcomes
  <2> QED
    BY <1>2, <1>3, <1>4, <1>6, <1>7, <1>8, <1>10, <1>11, <2>1, <2>2
       DEF Next, Step, OneShot!Next

(* The runner keeps the one-shot contract: an approval buys one pass over N *)
(* announced calls, none executed twice nor once the ceiling has been       *)
(* passed, and one verdict.                                                 *)
THEOREM KeepsContract == Spec => ImplementsOneShot
<1>1. Init => OneShot!Init
  BY RefinesInit
<1>2. IInv /\ VInv /\ [Next]_vars => [OneShot!Next]_(OneShot!vars)
  BY RefinesNext
<1> QED
  BY <1>1, <1>2, VerdictInductive, PTL DEF Spec, ImplementsOneShot, OneShot!Spec
=============================================================================
