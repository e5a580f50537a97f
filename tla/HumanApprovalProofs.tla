------------------------ MODULE HumanApprovalProofs ------------------------
(***************************************************************************)
(* Proofs about what waits for the owner: the approval of a preflight in   *)
(* the Cockpit (SessionApproval), and the approval of an option intent on  *)
(* its way to an order (OptionOrder).  In both what was approved may be    *)
(* stale by the time it is used; the two parts say what still binds.       *)
(***************************************************************************)
EXTENDS SessionApproval, OptionOrder, SequenceTheorems, FiniteSetTheorems, TLAPS

-----------------------------------------------------------------------------
(***************************************************************************)
(* Proofs about SessionApproval for any number of threads, symbols,        *)
(* commits and captures.  What a handler has read may be stale when it     *)
(* writes; the rows it points at are there all the same, because none is   *)
(* ever deleted, and a preflight never changes once it is inserted, so the *)
(* comparison of an approval with its preflight still holds when the       *)
(* approval is stored.  A preflight may get several approvals: the look-up *)
(* and the insertion are two steps.  Those stored and those about to be    *)
(* never outnumber the threads, because a confirmation goes on to insert   *)
(* only when it found none stored.                                         *)
(***************************************************************************)

Row       == [symbol : Symbols, updated : 0..MaxTime]
Preflight == [session : Nat \ {0}, symbol : Symbols, head : 1..MaxHead]
Approval  == [preflight : Nat \ {0}, session : Nat \ {0}, symbol : Symbols, head : 1..MaxHead]

(* Each table is a sequence of rows, and each reference points at a row. *)
RowsHaveTypes ==
    /\ sessions \in Seq(Row)
    /\ preflights \in Seq(Preflight)
    /\ approvals \in Seq(Approval)
    /\ now \in 0..MaxTime /\ head \in 1..MaxHead
    /\ req \in [Threads -> Request]

RowsPointAtRows ==
    /\ \A k \in DOMAIN preflights : preflights[k].session \in DOMAIN sessions
    /\ \A j \in DOMAIN approvals :
          /\ approvals[j].preflight \in DOMAIN preflights
          /\ approvals[j].session \in DOMAIN sessions

(* The preflights, with those being captured, stay within the bound. *)
CapturesBounded == Len(preflights) + Cardinality(Capturing) <= MaxCaptures

(* What a handler with the locals r has read where it is. *)
Holds(r) ==
    /\ r.pc \in {"idle", "readRow", "insertRow", "updateRow", "insertPreflight"} => r.target = 0
    /\ r.target # 0 => r.target \in DOMAIN preflights
    /\ r.pc = "updateRow" => r.want # NoSymbol
    /\ r.pc \in {"updateRow", "insertPreflight"} =>
          r.session \in DOMAIN sessions /\ r.symbol \in Symbols
    /\ r.pc \in {"build", "existing", "insertApproval"} => r.target # 0
    /\ r.pc \in {"existing", "insertApproval"} => Binds(r, preflights[r.target])

HandlersHold == \A t \in Threads : Holds(req[t])

HInv == RowsHaveTypes /\ RowsPointAtRows /\ CapturesBounded /\ HandlersHold
-----------------------------------------------------------------------------
(* The approvals of preflight k, with those about to be inserted, are no    *)
(* more than the threads, and each repeats what the preflight says.         *)
Inserting(k) == {t \in Threads : req[t].pc = "insertApproval" /\ req[t].target = k}

Few(k) == Cardinality(ApprovalsOf(k)) + Cardinality(Inserting(k)) <= Cardinality(Threads)

Repeats(row) ==
    [session |-> row.session, symbol |-> row.symbol, head |-> row.head]
        = preflights[row.preflight]

AllRepeat == \A j \in DOMAIN approvals : Repeats(approvals[j])

OInv == (\A k \in Nat : Few(k)) /\ AllRepeat
-----------------------------------------------------------------------------
Labels == {"idle", "readRow", "insertRow", "updateRow", "readSession", "insertPreflight",
           "build", "existing", "insertApproval"}

(* The locals of a handler that moves on, and of one that starts. *)
LEMMA RestType ==
  /\ Rest \in Request
  /\ Rest.pc = "idle" /\ Rest.target = 0 /\ Rest.want = NoSymbol
BY BoundsAssumption DEF Rest, Request

(* A request that goes on keeps what it has read. *)
LEMMA Relabelled ==
  ASSUME NEW r \in Request, NEW label \in Labels
  PROVE  LET q == [r EXCEPT !.pc = label] IN
         /\ q \in Request
         /\ q.pc = label /\ q.want = r.want /\ q.sha = r.sha /\ q.session = r.session
         /\ q.symbol = r.symbol /\ q.target = r.target
BY DEF Request, Labels

(* Goto changes the label of one request. *)
LEMMA GotoMoves ==
  ASSUME NEW t \in Threads, req \in [Threads -> Request], NEW label \in Labels
  PROVE  Goto(t, label) <=> req' = [req EXCEPT ![t] = [req[t] EXCEPT !.pc = label]]
BY DEF Goto, Request

-----------------------------------------------------------------------------
(* Tables are read through their domains and their rows. *)
LEMMA Tables ==
  ASSUME RowsHaveTypes
  PROVE  /\ DOMAIN sessions = 1..Len(sessions) /\ Len(sessions) \in Nat
         /\ DOMAIN preflights = 1..Len(preflights) /\ Len(preflights) \in Nat
         /\ DOMAIN approvals = 1..Len(approvals) /\ Len(approvals) \in Nat
         /\ \A i \in DOMAIN sessions : sessions[i] \in Row
         /\ \A k \in DOMAIN preflights : preflights[k] \in Preflight
         /\ \A j \in DOMAIN approvals : approvals[j] \in Approval
         /\ \A t \in Threads : req[t] \in Request
<1>1. /\ DOMAIN sessions = 1..Len(sessions) /\ Len(sessions) \in Nat
      /\ \A i \in 1..Len(sessions) : sessions[i] \in Row
  BY LenProperties, ElementOfSeq DEF RowsHaveTypes
<1>2. /\ DOMAIN preflights = 1..Len(preflights) /\ Len(preflights) \in Nat
      /\ \A k \in 1..Len(preflights) : preflights[k] \in Preflight
  BY LenProperties, ElementOfSeq DEF RowsHaveTypes
<1>3. /\ DOMAIN approvals = 1..Len(approvals) /\ Len(approvals) \in Nat
      /\ \A j \in 1..Len(approvals) : approvals[j] \in Approval
  BY LenProperties, ElementOfSeq DEF RowsHaveTypes
<1>4. \A t \in Threads : req[t] \in Request
  BY DEF RowsHaveTypes
<1> QED
  BY <1>1, <1>2, <1>3, <1>4

(* Inserting a row. *)
LEMMA Inserted ==
  ASSUME NEW S, NEW table \in Seq(S), NEW row \in S
  PROVE  /\ Append(table, row) \in Seq(S)
         /\ Len(Append(table, row)) = Len(table) + 1
         /\ DOMAIN Append(table, row) = DOMAIN table \cup {Len(table) + 1}
         /\ Len(table) + 1 \notin DOMAIN table
         /\ Append(table, row)[Len(table) + 1] = row
         /\ \A i \in DOMAIN table : Append(table, row)[i] = table[i]
<1>1. /\ Append(table, row) \in Seq(S)
      /\ Len(Append(table, row)) = Len(table) + 1
      /\ Append(table, row)[Len(table) + 1] = row
      /\ \A i \in 1..Len(table) : Append(table, row)[i] = table[i]
  OBVIOUS
<1>2. DOMAIN table = 1..Len(table) /\ Len(table) \in Nat
  BY LenProperties
<1>3. DOMAIN Append(table, row) = 1..(Len(table) + 1)
  BY <1>1, LenProperties
<1> QED
  BY <1>1, <1>2, <1>3

Captures(r) == r.target = 0 /\ r.pc \in {"readSession", "insertPreflight"}

(* The requests that capture are finitely many, and threads. *)
LEMMA CapturingFinite ==
  /\ IsFiniteSet(Capturing) /\ Cardinality(Capturing) \in Nat
  /\ \A t \in Threads : t \in Capturing <=> Captures(req[t])
  /\ Capturing \subseteq Threads
<1>1. Capturing \subseteq Threads
  BY DEF Capturing
<1>2. IsFiniteSet(Capturing)
  BY <1>1, BoundsAssumption, FS_Subset
<1> QED
  BY <1>1, <1>2, FS_CardinalityType DEF Capturing, Captures

(* Which rows there are when handlers only add rows or update sessions. *)
RowsKept ==
    /\ DOMAIN sessions \subseteq DOMAIN sessions'
    /\ DOMAIN preflights \subseteq DOMAIN preflights'
    /\ \A k \in DOMAIN preflights : preflights'[k] = preflights[k]

(* A handler that moves keeps what the others hold. *)
LEMMA OthersHold ==
  ASSUME RowsHaveTypes, HandlersHold, RowsKept, NEW t \in Threads, NEW r \in Request,
         req' = [req EXCEPT ![t] = r]
  PROVE  /\ req' \in [Threads -> Request]
         /\ req'[t] = r
         /\ \A u \in Threads : u # t => req'[u] = req[u] /\ Holds(req[u])'
<1>1. req' \in [Threads -> Request] /\ req'[t] = r /\ \A u \in Threads : u # t => req'[u] = req[u]
  BY DEF RowsHaveTypes
<1>2. ASSUME NEW u \in Threads, u # t
      PROVE  Holds(req[u])'
  <2>1. Holds(req[u]) /\ req'[u] = req[u]
    BY <1>1, <1>2 DEF HandlersHold
  <2>2. req[u].target # 0 => preflights'[req[u].target] = preflights[req[u].target]
    BY <2>1 DEF Holds, RowsKept
  <2> QED
    BY <2>1, <2>2 DEF Holds, Binds, RowsKept
<1> QED
  BY <1>1, <1>2

(* A handler that writes nothing keeps HInv if it knows what it should. *)
LEMMA Moved ==
  ASSUME HInv, NEW t \in Threads, NEW r \in Request, req' = [req EXCEPT ![t] = r],
         UNCHANGED <<sessions, preflights, approvals, now, head>>,
         Holds(r), Captures(r) => Captures(req[t])
  PROVE  HInv'
<1>1. RowsKept
  BY DEF RowsKept
<1>2. /\ req' \in [Threads -> Request] /\ req'[t] = r
      /\ \A u \in Threads : u # t => req'[u] = req[u] /\ Holds(req[u])'
  BY <1>1, OthersHold DEF HInv
<1>3. RowsHaveTypes' /\ RowsPointAtRows'
  BY <1>2 DEF HInv, RowsHaveTypes, RowsPointAtRows
<1>4. Holds(req[t])'
  BY <1>2 DEF Holds, Binds
<1>5. HandlersHold'
  BY <1>2, <1>4 DEF HandlersHold
<1>6. Capturing' \subseteq Capturing
  <2>1. ASSUME NEW u \in Threads, Captures(req'[u])
        PROVE  Captures(req[u])
    BY <1>2, <2>1
  <2> QED
    BY <2>1 DEF Capturing, Captures
<1>7. Cardinality(Capturing') <= Cardinality(Capturing)
  BY <1>6, CapturingFinite, FS_Subset
<1>8. CapturesBounded'
  <2>1. Cardinality(Capturing') \in Nat
    BY <1>6, CapturingFinite, FS_Subset, FS_CardinalityType
  <2> QED
    BY <1>7, <2>1, CapturingFinite, BoundsAssumption, Tables DEF HInv, CapturesBounded
<1> QED
  BY <1>3, <1>5, <1>8 DEF HInv
-----------------------------------------------------------------------------
(* No handler runs at first. *)
LEMMA HInit == Init => HInv
<1> SUFFICES ASSUME Init
             PROVE  HInv
  OBVIOUS
<1>1. \A t \in Threads : req[t] = Rest
  BY DEF Init
<1>2. RowsHaveTypes
  <2>1. req \in [Threads -> Request]
    BY RestType DEF Init
  <2>2. sessions \in Seq(Row) /\ preflights \in Seq(Preflight) /\ approvals \in Seq(Approval)
    BY EmptySeq DEF Init
  <2>3. now \in 0..MaxTime /\ head \in 1..MaxHead
    BY BoundsAssumption DEF Init
  <2> QED
    BY <2>1, <2>2, <2>3 DEF RowsHaveTypes
<1>3. RowsPointAtRows
  BY DEF Init, RowsPointAtRows
<1>4. Capturing = {}
  BY <1>1, RestType DEF Capturing
<1>5. CapturesBounded
  BY <1>4, FS_EmptySet, EmptySeq, BoundsAssumption DEF Init, CapturesBounded
<1>6. HandlersHold
  BY <1>1, RestType DEF HandlersHold, Holds
<1> QED
  BY <1>2, <1>3, <1>5, <1>6 DEF HInv

(* A handler at rest holds nothing. *)
LEMMA AtRest ==
  ASSUME HInv, NEW t \in Threads, Return(t),
         UNCHANGED <<sessions, preflights, approvals, now, head>>
  PROVE  HInv'
<1>1. Holds(Rest) /\ ~Captures(Rest)
  BY RestType DEF Holds, Captures
<1> QED
  BY <1>1, RestType, Moved DEF Return

(* One that only changes its label. *)
LEMMA Relabels ==
  ASSUME HInv, NEW t \in Threads, NEW label \in Labels, Goto(t, label),
         UNCHANGED <<sessions, preflights, approvals, now, head>>,
         Holds([req[t] EXCEPT !.pc = label]),
         label # "insertPreflight", label # "readSession"
  PROVE  HInv'
<1> DEFINE r == [req[t] EXCEPT !.pc = label]
<1>1. req \in [Threads -> Request] /\ req[t] \in Request
  BY DEF HInv, RowsHaveTypes
<1>2. req' = [req EXCEPT ![t] = r]
  BY <1>1, GotoMoves
<1>3. r \in Request /\ r.pc = label
  BY <1>1, Relabelled
<1>4. ~Captures(r) /\ Holds(r)
  BY <1>3 DEF Captures
<1> HIDE DEF r
<1> QED
  BY <1>2, <1>3, <1>4, Moved

(* OpenSession: a request of the session handler arrives. *)
LEMMA OpenSessionStep ==
  ASSUME HInv, NEW t \in Threads, NEW s \in Symbols \cup {NoSymbol}, OpenSession(t, s)
  PROVE  HInv'
<1> DEFINE r == [Rest EXCEPT !.pc = "readRow", !.at = now, !.want = s]
<1>1. req' = [req EXCEPT ![t] = r] /\ UNCHANGED <<sessions, preflights, approvals, now, head>>
  BY DEF OpenSession
<1>2. r \in Request /\ r.pc = "readRow" /\ r.target = 0
  <2>1. "readRow" \in Labels /\ now \in 0..MaxTime
    BY DEF Labels, HInv, RowsHaveTypes
  <2> QED
    BY <2>1, RestType DEF Request, Labels
<1> HIDE DEF r
<1>3. Holds(r) /\ ~Captures(r)
  BY <1>2 DEF Holds, Captures
<1> QED
  BY <1>1, <1>2, <1>3, Moved

(* ReadRow, BuildApproval and LookUp: a handler reads, and holds what it   *)
(* read.                                                                   *)
LEMMA SessionSteps ==
  ASSUME HInv, NEW t \in Threads, ReadRow(t) \/ BuildApproval(t) \/ LookUp(t)
  PROVE  HInv'
<1>1. req \in [Threads -> Request] /\ req[t] \in Request /\ now \in 0..MaxTime
  BY DEF HInv, RowsHaveTypes
<1>2. Holds(req[t])
  BY DEF HInv, HandlersHold
<1>4. CASE ReadRow(t)
  <2>0. /\ req[t].pc = "readRow" /\ req[t].target = 0
        /\ UNCHANGED <<sessions, preflights, approvals, now, head>>
    BY <1>2, <1>4 DEF ReadRow, Holds
  <2>1. CASE Goto(t, "insertRow")
    <3> DEFINE r == [req[t] EXCEPT !.pc = "insertRow"]
    <3>1. r.pc = "insertRow" /\ r.target = 0
      BY <1>1, <2>0, Relabelled DEF Labels
    <3> HIDE DEF r
    <3>2. Holds(r)
      BY <3>1 DEF Holds
    <3> QED
      BY <2>0, <2>1, <3>2, Relabels DEF Labels, r
  <2>2. CASE Return(t)
    BY <2>0, <2>2, AtRest
  <2>3. ASSUME NEW i \in ActiveRows, req[t].want # NoSymbol, HasRead(t, "updateRow", i)
        PROVE  HInv'
    <3> DEFINE s == sessions[i].symbol
               r == [req[t] EXCEPT !.pc = "updateRow", !.session = i, !.symbol = s]
    <3>1. i \in DOMAIN sessions /\ i \in Nat /\ s \in Symbols
      BY Tables DEF ActiveRows, HInv, Row
    <3>2. req' = [req EXCEPT ![t] = r]
      BY <1>1, <2>3 DEF HasRead, Request
    <3>3. /\ r \in Request /\ r.pc = "updateRow" /\ r.want = req[t].want /\ r.session = i
          /\ r.symbol = s /\ r.target = req[t].target
      BY <1>1, <3>1 DEF Request
    <3> HIDE DEF r
    <3>4. Holds(r) /\ ~Captures(r)
      BY <2>0, <2>3, <3>1, <3>3 DEF Holds, Captures
    <3> QED
      BY <2>0, <3>2, <3>3, <3>4, Moved
  <2> QED
    BY <1>4, <2>1, <2>2, <2>3 DEF ReadRow
<1>5. CASE BuildApproval(t)
  <2>0. /\ req[t].pc = "build" /\ req[t].target # 0
        /\ UNCHANGED <<sessions, preflights, approvals, now, head>>
    BY <1>2, <1>5 DEF BuildApproval, Holds
  <2>1. CASE Goto(t, "existing") /\ Binds(req[t], preflights[req[t].target])
    <3> DEFINE r == [req[t] EXCEPT !.pc = "existing"]
    <3>1. /\ r.pc = "existing" /\ r.target = req[t].target /\ r.sha = req[t].sha
          /\ r.session = req[t].session /\ r.symbol = req[t].symbol
      BY <1>1, Relabelled DEF Labels
    <3> HIDE DEF r
    <3>2. Holds(r)
      BY <1>2, <2>0, <2>1, <3>1 DEF Holds, Binds
    <3> QED
      BY <2>0, <2>1, <3>2, Relabels DEF Labels, r
  <2>2. CASE Return(t)
    BY <2>0, <2>2, AtRest
  <2> QED
    BY <1>5, <2>1, <2>2 DEF BuildApproval
<1>6. CASE LookUp(t)
  <2>0. /\ req[t].pc = "existing"
        /\ UNCHANGED <<sessions, preflights, approvals, now, head>>
    BY <1>6 DEF LookUp
  <2>1. CASE Goto(t, "insertApproval")
    <3> DEFINE r == [req[t] EXCEPT !.pc = "insertApproval"]
    <3>1. /\ r.pc = "insertApproval" /\ r.target = req[t].target /\ r.sha = req[t].sha
          /\ r.session = req[t].session /\ r.symbol = req[t].symbol
      BY <1>1, Relabelled DEF Labels
    <3> HIDE DEF r
    <3>2. Holds(r)
      BY <1>2, <2>0, <3>1 DEF Holds, Binds
    <3> QED
      BY <2>0, <2>1, <3>2, Relabels DEF Labels, r
  <2>2. CASE Return(t)
    BY <2>0, <2>2, AtRest
  <2> QED
    BY <1>6, <2>1, <2>2 DEF LookUp
<1> QED
  BY <1>4, <1>5, <1>6

(* The requests that read the session: a capture and a confirmation. *)
LEMMA ReadSessionStep ==
  ASSUME HInv, NEW t \in Threads, ReadSession(t)
  PROVE  HInv'
<1>0. /\ req[t].pc = "readSession"
      /\ UNCHANGED <<sessions, preflights, approvals, now, head>>
  BY DEF ReadSession
<1>1. req \in [Threads -> Request] /\ req[t] \in Request /\ Holds(req[t])
  BY DEF HInv, RowsHaveTypes, HandlersHold
<1>2. CASE Return(t)
  BY <1>0, <1>2, AtRest
<1>3. ASSUME NEW i \in ActiveRows,
             HasRead(t, IF req[t].target = 0 THEN "insertPreflight" ELSE "build", i)
      PROVE  HInv'
  <2> DEFINE s == sessions[i].symbol
             label == IF req[t].target = 0 THEN "insertPreflight" ELSE "build"
             r == [req[t] EXCEPT !.pc = label, !.session = i, !.symbol = s]
  <2>1. i \in DOMAIN sessions /\ i \in Nat /\ s \in Symbols
    BY Tables DEF ActiveRows, HInv, Row
  <2>3. label \in Labels
    BY DEF Labels
  <2>2. req' = [req EXCEPT ![t] = r]
    BY <1>1, <1>3 DEF HasRead, Request
  <2> HIDE DEF label
  <2>4. /\ r \in Request /\ r.pc = label /\ r.session = i
        /\ r.symbol = s /\ r.target = req[t].target
    BY <1>1, <2>1, <2>3 DEF Request, Labels
  <2> HIDE DEF r, s
  <2>5. Holds(r) /\ (Captures(r) => Captures(req[t]))
    BY <1>0, <1>1, <2>1, <2>4 DEF Holds, Captures, label
  <2> QED
    BY <1>0, <2>2, <2>4, <2>5, Moved
<1> QED
  BY <1>2, <1>3 DEF ReadSession

(* StartApproval: a confirmation of an existing preflight arrives. *)
LEMMA StartApprovalStep ==
  ASSUME HInv, NEW t \in Threads, NEW k \in DOMAIN preflights, StartApproval(t, k)
  PROVE  HInv'
<1> DEFINE r == [Rest EXCEPT !.pc = "readSession", !.sha = head, !.target = k]
<1>1. req' = [req EXCEPT ![t] = r] /\ UNCHANGED <<sessions, preflights, approvals, now, head>>
  BY DEF StartApproval
<1>2. k \in 1..MaxCaptures
  BY Tables, CapturingFinite, BoundsAssumption DEF HInv, CapturesBounded
<1>3. r \in Request /\ r.pc = "readSession" /\ r.target = k
  <2>1. "readSession" \in Labels /\ head \in 1..MaxHead /\ k \in 0..MaxCaptures
    BY <1>2, BoundsAssumption DEF Labels, HInv, RowsHaveTypes
  <2> QED
    BY <2>1, RestType DEF Request, Labels
<1> HIDE DEF r
<1>4. k # 0
  BY <1>2
<1>5. Holds(r) /\ ~Captures(r)
  BY <1>3, <1>4 DEF Holds, Captures
<1> QED
  BY <1>1, <1>3, <1>5, Moved

(* The captures begun and the rows inserted never pass the bound. *)
LEMMA StartCaptureStep ==
  ASSUME HInv, NEW t \in Threads, StartCapture(t)
  PROVE  HInv'
<1> DEFINE r == [Rest EXCEPT !.pc = "readSession", !.sha = head]
<1>1. /\ req' = [req EXCEPT ![t] = r] /\ UNCHANGED <<sessions, preflights, approvals, now, head>>
      /\ Len(preflights) + Cardinality(Capturing) < MaxCaptures
      /\ req[t].pc = "idle"
  BY DEF StartCapture, Idle
<1>2. r \in Request /\ r.pc = "readSession" /\ r.target = 0
  <2>1. "readSession" \in Labels /\ head \in 1..MaxHead
    BY DEF Labels, HInv, RowsHaveTypes
  <2> QED
    BY <2>1, RestType DEF Request, Labels
<1> HIDE DEF r
<1>3. Holds(r)
  BY <1>2 DEF Holds
<1>4. RowsKept
  BY <1>1 DEF RowsKept
<1>5. /\ req' \in [Threads -> Request] /\ req'[t] = r
      /\ \A u \in Threads : u # t => req'[u] = req[u] /\ Holds(req[u])'
  BY <1>1, <1>2, <1>4, OthersHold DEF HInv
<1>6. RowsHaveTypes' /\ RowsPointAtRows'
  BY <1>1, <1>5 DEF HInv, RowsHaveTypes, RowsPointAtRows
<1>7. Holds(req[t])'
  BY <1>1, <1>3, <1>5 DEF Holds, Binds
<1>8. HandlersHold'
  BY <1>5, <1>7 DEF HandlersHold
<1>9. Capturing' = Capturing \cup {t}
  BY <1>2, <1>5 DEF Capturing
<1>10. CapturesBounded'
  <2>1. Cardinality(Capturing \cup {t}) <= Cardinality(Capturing) + 1
    BY CapturingFinite, FS_AddElement
  <2>2. Cardinality(Capturing \cup {t}) \in Nat
    BY CapturingFinite, FS_AddElement, FS_CardinalityType
  <2>3. Len(preflights) \in Nat
    BY Tables DEF HInv
  <2> QED
    BY <1>1, <1>9, <2>1, <2>2, <2>3, CapturingFinite, BoundsAssumption DEF CapturesBounded
<1> QED
  BY <1>6, <1>8, <1>10 DEF HInv

(* InsertPreflight: the row points at a session. *)
LEMMA InsertPreflightStep ==
  ASSUME HInv, NEW t \in Threads, InsertPreflight(t)
  PROVE  HInv'
<1> DEFINE row == [session |-> req[t].session, symbol |-> req[t].symbol, head |-> req[t].sha]
<1>1. /\ req[t].pc = "insertPreflight" /\ req[t].target = 0
      /\ req[t].session \in DOMAIN sessions /\ req[t].symbol \in Symbols
      /\ req[t] \in Request
  BY DEF InsertPreflight, HInv, HandlersHold, Holds, RowsHaveTypes
<1>2. /\ preflights' = Append(preflights, row)
      /\ req' = [req EXCEPT ![t] = Rest]
      /\ UNCHANGED <<sessions, approvals, now, head>>
  BY DEF InsertPreflight, Return
<1>3. row \in Preflight /\ row.session \in DOMAIN sessions
  BY <1>1, Tables DEF HInv, Preflight, Request
<1> HIDE DEF row
<1>4. /\ preflights' \in Seq(Preflight)
      /\ Len(preflights') = Len(preflights) + 1
      /\ DOMAIN preflights' = DOMAIN preflights \cup {Len(preflights) + 1}
      /\ Len(preflights) + 1 \notin DOMAIN preflights
      /\ preflights'[Len(preflights) + 1] = row
      /\ \A k \in DOMAIN preflights : preflights'[k] = preflights[k]
  BY <1>2, <1>3, Inserted DEF HInv, RowsHaveTypes
<1>5. RowsKept
  BY <1>2, <1>4 DEF RowsKept
<1>6. /\ req' \in [Threads -> Request] /\ req'[t] = Rest
      /\ \A u \in Threads : u # t => req'[u] = req[u] /\ Holds(req[u])'
  BY <1>2, <1>5, RestType, OthersHold DEF HInv
<1>7. RowsHaveTypes'
  BY <1>2, <1>4, <1>6 DEF HInv, RowsHaveTypes
<1>8. RowsPointAtRows'
  BY <1>2, <1>3, <1>4 DEF HInv, RowsPointAtRows
<1>9. HandlersHold'
  BY <1>6, RestType DEF HandlersHold, Holds
<1>10. t \in Capturing /\ Capturing' = Capturing \ {t}
  BY <1>1, <1>6, RestType DEF Capturing
<1>11. CapturesBounded'
  <2>1. Cardinality(Capturing \ {t}) = Cardinality(Capturing) - 1
    BY <1>10, CapturingFinite, FS_RemoveElement
  <2>2. Len(preflights) \in Nat
    BY Tables DEF HInv
  <2> QED
    BY <1>4, <1>10, <2>1, <2>2, CapturingFinite, BoundsAssumption DEF HInv, CapturesBounded
<1> QED
  BY <1>7, <1>8, <1>9, <1>11 DEF HInv

(* A session is inserted or updated; rows keep their number or gain one. *)
LEMMA SessionWritten ==
  ASSUME HInv, NEW t \in Threads, sessions' \in Seq(Row),
         DOMAIN sessions \subseteq DOMAIN sessions',
         Return(t), req[t].target = 0, UNCHANGED <<preflights, approvals, now, head>>
  PROVE  HInv'
<1>1. RowsKept
  BY DEF RowsKept
<1>2. req' = [req EXCEPT ![t] = Rest]
  BY DEF Return
<1>3. /\ req' \in [Threads -> Request] /\ req'[t] = Rest
      /\ \A u \in Threads : u # t => req'[u] = req[u] /\ Holds(req[u])'
  BY <1>1, <1>2, RestType, OthersHold DEF HInv
<1>4. RowsHaveTypes' /\ RowsPointAtRows'
  BY <1>3 DEF HInv, RowsHaveTypes, RowsPointAtRows
<1>5. HandlersHold'
  BY <1>3, RestType DEF HandlersHold, Holds
<1>6. Capturing' \subseteq Capturing
  BY <1>3, RestType DEF Capturing
<1>7. Cardinality(Capturing') <= Cardinality(Capturing) /\ Cardinality(Capturing') \in Nat
  BY <1>6, CapturingFinite, FS_Subset, FS_CardinalityType
<1>8. CapturesBounded'
  BY <1>7, CapturingFinite, BoundsAssumption, Tables DEF HInv, CapturesBounded
<1> QED
  BY <1>4, <1>5, <1>8 DEF HInv

(* InsertRow: a session is added, none is changed. *)
LEMMA InsertRowStep ==
  ASSUME HInv, NEW t \in Threads, InsertRow(t)
  PROVE  HInv'
<1> DEFINE row == [symbol  |-> IF req[t].want = NoSymbol THEN Default ELSE req[t].want,
                   updated |-> req[t].at]
<1>1. /\ sessions' = Append(sessions, row) /\ Return(t)
      /\ UNCHANGED <<preflights, approvals, now, head>>
      /\ req[t].target = 0 /\ req[t] \in Request
  BY DEF InsertRow, HInv, HandlersHold, Holds, RowsHaveTypes
<1>2. row \in Row
  BY <1>1, SymbolAssumption DEF Row, Request
<1> HIDE DEF row
<1>3. sessions' \in Seq(Row) /\ DOMAIN sessions \subseteq DOMAIN sessions'
  BY <1>1, <1>2, Inserted DEF HInv, RowsHaveTypes
<1> QED
  BY <1>1, <1>3, SessionWritten

(* UpdateRow: a session's row is replaced, and is still a row. *)
LEMMA UpdateRowStep ==
  ASSUME HInv, NEW t \in Threads, UpdateRow(t)
  PROVE  HInv'
<1> DEFINE i == req[t].session
           row == [symbol  |-> IF req[t].want = req[t].symbol
                               THEN sessions[i].symbol ELSE req[t].want,
                   updated |-> req[t].at]
<1>1. /\ Return(t) /\ UNCHANGED <<preflights, approvals, now, head>>
      /\ req[t].target = 0 /\ req[t] \in Request
      /\ i \in DOMAIN sessions /\ req[t].want # NoSymbol
  BY DEF UpdateRow, HInv, HandlersHold, Holds, RowsHaveTypes
<1>2. sessions[i] \in Row
  BY <1>1, Tables DEF HInv
<1>3. row \in Row
  BY <1>1, <1>2 DEF Row, Request
<1>4. sessions' = [sessions EXCEPT ![i] = row]
  <2>1. sessions \in [DOMAIN sessions -> Row]
    BY Tables, LenProperties DEF HInv, RowsHaveTypes
  <2> DEFINE s == IF req[t].want = req[t].symbol THEN sessions[i].symbol ELSE req[t].want
  <2>2. sessions' = [sessions EXCEPT ![i].symbol = s, ![i].updated = req[t].at]
    BY DEF UpdateRow
  <2>3. [sessions EXCEPT ![i].symbol = s, ![i].updated = req[t].at] = [sessions EXCEPT ![i] = row]
    <3> HIDE DEF s
    <3>1. row = [symbol |-> s, updated |-> req[t].at]
      BY DEF s
    <3> HIDE DEF row, i
    <3>2. [[sessions[i] EXCEPT !.symbol = s] EXCEPT !.updated = req[t].at] = row
      <4> DEFINE old == sessions[i]
                 at == req[t].at
      <4>1. old \in [symbol : Symbols, updated : 0..MaxTime]
        BY <1>2 DEF Row
      <4> HIDE DEF old, at
      <4>2. [old EXCEPT !.symbol = s] = [symbol |-> s, updated |-> old.updated]
        BY <4>1
      <4>3. [[symbol |-> s, updated |-> old.updated] EXCEPT !.updated = at]
              = [symbol |-> s, updated |-> at]
        OBVIOUS
      <4> QED
        BY <3>1, <4>2, <4>3 DEF old, at
    <3> QED
      BY <1>1, <2>1, <3>2
  <2> QED
    BY <2>2, <2>3
<1> HIDE DEF row, i
<1>5. sessions \in Seq(Row) /\ i \in 1..Len(sessions)
  BY <1>1, Tables DEF HInv, RowsHaveTypes
<1>6. sessions' \in Seq(Row) /\ DOMAIN sessions' = DOMAIN sessions
  BY <1>3, <1>4, <1>5, ExceptSeq
<1> QED
  BY <1>1, <1>6, SessionWritten

(* InsertApproval: the row repeats what its preflight says. *)
LEMMA InsertApprovalStep ==
  ASSUME HInv, NEW t \in Threads, InsertApproval(t)
  PROVE  HInv'
<1> DEFINE k == req[t].target
           row == [preflight |-> k, session |-> preflights[k].session,
                   symbol |-> preflights[k].symbol, head |-> req[t].sha]
<1>1. /\ approvals' = Append(approvals, row)
      /\ req' = [req EXCEPT ![t] = Rest]
      /\ UNCHANGED <<sessions, preflights, now, head>>
      /\ req[t].pc = "insertApproval" /\ k \in DOMAIN preflights
      /\ req[t] \in Request
  BY DEF InsertApproval, Return, HInv, HandlersHold, Holds, RowsHaveTypes
<1>2. /\ preflights[k] \in Preflight /\ k \in Nat \ {0}
      /\ preflights[k].session \in DOMAIN sessions
  BY <1>1, Tables DEF HInv, RowsPointAtRows
<1>3. row \in Approval /\ row.preflight = k /\ row.session = preflights[k].session
  BY <1>1, <1>2 DEF Approval, Preflight, Request
<1> HIDE DEF row, k
<1>4. /\ approvals' \in Seq(Approval)
      /\ DOMAIN approvals' = DOMAIN approvals \cup {Len(approvals) + 1}
      /\ approvals'[Len(approvals) + 1] = row
      /\ \A j \in DOMAIN approvals : approvals'[j] = approvals[j]
  BY <1>1, <1>3, Inserted DEF HInv, RowsHaveTypes
<1>5. RowsKept
  BY <1>1 DEF RowsKept
<1>6. /\ req' \in [Threads -> Request] /\ req'[t] = Rest
      /\ \A u \in Threads : u # t => req'[u] = req[u] /\ Holds(req[u])'
  BY <1>1, <1>5, RestType, OthersHold DEF HInv
<1>7. RowsHaveTypes' /\ RowsPointAtRows'
  BY <1>1, <1>2, <1>3, <1>4, <1>6 DEF HInv, RowsHaveTypes, RowsPointAtRows
<1>8. HandlersHold'
  BY <1>6, RestType DEF HandlersHold, Holds
<1>9. Capturing' \subseteq Capturing
  BY <1>6, RestType DEF Capturing
<1>10. Cardinality(Capturing') <= Cardinality(Capturing) /\ Cardinality(Capturing') \in Nat
  BY <1>9, CapturingFinite, FS_Subset, FS_CardinalityType
<1>11. CapturesBounded'
  BY <1>1, <1>10, CapturingFinite, BoundsAssumption, Tables DEF HInv, CapturesBounded
<1> QED
  BY <1>7, <1>8, <1>11 DEF HInv

(* Every step preserves the invariant of the handlers. *)
LEMMA HNext == HInv /\ [Next]_vars => HInv'
<1> SUFFICES ASSUME HInv, [Next]_vars
             PROVE  HInv'
  OBVIOUS
<1>1. CASE UNCHANGED vars
  BY <1>1 DEF vars, HInv, RowsHaveTypes, RowsPointAtRows, CapturesBounded, Capturing,
              HandlersHold, Holds, Binds
<1>2. CASE Tick
  <2>1. now' \in 0..MaxTime
    BY <1>2, BoundsAssumption DEF Tick, HInv, RowsHaveTypes
  <2> QED
    BY <1>2, <2>1 DEF Tick, HInv, RowsHaveTypes, RowsPointAtRows, CapturesBounded, Capturing,
                      HandlersHold, Holds, Binds
<1>3. CASE MoveHead
  <2>1. head' \in 1..MaxHead
    BY <1>3, BoundsAssumption DEF MoveHead, HInv, RowsHaveTypes
  <2> QED
    BY <1>3, <2>1 DEF MoveHead, HInv, RowsHaveTypes, RowsPointAtRows, CapturesBounded,
                      Capturing, HandlersHold, Holds, Binds
<1> QED
  BY <1>1, <1>2, <1>3, OpenSessionStep, SessionSteps, ReadSessionStep, StartApprovalStep,
     StartCaptureStep, InsertPreflightStep, InsertRowStep, UpdateRowStep, InsertApprovalStep
  DEF Next
-----------------------------------------------------------------------------
(* However the handlers interleave, rows point at rows and a handler holds  *)
(* what it compared.                                                        *)
THEOREM HandlersInductive == Spec => []HInv
BY HInit, HNext, PTL DEF Spec

(* The rows of a sequence that has them all in a smaller set. *)
LEMMA Narrowed ==
  ASSUME NEW S, NEW T, NEW table \in Seq(S), \A i \in DOMAIN table : table[i] \in T
  PROVE  table \in Seq(T)
<1>1. Len(table) \in Nat /\ table \in [1..Len(table) -> S] /\ DOMAIN table = 1..Len(table)
  BY LenProperties
<1>2. table \in [1..Len(table) -> T]
  BY <1>1
<1> QED
  BY <1>1, <1>2

(* Every variable has the values the code can give it: a stored session has *)
(* a supported symbol, a preflight and an approval point at stored rows.    *)
THEOREM TypeCorrect == Spec => []TypeOK
<1>1. ASSUME HInv
      PROVE  TypeOK
  <2> DEFINE P == [session : DOMAIN sessions, symbol : Symbols, head : 1..MaxHead]
             A == [preflight : DOMAIN preflights, session : DOMAIN sessions,
                   symbol : Symbols, head : 1..MaxHead]
  <2>1. sessions \in Seq([symbol : Symbols, updated : 0..MaxTime])
    BY <1>1 DEF HInv, RowsHaveTypes, Row
  <2>2. preflights \in Seq(P)
    <3>1. \A k \in DOMAIN preflights : preflights[k] \in P
      BY <1>1, Tables DEF HInv, RowsPointAtRows, Preflight
    <3> HIDE DEF P
    <3> QED
      BY <1>1, <3>1, Narrowed DEF HInv, RowsHaveTypes
  <2>3. approvals \in Seq(A)
    <3>1. \A j \in DOMAIN approvals : approvals[j] \in A
      BY <1>1, Tables DEF HInv, RowsPointAtRows, Approval
    <3> HIDE DEF A
    <3> QED
      BY <1>1, <3>1, Narrowed DEF HInv, RowsHaveTypes
  <2> QED
    BY <1>1, <2>1, <2>2, <2>3 DEF TypeOK, HInv, RowsHaveTypes
<1>2. HInv => TypeOK
  BY <1>1
<1> QED
  BY <1>2, HandlersInductive, PTL

-----------------------------------------------------------------------------
(* What is counted is finite. *)
LEMMA Counts ==
  ASSUME HInv, NEW k \in Nat
  PROVE  /\ IsFiniteSet(ApprovalsOf(k)) /\ Cardinality(ApprovalsOf(k)) \in Nat
         /\ IsFiniteSet(Inserting(k)) /\ Cardinality(Inserting(k)) \in Nat
         /\ Inserting(k) \subseteq Threads
         /\ Cardinality(Threads) \in Nat
<1>1. Inserting(k) \subseteq Threads
  BY DEF Inserting
<1>2. IsFiniteSet(Inserting(k)) /\ Cardinality(Inserting(k)) \in Nat
  BY <1>1, BoundsAssumption, FS_Subset, FS_CardinalityType
<1>3. DOMAIN approvals = 1..Len(approvals) /\ Len(approvals) \in Nat
  BY Tables DEF HInv
<1>4. IsFiniteSet(DOMAIN approvals)
  BY <1>3, FS_Interval
<1>5. ApprovalsOf(k) \subseteq DOMAIN approvals
  BY DEF ApprovalsOf
<1> QED
  BY <1>1, <1>2, <1>4, <1>5, BoundsAssumption, FS_Subset, FS_CardinalityType

(* Preflights are only added. *)
PreflightsKept ==
    /\ DOMAIN preflights \subseteq DOMAIN preflights'
    /\ \A k \in DOMAIN preflights : preflights'[k] = preflights[k]

(* A row that repeats a preflight does so when preflights are only added. *)
LEMMA StillRepeat ==
  ASSUME HInv, AllRepeat, PreflightsKept
  PROVE  \A j \in DOMAIN approvals : Repeats(approvals[j])'
                                       \/ approvals'[j] # approvals[j]
<1> SUFFICES ASSUME NEW j \in DOMAIN approvals, approvals'[j] = approvals[j]
             PROVE  Repeats(approvals[j])'
  OBVIOUS
<1>1. approvals[j].preflight \in DOMAIN preflights /\ Repeats(approvals[j])
  BY DEF HInv, RowsPointAtRows, AllRepeat
<1> QED
  BY <1>1 DEF Repeats, PreflightsKept

(* A handler that moves, and goes on to insert only if it found none stored. *)
LEMMA OMoved ==
  ASSUME HInv, HInv', OInv, NEW t \in Threads, NEW r \in Request,
         req' = [req EXCEPT ![t] = r], UNCHANGED approvals, PreflightsKept,
         r.pc = "insertApproval" => ~Existing(r.target)
  PROVE  OInv'
<1>1. req'[t] = r /\ \A u \in Threads : u # t => req'[u] = req[u]
  BY DEF HInv, RowsHaveTypes
<1>2. ASSUME NEW k \in Nat
      PROVE  Few(k)'
  <2>1. ApprovalsOf(k)' = ApprovalsOf(k)
    BY DEF ApprovalsOf
  <2>2. /\ Cardinality(ApprovalsOf(k)) \in Nat /\ Cardinality(Inserting(k)) \in Nat
        /\ Cardinality(Threads) \in Nat /\ IsFiniteSet(Inserting(k))
    BY Counts
  <2>3. Cardinality(Inserting(k)') \in Nat /\ Inserting(k)' \subseteq Threads
    <3>1. Inserting(k)' \subseteq Threads
      BY DEF Inserting
    <3> QED
      BY <3>1, BoundsAssumption, FS_Subset, FS_CardinalityType
  <2>4. CASE r.pc = "insertApproval" /\ r.target = k
    <3>1. ApprovalsOf(k) = {}
      BY <2>4 DEF ApprovalsOf, Existing
    <3>2. Cardinality(ApprovalsOf(k)) = 0
      BY <3>1, FS_EmptySet
    <3>3. Cardinality(Inserting(k)') <= Cardinality(Threads)
      BY <2>3, BoundsAssumption, FS_Subset
    <3> QED
      BY <2>1, <2>2, <2>3, <3>2, <3>3 DEF Few
  <2>5. CASE ~(r.pc = "insertApproval" /\ r.target = k)
    <3>1. Inserting(k)' \subseteq Inserting(k)
      BY <1>1, <2>5 DEF Inserting
    <3>2. Cardinality(Inserting(k)') <= Cardinality(Inserting(k))
      BY <2>2, <3>1, FS_Subset
    <3>3. Few(k)
      BY DEF OInv
    <3> QED
      BY <2>1, <2>2, <2>3, <3>2, <3>3 DEF Few
  <2> QED
    BY <2>4, <2>5
<1>3. AllRepeat'
  BY StillRepeat DEF OInv, AllRepeat, Repeats
<1> QED
  BY <1>2, <1>3 DEF OInv

(* What an insertion adds to the approvals it takes from those about to be. *)
LEMMA OInserted ==
  ASSUME HInv, HInv', OInv, NEW t \in Threads, InsertApproval(t)
  PROVE  OInv'
<1>0. PICK n : n = Len(approvals) + 1
  OBVIOUS
<1> DEFINE p == req[t].target
           row == [preflight |-> p, session |-> preflights[p].session,
                   symbol |-> preflights[p].symbol, head |-> req[t].sha]
<1>1. /\ approvals' = Append(approvals, row)
      /\ req' = [req EXCEPT ![t] = Rest]
      /\ UNCHANGED <<sessions, preflights, now, head>>
      /\ req[t].pc = "insertApproval" /\ p \in DOMAIN preflights
      /\ Binds(req[t], preflights[p]) /\ req[t] \in Request
  BY DEF InsertApproval, Return, HInv, HandlersHold, Holds, RowsHaveTypes
<1>2. preflights[p] \in Preflight /\ p \in Nat \ {0}
  BY <1>1, Tables DEF HInv
<1>3. /\ row \in Approval /\ row.preflight = p /\ row.session = preflights[p].session
      /\ row.symbol = preflights[p].symbol /\ row.head = preflights[p].head
  BY <1>1, <1>2 DEF Approval, Preflight, Request, Binds
<1> HIDE DEF row, p
<1>4. /\ n \notin DOMAIN approvals
      /\ DOMAIN approvals' = DOMAIN approvals \cup {n}
      /\ approvals'[n] = row
      /\ \A j \in DOMAIN approvals : approvals'[j] = approvals[j]
  BY <1>0, <1>1, <1>3, Inserted DEF HInv, RowsHaveTypes
<1>5. /\ req'[t] = Rest /\ Rest.pc = "idle"
      /\ \A u \in Threads : u # t => req'[u] = req[u]
  BY <1>1, RestType DEF HInv, RowsHaveTypes
<1>6. ASSUME NEW k \in Nat
      PROVE  Few(k)'
  <2>1. /\ Cardinality(ApprovalsOf(k)) \in Nat /\ Cardinality(Inserting(k)) \in Nat
        /\ IsFiniteSet(ApprovalsOf(k)) /\ IsFiniteSet(Inserting(k)) /\ Few(k)
        /\ Cardinality(Threads) \in Nat
    BY Counts DEF OInv
  <2>2. CASE k = p
    <3>1. ApprovalsOf(k)' = ApprovalsOf(k) \cup {n} /\ n \notin ApprovalsOf(k)
      BY <1>3, <1>4, <2>2 DEF ApprovalsOf
    <3>2. Inserting(k)' = Inserting(k) \ {t} /\ t \in Inserting(k)
      BY <1>1, <1>5, <2>2 DEF Inserting, p
    <3>3. Cardinality(ApprovalsOf(k)') = Cardinality(ApprovalsOf(k)) + 1
      BY <2>1, <3>1, FS_AddElement
    <3>4. Cardinality(Inserting(k)') = Cardinality(Inserting(k)) - 1
      BY <2>1, <3>2, FS_RemoveElement
    <3> QED
      BY <2>1, <3>3, <3>4 DEF Few
  <2>3. CASE k # p
    <3>1. ApprovalsOf(k)' = ApprovalsOf(k)
      BY <1>3, <1>4, <2>3 DEF ApprovalsOf
    <3>2. Inserting(k)' = Inserting(k)
      BY <1>5, <2>3 DEF Inserting, p
    <3> QED
      BY <2>1, <3>1, <3>2 DEF Few
  <2> QED
    BY <2>2, <2>3
<1>7. AllRepeat'
  <2>1. PreflightsKept
    BY <1>1 DEF PreflightsKept
  <2>2. ASSUME NEW j \in DOMAIN approvals
        PROVE  Repeats(approvals[j])'
    BY <1>4, <2>1, <2>2, StillRepeat DEF OInv
  <2>3. Repeats(approvals[n])'
    <3>1. preflights'[p] = preflights[p] /\ approvals'[n] = row
      BY <1>1, <1>4
    <3>2. preflights[p] = [session |-> preflights[p].session, symbol |-> preflights[p].symbol,
                           head |-> preflights[p].head]
      BY <1>2 DEF Preflight
    <3> QED
      BY <1>3, <3>1, <3>2 DEF Repeats
  <2> QED
    BY <1>4, <2>2, <2>3 DEF AllRepeat
<1> QED
  BY <1>6, <1>7 DEF OInv

(* InsertPreflight adds one. *)
LEMMA PreflightAdded ==
  ASSUME HInv, NEW t \in Threads, InsertPreflight(t)
  PROVE  PreflightsKept
<1> DEFINE row == [session |-> req[t].session, symbol |-> req[t].symbol, head |-> req[t].sha]
<1>1. /\ preflights' = Append(preflights, row)
      /\ req[t].session \in DOMAIN sessions /\ req[t].symbol \in Symbols /\ req[t] \in Request
  BY DEF InsertPreflight, HInv, HandlersHold, Holds, RowsHaveTypes
<1>2. row \in Preflight
  BY <1>1, Tables DEF HInv, Preflight, Request
<1> HIDE DEF row
<1> QED
  BY <1>1, <1>2, Inserted DEF HInv, RowsHaveTypes, PreflightsKept

(* Every step keeps the approvals few and true to their preflights. *)
LEMMA ONext ==
  ASSUME HInv, HInv', OInv, [Next]_vars
  PROVE  OInv'
<1>1. CASE UNCHANGED <<req, approvals, preflights>>
  BY <1>1 DEF OInv, Few, ApprovalsOf, Inserting, AllRepeat, Repeats
<1>2. ASSUME NEW t \in Threads, Return(t), UNCHANGED approvals, PreflightsKept
      PROVE  OInv'
  <2>1. Rest.pc # "insertApproval" /\ Rest \in Request
    BY RestType
  <2> QED
    BY <1>2, <2>1, OMoved DEF Return
<1>3. ASSUME NEW t \in Threads, NEW label \in Labels, Goto(t, label), UNCHANGED approvals,
             PreflightsKept, label = "insertApproval" => ~Existing(req[t].target)
      PROVE  OInv'
  <2> DEFINE r == [req[t] EXCEPT !.pc = label]
  <2>1. req \in [Threads -> Request] /\ req[t] \in Request
    BY DEF HInv, RowsHaveTypes
  <2>2. req' = [req EXCEPT ![t] = r]
    BY <1>3, <2>1, GotoMoves
  <2>3. r \in Request /\ r.pc = label /\ r.target = req[t].target
    BY <2>1, Relabelled
  <2> HIDE DEF r
  <2> QED
    BY <1>3, <2>2, <2>3, OMoved
<1>4. ASSUME NEW t \in Threads, NEW label \in Labels, label # "insertApproval",
             NEW i \in ActiveRows, HasRead(t, label, i), UNCHANGED approvals, PreflightsKept
      PROVE  OInv'
  <2> DEFINE s == sessions[i].symbol
             r == [req[t] EXCEPT !.pc = label, !.session = i, !.symbol = s]
  <2>1. req \in [Threads -> Request] /\ req[t] \in Request
    BY DEF HInv, RowsHaveTypes
  <2>2. i \in Nat /\ s \in Symbols
    BY Tables DEF ActiveRows, HInv, Row
  <2>3. req' = [req EXCEPT ![t] = r]
    BY <1>4, <2>1 DEF HasRead, Request
  <2>4. r \in Request /\ r.pc = label /\ r.target = req[t].target
    BY <2>1, <2>2 DEF Request, Labels
  <2> HIDE DEF r
  <2> QED
    BY <1>4, <2>3, <2>4, OMoved
<1>5. ASSUME NEW t \in Threads, NEW s \in Symbols \cup {NoSymbol}, OpenSession(t, s)
      PROVE  OInv'
  <2> DEFINE r == [Rest EXCEPT !.pc = "readRow", !.at = now, !.want = s]
  <2>1. req' = [req EXCEPT ![t] = r] /\ UNCHANGED approvals /\ PreflightsKept
    BY <1>5 DEF OpenSession, PreflightsKept
  <2>2. r \in Request /\ r.pc = "readRow"
    <3>1. now \in 0..MaxTime
      BY DEF HInv, RowsHaveTypes
    <3> QED
      BY <3>1, RestType DEF Request
  <2> HIDE DEF r
  <2> QED
    BY <2>1, <2>2, OMoved
<1>6. ASSUME NEW t \in Threads, StartCapture(t)
      PROVE  OInv'
  <2> DEFINE r == [Rest EXCEPT !.pc = "readSession", !.sha = head]
  <2>1. req' = [req EXCEPT ![t] = r] /\ UNCHANGED approvals /\ PreflightsKept
    BY <1>6 DEF StartCapture, PreflightsKept
  <2>2. r \in Request /\ r.pc = "readSession"
    <3>1. head \in 1..MaxHead
      BY DEF HInv, RowsHaveTypes
    <3> QED
      BY <3>1, RestType DEF Request
  <2> HIDE DEF r
  <2> QED
    BY <2>1, <2>2, OMoved
<1>7. ASSUME NEW t \in Threads, NEW k \in DOMAIN preflights, StartApproval(t, k)
      PROVE  OInv'
  <2> DEFINE r == [Rest EXCEPT !.pc = "readSession", !.sha = head, !.target = k]
  <2>1. req' = [req EXCEPT ![t] = r] /\ UNCHANGED approvals /\ PreflightsKept
    BY <1>7 DEF StartApproval, PreflightsKept
  <2>2. r \in Request /\ r.pc = "readSession"
    <3>1. head \in 1..MaxHead /\ k \in 0..MaxCaptures
      BY Tables, CapturingFinite, BoundsAssumption
      DEF HInv, RowsHaveTypes, CapturesBounded
    <3> QED
      BY <3>1, RestType DEF Request
  <2> HIDE DEF r
  <2> QED
    BY <2>1, <2>2, OMoved
<1>8. ASSUME NEW t \in Threads, InsertApproval(t)
      PROVE  OInv'
  BY <1>8, OInserted
<1>9. ASSUME NEW t \in Threads, InsertRow(t) \/ UpdateRow(t) \/ InsertPreflight(t)
      PROVE  OInv'
  <2>1. Return(t) /\ UNCHANGED approvals
    BY <1>9 DEF InsertRow, UpdateRow, InsertPreflight
  <2>2. PreflightsKept
    <3>1. CASE InsertRow(t) \/ UpdateRow(t)
      BY <3>1 DEF InsertRow, UpdateRow, PreflightsKept
    <3>2. CASE InsertPreflight(t)
      BY <3>2, PreflightAdded
    <3> QED
      BY <1>9, <3>1, <3>2
  <2> QED
    BY <1>2, <2>1, <2>2
<1>10. ASSUME NEW t \in Threads, ReadRow(t)
       PROVE  OInv'
  <2>1. "insertRow" \in Labels /\ "updateRow" \in Labels
    BY DEF Labels
  <2>2. PreflightsKept /\ UNCHANGED approvals
    BY <1>10 DEF ReadRow, PreflightsKept
  <2> QED
    BY <1>2, <1>3, <1>4, <1>10, <2>1, <2>2 DEF ReadRow
<1>11. ASSUME NEW t \in Threads, ReadSession(t)
       PROVE  OInv'
  <2>1. "insertPreflight" \in Labels /\ "build" \in Labels
    BY DEF Labels
  <2>2. PreflightsKept /\ UNCHANGED approvals
    BY <1>11 DEF ReadSession, PreflightsKept
  <2> QED
    BY <1>2, <1>4, <1>11, <2>1, <2>2 DEF ReadSession
<1>12. CASE UNCHANGED vars \/ Tick \/ MoveHead
  BY <1>1, <1>12 DEF vars, Tick, MoveHead
<1>13. ASSUME NEW t \in Threads, BuildApproval(t)
       PROVE  OInv'
  <2>1. PreflightsKept /\ UNCHANGED approvals
    BY <1>13 DEF BuildApproval, PreflightsKept
  <2> QED
    BY <1>2, <1>3, <1>13, <2>1 DEF BuildApproval, Labels
<1>14. ASSUME NEW t \in Threads, LookUp(t)
       PROVE  OInv'
  <2>1. PreflightsKept /\ UNCHANGED approvals
    BY <1>14 DEF LookUp, PreflightsKept
  <2> QED
    BY <1>2, <1>3, <1>14, <2>1 DEF LookUp, Labels
<1> QED
  BY <1>5, <1>6, <1>7, <1>8, <1>9, <1>10, <1>11, <1>12, <1>13, <1>14 DEF Next

(* Whatever the number of threads, and however confirmations overlap: a      *)
(* preflight gets no more approvals than there are threads, and all of them *)
(* say the same.  With one thread it gets one.                              *)
THEOREM RepeatsOnlyOverlap == Spec => []OnlyOverlapRepeats
<1>1. Init => OInv
  <2> SUFFICES ASSUME Init
               PROVE  OInv
    OBVIOUS
  <2>1. (\A t \in Threads : req[t] = Rest) /\ approvals = <<>>
    BY DEF Init
  <2>2. \A k \in Nat : ApprovalsOf(k) = {} /\ Inserting(k) = {}
    BY <2>1, RestType DEF ApprovalsOf, Inserting
  <2>3. Cardinality(Threads) \in Nat
    BY BoundsAssumption, FS_CardinalityType
  <2>4. ASSUME NEW k \in Nat
        PROVE  Few(k)
    <3>1. Cardinality(ApprovalsOf(k)) = 0 /\ Cardinality(Inserting(k)) = 0
      BY <2>2, FS_EmptySet
    <3> QED
      BY <2>3, <3>1 DEF Few
  <2> QED
    BY <2>1, <2>4 DEF OInv, AllRepeat
<1>2. HInv /\ HInv' /\ OInv /\ [Next]_vars => OInv'
  BY ONext
<1>3. HInv /\ OInv => OnlyOverlapRepeats
  <2> SUFFICES ASSUME HInv, OInv, NEW k \in DOMAIN preflights
               PROVE  /\ Cardinality(ApprovalsOf(k)) <= Cardinality(Threads)
                      /\ \A j \in ApprovalsOf(k) :
                            [session |-> approvals[j].session, symbol |-> approvals[j].symbol,
                             head |-> approvals[j].head] = preflights[k]
    BY DEF OnlyOverlapRepeats
  <2>1. k \in Nat
    BY Tables DEF HInv
  <2>2. Few(k) /\ Cardinality(ApprovalsOf(k)) \in Nat /\ Cardinality(Inserting(k)) \in Nat
        /\ Cardinality(Threads) \in Nat
    BY <2>1, Counts DEF OInv
  <2>3. Cardinality(ApprovalsOf(k)) <= Cardinality(Threads)
    BY <2>2 DEF Few
  <2>4. ASSUME NEW j \in ApprovalsOf(k)
        PROVE  [session |-> approvals[j].session, symbol |-> approvals[j].symbol,
                head |-> approvals[j].head] = preflights[k]
    <3>1. j \in DOMAIN approvals /\ approvals[j].preflight = k
      BY <2>4 DEF ApprovalsOf
    <3>2. Repeats(approvals[j])
      BY <3>1 DEF OInv, AllRepeat
    <3> QED
      BY <3>1, <3>2 DEF Repeats
  <2> QED
    BY <2>3, <2>4
<1> QED
  BY <1>1, <1>2, <1>3, HandlersInductive, PTL DEF Spec

-----------------------------------------------------------------------------
(***************************************************************************)
(* Proofs about OptionOrder for any policy, accounts, premiums and number  *)
(* of intents and orders.  The argument: the quantity B5 and B6 compute is *)
(* within every budget of the account it is computed on.  If that account  *)
(* is still the broker's when the order leaves, no other order is open, so *)
(* what is held and the order together are within the caps of its equity,  *)
(* and the highest equity bounds them all.                                 *)
(***************************************************************************)

(* Nonlinear facts, each on its own for the arithmetic of the provers. *)

(* Multiplying by a natural number keeps an order. *)
LEMMA TimesMonotonic ==
    ASSUME NEW k \in Nat, NEW x \in Int, NEW y \in Int, x <= y
    PROVE  k * x <= k * y
<1>1. k * (y - x) >= 0
    BY SMT
<1>2. k * (y - x) = k * y - k * x
    BY SMT
<1> QED
    BY <1>1, <1>2, SMT

(* A floored quotient times the divisor is within the dividend. *)
LEMMA FloorTimes ==
    ASSUME NEW b \in Int, NEW d \in Nat \ {0}
    PROVE  b \div d \in Int /\ d * (b \div d) <= b
BY SMT

(* A bound on hundredths carries over to what is smaller and to a larger   *)
(* bound.                                                                  *)
LEMMA HundredthsChain ==
    ASSUME NEW x \in Int, NEW y \in Int, NEW c \in Int, NEW d \in Int,
           y <= x, 100 * x <= c, c <= d
    PROVE  100 * y <= d
BY SMT

(* The lesser of two numbers is within both. *)
LEMMA LesserIsBound ==
    ASSUME NEW x \in Int, NEW y \in Int
    PROVE  Lesser(x, y) \in Int /\ Lesser(x, y) <= x /\ Lesser(x, y) <= y
BY SMT DEF Lesser

-----------------------------------------------------------------------------
Money == [equity : Nat, cash : Nat, capacity : Nat]

(* The budget is within each of the five it is the least of. *)
LEMMA BudgetIsLeast ==
    ASSUME NEW a \in Money, NEW s \in Int, NEW g \in Int
    PROVE  LET b == SafeBudget(a, s, g) IN
           /\ b \in Int
           /\ b <= NewPct * a.equity
           /\ b <= SamePct * a.equity - 100 * s
           /\ b <= AggPct * a.equity - 100 * g
           /\ b <= 100 * a.cash - ReservePct * a.equity
           /\ b <= 100 * a.capacity
<1> DEFINE n == NewPct * a.equity
           w == SamePct * a.equity - 100 * s
           t == AggPct * a.equity - 100 * g
           r == 100 * a.cash - ReservePct * a.equity
           c == 100 * a.capacity
<1>1. n \in Int /\ w \in Int /\ t \in Int /\ r \in Int /\ c \in Int
    BY PolicyAssumption, SMT DEF Money
<1>2. SafeBudget(a, s, g) = Lesser(n, Lesser(w, Lesser(t, Lesser(r, c))))
    BY DEF SafeBudget
<1> HIDE DEF n, w, t, r, c
<1>3. SafeBudget(a, s, g) \in Int /\ SafeBudget(a, s, g) <= n
      /\ SafeBudget(a, s, g) <= w /\ SafeBudget(a, s, g) <= t
      /\ SafeBudget(a, s, g) <= r /\ SafeBudget(a, s, g) <= c
    BY <1>1, <1>2, SMT DEF Lesser
<1> QED
    BY <1>3 DEF n, w, t, r, c

(* calculate_premium_risk: a quantity it supports costs no more than the    *)
(* budget, and it supports none on an account over a cap.                   *)
LEMMA SizedWithinBudget ==
    ASSUME NEW a \in Money, NEW s \in Int, NEW g \in Int, NEW p \in Nat \ {0},
           NEW q \in Nat \ {0}, Quantity(a, s, g, p) >= q
    PROVE  100 * (p * q) <= SafeBudget(a, s, g)
<1> DEFINE b == SafeBudget(a, s, g)
           k == b \div (100 * p)
<1>1. b \in Int /\ 100 * p \in Nat \ {0}
    BY BudgetIsLeast, SMT
<1> HIDE DEF b
<1>2. k \in Int /\ (100 * p) * k <= b
    BY <1>1, FloorTimes
<1>3. Quantity(a, s, g, p)
        = IF CapExceeded(a, s, g) \/ b <= 0 THEN 0 ELSE Lesser(k, MaxContracts)
    BY DEF Quantity, b
<1> HIDE DEF k
<1>4. q <= k
  <2>1. MaxContracts \in Int
      BY PolicyAssumption
  <2>2. CASE CapExceeded(a, s, g) \/ b <= 0
      <3>1. Quantity(a, s, g, p) = 0
          BY <1>3, <2>2
      <3> QED
          BY <3>1, SMT
  <2>3. CASE ~(CapExceeded(a, s, g) \/ b <= 0)
      <3>1. Quantity(a, s, g, p) = Lesser(k, MaxContracts)
          BY <1>3, <2>3
      <3>2. Lesser(k, MaxContracts) \in Int /\ Lesser(k, MaxContracts) <= k
          BY <1>2, <2>1, LesserIsBound
      <3> QED
          BY <1>2, <3>1, <3>2, SMT
  <2> QED
      BY <2>2, <2>3
<1>5. (100 * p) * q <= (100 * p) * k
    BY <1>1, <1>2, <1>4, TimesMonotonic
<1>6. (100 * p) * q = 100 * (p * q)
    BY SMT
<1>7. (100 * p) * k \in Int /\ (100 * p) * q \in Int
    BY <1>1, <1>2, SMT
<1>8. 100 * (p * q) <= b
    BY <1>1, <1>2, <1>5, <1>6, <1>7, SMT
<1> QED
    BY <1>8 DEF b

-----------------------------------------------------------------------------
(* What the induction needs beyond the types. *)

(* An intent in the system has at least one contract and a priced premium. *)
SizedIntent == [decision : Nat \ {0}, underlying : Underlyings,
                premium : Premiums, qty : 1..MaxContracts]

(* The highest equity covers what the account reports. *)
PeakCovers == account.equity <= peak

(* While every order was sent on the state the broker was in, one at most is *)
(* open, and it is all that is pending.                                      *)
OneOpen(k) ==
    /\ working = {k}
    /\ pendingAll = Loss(sends[k])
    /\ \A u \in Underlyings :
          pending[u] = IF u = sends[k].underlying THEN Loss(sends[k]) ELSE 0

NoneOpen == working = {} /\ pendingAll = 0 /\ \A u \in Underlyings : pending[u] = 0

OpenWhilePrompt == prompt => NoneOpen \/ \E k \in 1..Len(sends) : OneOpen(k)

IInv ==
    /\ OrderTypeOK
    /\ PeakCovers
    /\ OpenWhilePrompt
    /\ OrderIsApproved
    /\ ExposureBounded

(* The marks of the account are sums of money. *)
LEMMA MarksAreMoney == Marks \subseteq Money
BY PolicyAssumption DEF Money

(* A sized intent is an intent. *)
LEMMA SizedIsIntent == SizedIntent \subseteq Intent
BY DEF SizedIntent, Intent

(* ... of a positive premium and quantity. *)
LEMMA SizedIsPositive ==
    ASSUME NEW i \in SizedIntent
    PROVE  i.premium \in Nat \ {0} /\ i.qty \in Nat \ {0}
<1>1. i.premium \in Premiums /\ i.qty \in 1..MaxContracts
    BY DEF SizedIntent
<1>2. Premiums \subseteq Nat \ {0} /\ MaxContracts \in Nat
    BY PolicyAssumption
<1>3. i.qty \in Nat \ {0}
    BY <1>1, <1>2, SMT
<1> QED
    BY <1>1, <1>2, <1>3

(* An intent costs a number of units. *)
LEMMA LossIsNat == ASSUME NEW i \in Intent PROVE Loss(i) \in Nat
<1>1. i.premium \in Nat /\ i.qty \in Nat
    BY PolicyAssumption DEF Intent
<1> QED
    BY <1>1, SMT DEF Loss

(* What passes the revalidation is within every limit of its commit state. *)
LEMMA CommittedWithin ==
    ASSUME OrderTypeOK, observed # None, NEW i \in intents, CommitRevalidate(i)
    PROVE  Within(observed, i)
<1> DEFINE a == observed.account
           b == SafeBudget(a, observed.same, observed.aggregate)
<1>1. observed \in CommitState /\ i \in SizedIntent /\ i \in Intent
    BY SizedIsIntent DEF OrderTypeOK, SizedIntent
<1>2. a \in Money /\ observed.same \in Int /\ observed.aggregate \in Int
    BY <1>1, MarksAreMoney DEF CommitState
<1>3. i.premium \in Nat \ {0} /\ i.qty \in Nat \ {0}
    BY <1>1, SizedIsPositive
<1>4. Quantity(a, observed.same, observed.aggregate, i.premium) >= i.qty
    BY DEF CommitRevalidate
<1>5. 100 * Loss(i) <= b
    BY <1>2, <1>3, <1>4, SizedWithinBudget DEF Loss
<1>6. /\ b \in Int
      /\ b <= NewPct * a.equity
      /\ b <= SamePct * a.equity - 100 * observed.same
      /\ b <= AggPct * a.equity - 100 * observed.aggregate
      /\ b <= 100 * a.cash - ReservePct * a.equity
      /\ b <= 100 * a.capacity
    BY <1>2, BudgetIsLeast
<1>8. Loss(i) \in Int
    BY <1>1, LossIsNat
<1>10. /\ NewPct * a.equity \in Int /\ SamePct * a.equity \in Int
       /\ AggPct * a.equity \in Int /\ ReservePct * a.equity \in Int
       /\ a.cash \in Int /\ a.capacity \in Int
    BY <1>2, PolicyAssumption, SMT DEF Money
<1> HIDE DEF a, b
<1>11. 100 * Loss(i) <= NewPct * a.equity
    BY <1>5, <1>6, <1>8, <1>10, SMT
<1>12. 100 * (observed.same + Loss(i)) <= SamePct * a.equity
    BY <1>2, <1>5, <1>6, <1>8, <1>10, SMT
<1>13. 100 * (observed.aggregate + Loss(i)) <= AggPct * a.equity
    BY <1>2, <1>5, <1>6, <1>8, <1>10, SMT
<1>14. 100 * Loss(i) + ReservePct * a.equity <= 100 * a.cash
    BY <1>5, <1>6, <1>8, <1>10, SMT
<1>15. Loss(i) <= a.capacity
    BY <1>5, <1>6, <1>8, <1>10, SMT
<1> QED
    BY <1>11, <1>12, <1>13, <1>14, <1>15 DEF Within, a

-----------------------------------------------------------------------------
(* Types. *)

(* The initial state is of its type. *)
LEMMA TypeInit == OrderInit => OrderTypeOK
<1> SUFFICES ASSUME OrderInit PROVE OrderTypeOK
    OBVIOUS
<1>1. account \in Money
    BY MarksAreMoney DEF OrderInit
<1> QED
    BY <1>1 DEF OrderInit, OrderTypeOK, Money

(* The quantity an intent is built with. *)
LEMMA QuantityRange ==
    ASSUME NEW a \in Money, NEW s \in Int, NEW g \in Int, NEW p \in Nat \ {0},
           Quantity(a, s, g, p) >= 1
    PROVE  Quantity(a, s, g, p) \in 1..MaxContracts
<1> DEFINE b == SafeBudget(a, s, g)
           k == b \div (100 * p)
<1>1. b \in Int /\ 100 * p \in Nat \ {0}
    BY BudgetIsLeast, SMT
<1> HIDE DEF b
<1>2. k \in Int /\ MaxContracts \in Int
    BY <1>1, FloorTimes, PolicyAssumption
<1>3. Quantity(a, s, g, p)
        = IF CapExceeded(a, s, g) \/ b <= 0 THEN 0 ELSE Lesser(k, MaxContracts)
    BY DEF Quantity, b
<1> HIDE DEF k
<1>4. Quantity(a, s, g, p) = 0 \/ Quantity(a, s, g, p) = Lesser(k, MaxContracts)
    BY <1>3
<1>5. Lesser(k, MaxContracts) \in Int /\ Lesser(k, MaxContracts) <= MaxContracts
    BY <1>2, LesserIsBound
<1> QED
    BY <1>2, <1>4, <1>5, SMT

(* Every step keeps the types. *)
LEMMA TypeStep == OrderTypeOK /\ [OrderNext]_orderVars => OrderTypeOK'
<1> SUFFICES ASSUME OrderTypeOK, [OrderNext]_orderVars PROVE OrderTypeOK'
    OBVIOUS
<1> USE DEF OrderTypeOK
<1>1. ASSUME NEW u \in Underlyings, NEW p \in Premiums, Build(u, p) PROVE OrderTypeOK'
  <2> DEFINE q == Quantity(account, held[u], aggregate, p)
             i == [decision |-> decision.id, underlying |-> u, premium |-> p, qty |-> q]
  <2>1. q \in 1..MaxContracts
    <3>1. account \in Money /\ held[u] \in Int /\ aggregate \in Int
        BY MarksAreMoney
    <3>2. p \in Nat \ {0} /\ q >= 1
        BY <1>1, PolicyAssumption DEF Build
    <3> QED
        BY <3>1, <3>2, QuantityRange
  <2> HIDE DEF q
  <2>2. i \in SizedIntent
      BY <2>1 DEF SizedIntent
  <2>3. intents' = intents \cup {i}
      BY <1>1 DEF Build, q
  <2>4. intents' \subseteq SizedIntent /\ intents \subseteq intents'
      BY <2>2, <2>3 DEF SizedIntent
  <2>5. UNCHANGED <<broker, decision, approved, observed, orders>>
      BY <1>1 DEF Build
  <2> QED
      BY <2>4, <2>5 DEF SizedIntent, broker, orders
<1>2. ASSUME NEW u \in Underlyings, NEW p \in Premiums, Observe(u, p) PROVE OrderTypeOK'
  <2>1. observed' \in CommitState
      BY <1>2 DEF Observe, CommitState
  <2> QED
      BY <1>2, <2>1 DEF Observe, broker, orders
<1>3. ASSUME NEW i \in intents, Approve(i) PROVE OrderTypeOK'
    BY <1>3 DEF Approve, broker, orders
<1>4. ASSUME NEW i \in intents, SendAfterCommit(i) PROVE OrderTypeOK'
  <2>1. i \in Intent /\ Loss(i) \in Nat /\ i.underlying \in Underlyings
    <3>1. i \in Intent
        BY SizedIsIntent DEF SizedIntent
    <3> QED
        BY <3>1, LossIsNat DEF Intent
  <2>2. UNCHANGED <<broker, paper>>
      BY <1>4 DEF SendAfterCommit
  <2>3. CASE CommitRevalidate(i)
    <3>1. /\ sends' = Append(sends, i)
          /\ working' = working \cup {Len(sends) + 1}
          /\ pending' = [pending EXCEPT ![i.underlying] = @ + Loss(i)]
          /\ pendingAll' = pendingAll + Loss(i)
          /\ prompt' \in BOOLEAN
        BY <1>4, <2>3 DEF SendAfterCommit, Submit, OrderOf
    <3>2. sends' \in Seq(Intent) /\ Len(sends') = Len(sends) + 1 /\ Len(sends) \in Nat
        BY <2>1, <3>1
    <3>3. working' \subseteq 1..Len(sends')
      <4>1. 1..Len(sends) \subseteq 1..Len(sends') /\ Len(sends) + 1 \in 1..Len(sends')
          BY <3>2
      <4>2. working \subseteq 1..Len(sends)
          OBVIOUS
      <4> QED
          BY <3>1, <4>1, <4>2
    <3>4. pending' \in [Underlyings -> Int] /\ pendingAll' \in Int
        BY <2>1, <3>1
    <3> QED
        BY <2>2, <3>1, <3>2, <3>3, <3>4 DEF broker, paper
  <2>4. CASE ~CommitRevalidate(i)
    <3>1. UNCHANGED orders
        BY <1>4, <2>4 DEF SendAfterCommit
    <3> QED
        BY <2>2, <3>1 DEF broker, paper, orders
  <2> QED
      BY <2>3, <2>4
<1>5. ASSUME NEW k \in working, Fill(k) \/ Lapse(k) PROVE OrderTypeOK'
  <2>1. sends[k] \in Intent
      BY ElementOfSeq
  <2>2. Loss(sends[k]) \in Nat /\ sends[k].underlying \in Underlyings
      BY <2>1, LossIsNat DEF Intent
  <2>3. /\ working' = working \ {k}
        /\ pending' = [pending EXCEPT ![sends[k].underlying] = @ - Loss(sends[k])]
        /\ pendingAll' = pendingAll - Loss(sends[k])
        /\ UNCHANGED <<account, peak, paper, sends, prompt>>
      BY <1>5 DEF Fill, Lapse, Settle
  <2>4. pending' \in [Underlyings -> Int] /\ pendingAll' \in Int
      BY <2>2, <2>3
  <2>5. held' \in [Underlyings -> Nat] /\ aggregate' \in Int
    <3>1. CASE Fill(k)
      <4>1. held' = [held EXCEPT ![sends[k].underlying] = @ + Loss(sends[k])]
            /\ aggregate' = aggregate + Loss(sends[k])
          BY <3>1 DEF Fill
      <4> QED
          BY <2>2, <4>1
    <3>2. CASE Lapse(k)
        BY <3>2 DEF Lapse
    <3> QED
        BY <1>5, <3>1, <3>2
  <2> QED
      BY <2>3, <2>4, <2>5 DEF paper
<1>7. CASE Expire
    BY <1>7 DEF Expire, broker, orders
<1>8. ASSUME NEW u \in Underlyings, ClosePosition(u) PROVE OrderTypeOK'
    BY <1>8 DEF ClosePosition, paper, orders
<1>9. ASSUME NEW m \in Marks, Revalue(m) PROVE OrderTypeOK'
  <2>1. m.equity \in Nat
      BY MarksAreMoney DEF Money
  <2> QED
      BY <1>9, <2>1 DEF Revalue, paper, orders
<1>10. ASSUME NEW o \in {"INVEST", "WATCH"}, NewDecision(o) PROVE OrderTypeOK'
    BY <1>10 DEF NewDecision, broker, orders
<1>11. CASE UNCHANGED orderVars
    BY <1>11 DEF orderVars, broker, paper, orders
<1> QED
    BY <1>1, <1>2, <1>3, <1>4, <1>5, <1>7, <1>8, <1>9, <1>10, <1>11 DEF OrderNext

(* TypeOK of OptionOrder holds in every behaviour, for every policy: in      *)
(* particular no intent of less than one contract is ever built or sent.    *)
THEOREM OrderTypeCorrect == OrderSpec => []OrderTypeOK
<1>1. OrderInit => OrderTypeOK
    BY TypeInit
<1>2. OrderTypeOK /\ [OrderNext]_orderVars => OrderTypeOK'
    BY TypeStep
<1> QED
    BY <1>1, <1>2, PTL DEF OrderSpec

-----------------------------------------------------------------------------
(* The conjuncts of IInv one at a time. *)

(* B5, the owner and the caller add to the paper; the broker does not move. *)
Paperwork == UNCHANGED <<broker, orders>> /\ approved \subseteq approved'

(* Every action is one of five kinds as far as the invariant is concerned. *)
LEMMA Kinds ==
    ASSUME OrderTypeOK, [OrderNext]_orderVars
    PROVE  \/ Paperwork
           \/ \E i \in intents : SendAfterCommit(i)
           \/ \E k \in working : Fill(k) \/ Lapse(k)
           \/ \E u \in Underlyings : ClosePosition(u)
           \/ \E m \in Marks : Revalue(m)
<1>1. ASSUME NEW u \in Underlyings, NEW p \in Premiums, Build(u, p) \/ Observe(u, p)
      PROVE  Paperwork
    BY <1>1 DEF Build, Observe, Paperwork
<1>2. ASSUME NEW i \in intents, Approve(i) PROVE Paperwork
    BY <1>2 DEF Approve, Paperwork
<1>3. CASE Expire
    BY <1>3 DEF Expire, Paperwork
<1>4. ASSUME NEW o \in {"INVEST", "WATCH"}, NewDecision(o) PROVE Paperwork
    BY <1>4 DEF NewDecision, Paperwork
<1>5. CASE UNCHANGED orderVars
    BY <1>5 DEF orderVars, paper, Paperwork
<1> QED
    BY <1>1, <1>2, <1>3, <1>4, <1>5 DEF OrderNext

(* What a send comes to. *)
LEMMA Sent ==
    ASSUME OrderTypeOK, NEW i \in intents, SendAfterCommit(i)
    PROVE  /\ UNCHANGED <<broker, paper>> /\ observed # None
           /\ i \in Intent /\ Loss(i) \in Nat /\ i.underlying \in Underlyings
           /\ \/ UNCHANGED orders
              \/ /\ CommitRevalidate(i)
                 /\ sends' = Append(sends, i)
                 /\ Len(sends) \in Nat /\ Len(sends') = Len(sends) + 1
                 /\ \A k \in 1..Len(sends) : sends'[k] = sends[k]
                 /\ sends'[Len(sends) + 1] = i
                 /\ working' = working \cup {Len(sends) + 1}
                 /\ pending' = [pending EXCEPT ![i.underlying] = @ + Loss(i)]
                 /\ pendingAll' = pendingAll + Loss(i)
                 /\ prompt' = (prompt /\ Current(observed))
<1>1. i \in Intent
    BY SizedIsIntent DEF OrderTypeOK, SizedIntent
<1>2. Loss(i) \in Nat /\ i.underlying \in Underlyings
    BY <1>1, LossIsNat DEF Intent
<1>3. UNCHANGED <<broker, paper>> /\ observed # None
    BY DEF SendAfterCommit
<1>4. CASE CommitRevalidate(i)
  <2>1. /\ sends' = Append(sends, i)
        /\ working' = working \cup {Len(sends) + 1}
        /\ pending' = [pending EXCEPT ![i.underlying] = @ + Loss(i)]
        /\ pendingAll' = pendingAll + Loss(i)
        /\ prompt' = (prompt /\ Current(observed))
      BY <1>4 DEF SendAfterCommit, Submit, OrderOf
  <2>2. sends \in Seq(Intent)
      BY DEF OrderTypeOK
  <2>3. /\ Len(sends) \in Nat /\ Len(sends') = Len(sends) + 1
        /\ \A k \in 1..Len(sends) : sends'[k] = sends[k]
        /\ sends'[Len(sends) + 1] = i
      BY <1>1, <2>1, <2>2
  <2> QED
      BY <1>1, <1>2, <1>3, <1>4, <2>1, <2>3
<1>5. CASE ~CommitRevalidate(i)
    BY <1>1, <1>2, <1>3, <1>5 DEF SendAfterCommit
<1> QED
    BY <1>4, <1>5

(* What the end of an open order comes to. *)
LEMMA Settled ==
    ASSUME OrderTypeOK, NEW k \in working, Fill(k) \/ Lapse(k)
    PROVE  /\ UNCHANGED <<account, peak, paper, sends, prompt>>
           /\ sends[k] \in Intent /\ Loss(sends[k]) \in Nat
           /\ sends[k].underlying \in Underlyings
           /\ working' = working \ {k}
           /\ pending' = [pending EXCEPT ![sends[k].underlying] = @ - Loss(sends[k])]
           /\ pendingAll' = pendingAll - Loss(sends[k])
<1>1. sends[k] \in Intent
    BY ElementOfSeq DEF OrderTypeOK
<1>2. Loss(sends[k]) \in Nat /\ sends[k].underlying \in Underlyings
    BY <1>1, LossIsNat DEF Intent
<1> QED
    BY <1>1, <1>2 DEF Fill, Lapse, Settle

(* Every step keeps the peak above the equity. *)
LEMMA PeakStep ==
    ASSUME OrderTypeOK, PeakCovers, [OrderNext]_orderVars
    PROVE  PeakCovers'
<1> USE DEF PeakCovers
<1>1. CASE Paperwork
    BY <1>1 DEF Paperwork, broker
<1>2. ASSUME NEW i \in intents, SendAfterCommit(i) PROVE PeakCovers'
    BY <1>2 DEF SendAfterCommit, broker
<1>3. ASSUME NEW k \in working, Fill(k) \/ Lapse(k) PROVE PeakCovers'
    BY <1>3 DEF Fill, Lapse, Settle
<1>4. ASSUME NEW u \in Underlyings, ClosePosition(u) PROVE PeakCovers'
    BY <1>4 DEF ClosePosition
<1>5. ASSUME NEW m \in Marks, Revalue(m) PROVE PeakCovers'
  <2>1. m.equity \in Nat /\ peak \in Nat
      BY MarksAreMoney DEF Money, OrderTypeOK
  <2> QED
      BY <1>5, <2>1, SMT DEF Revalue
<1> QED
    BY <1>1, <1>2, <1>3, <1>4, <1>5, Kinds

(* Every step keeps what is open one order at most, while all were prompt. *)
LEMMA OpenStep ==
    ASSUME OrderTypeOK, OpenWhilePrompt, [OrderNext]_orderVars
    PROVE  OpenWhilePrompt'
<1>s. ASSUME UNCHANGED orders PROVE OpenWhilePrompt'
    BY <1>s DEF orders, OpenWhilePrompt, NoneOpen, OneOpen, Loss
<1>1. CASE Paperwork
    BY <1>1, <1>s DEF Paperwork
<1>2. ASSUME NEW i \in intents, SendAfterCommit(i), ~UNCHANGED orders, prompt'
      PROVE  NoneOpen' \/ \E k \in 1..Len(sends') : OneOpen(k)'
  <2> DEFINE n == Len(sends) + 1
  <2>1. /\ CommitRevalidate(i) /\ prompt /\ Current(observed)
        /\ Len(sends) \in Nat /\ Len(sends') = n /\ sends'[n] = i
        /\ working' = working \cup {n}
        /\ pending' = [pending EXCEPT ![i.underlying] = @ + Loss(i)]
        /\ pendingAll' = pendingAll + Loss(i)
        /\ Loss(i) \in Nat /\ i.underlying \in Underlyings
      BY <1>2, Sent
  <2>2. working = {}
      BY <2>1 DEF CommitRevalidate, Current
  <2>3. NoneOpen
      BY <2>1, <2>2 DEF OpenWhilePrompt, OneOpen
  <2>n. n \in 1..Len(sends')
      BY <2>1
  <2> HIDE DEF n
  <2>4. \A u \in Underlyings : pending'[u] = IF u = i.underlying THEN Loss(i) ELSE 0
      BY <2>1, <2>3 DEF NoneOpen, OrderTypeOK
  <2>5. Loss(sends'[n]) = Loss(i) /\ sends'[n].underlying = i.underlying
      BY <2>1
  <2>6. working' = {n} /\ pendingAll' = Loss(i)
      BY <2>1, <2>2, <2>3 DEF NoneOpen
  <2>7. \E k \in 1..Len(sends') : OneOpen(k)'
      BY <2>n, <2>4, <2>5, <2>6 DEF OneOpen, Loss
  <2> QED
      BY <2>7
<1>3. ASSUME NEW k \in working, Fill(k) \/ Lapse(k), prompt'
      PROVE  NoneOpen'
  <2>1. prompt /\ working # {}
      BY <1>3, Settled
  <2>2. OneOpen(k)
      BY <2>1 DEF OpenWhilePrompt, NoneOpen, OneOpen
  <2> DEFINE l == Loss(sends[k])
  <2>4. /\ working' = working \ {k} /\ pendingAll' = pendingAll - l
        /\ pending' = [pending EXCEPT ![sends[k].underlying] = @ - l]
        /\ l \in Nat
      BY <1>3, Settled
  <2>5. /\ working = {k} /\ pendingAll = l
        /\ \A u \in Underlyings :
              pending[u] = IF u = sends[k].underlying THEN l ELSE 0
      BY <2>2 DEF OneOpen
  <2> HIDE DEF l
  <2>3. /\ working' = {} /\ pendingAll' = 0
        /\ \A u \in Underlyings : pending'[u] = 0
      BY <2>4, <2>5 DEF OrderTypeOK
  <2> QED
      BY <2>3 DEF NoneOpen
<1>4. ASSUME NEW u \in Underlyings, ClosePosition(u) PROVE OpenWhilePrompt'
    BY <1>4, <1>s DEF ClosePosition
<1>5. ASSUME NEW m \in Marks, Revalue(m) PROVE OpenWhilePrompt'
    BY <1>5, <1>s DEF Revalue
<1> QED
    BY <1>s, <1>1, <1>2, <1>3, <1>4, <1>5, Kinds DEF OpenWhilePrompt

(* Every step keeps what was sent among what was approved. *)
LEMMA ApprovedStep ==
    ASSUME OrderTypeOK, OrderIsApproved, [OrderNext]_orderVars
    PROVE  OrderIsApproved'
<1> USE DEF OrderIsApproved
<1>1. CASE Paperwork
    BY <1>1 DEF Paperwork, orders
<1>2. ASSUME NEW i \in intents, SendAfterCommit(i) PROVE OrderIsApproved'
  <2>1. approved' = approved
      BY <1>2 DEF SendAfterCommit, paper
  <2>2. CASE UNCHANGED orders
      BY <2>1, <2>2 DEF orders
  <2>3. CASE ~UNCHANGED orders
    <3>1. /\ i \in approved
          /\ Len(sends) \in Nat /\ Len(sends') = Len(sends) + 1
          /\ \A k \in 1..Len(sends) : sends'[k] = sends[k]
          /\ sends'[Len(sends) + 1] = i
        BY <1>2, <2>3, Sent DEF CommitRevalidate
    <3>2. \A k \in 1..Len(sends') : k \in 1..Len(sends) \/ k = Len(sends) + 1
        BY <3>1, SMT
    <3> QED
        BY <2>1, <3>1, <3>2
  <2> QED
      BY <2>2, <2>3
<1>3. ASSUME NEW k \in working, Fill(k) \/ Lapse(k) PROVE OrderIsApproved'
    BY <1>3, Settled DEF paper
<1>4. ASSUME NEW u \in Underlyings, ClosePosition(u) PROVE OrderIsApproved'
    BY <1>4 DEF ClosePosition, paper, orders
<1>5. ASSUME NEW m \in Marks, Revalue(m) PROVE OrderIsApproved'
    BY <1>5 DEF Revalue, paper, orders
<1> QED
    BY <1>1, <1>2, <1>3, <1>4, <1>5, Kinds

-----------------------------------------------------------------------------
(* Exposure. *)

(* Caps of the policy grow with the equity. *)
LEMMA CapsGrow ==
    ASSUME NEW e \in Nat, NEW f \in Nat, e <= f
    PROVE  /\ SamePct * e \in Int /\ SamePct * f \in Int /\ SamePct * e <= SamePct * f
           /\ AggPct * e \in Int /\ AggPct * f \in Int /\ AggPct * e <= AggPct * f
<1>1. SamePct \in Nat /\ AggPct \in Nat
    BY PolicyAssumption
<1>2. SamePct * e <= SamePct * f /\ AggPct * e <= AggPct * f
    BY <1>1, TimesMonotonic
<1>3. /\ SamePct * e \in Int /\ SamePct * f \in Int
      /\ AggPct * e \in Int /\ AggPct * f \in Int
    BY <1>1, SMT
<1> QED
    BY <1>2, <1>3

(* A step that adds no premium at risk and lowers no peak keeps the bound. *)
LEMMA NoMoreExposure ==
    ASSUME OrderTypeOK, OrderTypeOK', ExposureBounded, prompt' = prompt,
           \A u \in Underlyings : held'[u] + pending'[u] <= held[u] + pending[u],
           aggregate' + pendingAll' <= aggregate + pendingAll,
           peak <= peak'
    PROVE  ExposureBounded'
<1> SUFFICES ASSUME prompt
             PROVE  /\ \A u \in Underlyings :
                          100 * (held'[u] + pending'[u]) <= SamePct * peak'
                    /\ 100 * (aggregate' + pendingAll') <= AggPct * peak'
    BY DEF ExposureBounded
<1>1. /\ peak \in Nat /\ peak' \in Nat
      /\ aggregate \in Int /\ aggregate' \in Int
      /\ pendingAll \in Int /\ pendingAll' \in Int
      /\ \A u \in Underlyings : /\ held[u] \in Int /\ held'[u] \in Int
                                /\ pending[u] \in Int /\ pending'[u] \in Int
    BY DEF OrderTypeOK
<1>2. /\ SamePct * peak \in Int /\ SamePct * peak' \in Int
      /\ SamePct * peak <= SamePct * peak'
      /\ AggPct * peak \in Int /\ AggPct * peak' \in Int
      /\ AggPct * peak <= AggPct * peak'
    BY <1>1, CapsGrow
<1>3. ASSUME NEW u \in Underlyings
      PROVE  100 * (held'[u] + pending'[u]) <= SamePct * peak'
  <2>1. 100 * (held[u] + pending[u]) <= SamePct * peak
      BY DEF ExposureBounded
  <2>2. held[u] + pending[u] \in Int /\ held'[u] + pending'[u] \in Int
      BY <1>1, SMT
  <2> QED
      BY <1>2, <2>1, <2>2, HundredthsChain
<1>4. 100 * (aggregate' + pendingAll') <= AggPct * peak'
  <2>1. 100 * (aggregate + pendingAll) <= AggPct * peak
      BY DEF ExposureBounded
  <2>2. aggregate + pendingAll \in Int /\ aggregate' + pendingAll' \in Int
      BY <1>1, SMT
  <2> QED
      BY <1>2, <2>1, <2>2, HundredthsChain
<1> QED
    BY <1>3, <1>4

(* An order sent on the state the broker is in keeps the bound. *)
LEMMA PromptSend ==
    ASSUME OrderTypeOK, PeakCovers, OpenWhilePrompt, ExposureBounded, prompt',
           NEW i \in intents, SendAfterCommit(i), ~UNCHANGED orders
    PROVE  /\ \A u \in Underlyings : 100 * (held[u] + pending'[u]) <= SamePct * peak
           /\ 100 * (aggregate + pendingAll') <= AggPct * peak
<1> DEFINE e == account.equity
<1>1. /\ CommitRevalidate(i) /\ prompt /\ Current(observed) /\ observed # None
      /\ pending' = [pending EXCEPT ![i.underlying] = @ + Loss(i)]
      /\ pendingAll' = pendingAll + Loss(i)
      /\ Loss(i) \in Nat /\ i.underlying \in Underlyings
    BY Sent
<1>2. NoneOpen
  <2>1. working = {}
      BY <1>1 DEF CommitRevalidate, Current
  <2> QED
      BY <1>1, <2>1 DEF OpenWhilePrompt, OneOpen
<1>3. pendingAll' = Loss(i)
      /\ \A u \in Underlyings : pending'[u] = IF u = i.underlying THEN Loss(i) ELSE 0
    BY <1>1, <1>2 DEF NoneOpen, OrderTypeOK
<1>4. /\ 100 * (held[i.underlying] + Loss(i)) <= SamePct * e
      /\ 100 * (aggregate + Loss(i)) <= AggPct * e
  <2>1. Within(observed, i)
      BY <1>1, CommittedWithin
  <2>2. /\ observed.account = account /\ observed.aggregate = aggregate
        /\ observed.same = held[i.underlying]
      BY <1>1 DEF Current, CommitRevalidate
  <2> QED
      BY <2>1, <2>2 DEF Within
<1>5. e \in Nat /\ e <= peak /\ peak \in Nat /\ aggregate \in Int
      /\ \A u \in Underlyings : held[u] \in Int
    BY MarksAreMoney DEF PeakCovers, OrderTypeOK, Money
<1> HIDE DEF e
<1>6. /\ SamePct * e \in Int /\ SamePct * peak \in Int /\ SamePct * e <= SamePct * peak
      /\ AggPct * e \in Int /\ AggPct * peak \in Int /\ AggPct * e <= AggPct * peak
    BY <1>5, CapsGrow
<1>7. ASSUME NEW u \in Underlyings
      PROVE  100 * (held[u] + pending'[u]) <= SamePct * peak
  <2>1. CASE u = i.underlying
    <3>1. held[u] + Loss(i) \in Int /\ held[u] + Loss(i) <= held[u] + Loss(i)
        BY <1>1, <1>5, SMT
    <3>2. 100 * (held[u] + Loss(i)) <= SamePct * peak
        BY <1>4, <1>6, <2>1, <3>1, HundredthsChain
    <3> QED
        BY <1>3, <2>1, <3>2
  <2>2. CASE u # i.underlying
      BY <1>1, <1>2, <1>3, <2>2 DEF NoneOpen, ExposureBounded
  <2> QED
      BY <2>1, <2>2
<1>8. 100 * (aggregate + pendingAll') <= AggPct * peak
  <2>1. aggregate + Loss(i) \in Int /\ aggregate + Loss(i) <= aggregate + Loss(i)
      BY <1>1, <1>5, SMT
  <2>2. 100 * (aggregate + Loss(i)) <= AggPct * peak
      BY <1>4, <1>6, <2>1, HundredthsChain
  <2> QED
      BY <1>3, <2>2
<1> QED
    BY <1>7, <1>8

(* Every step keeps the exposure within its bounds. *)
LEMMA ExposureStep ==
    ASSUME OrderTypeOK, OrderTypeOK', PeakCovers, OpenWhilePrompt, ExposureBounded,
           [OrderNext]_orderVars
    PROVE  ExposureBounded'
<1>t. /\ aggregate \in Int /\ peak \in Nat /\ pendingAll \in Int
      /\ \A u \in Underlyings : held[u] \in Nat /\ pending[u] \in Int
    BY DEF OrderTypeOK
<1>i. /\ aggregate + pendingAll <= aggregate + pendingAll
      /\ \A u \in Underlyings : held[u] + pending[u] <= held[u] + pending[u]
      /\ peak <= peak
    BY <1>t, SMT
<1>s. ASSUME UNCHANGED <<broker, orders>> PROVE ExposureBounded'
    BY <1>s DEF ExposureBounded, broker, orders
<1>1. CASE Paperwork
    BY <1>1, <1>s DEF Paperwork
<1>2. ASSUME NEW i \in intents, SendAfterCommit(i) PROVE ExposureBounded'
  <2>1. UNCHANGED broker
      BY <1>2 DEF SendAfterCommit
  <2>2. CASE ~UNCHANGED orders
      BY <1>2, <2>1, <2>2, PromptSend DEF ExposureBounded, broker
  <2> QED
      BY <1>s, <2>1, <2>2
<1>3. ASSUME NEW k \in working, Fill(k) \/ Lapse(k) PROVE ExposureBounded'
  <2> DEFINE l == Loss(sends[k])
             w == sends[k].underlying
  <2>1. /\ l \in Nat /\ w \in Underlyings /\ UNCHANGED <<peak, prompt>>
        /\ pending' = [pending EXCEPT ![w] = @ - l]
        /\ pendingAll' = pendingAll - l
      BY <1>3, Settled
  <2>2. \/ held' = [held EXCEPT ![w] = @ + l] /\ aggregate' = aggregate + l
        \/ UNCHANGED <<held, aggregate>>
      BY <1>3 DEF Fill, Lapse
  <2> HIDE DEF l, w
  <2>3. held \in [Underlyings -> Nat] /\ pending \in [Underlyings -> Int]
      BY DEF OrderTypeOK
  <2>4. \A u \in Underlyings : held'[u] + pending'[u] <= held[u] + pending[u]
    <3>1. \A u \in Underlyings : pending'[u] = IF u = w THEN pending[u] - l ELSE pending[u]
        BY <2>1, <2>3
    <3>2. \/ \A u \in Underlyings : held'[u] = IF u = w THEN held[u] + l ELSE held[u]
          \/ held' = held
        BY <2>2, <2>3
    <3> QED
        BY <1>t, <2>1, <3>1, <3>2, SMT
  <2>5. aggregate' + pendingAll' <= aggregate + pendingAll
      BY <1>t, <2>1, <2>2, SMT
  <2> QED
      BY <1>i, <2>1, <2>4, <2>5, NoMoreExposure
<1>4. ASSUME NEW u \in Underlyings, ClosePosition(u) PROVE ExposureBounded'
  <2>1. /\ held' = [held EXCEPT ![u] = 0] /\ aggregate' = aggregate - held[u]
        /\ UNCHANGED <<pending, pendingAll, peak, prompt>>
      BY <1>4 DEF ClosePosition, orders
  <2>2. held \in [Underlyings -> Nat]
      BY DEF OrderTypeOK
  <2>3. \A v \in Underlyings : held'[v] + pending'[v] <= held[v] + pending[v]
      BY <1>t, <2>1, <2>2, SMT
  <2>4. aggregate' + pendingAll' <= aggregate + pendingAll
      BY <1>t, <2>1, SMT
  <2> QED
      BY <1>i, <2>1, <2>3, <2>4, NoMoreExposure
<1>5. ASSUME NEW m \in Marks, Revalue(m) PROVE ExposureBounded'
  <2>1. UNCHANGED <<held, aggregate, pending, pendingAll, prompt>>
        /\ peak' = IF m.equity > peak THEN m.equity ELSE peak
      BY <1>5 DEF Revalue, orders
  <2>2. m.equity \in Nat
      BY MarksAreMoney DEF Money
  <2>3. peak <= peak'
      BY <1>t, <2>1, <2>2, SMT
  <2> QED
      BY <1>i, <2>1, <2>3, NoMoreExposure
<1> QED
    BY <1>1, <1>2, <1>3, <1>4, <1>5, Kinds

-----------------------------------------------------------------------------
(* The theorems. *)

(* The initial state satisfies the inductive invariant. *)
LEMMA InitInvariant == OrderInit => IInv
<1> SUFFICES ASSUME OrderInit PROVE IInv
    OBVIOUS
<1>1. OrderTypeOK
    BY TypeInit
<1>2. account.equity \in Nat /\ peak = account.equity
    BY MarksAreMoney DEF OrderInit, Money
<1>3. PeakCovers
    BY <1>2, SMT DEF OrderInit, PeakCovers
<1>4. OpenWhilePrompt
    BY DEF OrderInit, OpenWhilePrompt, NoneOpen
<1>5. OrderIsApproved
    BY DEF OrderInit, OrderIsApproved
<1>6. ExposureBounded
  <2>1. /\ 0 <= SamePct * peak /\ 0 <= AggPct * peak
      BY <1>2, PolicyAssumption, SMT
  <2>2. pendingAll = 0 /\ \A u \in Underlyings : pending[u] = 0
      BY DEF OrderInit
  <2>3. aggregate = 0 /\ \A u \in Underlyings : held[u] = 0
      BY DEF OrderInit
  <2> QED
      BY <2>1, <2>2, <2>3 DEF ExposureBounded
<1> QED
    BY <1>1, <1>3, <1>4, <1>5, <1>6 DEF IInv

(* Every step preserves it. *)
LEMMA StepInvariant == IInv /\ [OrderNext]_orderVars => IInv'
<1> SUFFICES ASSUME IInv, [OrderNext]_orderVars PROVE IInv'
    OBVIOUS
<1> USE DEF IInv
<1>1. OrderTypeOK'
    BY TypeStep
<1>2. PeakCovers'
    BY PeakStep
<1>4. OpenWhilePrompt'
    BY OpenStep
<1>5. OrderIsApproved'
    BY ApprovedStep
<1>6. ExposureBounded'
    BY <1>1, ExposureStep
<1> QED
    BY <1>1, <1>2, <1>4, <1>5, <1>6

(* IInv is inductive: it holds in every behaviour of OptionOrder. *)
THEOREM Inductive == OrderSpec => []IInv
<1> QED
    BY InitInvariant, StepInvariant, PTL DEF OrderSpec

(* ExposureBounded: for every policy and however the account moves, orders   *)
(* sent on the state the broker was in never put more premium at risk than   *)
(* the caps of the highest equity allow.                                     *)
THEOREM ExposureStaysBounded == OrderSpec => []ExposureBounded
<1>1. IInv => ExposureBounded
    BY DEF IInv
<1> QED
    BY <1>1, Inductive, PTL

(* OrderIsApproved: every order ever submitted is an intent the owner        *)
(* approved, to the contract.                                               *)
THEOREM OrdersAreApproved == OrderSpec => []OrderIsApproved
<1>1. IInv => OrderIsApproved
    BY DEF IInv
<1> QED
    BY <1>1, Inductive, PTL

(* Only send_after_commit submits, and it submits within every limit. *)
LEMMA SubmittedWithin ==
    ASSUME IInv, [OrderNext]_orderVars, sends' # sends
    PROVE  Within(observed, sends'[Len(sends')])
<1> USE DEF IInv
<1>1. PICK i \in intents : SendAfterCommit(i)
    BY Kinds DEF Paperwork, Fill, Lapse, Settle, ClosePosition, Revalue, orders
<1>2. /\ CommitRevalidate(i) /\ observed # None
      /\ Len(sends') = Len(sends) + 1 /\ sends'[Len(sends) + 1] = i
    BY <1>1, Sent DEF orders
<1> QED
    BY <1>2, CommittedWithin

(* OrderRespectsCaps: an order leaves only within every limit of the policy  *)
(* in the state its commit was checked against, and as the owner approved it. *)
THEOREM OrdersRespectCaps == OrderSpec => OrderRespectsCaps
<1>1. IInv /\ IInv' /\ [OrderNext]_orderVars
        => [sends' # sends =>
              Within(observed, sends'[Len(sends')]) /\ OrderIsApproved']_orderVars
  <2>1. IInv' => OrderIsApproved'
      BY DEF IInv
  <2> QED
      BY SubmittedWithin, <2>1
<1> QED
    BY <1>1, Inductive, PTL DEF OrderSpec, OrderRespectsCaps
=============================================================================
