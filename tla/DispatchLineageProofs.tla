----------------------- MODULE DispatchLineageProofs -----------------------
(***************************************************************************)
(* Proofs about DispatchLineage for any number of invocations, commits and *)
(* calls.  A pass is the work of the one invocation that created its       *)
(* ledger, and where that invocation is tells what the ledger, the         *)
(* captures and the provider have of each request.  A pass is begun only   *)
(* on evidence, in the files of the pass before, that it has ended and     *)
(* sent nothing but its first request, and that pass cannot be begun       *)
(* again; so the three passes together send each request as they should.   *)
(* The money is a second layer: the provider has charged what the executor *)
(* counts and the request it is at, and what remains is reserved.          *)
(***************************************************************************)
EXTENDS DispatchLineage, WellFoundedInduction, TLAPS

(* Work on the ledger of stage s, which its own creation of it began. *)
Alive(p) == pc[p] \in Live
Executing(p) == pc[p] \in Live /\ pc[p] # "create"

Sole ==
    \A p, q \in Procs : Executing(p) /\ Executing(q) /\ stage[p] = stage[q] => p = q

(* Until the ledger of a pass exists the pass has done nothing. *)
Untouched(s) ==
    ledger[s].file = "ABSENT" =>
        /\ ledger[s].entries = FreshEntries
        /\ result[s].file = "ABSENT"
        /\ \A i \in Items : posts[s][i] = 0 /\ raw[s][i].file = "ABSENT"
        /\ \A p \in Procs : Executing(p) => stage[p] # s

(* What is captured was executed, and says what it cost. *)
CapturedAsServed(s) ==
    \A i \in Items : raw[s][i].file = "WRITTEN" =>
        i \in served[s] /\ raw[s][i].cost = bill[s][i]

(* The entry e of a request that did not stop its pass. *)
Entry(e, state) == e.state = state /\ e.stop = "NONE"

(* What the ledger says of a request, whether or not its file is torn. *)
LedgerOf(s) ==
    /\ \A i \in Items :
          LET e == ledger[s].entries[i] IN
          /\ posts[s][i] <= 1
          /\ posts[s][i] > 0 /\ ledger[s].file = "WRITTEN" => e.state # "NOT_DISPATCHED"
          /\ e.state = "COMPLETED" \/ e.stop = "NOT_ACCEPTED" => raw[s][i].file = "WRITTEN"
          /\ e.stop = "NOT_ACCEPTED" => \A j \in Items : j > i => posts[s][j] = 0
    /\ s = "resume" => posts[s][1] = 0

(* Where the executor goes when its ledger is written. *)
At(p) == IF pc[p] \in {"truncate", "write"} THEN then[p] ELSE pc[p]

(* Requests before the current one are accepted, the others are not sent. *)
Around(p) ==
    LET s == stage[p] IN
    /\ item[p] \in First(s)..(N + 1)
    /\ item[p] = N + 1 <=> At(p) \in {"result", "resultOpen"}
    /\ \A j \in Items :
          /\ j >= First(s) /\ j < item[p] => 
                Entry(mem[p][j], "COMPLETED") /\ raw[s][j].file = "WRITTEN"
          /\ j < First(s) \/ j > item[p] =>
                /\ Entry(mem[p][j], "NOT_DISPATCHED")
                /\ posts[s][j] = 0 /\ raw[s][j].file = "ABSENT"

(* The current request, wherever the executor is with it. *)
Current(p) ==
    LET s == stage[p]
        i == item[p]
        e == mem[p][i]
    IN  /\ At(p) = "loop" => Entry(e, "NOT_DISPATCHED") /\ posts[s][i] = 0
        /\ At(p) = "post" => Entry(e, "UNKNOWN") /\ posts[s][i] = 0
        /\ At(p) \in {"waiting", "capture", "captureOpen"} => Entry(e, "UNKNOWN")
        /\ At(p) = "validate" => Entry(e, "UNKNOWN") /\ raw[s][i].file = "WRITTEN"
        /\ At(p) \in {"capture", "captureOpen"} =>
              i \in served[s] /\ got[p] = bill[s][i]
        /\ At(p) = "done" =>
              /\ e.state = "UNKNOWN" /\ e.stop \in {"AMBIGUOUS", "NOT_ACCEPTED"}
              /\ e.stop = "NOT_ACCEPTED" => raw[s][i].file = "WRITTEN"

(* The files of its pass, as the executor leaves them. *)
OwnFiles(p) ==
    LET s == stage[p] IN
    /\ ledger[s].file = IF pc[p] = "write" THEN "TORN" ELSE "WRITTEN"
    /\ pc[p] \notin {"truncate", "write"} => ledger[s].entries = mem[p]
    /\ \A j \in Items : ledger[s].entries[j].stop = "NONE"
    /\ result[s].file = IF pc[p] = "resultOpen" THEN "TORN" ELSE "ABSENT"
    /\ At(p) \in {"result", "resultOpen"} => total[p] <= Ceiling(s)

Knows(p) == Executing(p) => At(p) # "create" /\ Around(p) /\ Current(p) /\ OwnFiles(p)

(* An invocation that has yet to create the ledger. *)
Starts(p) ==
    pc[p] = "create" =>
        then[p] = "loop" /\ mem[p] = FreshEntries /\ item[p] = First(stage[p])

(* An invocation runs the code that its readiness names. *)
Approved(p) == Alive(p) => ready[stage[p]] = [file |-> "WRITTEN", commit |-> code[p]]

(* A frozen pass is over, and all its requests were accepted. *)
FrozenPass(s) ==
    Frozen(s) =>
        /\ ledger[s].file = "WRITTEN"
        /\ \A i \in ItemsOf(s) : Entry(ledger[s].entries[i], "COMPLETED") /\ raw[s][i].file = "WRITTEN"
        /\ result[s].cost <= Ceiling(s)
        /\ ready[s] = [file |-> "WRITTEN", commit |-> result[s].code]

(* The pass s is over, was not frozen, and sent its first request at most. *)
GivenUp(s) ==
    /\ ledger[s].file # "ABSENT" /\ result[s].file # "WRITTEN"
    /\ \A p \in Procs : Alive(p) => stage[p] # s
    /\ \A i \in 2..N : posts[s][i] = 0

Begun(s) == ledger[s].file # "ABSENT" \/ \E p \in Procs : Alive(p) /\ stage[p] = s

PassesInOrder ==
    /\ Begun("recovery") => GivenUp("initial")
    /\ Begun("resume") => parity # "ABSENT"
    /\ parity # "ABSENT" =>
          /\ GivenUp("recovery")
          /\ raw["recovery"][1].file = "WRITTEN"

StageInv(s) == Untouched(s) /\ CapturedAsServed(s) /\ LedgerOf(s) /\ FrozenPass(s)

IInv ==
    /\ TypeOK
    /\ Sole
    /\ \A s \in Stages : StageInv(s)
    /\ \A p \in Procs : Knows(p) /\ Starts(p) /\ Approved(p)
    /\ PassesInOrder
-----------------------------------------------------------------------------
(* Nothing is begun, sent or approved at first. *)
THEOREM IInit == Init => IInv
  <1>. SUFFICES ASSUME Init PROVE IInv
    OBVIOUS
  <1>. USE CallAssumption DEF Items
  <1>1. FreshEntries \in [Items -> EntryType]
    BY DEF FreshEntries, NotDispatched, EntryType
  <1>2. TypeOK
    BY <1>1 DEF Init, TypeOK, Stages, Over, Live, FileState
  <1>3. \A p \in Procs : pc[p] = "idle" /\ ~Alive(p) /\ ~Executing(p)
    BY DEF Init, Alive, Executing, Live
  <1>4. ASSUME NEW s \in Stages PROVE StageInv(s)
    <2>1. /\ ledger[s].file = "ABSENT" /\ ledger[s].entries = FreshEntries
          /\ result[s].file = "ABSENT"
          /\ \A i \in Items : posts[s][i] = 0 /\ raw[s][i].file = "ABSENT"
      BY DEF Init
    <2>2. Untouched(s)
      BY <1>3, <2>1 DEF Untouched
    <2>3. CapturedAsServed(s) /\ FrozenPass(s)
      BY <2>1 DEF CapturedAsServed, FrozenPass, Frozen
    <2>4. LedgerOf(s)
      BY <2>1 DEF LedgerOf, FreshEntries, NotDispatched
    <2>. QED  BY <2>2, <2>3, <2>4 DEF StageInv
  <1>5. PassesInOrder
    BY <1>3 DEF Init, PassesInOrder, Begun, Stages
  <1>6. \A p \in Procs : Knows(p) /\ Starts(p) /\ Approved(p)
    BY <1>3 DEF Knows, Starts, Approved
  <1>. QED  BY <1>2, <1>3, <1>4, <1>5, <1>6 DEF IInv, Sole

(* What an invocation that has created its ledger has of its own pass. *)
LEMMA OwnPass ==
    ASSUME IInv, NEW p \in Procs, Executing(p)
    PROVE  /\ stage[p] \in Stages /\ item[p] \in 1..(N + 1) /\ item[p] \in Nat
           /\ First(stage[p]) \in {1, 2} /\ First(stage[p]) \in Items
           /\ mem[p] \in [Items -> EntryType] /\ total[p] \in Nat /\ got[p] \in Nat
           /\ StageInv(stage[p])
           /\ At(p) # "create" /\ Around(p) /\ Current(p) /\ OwnFiles(p)
           /\ ready[stage[p]] = [file |-> "WRITTEN", commit |-> code[p]]
  <1>. USE CallAssumption DEF Items
  <1>1. TypeOK /\ Knows(p) /\ Approved(p) /\ StageInv(stage[p])
    BY DEF IInv, TypeOK
  <1>2. /\ stage[p] \in Stages /\ item[p] \in 1..(N + 1) /\ item[p] \in Nat
        /\ mem[p] \in [Items -> EntryType] /\ total[p] \in Nat /\ got[p] \in Nat
    BY <1>1 DEF TypeOK
  <1>. QED  BY <1>1, <1>2 DEF Knows, Approved, Alive, Executing, First

(* All that a step of p may change, seen from the other passes. *)
KeepsOthers(p) ==
    /\ \A t \in Stages \ {stage[p]} :
          /\ ledger'[t] = ledger[t] /\ raw'[t] = raw[t]
          /\ result'[t] = result[t] /\ posts'[t] = posts[t]
    /\ \A q \in Procs \ {p} :
          /\ pc'[q] = pc[q] /\ then'[q] = then[q] /\ item'[q] = item[q]
          /\ mem'[q] = mem[q] /\ total'[q] = total[q] /\ got'[q] = got[q]
    /\ made' = made /\ stage' = stage /\ code' = code /\ served' = served /\ bill' = bill
    /\ spent' = spent

(* A step of an executor cannot disturb the other passes, so what remains   *)
(* to be shown of each step is about the pass it works on.                  *)
LEMMA OneStep ==
    ASSUME IInv, NEW p \in Procs, Alive(p), KeepsOthers(p), pc'[p] # "create",
           Executing(p) \/ ledger[stage[p]].file = "ABSENT",
           TypeOK', StageInv(stage[p])', Knows(p)'
    PROVE  IInv'
  <1>. DEFINE s == stage[p]
  <1>1. TypeOK /\ s \in Stages /\ stage' = stage
    BY DEF IInv, TypeOK, KeepsOthers
  <1>2. \A q \in Procs : Alive(q)' => Alive(q)
    BY DEF KeepsOthers, Alive
  <1>3. \A q \in Procs \ {p} : Executing(q)' => Executing(q)
    BY DEF KeepsOthers, Executing
  <1>4. \A q \in Procs \ {p} : Executing(q)' /\ Executing(p)' => stage[q] # s
    <2>. SUFFICES ASSUME NEW q \in Procs \ {p}, Executing(q)', Executing(p)', stage[q] = s
                  PROVE  FALSE
      OBVIOUS
    <2>1. Executing(q)
      BY <1>3
    <2>2. CASE Executing(p)
      BY <2>1, <2>2 DEF IInv, Sole
    <2>3. CASE ledger[s].file = "ABSENT"
      BY <1>1, <2>1, <2>3 DEF IInv, StageInv, Untouched
    <2>. QED  BY <2>2, <2>3
  <1>5. Sole'
    BY <1>1, <1>3, <1>4 DEF IInv, Sole
  <1>6. ASSUME NEW t \in Stages PROVE StageInv(t)'
    <2>1. CASE t = s
      BY <1>1, <2>1
    <2>2. CASE t # s
      <3>1. StageInv(t) /\ t \in Stages \ {stage[p]}
        BY <2>2 DEF IInv
      <3>2. Untouched(t)'
        BY <1>1, <1>3, <2>2, <3>1 DEF StageInv, Untouched, KeepsOthers
      <3>3. CapturedAsServed(t)'
        BY <3>1 DEF StageInv, CapturedAsServed, KeepsOthers
      <3>4. LedgerOf(t)'
        BY <3>1 DEF StageInv, LedgerOf, KeepsOthers
      <3>5. FrozenPass(t)'
        BY <3>1 DEF StageInv, FrozenPass, Frozen, KeepsOthers, made
      <3>. QED  BY <3>2, <3>3, <3>4, <3>5 DEF StageInv
    <2>. QED  BY <2>1, <2>2
  <1>7. ASSUME NEW q \in Procs PROVE Knows(q)'
    <2>1. CASE q = p
      BY <2>1
    <2>2. CASE q # p /\ Executing(q)'
      <3>1. /\ Executing(q) /\ Knows(q) /\ q \in Procs \ {p}
        BY <1>3, <2>2 DEF IInv
      <3>2. stage[q] # s
        <4>1. CASE Executing(p)
          BY <3>1, <2>2, <4>1 DEF IInv, Sole
        <4>2. CASE ledger[s].file = "ABSENT"
          BY <1>1, <3>1, <4>2 DEF IInv, StageInv, Untouched
        <4>. QED  BY <4>1, <4>2
      <3>3. /\ At(q)' = At(q) /\ stage'[q] = stage[q] /\ stage[q] \in Stages \ {s}
        BY <1>1, <3>1, <3>2 DEF At, KeepsOthers, TypeOK
      <3>4. Around(q)'
        BY <3>1, <3>3 DEF Knows, Around, KeepsOthers
      <3>5. Current(q)'
        BY <3>1, <3>3 DEF Knows, Current, KeepsOthers
      <3>6. OwnFiles(q)'
        BY <3>1, <3>3 DEF Knows, OwnFiles, KeepsOthers
      <3>. QED  BY <3>1, <3>3, <3>4, <3>5, <3>6 DEF Knows
    <2>. QED  BY <2>1, <2>2 DEF Knows
  <1>8. ASSUME NEW q \in Procs PROVE Starts(q)' /\ Approved(q)'
    <2>1. Starts(q) /\ Approved(q)
      BY DEF IInv
    <2>2. Starts(q)'
      BY <2>1 DEF Starts, KeepsOthers
    <2>3. Approved(q)'
      BY <1>2, <2>1 DEF Approved, KeepsOthers, made
    <2>. QED  BY <2>2, <2>3
  <1>9. PassesInOrder'
    <2>1. PassesInOrder /\ Begun(s)
      BY DEF IInv, Begun
    <2>2. ASSUME NEW t \in Stages, Begun(t)' PROVE Begun(t)
      BY <1>1, <1>2, <2>1, <2>2 DEF Begun, KeepsOthers
    <2>3. ASSUME NEW t \in Stages, GivenUp(t) PROVE GivenUp(t)' /\ t # s
      <3>1. t # s
        BY <2>3 DEF GivenUp
      <3>2. ledger'[t] = ledger[t] /\ result'[t] = result[t] /\ posts'[t] = posts[t]
        BY <3>1 DEF KeepsOthers
      <3>. QED  BY <1>1, <1>2, <2>3, <3>1, <3>2 DEF GivenUp
    <2>4. parity' = parity
      BY DEF KeepsOthers, made
    <2>5. "recovery" \in Stages /\ "initial" \in Stages /\ "resume" \in Stages
      BY DEF Stages
    <2>6. Begun("recovery")' => GivenUp("initial")'
      BY <2>1, <2>2, <2>3, <2>5 DEF PassesInOrder
    <2>7. Begun("resume")' => parity' # "ABSENT"
      BY <2>1, <2>2, <2>4, <2>5 DEF PassesInOrder
    <2>8. parity' # "ABSENT" => GivenUp("recovery")' /\ raw'["recovery"] = raw["recovery"]
      BY <2>1, <2>3, <2>4, <2>5 DEF PassesInOrder, KeepsOthers
    <2>9. parity' # "ABSENT" => raw'["recovery"][1].file = "WRITTEN"
      BY <2>1, <2>4, <2>8 DEF PassesInOrder
    <2>. QED  BY <2>6, <2>7, <2>8, <2>9 DEF PassesInOrder
  <1>. QED  BY <1>5, <1>6, <1>7, <1>8, <1>9 DEF IInv

(* An invocation that stops leaves everything as it is. *)
LEMMA Stops ==
    ASSUME IInv, NEW p \in Procs, Alive(p),
           Goto(p, "done") \/ Goto(p, "dead"), UNCHANGED <<files, memory, remote>>
    PROVE  IInv'
  <1>. USE DEF files, made, memory, remote
  <1>1. /\ \A q \in Procs \ {p} : pc'[q] = pc[q]
        /\ pc'[p] \in Over /\ ~Alive(p)' /\ ~Executing(p)' /\ pc'[p] # "create"
        /\ pc' \in [Procs -> Over \cup Live]
    BY DEF IInv, TypeOK, Goto, Alive, Executing, Over, Live
  <1>2. \A q \in Procs : (Alive(q)' => Alive(q)) /\ (Executing(q)' => Executing(q) /\ q # p)
    BY <1>1 DEF Alive, Executing
  <1>3. TypeOK'
    BY <1>1 DEF IInv, TypeOK
  <1>4. Sole'
    BY <1>2 DEF IInv, Sole
  <1>5. ASSUME NEW s \in Stages PROVE StageInv(s)'
    <2>1. StageInv(s)
      BY DEF IInv
    <2>2. Untouched(s)'
      BY <1>2, <2>1 DEF StageInv, Untouched
    <2>3. CapturedAsServed(s)' /\ LedgerOf(s)' /\ FrozenPass(s)'
      BY <2>1 DEF StageInv, CapturedAsServed, LedgerOf, FrozenPass, Frozen
    <2>. QED  BY <2>2, <2>3 DEF StageInv
  <1>6. ASSUME NEW q \in Procs PROVE Knows(q)' /\ Starts(q)' /\ Approved(q)'
    <2>1. Knows(q) /\ Starts(q) /\ Approved(q)
      BY DEF IInv
    <2>2. Starts(q)' /\ Approved(q)'
      BY <1>1, <1>2, <2>1 DEF Starts, Approved
    <2>3. CASE Executing(q)'
      <3>1. Executing(q) /\ pc'[q] = pc[q]
        BY <1>1, <1>2, <2>3
      <3>2. At(q)' = At(q)
        BY <3>1 DEF At
      <3>3. Around(q)' /\ Current(q)' /\ OwnFiles(q)'
        BY <2>1, <3>1, <3>2 DEF Knows, Around, Current, OwnFiles
      <3>. QED  BY <2>1, <2>2, <3>1, <3>2, <3>3 DEF Knows
    <2>. QED  BY <2>2, <2>3 DEF Knows
  <1>7. PassesInOrder'
    BY <1>2 DEF IInv, PassesInOrder, Begun, GivenUp
  <1>. QED  BY <1>3, <1>4, <1>5, <1>6, <1>7 DEF IInv

(* A ledger that is being replaced is still a ledger. *)
LEMMA LedgerTorn ==
    ASSUME NEW R, NEW f \in [Stages -> [file : FileState, entries : R]], NEW s \in Stages
    PROVE  [f EXCEPT ![s].file = "TORN"] \in [Stages -> [file : FileState, entries : R]]
  <1>1. [f[s] EXCEPT !.file = "TORN"] \in [file : FileState, entries : R]
    BY DEF FileState
  <1>2. [f EXCEPT ![s].file = "TORN"] = [f EXCEPT ![s] = [f[s] EXCEPT !.file = "TORN"]]
    OBVIOUS
  <1>. QED  BY <1>1, <1>2

(* TruncateLedger: the ledger is torn until the write that follows. *)
LEMMA Truncates ==
    ASSUME IInv, NEW p \in Procs, TruncateLedger(p)
    PROVE  IInv'
  <1>. USE DEF memory, remote
  <1>. DEFINE s == stage[p]
  <1>1. Executing(p) /\ Alive(p) /\ pc[p] = "truncate"
    BY DEF TruncateLedger, Executing, Alive, Live
  <1>2. /\ s \in Stages /\ StageInv(s) /\ Around(p) /\ Current(p) /\ OwnFiles(p) /\ At(p) # "create"
    BY <1>1, OwnPass
  <1>3. TypeOK
    BY DEF IInv
  <1>4. /\ pc'[p] = "write" /\ ledger'[s] = [ledger[s] EXCEPT !.file = "TORN"]
        /\ ledger'[s].file = "TORN" /\ ledger'[s].entries = ledger[s].entries
        /\ UNCHANGED <<raw, result, made, memory, remote>>
    BY <1>2, <1>3 DEF TruncateLedger, TypeOK, Goto
  <1>5. TypeOK'
    <2>1. ledger' \in [Stages -> [file : FileState, entries : [Items -> EntryType]]]
      BY <1>2, <1>3, LedgerTorn DEF TypeOK, TruncateLedger
    <2>2. pc' \in [Procs -> Over \cup Live]
      BY <1>3 DEF TypeOK, TruncateLedger, Goto, Live
    <2>. QED  BY <1>3, <1>4, <2>1, <2>2 DEF TypeOK, made
  <1>6. KeepsOthers(p)
    BY <1>3 DEF KeepsOthers, TypeOK, TruncateLedger, Goto
  <1>7. StageInv(s)'
    BY <1>2, <1>4 DEF StageInv, Untouched, CapturedAsServed, LedgerOf, FrozenPass, Frozen,
                      OwnFiles, made
  <1>8. At(p)' = At(p)
    BY <1>1, <1>4 DEF At
  <1>9. Around(p)' /\ Current(p)'
    BY <1>2, <1>4, <1>8 DEF Around, Current
  <1>10. OwnFiles(p)'
    BY <1>1, <1>2, <1>4, <1>8 DEF OwnFiles
  <1>. QED  BY <1>1, <1>2, <1>4, <1>5, <1>6, <1>7, <1>8, <1>9, <1>10, OneStep DEF Knows

(* What a ledger says once the entries in memory are in it. *)
LEMMA Writes ==
    ASSUME IInv, NEW p \in Procs, WriteLedger(p)
    PROVE  IInv'
  <1>. USE CallAssumption DEF memory, remote
  <1>. DEFINE s == stage[p]
              i == item[p]
  <1>1. Executing(p) /\ Alive(p) /\ pc[p] = "write"
    BY DEF WriteLedger, Executing, Alive, Live
  <1>2. /\ s \in Stages /\ StageInv(s) /\ Around(p) /\ Current(p) /\ OwnFiles(p) /\ At(p) # "create"
        /\ mem[p] \in [Items -> EntryType] /\ First(s) \in {1, 2} /\ i \in 1..(N + 1) /\ i \in Nat
    BY <1>1, OwnPass
  <1>3. TypeOK
    BY DEF IInv
  <1>4. /\ pc'[p] = then[p] /\ ledger'[s] = [file |-> "WRITTEN", entries |-> mem[p]]
        /\ ledger'[s].file = "WRITTEN" /\ ledger'[s].entries = mem[p]
        /\ UNCHANGED <<raw, result, made, memory, remote>>
    BY <1>2, <1>3 DEF WriteLedger, TypeOK, Goto
  <1>5. then[p] \in {"loop", "post", "validate", "result", "done"} /\ At(p) = then[p]
    BY <1>1, <1>3 DEF TypeOK, At
  <1>6. TypeOK'
    BY <1>2, <1>3, <1>5 DEF TypeOK, WriteLedger, Goto, made, Live, Over, FileState
  <1>7. KeepsOthers(p)
    BY <1>3 DEF KeepsOthers, TypeOK, WriteLedger, Goto
  <1>8. At(p)' = At(p)
    BY <1>1, <1>4, <1>5 DEF At
  <1>9. ASSUME NEW j \in Items
        PROVE  /\ posts[s][j] > 0 => mem[p][j].state # "NOT_DISPATCHED"
               /\ mem[p][j].state = "COMPLETED" \/ mem[p][j].stop = "NOT_ACCEPTED" =>
                      raw[s][j].file = "WRITTEN"
               /\ mem[p][j].stop = "NOT_ACCEPTED" =>
                      then[p] = "done" /\ \A k \in Items : k > j => posts[s][k] = 0
               /\ then[p] # "done" => mem[p][j].stop = "NONE"
    <2>1. j \in Nat /\ posts[s][j] \in Nat
      BY <1>2, <1>3 DEF Items, TypeOK
    <2>2. CASE j < First(s) \/ j > i
      BY <1>2, <2>1, <2>2 DEF Around, Entry
    <2>3. CASE j >= First(s) /\ j < i
      BY <1>2, <2>1, <2>3 DEF Around, Entry
    <2>4. CASE j = i
      <3>1. \A k \in Items : k > j => posts[s][k] = 0
        BY <1>2, <2>4 DEF Around
      <3>2. i # N + 1
        BY <2>1, <2>4 DEF Items
      <3>3. then[p] # "result"
        BY <1>2, <1>5, <3>2 DEF Around
      <3>4. CASE then[p] = "loop"
        BY <1>2, <1>5, <2>4, <3>4 DEF Current, Entry
      <3>5. CASE then[p] = "post"
        BY <1>2, <1>5, <2>4, <3>5 DEF Current, Entry
      <3>6. CASE then[p] = "validate"
        BY <1>2, <1>5, <2>4, <3>6 DEF Current, Entry
      <3>7. CASE then[p] = "done"
        BY <1>2, <1>5, <2>4, <3>1, <3>7 DEF Current
      <3>. QED  BY <1>5, <3>3, <3>4, <3>5, <3>6, <3>7
    <2>. QED  BY <1>2, <2>1, <2>2, <2>3, <2>4
  <1>10. LedgerOf(s)'
    <2>1. LedgerOf(s)
      BY <1>2 DEF StageInv
    <2>. QED  BY <1>4, <1>9, <2>1 DEF LedgerOf
  <1>11. Untouched(s)' /\ CapturedAsServed(s)' /\ FrozenPass(s)'
    BY <1>1, <1>2, <1>4 DEF StageInv, Untouched, CapturedAsServed, FrozenPass, Frozen, OwnFiles
  <1>12. Around(p)' /\ Current(p)'
    BY <1>2, <1>4, <1>8 DEF Around, Current
  <1>13. ASSUME then[p] # "done" PROVE OwnFiles(p)'
    BY <1>1, <1>2, <1>4, <1>5, <1>8, <1>9, <1>13 DEF OwnFiles
  <1>14. Executing(p)' => then[p] # "done"
    BY <1>4 DEF Executing, Live
  <1>15. Knows(p)'
    BY <1>2, <1>8, <1>12, <1>13, <1>14 DEF Knows
  <1>16. StageInv(s)' /\ pc'[p] # "create"
    BY <1>4, <1>5, <1>10, <1>11 DEF StageInv
  <1>. QED  BY <1>1, <1>6, <1>7, <1>15, <1>16, OneStep

(* CreateLedger: the invocation that creates the ledger has its pass for   *)
(* itself; one that finds it stops.                                        *)
LEMMA Creates ==
    ASSUME IInv, NEW p \in Procs, CreateLedger(p)
    PROVE  IInv'
  <1>. USE CallAssumption DEF memory, remote
  <1>. DEFINE s == stage[p]
              i == item[p]
  <1>1. TypeOK /\ s \in Stages /\ Alive(p) /\ pc[p] = "create" /\ ~Executing(p)
    BY DEF IInv, TypeOK, CreateLedger, Alive, Executing, Live
  <1>2. CASE ledger[s].file # "ABSENT"
    <2>1. Goto(p, "done") /\ UNCHANGED <<files, memory, remote>>
      BY <1>2 DEF CreateLedger, files
    <2>. QED  BY <1>1, <2>1, Stops
  <1>3. CASE ledger[s].file = "ABSENT"
    <2>1. /\ StageInv(s) /\ then[p] = "loop" /\ mem[p] = FreshEntries /\ i = First(s)
          /\ First(s) \in {1, 2} /\ First(s) \in Items
      BY <1>1 DEF IInv, Starts, First, Items
    <2>2. /\ ledger[s].entries = FreshEntries /\ result[s].file = "ABSENT"
          /\ \A j \in Items : posts[s][j] = 0 /\ raw[s][j].file = "ABSENT"
      BY <1>3, <2>1 DEF StageInv, Untouched
    <2>3. /\ pc'[p] = "write" /\ ledger'[s].file = "TORN"
          /\ ledger'[s].entries = ledger[s].entries
          /\ UNCHANGED <<raw, result, made, memory, remote>>
      BY <1>1, <1>3 DEF CreateLedger, TypeOK, Goto
    <2>4. TypeOK'
      <3>1. ledger' \in [Stages -> [file : FileState, entries : [Items -> EntryType]]]
        <4>1. ledger' = [ledger EXCEPT ![s].file = "TORN"]
          BY <1>3 DEF CreateLedger
        <4>. QED  BY <1>1, <4>1, LedgerTorn DEF TypeOK
      <3>2. pc' \in [Procs -> Over \cup Live]
        <4>1. pc' = [pc EXCEPT ![p] = "write"]
          BY <1>3 DEF CreateLedger, Goto
        <4>. QED  BY <1>1, <4>1 DEF TypeOK, Live
      <3>. QED  BY <1>1, <2>3, <3>1, <3>2 DEF TypeOK, made
    <2>5. KeepsOthers(p)
      BY <1>1, <1>3 DEF KeepsOthers, TypeOK, CreateLedger, Goto
    <2>6. LedgerOf(s)'
      BY <2>1, <2>2, <2>3 DEF StageInv, LedgerOf, FreshEntries, NotDispatched
    <2>7. Untouched(s)' /\ CapturedAsServed(s)' /\ FrozenPass(s)'
      BY <2>1, <2>2, <2>3 DEF StageInv, Untouched, CapturedAsServed, FrozenPass, Frozen
    <2>8. At(p)' = "loop"
      BY <2>1, <2>3 DEF At
    <2>9. Around(p)'
      BY <1>1, <2>1, <2>2, <2>3, <2>8 DEF Around, FreshEntries, NotDispatched, Entry, Items
    <2>10. Current(p)'
      BY <1>1, <2>1, <2>2, <2>3, <2>8 DEF Current, FreshEntries, NotDispatched, Entry
    <2>11. OwnFiles(p)'
      BY <1>1, <2>1, <2>2, <2>3, <2>8 DEF OwnFiles, FreshEntries, NotDispatched
    <2>. QED  BY <1>1, <1>3, <2>3, <2>4, <2>5, <2>6, <2>7, <2>8, <2>9, <2>10, <2>11, OneStep
              DEF Knows, StageInv
  <1>. QED  BY <1>2, <1>3

(* An entry of the ledger gets another state; the others keep theirs. *)
LEMMA StateMarked ==
    ASSUME NEW m \in [Items -> EntryType], NEW i \in Items,
           NEW x \in {"NOT_DISPATCHED", "UNKNOWN", "COMPLETED"}
    PROVE  LET n == [m EXCEPT ![i].state = x] IN
           /\ n \in [Items -> EntryType]
           /\ n[i].state = x /\ n[i].stop = m[i].stop
           /\ \A j \in Items : j # i => n[j] = m[j]
  BY DEF EntryType

(* ... or another reason to stop. *)
LEMMA StopMarked ==
    ASSUME NEW m \in [Items -> EntryType], NEW i \in Items,
           NEW x \in {"NONE", "AMBIGUOUS", "NOT_ACCEPTED"}
    PROVE  LET n == [m EXCEPT ![i].stop = x] IN
           /\ n \in [Items -> EntryType]
           /\ n[i].stop = x /\ n[i].state = m[i].state
           /\ \A j \in Items : j # i => n[j] = m[j]
  BY DEF EntryType

(* ... or the link to its capture. *)
LEMMA LinkMarked ==
    ASSUME NEW m \in [Items -> EntryType], NEW i \in Items
    PROVE  LET n == [m EXCEPT ![i].linked = TRUE] IN
           /\ n \in [Items -> EntryType]
           /\ n[i].stop = m[i].stop /\ n[i].state = m[i].state
           /\ \A j \in Items : j # i => n[j] = m[j]
  BY DEF EntryType

(* The requests on either side of the current one are not the current one. *)
LEMMA Apart ==
    ASSUME IInv, NEW p \in Procs, Executing(p), NEW j \in Items,
           (j >= First(stage[p]) /\ j < item[p]) \/ j < First(stage[p]) \/ j > item[p]
    PROVE  j # item[p]
  <1>1. /\ item[p] \in First(stage[p])..(N + 1) /\ First(stage[p]) \in {1, 2} /\ item[p] \in Nat
    BY OwnPass DEF Around
  <1>. QED  BY <1>1, CallAssumption DEF Items

(* A request is announced only while one remains to be sent. *)
LEMMA Announces ==
    ASSUME IInv, NEW p \in Procs, Announce(p)
    PROVE  IInv'
  <1>. USE CallAssumption DEF files, remote
  <1>. DEFINE s == stage[p]
              i == item[p]
  <1>1. Executing(p) /\ Alive(p) /\ pc[p] = "loop" /\ At(p) = "loop"
    BY DEF Announce, Executing, Alive, Live, At
  <1>2. CASE ~Funded(p)
    <2>1. Goto(p, "done") /\ UNCHANGED <<files, memory, remote>>
      BY <1>2 DEF Announce, memory
    <2>. QED  BY <1>1, <2>1, Stops
  <1>3. CASE Funded(p)
    <2>1. /\ s \in Stages /\ StageInv(s) /\ Around(p) /\ Current(p) /\ OwnFiles(p) /\ TypeOK
          /\ mem[p] \in [Items -> EntryType] /\ i \in 1..(N + 1) /\ i \in Nat
      BY <1>1, OwnPass DEF IInv
    <2>2. i \in Items /\ i # N + 1
      BY <1>1, <2>1 DEF Around, Items
    <2>3. Entry(mem[p][i], "NOT_DISPATCHED") /\ posts[s][i] = 0
      BY <1>1, <2>1 DEF Current
    <2>4. /\ mem' = [mem EXCEPT ![p] = [mem[p] EXCEPT ![i].state = "UNKNOWN"]]
          /\ then'[p] = "post" /\ pc'[p] = "truncate"
          /\ UNCHANGED <<files, code, stage, item, total, got, remote>>
      BY <1>3, <2>1 DEF Announce, Store, Goto, TypeOK
    <2>5. mem'[p] = [mem[p] EXCEPT ![i].state = "UNKNOWN"]
      BY <2>1, <2>4 DEF TypeOK
    <2>6. /\ Entry(mem'[p][i], "UNKNOWN") /\ mem'[p] \in [Items -> EntryType]
          /\ \A j \in Items : j # i => mem'[p][j] = mem[p][j]
      <3>. DEFINE n == [mem[p] EXCEPT ![i].state = "UNKNOWN"]
      <3>1. /\ n \in [Items -> EntryType] /\ n[i].state = "UNKNOWN" /\ n[i].stop = mem[p][i].stop
            /\ \A j \in Items : j # i => n[j] = mem[p][j]
        BY <2>1, <2>2, StateMarked
      <3>2. mem'[p] = n
        BY <2>5
      <3>. HIDE DEF n
      <3>. QED  BY <2>3, <3>1, <3>2 DEF Entry
    <2>7. mem' \in [Procs -> [Items -> EntryType]]
      BY <2>1, <2>4, <2>5, <2>6 DEF TypeOK
    <2>8. TypeOK'
      <3>1. pc' \in [Procs -> Over \cup Live]
            /\ then' \in [Procs -> {"loop", "post", "validate", "result", "done"}]
        BY <1>3, <2>1 DEF Announce, Store, Goto, TypeOK, Live
      <3>. QED  BY <2>1, <2>4, <2>7, <3>1 DEF TypeOK, made
    <2>9. KeepsOthers(p)
      BY <1>3, <2>1 DEF KeepsOthers, TypeOK, Announce, Store, Goto
    <2>10. StageInv(s)'
      BY <1>1, <2>1, <2>4 DEF StageInv, LedgerOf, Untouched, CapturedAsServed, FrozenPass, Frozen,
                              OwnFiles, made
    <2>11. At(p)' = "post"
      BY <2>4 DEF At
    <2>12. Around(p)'
      BY <1>1, <2>1, <2>4, <2>6, <2>11, Apart DEF Around
    <2>13. Current(p)'
      BY <2>1, <2>3, <2>4, <2>6, <2>11 DEF Current
    <2>14. OwnFiles(p)'
      BY <1>1, <2>1, <2>4, <2>11 DEF OwnFiles
    <2>. QED  BY <1>1, <2>1, <2>4, <2>8, <2>9, <2>10, <2>11, <2>12, <2>13, <2>14, OneStep DEF Knows
  <1>. QED  BY <1>2, <1>3

(* Post: the ledger already says UNKNOWN of the request. *)
LEMMA Posts ==
    ASSUME IInv, NEW p \in Procs, Post(p)
    PROVE  IInv'
  <1>. USE CallAssumption DEF files, memory
  <1>. DEFINE s == stage[p]
              i == item[p]
  <1>1. Executing(p) /\ Alive(p) /\ pc[p] = "post" /\ At(p) = "post"
    BY DEF Post, Executing, Alive, Live, At
  <1>2. /\ s \in Stages /\ StageInv(s) /\ Around(p) /\ Current(p) /\ OwnFiles(p) /\ TypeOK
        /\ i \in 1..(N + 1) /\ i \in Nat /\ First(s) \in {1, 2}
    BY <1>1, OwnPass DEF IInv
  <1>3. i \in Items /\ i # N + 1 /\ i >= First(s)
    BY <1>1, <1>2 DEF Around, Items
  <1>4. Entry(mem[p][i], "UNKNOWN") /\ posts[s][i] = 0 /\ ledger[s].entries = mem[p]
    BY <1>1, <1>2 DEF Current, OwnFiles
  <1>5. posts[s] \in [Items -> Nat]
    BY <1>2 DEF TypeOK
  <1>6. /\ pc'[p] = "waiting" /\ posts' = [posts EXCEPT ![s] = [posts[s] EXCEPT ![i] = @ + 1]]
        /\ UNCHANGED <<files, memory, served, bill, spent>>
    BY <1>2 DEF Post, Goto, TypeOK
  <1>7. /\ posts'[s] = [posts[s] EXCEPT ![i] = @ + 1]
        /\ posts'[s][i] = 1 /\ \A j \in Items : j # i => posts'[s][j] = posts[s][j]
        /\ posts' \in [Stages -> [Items -> Nat]]
    BY <1>2, <1>3, <1>4, <1>5, <1>6 DEF TypeOK
  <1>8. TypeOK'
    <2>1. pc' \in [Procs -> Over \cup Live]
      BY <1>2 DEF Post, Goto, TypeOK, Live
    <2>. QED  BY <1>2, <1>6, <1>7, <2>1 DEF TypeOK, made
  <1>9. KeepsOthers(p)
    BY <1>2 DEF KeepsOthers, TypeOK, Post, Goto
  <1>10. LedgerOf(s)'
    <2>1. LedgerOf(s)
      BY <1>2 DEF StageInv
    <2>2. s = "resume" => i # 1
      BY <1>2, <1>3 DEF First
    <2>3. \A j \in Items : ledger[s].entries[j].stop = "NONE"
      BY <1>2 DEF OwnFiles
    <2>4. ASSUME NEW j \in Items
          PROVE  posts'[s][j] <= 1 /\ (posts'[s][j] > 0 =>
                        j = i \/ posts[s][j] > 0)
      BY <1>7, <2>1 DEF LedgerOf
    <2>5. ledger[s].entries[i].state # "NOT_DISPATCHED"
      BY <1>4 DEF Entry
    <2>6. s = "resume" => posts'[s][1] = 0
      BY <1>7, <2>1, <2>2 DEF LedgerOf, Items
    <2>. QED  BY <1>6, <2>1, <2>3, <2>4, <2>5, <2>6 DEF LedgerOf
  <1>11. Untouched(s)' /\ CapturedAsServed(s)' /\ FrozenPass(s)'
    BY <1>1, <1>2, <1>6 DEF StageInv, Untouched, CapturedAsServed, FrozenPass, Frozen, OwnFiles, made
  <1>12. At(p)' = "waiting"
    BY <1>6 DEF At
  <1>13. Around(p)'
    BY <1>1, <1>2, <1>6, <1>7, <1>12, Apart DEF Around
  <1>14. Current(p)'
    BY <1>4, <1>6, <1>12 DEF Current
  <1>15. OwnFiles(p)'
    BY <1>1, <1>2, <1>6, <1>12 DEF OwnFiles
  <1>. QED  BY <1>1, <1>6, <1>8, <1>9, <1>10, <1>11, <1>12, <1>13, <1>14, <1>15, OneStep
            DEF Knows, StageInv

(* The answer is lost, or refused: the pass is over, the request unknown. *)
LEMMA Fails ==
    ASSUME IInv, NEW p \in Procs, LoseAnswer(p) \/ Reject(p)
    PROVE  IInv'
  <1>. USE CallAssumption DEF files, remote
  <1>. DEFINE s == stage[p]
              i == item[p]
  <1>1. Executing(p) /\ Alive(p) /\ pc[p] \in {"waiting", "validate"} /\ At(p) = pc[p]
    BY DEF LoseAnswer, Reject, Executing, Alive, Live, At
  <1>2. /\ s \in Stages /\ StageInv(s) /\ Around(p) /\ Current(p) /\ OwnFiles(p) /\ TypeOK
        /\ mem[p] \in [Items -> EntryType] /\ i \in 1..(N + 1) /\ i \in Nat
    BY <1>1, OwnPass DEF IInv
  <1>3. i \in Items /\ i # N + 1
    BY <1>1, <1>2 DEF Around, Items
  <1>4. mem[p][i].state = "UNKNOWN"
    BY <1>1, <1>2 DEF Current, Entry
  <1>5. PICK x \in {"AMBIGUOUS", "NOT_ACCEPTED"} :
          /\ Store(p, [mem[p] EXCEPT ![i].stop = x], "done")
          /\ x = "NOT_ACCEPTED" => raw[s][i].file = "WRITTEN"
    <2>1. CASE LoseAnswer(p)
      BY <2>1 DEF LoseAnswer
    <2>2. CASE Reject(p)
      BY <1>2, <2>2 DEF Reject, Current, At
    <2>. QED  BY <2>1, <2>2
  <1>6. /\ mem' = [mem EXCEPT ![p] = [mem[p] EXCEPT ![i].stop = x]]
        /\ then'[p] = "done" /\ pc'[p] = "truncate"
        /\ UNCHANGED <<files, code, stage, item, total, got, remote>>
    BY <1>2, <1>5 DEF LoseAnswer, Reject, Store, Goto, TypeOK
  <1>7. /\ mem'[p][i].stop = x /\ mem'[p][i].state = "UNKNOWN" /\ mem'[p] \in [Items -> EntryType]
        /\ \A j \in Items : j # i => mem'[p][j] = mem[p][j]
    <2>. DEFINE n == [mem[p] EXCEPT ![i].stop = x]
    <2>1. /\ n \in [Items -> EntryType] /\ n[i].stop = x /\ n[i].state = mem[p][i].state
          /\ \A j \in Items : j # i => n[j] = mem[p][j]
      <3>1. x \in {"NONE", "AMBIGUOUS", "NOT_ACCEPTED"}
        OBVIOUS
      <3>. HIDE DEF i
      <3>2. i \in Items
        BY <1>3
      <3>. QED  BY <1>2, <3>1, <3>2 DEF EntryType
    <2>2. mem'[p] = n
      BY <1>2, <1>6 DEF TypeOK
    <2>. HIDE DEF n
    <2>. QED  BY <1>4, <2>1, <2>2
  <1>8. TypeOK'
    <2>1. pc' \in [Procs -> Over \cup Live]
          /\ then' \in [Procs -> {"loop", "post", "validate", "result", "done"}]
      BY <1>2, <1>5 DEF Store, Goto, TypeOK, Live
    <2>2. mem' \in [Procs -> [Items -> EntryType]]
      BY <1>2, <1>6, <1>7 DEF TypeOK
    <2>. QED  BY <1>2, <1>6, <2>1, <2>2 DEF TypeOK, made
  <1>9. KeepsOthers(p)
    BY <1>2, <1>5, <1>6 DEF KeepsOthers, TypeOK, Store, Goto
  <1>10. StageInv(s)'
    BY <1>1, <1>2, <1>6 DEF StageInv, LedgerOf, Untouched, CapturedAsServed, FrozenPass, Frozen,
                            OwnFiles, made
  <1>11. At(p)' = "done"
    BY <1>6 DEF At
  <1>12. Around(p)'
    BY <1>1, <1>2, <1>3, <1>6, <1>7, <1>11, Apart DEF Around
  <1>13. Current(p)'
    BY <1>5, <1>6, <1>7, <1>11 DEF Current
  <1>14. OwnFiles(p)'
    BY <1>1, <1>2, <1>6, <1>11 DEF OwnFiles
  <1>. QED  BY <1>1, <1>2, <1>6, <1>8, <1>9, <1>10, <1>11, <1>12, <1>13, <1>14, OneStep DEF Knows

(* Respond: the answer is what the provider served, or is ambiguous. *)
LEMMA Answers ==
    ASSUME IInv, NEW p \in Procs, Respond(p)
    PROVE  IInv'
  <1>. USE CallAssumption DEF files, remote
  <1>. DEFINE s == stage[p]
              i == item[p]
  <1>1. Executing(p) /\ Alive(p) /\ pc[p] = "waiting" /\ At(p) = "waiting"
    BY DEF Respond, Executing, Alive, Live, At
  <1>2. /\ s \in Stages /\ StageInv(s) /\ Around(p) /\ Current(p) /\ OwnFiles(p) /\ TypeOK
        /\ i \in 1..(N + 1) /\ i \in Nat
    BY <1>1, OwnPass DEF IInv
  <1>3. i \in Items /\ i # N + 1
    BY <1>1, <1>2 DEF Around, Items
  <1>4. /\ got' = [got EXCEPT ![p] = bill[s][i]] /\ got'[p] = bill[s][i] /\ i \in served[s]
        /\ pc'[p] = "capture"
        /\ UNCHANGED <<files, then, code, stage, item, mem, total, remote>>
    BY <1>2 DEF Respond, Goto, TypeOK
  <1>5. TypeOK'
    <2>1. bill[s][i] \in Nat
      BY <1>2, <1>3 DEF TypeOK
    <2>2. got' \in [Procs -> Nat] /\ pc' \in [Procs -> Over \cup Live]
      BY <1>2, <1>4, <2>1 DEF Respond, Goto, TypeOK, Live
    <2>. QED  BY <1>2, <1>4, <2>2 DEF TypeOK, made
  <1>6. KeepsOthers(p)
    BY <1>2 DEF KeepsOthers, TypeOK, Respond, Goto
  <1>7. StageInv(s)'
    BY <1>1, <1>2, <1>4 DEF StageInv, LedgerOf, Untouched, CapturedAsServed, FrozenPass, Frozen,
                            OwnFiles, made
  <1>8. At(p)' = "capture"
    BY <1>4 DEF At
  <1>9. Around(p)'
    BY <1>1, <1>2, <1>3, <1>4, <1>8 DEF Around
  <1>10. Current(p)'
    BY <1>1, <1>2, <1>4, <1>8 DEF Current
  <1>11. OwnFiles(p)'
    BY <1>1, <1>2, <1>4, <1>8 DEF OwnFiles
  <1>. QED  BY <1>1, <1>2, <1>4, <1>5, <1>6, <1>7, <1>8, <1>9, <1>10, <1>11, OneStep DEF Knows

(* A capture is put in its place and nothing else is touched. *)
LEMMA Captured ==
    ASSUME NEW F, NEW r \in [Stages -> [Items -> F]], NEW s \in Stages, NEW i \in Items, NEW c \in F
    PROVE  /\ [r EXCEPT ![s][i] = c] \in [Stages -> [Items -> F]]
           /\ [r EXCEPT ![s][i] = c][s][i] = c
           /\ \A j \in Items : j # i => [r EXCEPT ![s][i] = c][s][j] = r[s][j]
           /\ \A t \in Stages : t # s => [r EXCEPT ![s][i] = c][t] = r[t]
  OBVIOUS

(* The capture of the current request is torn, and no other file is. *)
LEMMA CaptureOpened ==
    ASSUME NEW p \in Procs, IInv, Executing(p), item[p] \in Items,
           raw' = [raw EXCEPT ![stage[p]][item[p]].file = "TORN"]
    PROVE  /\ raw' \in [Stages -> [Items -> [file : FileState, cost : Nat]]]
           /\ raw'[stage[p]][item[p]].file = "TORN"
           /\ \A j \in Items : j # item[p] => raw'[stage[p]][j] = raw[stage[p]][j]
           /\ \A t \in Stages : t # stage[p] => raw'[t] = raw[t]
  <1>. DEFINE F == [file : FileState, cost : Nat]
              s == stage[p]
              i == item[p]
              c == [raw[s][i] EXCEPT !.file = "TORN"]
  <1>1. s \in Stages /\ raw \in [Stages -> [Items -> F]]
    BY DEF IInv, TypeOK
  <1>2. raw[s][i] \in F
    BY <1>1
  <1>3. c \in F /\ c.file = "TORN"
    BY <1>2 DEF FileState
  <1>4. raw' = [raw EXCEPT ![s][i] = c]
    OBVIOUS
  <1>. HIDE DEF F, c
  <1>5. /\ raw' \in [Stages -> [Items -> F]] /\ raw'[s][i] = c
        /\ \A j \in Items : j # i => raw'[s][j] = raw[s][j]
        /\ \A t \in Stages : t # s => raw'[t] = raw[t]
    <2>1. s \in Stages /\ i \in Items
      BY <1>1
    <2>2. raw[s] \in [Items -> F]
      BY <1>1
    <2>. DEFINE row == [raw[s] EXCEPT ![i] = c]
    <2>3. row \in [Items -> F] /\ row[i] = c /\ \A j \in Items : j # i => row[j] = raw[s][j]
      BY <1>3, <2>1, <2>2
    <2>4. raw' = [raw EXCEPT ![s] = row]
      BY <1>4
    <2>. HIDE DEF row
    <2>5. raw' \in [Stages -> [Items -> F]] /\ raw'[s] = row /\ \A t \in Stages : t # s => raw'[t] = raw[t]
      BY <1>1, <2>3, <2>4
    <2>. QED  BY <2>3, <2>5
  <1>. QED  BY <1>3, <1>5 DEF F

(* OpenCapture: the capture is created exclusively. *)
LEMMA OpensCapture ==
    ASSUME IInv, NEW p \in Procs, OpenCapture(p)
    PROVE  IInv'
  <1>. USE CallAssumption DEF memory, remote
  <1>. DEFINE s == stage[p]
              i == item[p]
  <1>1. Executing(p) /\ Alive(p) /\ pc[p] = "capture" /\ At(p) = "capture"
    BY DEF OpenCapture, Executing, Alive, Live, At
  <1>2. CASE raw[s][i].file # "ABSENT"
    <2>1. Goto(p, "done") /\ UNCHANGED <<files, memory, remote>>
      BY <1>2 DEF OpenCapture, files
    <2>. QED  BY <1>1, <2>1, Stops
  <1>3. CASE raw[s][i].file = "ABSENT"
    <2>1. /\ s \in Stages /\ StageInv(s) /\ Around(p) /\ Current(p) /\ OwnFiles(p) /\ TypeOK
          /\ i \in 1..(N + 1) /\ i \in Nat
      BY <1>1, OwnPass DEF IInv
    <2>2. i \in Items /\ i # N + 1
      BY <1>1, <2>1 DEF Around, Items
    <2>3. /\ raw' = [raw EXCEPT ![s][i].file = "TORN"] /\ pc' = [pc EXCEPT ![p] = "captureOpen"]
          /\ UNCHANGED <<ledger, result, made, memory, remote>>
      BY <1>3 DEF OpenCapture, Goto
    <2>4. /\ raw' \in [Stages -> [Items -> [file : FileState, cost : Nat]]]
          /\ raw'[s][i].file = "TORN"
          /\ \A j \in Items : j # i => raw'[s][j] = raw[s][j]
          /\ \A t \in Stages : t # s => raw'[t] = raw[t]
      BY <1>1, <2>2, <2>3, CaptureOpened
    <2>5. pc'[p] = "captureOpen" /\ pc' \in [Procs -> Over \cup Live]
      BY <2>1, <2>3 DEF TypeOK, Live
    <2>6. TypeOK'
      BY <2>1, <2>3, <2>4, <2>5 DEF TypeOK, made
    <2>7. KeepsOthers(p)
      BY <2>1, <2>3, <2>4 DEF KeepsOthers, TypeOK
    <2>8. ledger[s].entries = mem[p] /\ Entry(mem[p][i], "UNKNOWN")
      BY <1>1, <2>1 DEF OwnFiles, Current
    <2>9. LedgerOf(s)'
      <3>1. LedgerOf(s)
        BY <2>1 DEF StageInv
      <3>2. ASSUME NEW j \in Items,
                   ledger[s].entries[j].state = "COMPLETED" \/ ledger[s].entries[j].stop = "NOT_ACCEPTED"
            PROVE  raw'[s][j].file = "WRITTEN"
        BY <2>4, <2>8, <3>1, <3>2 DEF LedgerOf, Entry
      <3>. QED  BY <2>3, <3>1, <3>2 DEF LedgerOf
    <2>10. CapturedAsServed(s)'
      BY <2>1, <2>3, <2>4 DEF StageInv, CapturedAsServed
    <2>11. Untouched(s)' /\ FrozenPass(s)'
      BY <1>1, <2>1, <2>3 DEF Untouched, FrozenPass, Frozen, OwnFiles
    <2>12. At(p)' = "captureOpen"
      BY <2>5 DEF At
    <2>13. Around(p)'
      BY <1>1, <2>1, <2>2, <2>3, <2>4, <2>12, Apart DEF Around
    <2>14. Current(p)'
      BY <1>1, <2>1, <2>3, <2>12 DEF Current
    <2>15. OwnFiles(p)'
      BY <1>1, <2>1, <2>3, <2>5, <2>12 DEF OwnFiles
    <2>. QED  BY <1>1, <2>1, <2>3, <2>5, <2>6, <2>7, <2>9, <2>10, <2>11, <2>12, <2>13, <2>14, <2>15,
                 OneStep DEF Knows, StageInv
  <1>. QED  BY <1>2, <1>3

(* SealCapture: what is captured is what was served. *)
LEMMA SealsCapture ==
    ASSUME IInv, NEW p \in Procs, SealCapture(p)
    PROVE  IInv'
  <1>. USE CallAssumption DEF remote
  <1>. DEFINE s == stage[p]
              i == item[p]
              c == [file |-> "WRITTEN", cost |-> got[p]]
              n == [mem[p] EXCEPT ![i].linked = TRUE]
  <1>1. Executing(p) /\ Alive(p) /\ pc[p] = "captureOpen" /\ At(p) = "captureOpen"
    BY DEF SealCapture, Executing, Alive, Live, At
  <1>2. /\ s \in Stages /\ StageInv(s) /\ Around(p) /\ Current(p) /\ OwnFiles(p) /\ TypeOK
        /\ mem[p] \in [Items -> EntryType] /\ i \in 1..(N + 1) /\ i \in Nat
    BY <1>1, OwnPass DEF IInv
  <1>3. i \in Items /\ i # N + 1
    BY <1>1, <1>2 DEF Around, Items
  <1>4. Entry(mem[p][i], "UNKNOWN") /\ i \in served[s] /\ got[p] = bill[s][i]
        /\ ledger[s].entries = mem[p]
    BY <1>1, <1>2 DEF Current, OwnFiles
  <1>5. /\ raw' = [raw EXCEPT ![s][i] = c] /\ mem' = [mem EXCEPT ![p] = n]
        /\ then' = [then EXCEPT ![p] = "validate"] /\ pc' = [pc EXCEPT ![p] = "truncate"]
        /\ UNCHANGED <<ledger, result, made, code, stage, item, total, got, remote>>
    BY DEF SealCapture, Store, Goto
  <1>6. /\ n \in [Items -> EntryType] /\ Entry(n[i], "UNKNOWN")
        /\ \A j \in Items : j # i => n[j] = mem[p][j]
    <2>1. /\ n \in [Items -> EntryType] /\ n[i].stop = mem[p][i].stop /\ n[i].state = mem[p][i].state
          /\ \A j \in Items : j # i => n[j] = mem[p][j]
      BY <1>2, <1>3, LinkMarked
    <2>. HIDE DEF n
    <2>. QED  BY <1>4, <2>1 DEF Entry
  <1>7. c \in [file : FileState, cost : Nat] /\ c.file = "WRITTEN" /\ c.cost = bill[s][i]
    BY <1>2, <1>4 DEF TypeOK, FileState
  <1>. HIDE DEF n, c
  <1>8. /\ raw' \in [Stages -> [Items -> [file : FileState, cost : Nat]]]
        /\ raw'[s][i] = c
        /\ \A j \in Items : j # i => raw'[s][j] = raw[s][j]
        /\ \A t \in Stages : t # s => raw'[t] = raw[t]
    <2>. DEFINE F == [file : FileState, cost : Nat]
    <2>1. raw \in [Stages -> [Items -> F]] /\ c \in F
      BY <1>2, <1>7 DEF TypeOK
    <2>. HIDE DEF F
    <2>2. /\ raw' \in [Stages -> [Items -> F]]
          /\ raw'[s][i] = c
          /\ \A j \in Items : j # i => raw'[s][j] = raw[s][j]
          /\ \A t \in Stages : t # s => raw'[t] = raw[t]
      BY <1>2, <1>3, <1>5, <2>1, Captured
    <2>. QED  BY <2>2 DEF F
  <1>9. /\ mem'[p] = n /\ then'[p] = "validate" /\ pc'[p] = "truncate"
        /\ pc' \in [Procs -> Over \cup Live] /\ mem' \in [Procs -> [Items -> EntryType]]
        /\ then' \in [Procs -> {"loop", "post", "validate", "result", "done"}]
    BY <1>2, <1>5, <1>6 DEF TypeOK, Live
  <1>10. TypeOK'
    BY <1>2, <1>5, <1>8, <1>9 DEF TypeOK, made
  <1>11. KeepsOthers(p)
    BY <1>2, <1>5, <1>8 DEF KeepsOthers, TypeOK
  <1>12. LedgerOf(s)'
    <2>1. LedgerOf(s)
      BY <1>2 DEF StageInv
    <2>2. ASSUME NEW j \in Items,
                 ledger[s].entries[j].state = "COMPLETED" \/ ledger[s].entries[j].stop = "NOT_ACCEPTED"
          PROVE  raw'[s][j].file = "WRITTEN"
      BY <1>7, <1>8, <2>1, <2>2 DEF LedgerOf
    <2>. QED  BY <1>5, <2>1, <2>2 DEF LedgerOf
  <1>13. CapturedAsServed(s)'
    BY <1>2, <1>4, <1>5, <1>7, <1>8 DEF StageInv, CapturedAsServed
  <1>14. Untouched(s)' /\ FrozenPass(s)'
    BY <1>1, <1>2, <1>5 DEF Untouched, FrozenPass, Frozen, OwnFiles
  <1>15. At(p)' = "validate"
    BY <1>9 DEF At
  <1>16. Around(p)'
    BY <1>1, <1>2, <1>3, <1>5, <1>6, <1>8, <1>9, <1>15, Apart DEF Around
  <1>17. Current(p)'
    BY <1>5, <1>6, <1>7, <1>8, <1>9, <1>15 DEF Current
  <1>18. OwnFiles(p)'
    BY <1>1, <1>2, <1>5, <1>9, <1>15 DEF OwnFiles
  <1>. QED  BY <1>1, <1>2, <1>5, <1>9, <1>10, <1>11, <1>12, <1>13, <1>14, <1>15, <1>16, <1>17, <1>18,
               OneStep DEF Knows, StageInv

(* The next request becomes the current one, or none is left. *)
LEMMA Accepts ==
    ASSUME IInv, NEW p \in Procs, Accept(p)
    PROVE  IInv'
  <1>. USE CallAssumption DEF files, remote
  <1>. DEFINE s == stage[p]
              i == item[p]
              n == [mem[p] EXCEPT ![i].state = "COMPLETED"]
              next == IF i = N THEN "result" ELSE "loop"
  <1>1. /\ Executing(p) /\ Alive(p) /\ pc[p] = "validate" /\ At(p) = "validate"
        /\ total' = [total EXCEPT ![p] = @ + got[p]]
        /\ UNCHANGED <<files, code, stage, got, remote>>
    BY DEF Accept, Executing, Alive, Live, At
  <1>2. /\ s \in Stages /\ StageInv(s) /\ Around(p) /\ Current(p) /\ OwnFiles(p) /\ TypeOK
        /\ mem[p] \in [Items -> EntryType] /\ i \in 1..(N + 1) /\ i \in Nat /\ First(s) \in {1, 2}
        /\ total[p] \in Nat /\ got[p] \in Nat
    BY <1>1, OwnPass DEF IInv
  <1>3. i \in Items /\ i # N + 1 /\ i >= First(s) /\ i + 1 \in 1..(N + 1)
    BY <1>1, <1>2 DEF Around, Items
  <1>4. /\ Entry(mem[p][i], "UNKNOWN") /\ raw[s][i].file = "WRITTEN"
    BY <1>1, <1>2 DEF Current
  <1>5. total' \in [Procs -> Nat] /\ \A q \in Procs : q # p => total'[q] = total[q]
    BY <1>1, <1>2 DEF TypeOK
  <1>6. CASE ~(total'[p] <= Ceiling(s))
    <2>1. pc' = [pc EXCEPT ![p] = "done"] /\ UNCHANGED <<item, mem, then>>
      BY <1>6 DEF Accept, Goto
    <2>2. TypeOK'
      <3>1. pc' \in [Procs -> Over \cup Live]
        BY <1>2, <2>1 DEF TypeOK, Over
      <3>. QED  BY <1>1, <1>2, <1>5, <2>1, <3>1 DEF TypeOK, made
    <2>3. KeepsOthers(p)
      BY <1>1, <1>2, <1>5, <2>1 DEF KeepsOthers, TypeOK
    <2>4. StageInv(s)'
      BY <1>1, <1>2, <2>1 DEF StageInv, LedgerOf, Untouched, CapturedAsServed, FrozenPass, Frozen,
                              OwnFiles, made
    <2>5. pc'[p] = "done" /\ ~Executing(p)'
      BY <1>2, <2>1 DEF TypeOK, Executing, Live
    <2>. QED  BY <1>1, <1>2, <2>2, <2>3, <2>4, <2>5, OneStep DEF Knows
  <1>7. CASE total'[p] <= Ceiling(s)
    <2>1. /\ item' = [item EXCEPT ![p] = i + 1] /\ mem' = [mem EXCEPT ![p] = n]
          /\ then' = [then EXCEPT ![p] = next] /\ pc' = [pc EXCEPT ![p] = "truncate"]
      BY <1>7 DEF Accept, Store, Goto
    <2>2. /\ n \in [Items -> EntryType] /\ Entry(n[i], "COMPLETED")
          /\ \A j \in Items : j # i => n[j] = mem[p][j]
      <3>1. /\ n \in [Items -> EntryType] /\ n[i].state = "COMPLETED" /\ n[i].stop = mem[p][i].stop
            /\ \A j \in Items : j # i => n[j] = mem[p][j]
        BY <1>2, <1>3, StateMarked
      <3>. HIDE DEF n
      <3>. QED  BY <1>4, <3>1 DEF Entry
    <2>. HIDE DEF n
    <2>3. /\ mem'[p] = n /\ then'[p] = next /\ pc'[p] = "truncate" /\ item'[p] = i + 1
          /\ pc' \in [Procs -> Over \cup Live] /\ mem' \in [Procs -> [Items -> EntryType]]
          /\ item' \in [Procs -> 1..(N + 1)]
          /\ then' \in [Procs -> {"loop", "post", "validate", "result", "done"}]
      BY <1>2, <1>3, <2>1, <2>2 DEF TypeOK, Live
    <2>4. TypeOK'
      BY <1>1, <1>2, <1>5, <2>3 DEF TypeOK, made
    <2>5. KeepsOthers(p)
      BY <1>1, <1>2, <1>5, <2>1 DEF KeepsOthers, TypeOK
    <2>6. StageInv(s)'
      BY <1>1, <1>2, <2>3 DEF StageInv, LedgerOf, Untouched, CapturedAsServed, FrozenPass, Frozen,
                              OwnFiles, made
    <2>7. At(p)' = next /\ s = stage'[p]
      BY <1>1, <2>3 DEF At
    <2>8. i + 1 = N + 1 <=> next \in {"result", "resultOpen"}
      BY <1>2
    <2>9. ASSUME NEW j \in Items
          PROVE  /\ j >= First(s) /\ j < i + 1 =>
                        Entry(n[j], "COMPLETED") /\ raw[s][j].file = "WRITTEN"
                 /\ j < First(s) \/ j > i + 1 =>
                        /\ Entry(n[j], "NOT_DISPATCHED")
                        /\ posts[s][j] = 0 /\ raw[s][j].file = "ABSENT"
      <3>1. CASE j = i
        BY <1>2, <1>3, <1>4, <2>2, <3>1
      <3>2. CASE j # i
        <4>1. n[j] = mem[p][j] /\ j \in Nat
          BY <2>2, <3>2 DEF Items
        <4>2. (j < i + 1 => j < i) /\ (j > i + 1 => j > i)
          BY <1>2, <3>2, <4>1
        <4>. QED  BY <1>2, <4>1, <4>2 DEF Around
      <3>. QED  BY <3>1, <3>2
    <2>10. i + 1 \in First(s)..(N + 1)
      BY <1>2, <1>3 DEF Items
    <2>11. Around(p)'
      BY <1>1, <2>3, <2>7, <2>8, <2>9, <2>10 DEF Around
    <2>12. Current(p)'
      <3>1. CASE i = N
        BY <2>7, <3>1 DEF Current
      <3>2. CASE i # N
        <4>1. i + 1 \in Items /\ n[i + 1] = mem[p][i + 1]
          BY <1>2, <1>3, <2>2, <3>2 DEF Items
        <4>2. Entry(n[i + 1], "NOT_DISPATCHED") /\ posts[s][i + 1] = 0
          BY <1>2, <4>1 DEF Around
        <4>. QED  BY <1>1, <2>3, <2>7, <3>2, <4>2 DEF Current
      <3>. QED  BY <3>1, <3>2
    <2>13. OwnFiles(p)'
      BY <1>1, <1>2, <1>7, <2>3, <2>7 DEF OwnFiles
    <2>. QED  BY <1>1, <1>2, <2>3, <2>4, <2>5, <2>6, <2>7, <2>11, <2>12, <2>13, OneStep DEF Knows
  <1>. QED  BY <1>6, <1>7

(* OpenResult: only when every request of the pass is accepted and the     *)
(* cost is within the ceiling.                                             *)
LEMMA OpensResult ==
    ASSUME IInv, NEW p \in Procs, OpenResult(p)
    PROVE  IInv'
  <1>. USE CallAssumption DEF memory, remote
  <1>. DEFINE s == stage[p]
              i == item[p]
              R == [file : FileState, cost : Nat, code : Commits \cup {None}]
              c == [result[s] EXCEPT !.file = "TORN"]
  <1>1. Executing(p) /\ Alive(p) /\ pc[p] = "result" /\ At(p) = "result"
    BY DEF OpenResult, Executing, Alive, Live, At
  <1>2. /\ s \in Stages /\ StageInv(s) /\ Around(p) /\ Current(p) /\ OwnFiles(p) /\ TypeOK
    BY <1>1, OwnPass DEF IInv
  <1>3. result[s].file = "ABSENT"
    BY <1>1, <1>2 DEF OwnFiles
  <1>4. /\ result' = [result EXCEPT ![s] = c] /\ pc' = [pc EXCEPT ![p] = "resultOpen"]
        /\ UNCHANGED <<ledger, raw, made, memory, remote>>
    BY <1>3 DEF OpenResult, Goto
  <1>5. result \in [Stages -> R]
    BY <1>2 DEF TypeOK
  <1>6. c \in R /\ c.file = "TORN"
    BY <1>2, <1>5 DEF FileState
  <1>. HIDE DEF c, R
  <1>7. /\ pc'[p] = "resultOpen" /\ pc' \in [Procs -> Over \cup Live]
        /\ result'[s] = c /\ result' \in [Stages -> R] /\ \A t \in Stages : t # s => result'[t] = result[t]
    BY <1>2, <1>4, <1>5, <1>6 DEF TypeOK, Live
  <1>8. TypeOK'
    BY <1>2, <1>4, <1>7 DEF TypeOK, made, R
  <1>9. KeepsOthers(p)
    BY <1>2, <1>4, <1>7 DEF KeepsOthers, TypeOK
  <1>10. StageInv(s)'
    BY <1>1, <1>2, <1>4, <1>6, <1>7 DEF StageInv, LedgerOf, Untouched, CapturedAsServed, FrozenPass,
                                        Frozen, OwnFiles, made
  <1>11. At(p)' = "resultOpen"
    BY <1>7 DEF At
  <1>12. Around(p)'
    BY <1>1, <1>2, <1>4, <1>11 DEF Around
  <1>13. Current(p)'
    BY <1>11 DEF Current
  <1>14. OwnFiles(p)'
    BY <1>1, <1>2, <1>4, <1>6, <1>7, <1>11 DEF OwnFiles
  <1>. QED  BY <1>1, <1>2, <1>4, <1>7, <1>8, <1>9, <1>10, <1>11, <1>12, <1>13, <1>14, OneStep DEF Knows

(* The result is sealed when every request is accepted in the ledger. *)
LEMMA SealsResult ==
    ASSUME IInv, NEW p \in Procs, SealResult(p)
    PROVE  IInv'
  <1>. USE CallAssumption DEF memory, remote
  <1>. DEFINE s == stage[p]
              i == item[p]
              R == [file : FileState, cost : Nat, code : Commits \cup {None}]
              c == [file |-> "WRITTEN", cost |-> total[p], code |-> code[p]]
  <1>1. Executing(p) /\ Alive(p) /\ pc[p] = "resultOpen" /\ At(p) = "resultOpen"
    BY DEF SealResult, Executing, Alive, Live, At
  <1>2. /\ s \in Stages /\ StageInv(s) /\ Around(p) /\ OwnFiles(p) /\ TypeOK
        /\ i \in Nat /\ First(s) \in {1, 2}
        /\ ready[s] = [file |-> "WRITTEN", commit |-> code[p]]
    BY <1>1, OwnPass DEF IInv
  <1>3. /\ result' = [result EXCEPT ![s] = c] /\ pc' = [pc EXCEPT ![p] = "done"]
        /\ UNCHANGED <<ledger, raw, made, memory, remote>>
    BY DEF SealResult, Goto
  <1>4. result \in [Stages -> R] /\ c \in R /\ c.file = "WRITTEN" /\ c.cost = total[p] /\ c.code = code[p]
    BY <1>2 DEF TypeOK, FileState
  <1>. HIDE DEF c, R
  <1>5. /\ pc'[p] = "done" /\ pc' \in [Procs -> Over \cup Live]
        /\ result'[s] = c /\ result' \in [Stages -> R] /\ \A t \in Stages : t # s => result'[t] = result[t]
    BY <1>2, <1>3, <1>4 DEF TypeOK, Over
  <1>6. TypeOK'
    BY <1>2, <1>3, <1>5 DEF TypeOK, made, R
  <1>7. KeepsOthers(p)
    BY <1>2, <1>3, <1>5 DEF KeepsOthers, TypeOK
  <1>8. /\ ledger[s].file = "WRITTEN" /\ total[p] <= Ceiling(s)
    BY <1>1, <1>2 DEF OwnFiles
  <1>9. \A j \in ItemsOf(s) : Entry(ledger[s].entries[j], "COMPLETED") /\ raw[s][j].file = "WRITTEN"
    <2>1. i = N + 1 /\ ledger[s].entries = mem[p]
      BY <1>1, <1>2 DEF Around, OwnFiles
    <2>2. \A j \in ItemsOf(s) : j \in Items /\ j >= First(s) /\ j < N + 1
      BY <1>2 DEF ItemsOf, Items
    <2>. QED  BY <1>2, <2>1, <2>2 DEF Around
  <1>10. FrozenPass(s)'
    BY <1>2, <1>3, <1>4, <1>5, <1>8, <1>9 DEF FrozenPass, made
  <1>11. Untouched(s)' /\ CapturedAsServed(s)' /\ LedgerOf(s)'
    BY <1>2, <1>3, <1>8 DEF StageInv, Untouched, CapturedAsServed, LedgerOf
  <1>12. ~Executing(p)'
    BY <1>5 DEF Executing, Live
  <1>. QED  BY <1>1, <1>3, <1>5, <1>6, <1>7, <1>8, <1>10, <1>11, <1>12, OneStep DEF Knows, StageInv

(* What is none of an executor's business leaves every pass as it is: the  *)
(* files made before a pass are never replaced.                             *)
LEMMA Aside ==
    ASSUME IInv, UNCHANGED <<ledger, raw, result, pc, memory, remote>>, TypeOK',
           \A s \in Stages : ready[s].file = "WRITTEN" => ready'[s] = ready[s],
           PassesInOrder'
    PROVE  IInv'
  <1>. USE DEF memory, remote
  <1>1. Sole'
    BY DEF IInv, Sole, Executing
  <1>2. ASSUME NEW s \in Stages PROVE StageInv(s)'
    <2>1. StageInv(s)
      BY DEF IInv
    <2>2. Untouched(s)' /\ CapturedAsServed(s)' /\ LedgerOf(s)'
      BY <2>1 DEF StageInv, Untouched, CapturedAsServed, LedgerOf, Executing
    <2>3. FrozenPass(s)'
      BY <2>1 DEF StageInv, FrozenPass, Frozen
    <2>. QED  BY <2>2, <2>3 DEF StageInv
  <1>3. ASSUME NEW p \in Procs PROVE Knows(p)' /\ Starts(p)' /\ Approved(p)'
    <2>1. Knows(p) /\ Starts(p) /\ Approved(p) /\ stage[p] \in Stages
      BY DEF IInv, TypeOK
    <2>2. Knows(p)'
      BY <2>1 DEF Knows, Executing, At, Around, Current, OwnFiles
    <2>3. Starts(p)' /\ Approved(p)'
      BY <2>1 DEF Starts, Approved, Alive
    <2>. QED  BY <2>2, <2>3
  <1>. QED  BY <1>1, <1>2, <1>3 DEF IInv

(* The order of the passes does not depend on the other evidence. *)
LEMMA SameOrder ==
    ASSUME IInv, UNCHANGED <<ledger, raw, result, pc, memory, remote, parity>>
    PROVE  PassesInOrder'
  BY DEF IInv, PassesInOrder, Begun, GivenUp, Alive, memory, remote

(* What needs no call: checking out, freezing, preflights, readiness and   *)
(* approvals.                                                              *)
LEMMA Prepares ==
    ASSUME IInv,
           \/ \E c \in Commits : CheckOut(c)
           \/ FreezeRequests \/ DispatchPreflight \/ ForensicPreflight
           \/ \E s \in Stages : GetReady(s) \/ Approve(s)
    PROVE  IInv'
  <1>1. TypeOK
    BY DEF IInv
  <1>2. CASE (\E c \in Commits : CheckOut(c)) \/ FreezeRequests \/ DispatchPreflight \/ ForensicPreflight
    <2>1. /\ UNCHANGED <<ledger, raw, result, saved, parity, recon, ready, approval, pc, memory, remote>>
          /\ head' \in Commits /\ {requests', preflight', forensic'} \subseteq FileState
      BY <1>1, <1>2 DEF CheckOut, FreezeRequests, DispatchPreflight, ForensicPreflight, Published,
                        FileState, TypeOK
    <2>2. TypeOK'
      BY <1>1, <2>1 DEF TypeOK, memory, remote
    <2>. QED  BY <2>1, <2>2, Aside, SameOrder
  <1>3. ASSUME NEW s \in Stages, GetReady(s) PROVE IInv'
    <2>1. PICK f \in Published : ready' = [ready EXCEPT ![s] = [file |-> f, commit |-> head]]
      BY <1>3 DEF GetReady
    <2>2. /\ UNCHANGED <<ledger, raw, result, head, saved, requests, preflight, forensic, parity,
                         recon, approval, pc, memory, remote>>
          /\ ready[s].file = "ABSENT"
      BY <1>3 DEF GetReady
    <2>3. \A t \in Stages : ready[t].file = "WRITTEN" => ready'[t] = ready[t]
      BY <1>1, <2>1, <2>2 DEF TypeOK
    <2>4. [file |-> f, commit |-> head] \in [file : FileState, commit : Commits \cup {None}]
      BY <1>1 DEF TypeOK, Published, FileState
    <2>5. ready' \in [Stages -> [file : FileState, commit : Commits \cup {None}]]
      BY <1>1, <2>1, <2>4 DEF TypeOK
    <2>6. TypeOK'
      BY <1>1, <2>2, <2>5 DEF TypeOK, memory, remote
    <2>. QED  BY <2>2, <2>3, <2>6, Aside, SameOrder
  <1>4. ASSUME NEW s \in Stages, Approve(s) PROVE IInv'
    <2>1. /\ UNCHANGED <<ledger, raw, result, head, saved, requests, preflight, forensic, parity,
                         recon, ready, pc, memory, remote>>
          /\ approval' = [approval EXCEPT ![s] = [commit |-> head, of |-> ready[s].commit]]
      BY <1>4 DEF Approve
    <2>2. [commit |-> head, of |-> ready[s].commit]
              \in [commit : Commits \cup {None}, of : Commits \cup {None}]
      BY <1>1 DEF TypeOK
    <2>3. TypeOK'
      BY <1>1, <2>1, <2>2 DEF TypeOK, memory, remote
    <2>. QED  BY <2>1, <2>3, Aside, SameOrder
  <1>. QED  BY <1>2, <1>3, <1>4

(* The refused answer stopped its pass before any later request was sent.  *)
LEMMA Reconciles ==
    ASSUME IInv, Reconcile
    PROVE  IInv'
  <1>1. TypeOK /\ "recovery" \in Stages /\ StageInv("recovery") /\ 1 \in Items
    BY CallAssumption DEF IInv, Stages, Items
  <1>2. /\ UNCHANGED <<ledger, raw, result, head, saved, requests, preflight, forensic, ready,
                       approval, pc, memory, remote>>
        /\ parity' \in FileState /\ recon' \in FileState
    BY <1>1 DEF Reconcile, WriteReconciliation, TypeOK, FileState
  <1>3. TypeOK'
    BY <1>1, <1>2 DEF TypeOK, memory, remote
  <1>4. /\ ledger["recovery"].file = "WRITTEN" /\ ledger["recovery"].entries[1].stop = "NOT_ACCEPTED"
        /\ raw["recovery"][1].file = "WRITTEN" /\ \A p \in Procs : ~Alive(p)
    BY DEF Reconcile, Quiet, Over, Live, Alive
  <1>5. result["recovery"].file # "WRITTEN"
    BY <1>1, <1>4, CallAssumption DEF StageInv, FrozenPass, Frozen, ItemsOf, First, Entry
  <1>6. \A i \in 2..N : posts["recovery"][i] = 0
    BY <1>1, <1>4, CallAssumption DEF StageInv, LedgerOf, Items
  <1>7. GivenUp("recovery")
    BY <1>4, <1>5, <1>6 DEF GivenUp
  <1>8. GivenUp("recovery")' /\ raw'["recovery"][1].file = "WRITTEN"
    BY <1>2, <1>4, <1>7 DEF GivenUp, Alive, memory, remote
  <1>9. Begun("recovery")' => GivenUp("initial")'
    BY <1>2 DEF IInv, PassesInOrder, Begun, GivenUp, Alive, memory, remote
  <1>10. parity' # "ABSENT"
    BY DEF Reconcile, WriteReconciliation
  <1>11. PassesInOrder'
    BY <1>8, <1>9, <1>10 DEF PassesInOrder
  <1>. QED  BY <1>2, <1>3, <1>11, Aside

(* A pass is begun on the evidence that the one before it is over and sent  *)
(* its first request at most, and it cannot be the one that was over.       *)
LEMMA Launches ==
    ASSUME IInv, NEW p \in Procs, NEW s \in Stages, Launch(p, s)
    PROVE  IInv'
  <1>. USE CallAssumption DEF files, made, remote
  <1>1. TypeOK /\ p \in Procs /\ s \in Stages /\ PassesInOrder
    BY DEF IInv
  <1>2. /\ pc[p] \in Over /\ pc' = [pc EXCEPT ![p] = "create"]
        /\ code' = [code EXCEPT ![p] = head] /\ stage' = [stage EXCEPT ![p] = s]
        /\ item' = [item EXCEPT ![p] = First(s)] /\ mem' = [mem EXCEPT ![p] = FreshEntries]
        /\ total' = [total EXCEPT ![p] = 0] /\ got' = [got EXCEPT ![p] = 0]
        /\ then' = [then EXCEPT ![p] = "loop"]
        /\ UNCHANGED <<files, remote>>
    BY DEF Launch, Goto
  <1>3. ready[s] = [file |-> "WRITTEN", commit |-> head]
    BY DEF Launch, Gate, ReadinessHolds
  <1>4. First(s) \in 1..(N + 1) /\ FreshEntries \in [Items -> EntryType]
    BY DEF First, FreshEntries, NotDispatched, EntryType
  <1>5. TypeOK'
    <2>1. /\ pc' \in [Procs -> Over \cup Live] /\ stage' \in [Procs -> Stages]
          /\ code' \in [Procs -> Commits \cup {None}] /\ item' \in [Procs -> 1..(N + 1)]
          /\ then' \in [Procs -> {"loop", "post", "validate", "result", "done"}]
      BY <1>1, <1>2, <1>4 DEF TypeOK, Live
    <2>2. mem' \in [Procs -> [Items -> EntryType]] /\ total' \in [Procs -> Nat] /\ got' \in [Procs -> Nat]
      BY <1>1, <1>2, <1>4 DEF TypeOK
    <2>. QED  BY <1>1, <1>2, <2>1, <2>2 DEF TypeOK
  <1>6. /\ pc'[p] = "create" /\ stage'[p] = s /\ item'[p] = First(s) /\ mem'[p] = FreshEntries
        /\ then'[p] = "loop" /\ code'[p] = head /\ ~Alive(p)
    BY <1>1, <1>2 DEF TypeOK, Alive, Over, Live
  <1>7. \A q \in Procs : q # p =>
            /\ pc'[q] = pc[q] /\ stage'[q] = stage[q] /\ code'[q] = code[q] /\ item'[q] = item[q]
            /\ then'[q] = then[q] /\ mem'[q] = mem[q] /\ total'[q] = total[q] /\ got'[q] = got[q]
    BY <1>1, <1>2 DEF TypeOK
  <1>8. \A q \in Procs : Executing(q)' => q # p /\ Executing(q)
    BY <1>6, <1>7 DEF Executing
  <1>9. Sole'
    BY <1>7, <1>8 DEF IInv, Sole
  <1>10. ASSUME NEW t \in Stages PROVE StageInv(t)'
    <2>1. StageInv(t)
      BY DEF IInv
    <2>2. Untouched(t)'
      BY <1>2, <1>7, <1>8, <2>1 DEF StageInv, Untouched
    <2>3. CapturedAsServed(t)' /\ LedgerOf(t)' /\ FrozenPass(t)'
      BY <1>2, <2>1 DEF StageInv, CapturedAsServed, LedgerOf, FrozenPass, Frozen
    <2>. QED  BY <2>2, <2>3 DEF StageInv
  <1>11. ASSUME NEW q \in Procs PROVE Knows(q)' /\ Starts(q)' /\ Approved(q)'
    <2>1. Knows(q) /\ Starts(q) /\ Approved(q)
      BY DEF IInv
    <2>2. CASE q = p
      BY <1>2, <1>3, <1>6, <1>8, <2>2 DEF Knows, Starts, Approved
    <2>3. CASE q # p
      <3>1. At(q)' = At(q) /\ Executing(q)' = Executing(q) /\ Alive(q)' = Alive(q)
        BY <1>7, <2>3 DEF At, Executing, Alive
      <3>2. Starts(q)' /\ Approved(q)'
        BY <1>2, <1>7, <2>1, <2>3, <3>1 DEF Starts, Approved
      <3>3. ASSUME Executing(q) PROVE Around(q)' /\ Current(q)' /\ OwnFiles(q)'
        BY <1>2, <1>7, <2>1, <2>3, <3>1, <3>3 DEF Knows, Around, Current, OwnFiles
      <3>. QED  BY <2>1, <3>1, <3>2, <3>3 DEF Knows
    <2>. QED  BY <2>2, <2>3
  <1>12. ASSUME NEW t \in Stages, t # s
         PROVE  (Begun(t)' => Begun(t)) /\ (GivenUp(t) => GivenUp(t)')
    <2>1. ledger' = ledger /\ result' = result /\ posts' = posts
      BY <1>2
    <2>2. \A q \in Procs : Alive(q)' /\ stage'[q] = t => Alive(q) /\ stage[q] = t
      BY <1>6, <1>7, <1>12 DEF Alive
    <2>3. GivenUp(t) => \A q \in Procs : Alive(q)' => stage'[q] # t
      BY <2>2 DEF GivenUp
    <2>. QED  BY <2>1, <2>2, <2>3 DEF Begun, GivenUp
  <1>13. PassesInOrder'
    <2>1. "initial" \in Stages /\ "recovery" \in Stages /\ "resume" \in Stages
      BY DEF Stages
    <2>5. /\ parity' = parity /\ raw'["recovery"] = raw["recovery"]
          /\ "initial" # s => (GivenUp("initial") => GivenUp("initial")')
          /\ "recovery" # s => /\ Begun("recovery")' => Begun("recovery")
                               /\ GivenUp("recovery") => GivenUp("recovery")'
          /\ "resume" # s => (Begun("resume")' => Begun("resume"))
      <3>1. parity' = parity /\ raw'["recovery"] = raw["recovery"]
        BY <1>2
      <3>2. "initial" # s => (GivenUp("initial") => GivenUp("initial")')
        BY <1>12, <2>1
      <3>3. "recovery" # s => /\ Begun("recovery")' => Begun("recovery")
                              /\ GivenUp("recovery") => GivenUp("recovery")'
        BY <1>12, <2>1
      <3>4. "resume" # s => (Begun("resume")' => Begun("resume"))
        BY <1>12, <2>1
      <3>. QED  BY <3>1, <3>2, <3>3, <3>4
    <2>6. /\ Begun("recovery") => GivenUp("initial")
          /\ Begun("resume") => parity # "ABSENT"
          /\ parity # "ABSENT" => GivenUp("recovery") /\ raw["recovery"][1].file = "WRITTEN"
      BY <1>1 DEF PassesInOrder
    <2>7. SUFFICES /\ Begun("recovery")' => GivenUp("initial")'
                   /\ Begun("resume")' => parity # "ABSENT"
                   /\ parity # "ABSENT" => GivenUp("recovery")' /\ raw["recovery"][1].file = "WRITTEN"
      BY <2>5 DEF PassesInOrder
    <2>2. CASE s = "initial"
      <3>1. ledger["initial"].file = "ABSENT"
        BY <2>2 DEF Launch, Gate, InitialGate
      <3>2. ~GivenUp("initial")
        BY <3>1 DEF GivenUp
      <3>. QED  BY <2>2, <2>5, <2>6, <3>2
    <2>3. CASE s = "recovery"
      <3>1. NothingRecovered /\ ledger["recovery"].file = "ABSENT"
        BY <2>3 DEF Launch, Gate, RecoveryGate, RecoveryFacts
      <3>2. ~GivenUp("recovery")
        BY <3>1 DEF GivenUp
      <3>3. \A q \in Procs : Alive(q) => stage[q] # "initial"
        BY <3>1 DEF NothingRecovered, Ended, Alive, Over, Live
      <3>4. \A i \in 2..N : ledger["initial"].entries[i].state = "NOT_DISPATCHED"
        BY <3>1 DEF NothingRecovered, FirstRequestLost
      <3>5. \A i \in 2..N : posts["initial"][i] = 0
        <4>. SUFFICES ASSUME NEW i \in 2..N PROVE posts["initial"][i] = 0
          OBVIOUS
        <4>1. i \in Items /\ LedgerOf("initial") /\ ledger["initial"].file = "WRITTEN"
          BY <2>1, <3>1 DEF IInv, StageInv, NothingRecovered, Items
        <4>2. posts["initial"][i] \in Nat
          BY <1>1, <2>1, <4>1 DEF TypeOK
        <4>. QED  BY <3>4, <4>1, <4>2 DEF LedgerOf
      <3>6. GivenUp("initial")
        BY <3>1, <3>3, <3>5 DEF GivenUp, NothingRecovered
      <3>. QED  BY <2>3, <2>5, <2>6, <3>2, <3>6
    <2>4. CASE s = "resume"
      <3>1. parity = "WRITTEN"
        BY <2>4 DEF Launch, Gate, ResumeGate, ResumeAdmissible
      <3>. QED  BY <2>4, <2>5, <2>6, <3>1
    <2>. QED  BY <2>2, <2>3, <2>4 DEF Stages
  <1>. QED  BY <1>5, <1>9, <1>10, <1>11, <1>13 DEF IInv

(* The provider bills a request once, and only one it was sent. *)
LEMMA Serves ==
    ASSUME IInv, NEW s \in Stages, NEW i \in Items, NEW c \in Prices[i], Serve(s, i, c)
    PROVE  IInv'
  <1>. USE CallAssumption DEF files, made, memory
  <1>1. TypeOK
    BY DEF IInv
  <1>2. /\ i \notin served[s] /\ served' = [served EXCEPT ![s] = @ \cup {i}]
        /\ bill' = [bill EXCEPT ![s] = [bill[s] EXCEPT ![i] = c]]
        /\ spent' = [spent EXCEPT ![s] = @ + c]
        /\ UNCHANGED <<files, pc, memory, posts>>
    BY DEF Serve
  <1>3. c \in Nat
    BY PriceAssumption
  <1>4. bill[s] \in [Items -> Nat] /\ [bill[s] EXCEPT ![i] = c] \in [Items -> Nat]
    BY <1>1, <1>3 DEF TypeOK
  <1>5. /\ served' \in [Stages -> SUBSET Items] /\ bill' \in [Stages -> [Items -> Nat]]
        /\ spent' \in [Stages -> Nat]
    BY <1>1, <1>2, <1>3, <1>4 DEF TypeOK
  <1>6. TypeOK'
    BY <1>1, <1>2, <1>5 DEF TypeOK
  <1>7. ASSUME NEW t \in Stages, NEW j \in Items, j \in served[t]
        PROVE  j \in served'[t] /\ bill'[t][j] = bill[t][j]
    <2>1. CASE t = s
      BY <1>1, <1>2, <1>4, <1>7, <2>1 DEF TypeOK
    <2>2. CASE t # s
      BY <1>1, <1>2, <1>7, <2>2 DEF TypeOK
    <2>. QED  BY <2>1, <2>2
  <1>8. ASSUME NEW t \in Stages PROVE StageInv(t)'
    <2>1. StageInv(t)
      BY DEF IInv
    <2>2. CapturedAsServed(t)'
      BY <1>2, <1>7, <2>1 DEF StageInv, CapturedAsServed
    <2>3. Untouched(t)' /\ LedgerOf(t)' /\ FrozenPass(t)'
      BY <1>2, <2>1 DEF StageInv, Untouched, Executing, LedgerOf, FrozenPass, Frozen
    <2>. QED  BY <2>2, <2>3 DEF StageInv
  <1>9. ASSUME NEW q \in Procs PROVE Knows(q)' /\ Starts(q)' /\ Approved(q)'
    <2>1. Knows(q) /\ Starts(q) /\ Approved(q) /\ stage[q] \in Stages
      BY <1>1 DEF IInv, TypeOK
    <2>2. Starts(q)' /\ Approved(q)'
      BY <1>2, <2>1 DEF Starts, Approved, Alive
    <2>3. ASSUME Executing(q) PROVE Around(q)' /\ Current(q)' /\ OwnFiles(q)' /\ At(q)' = At(q)
      <3>1. At(q)' = At(q) /\ Around(q)' /\ OwnFiles(q)'
        BY <1>2, <2>1, <2>3 DEF Knows, At, Around, OwnFiles
      <3>2. Current(q)'
        <4>1. ASSUME At(q) \in {"capture", "captureOpen"}
              PROVE  item[q] \in served'[stage[q]] /\ got[q] = bill'[stage[q]][item[q]]
          <5>1. item[q] \in served[stage[q]] /\ got[q] = bill[stage[q]][item[q]]
            BY <2>1, <2>3, <4>1 DEF Knows, Current
          <5>2. item[q] \in Items
            BY <1>1, <2>1, <5>1 DEF TypeOK
          <5>. QED  BY <1>7, <2>1, <5>1, <5>2
        <4>. QED  BY <1>2, <2>1, <2>3, <3>1, <4>1 DEF Knows, Current
      <3>. QED  BY <3>1, <3>2
    <2>4. Executing(q)' = Executing(q)
      BY <1>2 DEF Executing
    <2>. QED  BY <2>1, <2>2, <2>3, <2>4 DEF Knows
  <1>10. Sole'
    BY <1>2 DEF IInv, Sole, Executing
  <1>11. PassesInOrder'
    BY <1>2 DEF IInv, PassesInOrder, Begun, GivenUp, Alive
  <1>. QED  BY <1>6, <1>8, <1>9, <1>10, <1>11 DEF IInv

(* Every step keeps the invariant. *)
THEOREM INext == IInv /\ [Next]_vars => IInv'
  <1>. SUFFICES ASSUME IInv, [Next]_vars PROVE IInv'
    OBVIOUS
  <1>1. ASSUME NEW p \in Procs, NEW s \in Stages, Launch(p, s) PROVE IInv'
    BY <1>1, Launches
  <1>2. ASSUME NEW p \in Procs, Step(p) PROVE IInv'
    <2>1. CASE CreateLedger(p) \/ TruncateLedger(p) \/ WriteLedger(p)
      BY <2>1, Creates, Truncates, Writes
    <2>2. CASE Announce(p) \/ Post(p) \/ LoseAnswer(p) \/ Reject(p)
      BY <2>2, Announces, Posts, Fails
    <2>3. CASE Unserializable(p)
      <3>1. Alive(p) /\ Goto(p, "done") /\ UNCHANGED <<files, memory, remote>>
        BY <2>3 DEF Unserializable, Alive, Live
      <3>. QED  BY <3>1, Stops
    <2>4. CASE Respond(p) \/ OpenCapture(p) \/ SealCapture(p)
      BY <2>4, Answers, OpensCapture, SealsCapture
    <2>5. CASE Accept(p) \/ OpenResult(p) \/ SealResult(p)
      BY <2>5, Accepts, OpensResult, SealsResult
    <2>. QED  BY <1>2, <2>1, <2>2, <2>3, <2>4, <2>5 DEF Step
  <1>3. ASSUME NEW p \in Procs, Crash(p) PROVE IInv'
    BY <1>3, Stops DEF Crash, Alive
  <1>4. ASSUME NEW s \in Stages, NEW i \in Items, NEW c \in Prices[i], Serve(s, i, c) PROVE IInv'
    BY <1>4, Serves
  <1>5. CASE \/ \E c \in Commits : CheckOut(c)
             \/ FreezeRequests \/ DispatchPreflight \/ ForensicPreflight
             \/ \E s \in Stages : GetReady(s) \/ Approve(s)
    BY <1>5, Prepares
  <1>6. CASE Reconcile
    BY <1>6, Reconciles
  <1>7. CASE UNCHANGED vars
    BY <1>7 DEF vars, files, made, memory, remote, IInv, TypeOK, Sole, StageInv, Untouched,
                CapturedAsServed, LedgerOf, FrozenPass, Frozen, Knows, Starts, Approved, At, Around,
                Current, OwnFiles, Executing, Alive, PassesInOrder, Begun, GivenUp
  <1>. QED  BY <1>1, <1>2, <1>3, <1>4, <1>5, <1>6, <1>7 DEF Next

(* Every reachable state satisfies the inductive invariant. *)
THEOREM Inductive == Spec => []IInv
  BY IInit, INext, PTL DEF Spec

(* Every variable has, in every reachable state, the values the code gives  *)
(* it.                                                                      *)
THEOREM TypeCorrect == Spec => []TypeOK
  BY Inductive, PTL DEF IInv

(* However many invocations of each executor overlap or die, one approval   *)
(* buys one POST of each request; over the three passes only the request    *)
(* whose answer was lost is sent a second time; and a readable ledger says  *)
(* so, and has the capture of what it judges.                               *)
THEOREM PaysOnce == Spec => []PaidOnce
  <1>1. IInv => PaidOnce
    <2>. SUFFICES ASSUME IInv PROVE PaidOnce
      OBVIOUS
    <2>1. TypeOK /\ PassesInOrder /\ \A s \in Stages : StageInv(s)
      BY DEF IInv
    <2>2. LedgerKnows
      <3>. SUFFICES ASSUME NEW s \in Stages, NEW i \in Items
                    PROVE  LET e == ledger[s].entries[i]
                           IN  /\ posts[s][i] > 0 /\ ledger[s].file = "WRITTEN" =>
                                      e.state # "NOT_DISPATCHED"
                               /\ e.state = "COMPLETED" \/ e.stop = "NOT_ACCEPTED" =>
                                      raw[s][i] = [file |-> "WRITTEN", cost |-> bill[s][i]]
        BY DEF LedgerKnows
      <3>1. LedgerOf(s) /\ CapturedAsServed(s)
        BY <2>1 DEF StageInv
      <3>2. raw[s][i] \in [file : FileState, cost : Nat]
        BY <2>1 DEF TypeOK
      <3>3. raw[s][i].file = "WRITTEN" => raw[s][i] = [file |-> "WRITTEN", cost |-> bill[s][i]]
        BY <3>1, <3>2 DEF CapturedAsServed
      <3>. QED  BY <3>1, <3>3 DEF LedgerOf
    <2>3. ASSUME NEW i \in Items
          PROVE  /\ \A s \in Stages : posts[s][i] <= 1
                 /\ posts["initial"][i] + posts["recovery"][i] + posts["resume"][i]
                       <= IF i = 1 THEN 2 ELSE 1
      <3>1. "initial" \in Stages /\ "recovery" \in Stages /\ "resume" \in Stages
        BY DEF Stages
      <3>2. \A s \in Stages : posts[s][i] <= 1 /\ posts[s][i] \in Nat
        BY <2>1 DEF StageInv, LedgerOf, TypeOK
      <3>3. \A s \in Stages : ledger[s].file = "ABSENT" => posts[s][i] = 0
        BY <2>1 DEF StageInv, Untouched
      <3>4. CASE i = 1
        <4>1. posts["resume"][i] = 0
          BY <2>1, <3>1, <3>4 DEF StageInv, LedgerOf
        <4>. QED  BY <3>1, <3>2, <3>4, <4>1
      <3>5. CASE i # 1
        <4>1. i \in 2..N
          BY <3>5, CallAssumption DEF Items
        <4>2. ledger["recovery"].file # "ABSENT" => posts["initial"][i] = 0
          BY <2>1, <4>1 DEF PassesInOrder, Begun, GivenUp
        <4>3. ledger["resume"].file # "ABSENT" =>
                  posts["recovery"][i] = 0 /\ ledger["recovery"].file # "ABSENT"
          BY <2>1, <4>1 DEF PassesInOrder, Begun, GivenUp
        <4>. QED  BY <3>1, <3>2, <3>3, <3>5, <4>2, <4>3
      <3>. QED  BY <3>2, <3>4, <3>5
    <2>. QED  BY <2>2, <2>3 DEF PaidOnce
  <1>. QED  BY <1>1, Inductive, PTL

-----------------------------------------------------------------------------
(* The money.  A request the provider has, or will have, not yet charged. *)
Open(s, i) == posts[s][i] > 0 /\ i \notin served[s]

(* No call of the pass has cost more than its estimate. *)
Within(s) == \A i \in Items : bill[s][i] <= Est[i]

(* Only what was sent is executed, and only what is executed is charged. *)
Charged(s) ==
    /\ \A i \in Items : /\ i \notin served[s] => bill[s][i] = 0
                        /\ i \in served[s] => posts[s][i] > 0
    /\ (\A i \in 2..N : posts[s][i] = 0) => spent[s] = bill[s][1]

(* One request at most may still be charged, and its estimate was reserved. *)
InDoubt(s) ==
    /\ \A i, j \in Items : Open(s, i) /\ Open(s, j) => i = j
    /\ \A i \in Items :
          Open(s, i) /\ (s # "resume" \/ Within(s)) => spent[s] + Est[i] <= Ceiling(s)

Bounded(s) ==
    /\ s # "resume" => spent[s] <= Ceiling(s) + Overrun
    /\ Within(s) => spent[s] <= Ceiling(s)

(* A frozen result says what was charged, and nothing more will be. *)
Stated(s) == Frozen(s) => result[s].cost = spent[s] /\ \A i \in Items : ~Open(s, i)

(* What has been charged for the request the executor is at. *)
Owed(p) == IF item[p] \in Items THEN bill[stage[p]][item[p]] ELSE 0

(* The provider has charged what the executor counts and its current        *)
(* request; and if the estimates hold, all that remains is reserved.        *)
Reckons(p) ==
    LET s == stage[p] IN
    /\ spent[s] = total[p] + Owed(p)
    /\ At(p) = "validate" => got[p] = bill[s][item[p]]
    /\ At(p) = "post" /\ s # "resume" => total[p] + Cost[item[p]] <= Ceiling(s)
    /\ Within(s) => total[p] + Cost[item[p]] <= Ceiling(s)

MoneyOf(s) == Charged(s) /\ InDoubt(s) /\ Bounded(s) /\ Stated(s)
PurseOf(p) == (pc[p] = "create" => total[p] = 0) /\ (Executing(p) => Reckons(p))

MInv == (\A s \in Stages : MoneyOf(s)) /\ (\A p \in Procs : PurseOf(p))

(* The order of the natural numbers, as a relation. *)
Below == {ss \in Nat \X Nat : ss[1] < ss[2]}

(* Every nonempty set of natural numbers has a least element. *)
LEMMA Least ==
    ASSUME NEW T \in SUBSET Nat, T # {}
    PROVE  \E n \in T : \A m \in T : n <= m
  <1>1. OpToRel(<, Nat) = Below
    BY Zenon DEF OpToRel, Below
  <1>2. IsWellFoundedOn(Below, Nat)
    BY <1>1, NatLessThanWellFounded, Zenon
  <1>3. PICK x \in T : \A y \in T : ~(<<y, x>> \in Below)
    BY <1>2, WFMin, Zenon
  <1>4. ASSUME NEW m \in T, m < x PROVE <<m, x>> \in Below
    <2>1. <<m, x>> \in Nat \X Nat /\ <<m, x>>[1] < <<m, x>>[2]
      BY <1>4
    <2>. QED  BY <2>1, Zenon DEF Below
  <1>5. \A m \in T : ~(m < x)
    BY <1>3, <1>4
  <1>6. \A m \in T : m \in Nat /\ x \in Nat
    OBVIOUS
  <1>. QED  BY <1>5, <1>6

(* Induction, said of sets: the provers can instantiate this form. *)
LEMMA InductiveSet ==
    ASSUME NEW S \in SUBSET Nat, 0 \in S, \A n \in S : n + 1 \in S
    PROVE  S = Nat
  <1>1. SUFFICES ASSUME Nat \ S # {} PROVE FALSE
    OBVIOUS
  <1>2. PICK n \in Nat \ S : \A m \in Nat \ S : n <= m
    BY <1>1, Least
  <1>3. n # 0 /\ n - 1 \in Nat /\ n - 1 \notin Nat \ S
    BY <1>2
  <1>. QED  BY <1>2, <1>3

(* An estimate is a number. *)
LEMMA EstNat == \A i \in Items : Est[i] \in Nat
  BY PriceAssumption DEF Est

(* A function of the worst cases exists, from the last request back ... *)
IsCost(c) == c = [i \in 1..(N + 1) |-> IF i = N + 1 THEN 0 ELSE Est[i] + c[i + 1]]

LEMMA CostExists == \E c : IsCost(c)
  <1> DEFINE From(k) == \E c \in [(N + 1 - k)..(N + 1) -> Nat] :
                            /\ c[N + 1] = 0
                            /\ \A i \in (N + 1 - k)..N : c[i] = Est[i] + c[i + 1]
             S == {k \in Nat : k <= N => From(k)}
  <1>. USE CallAssumption
  <1>1. 0 \in S
    <2> DEFINE z == [i \in (N + 1)..(N + 1) |-> 0]
    <2>1. N + 1 - 0 = N + 1 /\ (N + 1)..N = {} /\ N + 1 \in (N + 1)..(N + 1)
      OBVIOUS
    <2>2. z \in [(N + 1)..(N + 1) -> Nat] /\ z[N + 1] = 0
      BY <2>1
    <2>. HIDE DEF z
    <2>3. From(0)
      BY <2>1, <2>2
    <2>. QED  BY <2>3
  <1>2. ASSUME NEW k \in S PROVE k + 1 \in S
    <2>1. SUFFICES ASSUME k + 1 <= N PROVE From(k + 1)
      <3>. HIDE DEF From
      <3>. QED  OBVIOUS
    <2>2. k \in Nat /\ k <= N /\ From(k)
      <3>. HIDE DEF From
      <3>. QED  BY <2>1
    <2> DEFINE f == N + 1 - k
    <2>3. /\ f \in Nat /\ f \in 2..(N + 1) /\ f - 1 \in 1..N /\ f - 1 = N + 1 - (k + 1)
          /\ (f - 1)..(N + 1) = {f - 1} \cup (f..(N + 1)) /\ (f - 1)..N = {f - 1} \cup (f..N)
      <3>1. k \in Nat /\ N \in Nat /\ k + 1 <= N
        BY <2>1, <2>2
      <3>. HIDE DEF From
      <3>2. f \in Nat /\ 2 <= f /\ f <= N + 1 /\ f - 1 = N + 1 - (k + 1)
        BY <3>1
      <3>. HIDE DEF f
      <3>3. f - 1 \in 1..N /\ f \in 2..(N + 1)
        BY <3>1, <3>2
      <3>4. (f - 1)..(N + 1) = {f - 1} \cup (f..(N + 1))
        BY <3>1, <3>2
      <3>5. (f - 1)..N = {f - 1} \cup (f..N)
        BY <3>1, <3>2
      <3>. QED  BY <3>2, <3>3, <3>4, <3>5
    <2>4. PICK c \in [f..(N + 1) -> Nat] : c[N + 1] = 0 /\ \A i \in f..N : c[i] = Est[i] + c[i + 1]
      BY <2>2
    <2>. HIDE DEF f
    <2>5. Est[f - 1] \in Nat
      BY <2>3, EstNat DEF Items
    <2>6. f \in f..(N + 1) /\ c[f] \in Nat
      BY <2>3
    <2> DEFINE d == [i \in (f - 1)..(N + 1) |-> IF i = f - 1 THEN Est[f - 1] + c[f] ELSE c[i]]
    <2>7. \A i \in (f - 1)..(N + 1) : i # f - 1 => i \in f..(N + 1)
      BY <2>3
    <2>8. Est[f - 1] + c[f] \in Nat
      BY <2>5, <2>6
    <2>9. d \in [(f - 1)..(N + 1) -> Nat]
      BY <2>7, <2>8
    <2>10. N + 1 \in (f - 1)..(N + 1) /\ N + 1 # f - 1 /\ d[N + 1] = 0
      BY <2>3, <2>4
    <2>11. ASSUME NEW i \in (f - 1)..N PROVE d[i] = Est[i] + d[i + 1]
      <3>1. i \in (f - 1)..(N + 1) /\ i + 1 \in (f - 1)..(N + 1) /\ i + 1 # f - 1 /\ i \in Nat
        BY <2>3
      <3>2. d[i + 1] = c[i + 1]
        BY <3>1
      <3>3. CASE i = f - 1
        <4>1. i + 1 = f /\ d[i] = Est[f - 1] + c[f]
          BY <2>3, <3>1, <3>3
        <4>. QED  BY <3>2, <3>3, <4>1
      <3>4. CASE i # f - 1
        <4>1. i \in f..N /\ d[i] = c[i]
          BY <2>3, <3>1, <3>4
        <4>. QED  BY <2>4, <3>2, <4>1
      <3>. QED  BY <3>3, <3>4
    <2>. HIDE DEF d
    <2>12. \E e \in [(f - 1)..(N + 1) -> Nat] :
              e[N + 1] = 0 /\ \A i \in (f - 1)..N : e[i] = Est[i] + e[i + 1]
      BY <2>9, <2>10, <2>11
    <2>. QED  BY <2>3, <2>12
  <1>3. S = Nat
    <2>1. S \in SUBSET Nat
      OBVIOUS
    <2>. HIDE DEF S
    <2>. QED  BY <1>1, <1>2, <2>1, InductiveSet
  <1>4. From(N)
    <2>1. N \in S
      <3>. HIDE DEF S
      <3>. QED  BY <1>3
    <2>. HIDE DEF From
    <2>. QED  BY <2>1
  <1>5. N + 1 - N = 1
    OBVIOUS
  <1>6. PICK c \in [1..(N + 1) -> Nat] : c[N + 1] = 0 /\ \A i \in 1..N : c[i] = Est[i] + c[i + 1]
    BY <1>4, <1>5
  <1>7. c = [i \in 1..(N + 1) |-> IF i = N + 1 THEN 0 ELSE Est[i] + c[i + 1]]
    <2>1. \A i \in 1..(N + 1) : i = N + 1 \/ i \in 1..N
      OBVIOUS
    <2>. QED  BY <1>6, <2>1
  <1>. QED  BY <1>7, Zenon DEF IsCost

(* ... so Cost is one: the worst case of the requests from the i-th on is   *)
(* the estimate of that one and the worst case of those after it.           *)
LEMMA CostArithmetic ==
    /\ Cost[N + 1] = 0
    /\ \A i \in Items : Cost[i] \in Nat /\ Cost[i] = Est[i] + Cost[i + 1]
  <1>. USE CallAssumption
  <1>1. PICK c : IsCost(c)
    BY CostExists
  <1> DEFINE d == CHOOSE u : IsCost(u)
  <1>2. IsCost(d)
    BY <1>1, Zenon
  <1>3. Cost = d
    BY Zenon DEF Cost, IsCost
  <1>4. IsCost(Cost)
    BY <1>2, <1>3
  <1>5. /\ N + 1 \in 1..(N + 1) /\ Cost[N + 1] = 0
        /\ \A i \in Items : Cost[i] = Est[i] + Cost[i + 1]
    <2>. HIDE DEF d
    <2>1. Cost = [i \in 1..(N + 1) |-> IF i = N + 1 THEN 0 ELSE Est[i] + Cost[i + 1]]
      BY <1>4, Zenon DEF IsCost
    <2>2. \A i \in Items : i \in 1..(N + 1) /\ i # N + 1
      BY DEF Items
    <2>3. N + 1 \in 1..(N + 1)
      OBVIOUS
    <2>. QED  BY <2>1, <2>2, <2>3
  <1> DEFINE S == {k \in Nat : k <= N => Cost[N + 1 - k] \in Nat}
  <1>6. 0 \in S /\ S \in SUBSET Nat
    BY <1>5
  <1>7. ASSUME NEW k \in S PROVE k + 1 \in S
    <2>1. SUFFICES ASSUME k + 1 <= N PROVE Cost[N + 1 - (k + 1)] \in Nat
      OBVIOUS
    <2>2. k \in Nat /\ Cost[N + 1 - k] \in Nat
      BY <2>1
    <2> DEFINE i == N + 1 - (k + 1)
    <2>3. i \in Items /\ i + 1 = N + 1 - k
      BY <2>1, <2>2 DEF Items
    <2>. HIDE DEF i
    <2>4. Est[i] \in Nat /\ Cost[i] = Est[i] + Cost[i + 1]
      BY <1>5, <2>3, EstNat
    <2>. QED  BY <2>2, <2>3, <2>4 DEF i
  <1>8. S = Nat
    <2>. HIDE DEF S
    <2>. QED  BY <1>6, <1>7, InductiveSet
  <1>9. \A i \in Items : Cost[i] \in Nat
    <2>1. TAKE i \in Items
    <2>2. N + 1 - i \in Nat /\ N + 1 - i <= N /\ N + 1 - (N + 1 - i) = i
      BY DEF Items
    <2>3. N + 1 - i \in S
      <3>. HIDE DEF S
      <3>. QED  BY <1>8, <2>2
    <2>. QED  BY <2>2, <2>3
  <1>. QED  BY <1>5, <1>9

(* Nothing has been charged at first. *)
LEMMA MoneyInit == Init => MInv
  <1>. SUFFICES ASSUME Init PROVE MInv
    OBVIOUS
  <1>. USE CallAssumption DEF Items
  <1>1. ASSUME NEW s \in Stages PROVE MoneyOf(s)
    <2>1. /\ spent[s] = 0 /\ served[s] = {} /\ result[s].file = "ABSENT"
          /\ \A i \in Items : posts[s][i] = 0 /\ bill[s][i] = 0
      BY <1>1 DEF Init
    <2>2. Ceiling(s) \in Nat /\ Overrun \in Nat
      BY CostArithmetic, PriceAssumption DEF Ceiling, ItemsOf, First
    <2>. QED  BY <2>1, <2>2 DEF MoneyOf, Charged, InDoubt, Bounded, Stated, Frozen, Open
  <1>2. ASSUME NEW p \in Procs PROVE PurseOf(p)
    BY DEF Init, PurseOf, Executing, Live
  <1>. QED  BY <1>1, <1>2 DEF MInv

(* The worst case of what remains, one request at a time. *)
LEMMA Reserves ==
    /\ \A i \in Items : /\ Cost[i] \in Nat /\ Cost[i + 1] \in Nat /\ Est[i] \in Nat
                        /\ Cost[i] = Est[i] + Cost[i + 1]
    /\ Cost[N + 1] = 0
    /\ \A s \in Stages : Ceiling(s) \in Nat /\ Ceiling(s) = Cost[First(s)]
    /\ Overrun \in Nat
  <1>. USE CallAssumption DEF Items
  <1>1. ASSUME NEW i \in Items
        PROVE  /\ Cost[i] \in Nat /\ Cost[i + 1] \in Nat /\ Est[i] \in Nat
               /\ Cost[i] = Est[i] + Cost[i + 1]
    <2>1. Est[i] \in Nat
      BY PriceAssumption DEF Est
    <2>2. CASE i = N
      <3>1. Cost[i + 1] = 0
        BY <2>2, CostArithmetic
      <3>2. Cost[i] \in Nat /\ Cost[i] = Est[i] + Cost[i + 1]
        BY CostArithmetic
      <3>. QED  BY <2>1, <3>1, <3>2
    <2>3. CASE i # N
      <3>1. i + 1 \in Items
        BY <2>3
      <3>. QED  BY <2>1, <3>1, CostArithmetic
    <2>. QED  BY <2>2, <2>3
  <1>2. \A s \in Stages : Ceiling(s) = Cost[First(s)] /\ First(s) \in Items
    BY DEF Ceiling, ItemsOf, First
  <1>3. \A s \in Stages : Ceiling(s) \in Nat
    BY <1>1, <1>2
  <1>. QED  BY <1>1, <1>2, <1>3, CostArithmetic, PriceAssumption

(* Steps that send and charge nothing disturb the money of an executor only *)
(* if they change what it counts.                                           *)
LEMMA StillReckons ==
    ASSUME NEW p \in Procs, Reckons(p), UNCHANGED <<bill, spent>>,
           stage'[p] = stage[p], total'[p] = total[p], item'[p] = item[p],
           At(p)' = "validate" => At(p) = "validate" /\ got'[p] = got[p],
           At(p)' = "post" => At(p) = "post"
    PROVE  Reckons(p)'
  BY DEF Reckons, Owed, Within

(* A step of p is none of another invocation's. *)
LEMMA OthersKeep ==
    ASSUME TypeOK, NEW p \in Procs, Step(p) \/ Crash(p)
    PROVE  /\ UNCHANGED <<stage, served, bill, spent>>
           /\ \A q \in Procs \ {p} :
                 /\ pc'[q] = pc[q] /\ then'[q] = then[q] /\ item'[q] = item[q]
                 /\ total'[q] = total[q] /\ got'[q] = got[q]
  <1>1. /\ DOMAIN pc = Procs /\ DOMAIN then = Procs /\ DOMAIN item = Procs
        /\ DOMAIN total = Procs /\ DOMAIN got = Procs
    BY DEF TypeOK
  <1>. USE <1>1 DEF Goto, Store, files, made, memory, remote
  <1>2. CASE Crash(p)
    BY <1>2 DEF Crash
  <1>3. CASE CreateLedger(p) \/ TruncateLedger(p) \/ WriteLedger(p)
    BY <1>3 DEF CreateLedger, TruncateLedger, WriteLedger
  <1>4. CASE Announce(p) \/ Post(p) \/ LoseAnswer(p) \/ Unserializable(p)
    BY <1>4 DEF Announce, Post, LoseAnswer, Unserializable
  <1>5. CASE Respond(p) \/ OpenCapture(p) \/ SealCapture(p) \/ Reject(p)
    BY <1>5 DEF Respond, OpenCapture, SealCapture, Reject
  <1>6. CASE Accept(p)
    BY <1>6 DEF Accept
  <1>7. CASE OpenResult(p) \/ SealResult(p)
    BY <1>7 DEF OpenResult, SealResult
  <1>. QED  BY <1>2, <1>3, <1>4, <1>5, <1>6, <1>7 DEF Step

(* So what remains of a step of p that sends nothing is what p counts and   *)
(* what its pass states.                                                    *)
LEMMA OwnMoney ==
    ASSUME IInv, MInv, NEW p \in Procs, Step(p) \/ Crash(p), posts' = posts,
           pc'[p] # "create", Executing(p)' => Reckons(p)',
           \A s \in Stages : Stated(s)'
    PROVE  MInv'
  <1>1. /\ UNCHANGED <<stage, served, bill, spent>>
        /\ \A q \in Procs \ {p} :
              /\ pc'[q] = pc[q] /\ then'[q] = then[q] /\ item'[q] = item[q]
              /\ total'[q] = total[q] /\ got'[q] = got[q]
    BY OthersKeep DEF IInv
  <1>2. ASSUME NEW s \in Stages PROVE MoneyOf(s)'
    <2>1. MoneyOf(s)
      BY DEF MInv
    <2>2. Charged(s)' /\ InDoubt(s)' /\ Bounded(s)'
      BY <1>1, <2>1 DEF MoneyOf, Charged, InDoubt, Bounded, Open, Within
    <2>. QED  BY <2>2 DEF MoneyOf
  <1>3. ASSUME NEW q \in Procs PROVE PurseOf(q)'
    <2>1. CASE q = p
      BY <2>1 DEF PurseOf
    <2>2. CASE q # p
      <3>1. PurseOf(q) /\ At(q)' = At(q) /\ Executing(q)' = Executing(q)
        BY <1>1, <2>2 DEF MInv, At, Executing
      <3>2. ASSUME Executing(q) PROVE Reckons(q)'
        BY <1>1, <2>2, <3>1, <3>2, StillReckons DEF PurseOf
      <3>. QED  BY <1>1, <2>2, <3>1, <3>2 DEF PurseOf
    <2>. QED  BY <2>1, <2>2
  <1>. QED  BY <1>2, <1>3 DEF MInv

(* What is stated stays true when no result is changed. *)
LEMMA StillStated ==
    ASSUME MInv, UNCHANGED <<result, posts, served, spent>>
    PROVE  \A s \in Stages : Stated(s)'
  BY DEF MInv, MoneyOf, Stated, Frozen, Open

(* The ledger is created before anything is sent or charged. *)
LEMMA MoneyCreates ==
    ASSUME IInv, MInv, NEW p \in Procs, CreateLedger(p)
    PROVE  MInv'
  <1>. DEFINE s == stage[p]
  <1>1. TypeOK /\ s \in Stages /\ StageInv(s) /\ MoneyOf(s) /\ PurseOf(p) /\ Starts(p)
    BY DEF IInv, MInv, TypeOK
  <1>2. /\ pc[p] = "create" /\ pc'[p] \in {"write", "done"}
        /\ UNCHANGED <<result, posts, served, bill, spent, stage, total, item, got, then>>
    BY <1>1 DEF CreateLedger, Goto, TypeOK, made, memory, remote
  <1>3. ASSUME Executing(p)' PROVE Reckons(p)'
    <2>1. pc'[p] = "write" /\ ledger[s].file = "ABSENT"
      BY <1>1, <1>2, <1>3 DEF CreateLedger, Goto, TypeOK, Executing, Live
    <2>2. then[p] = "loop" /\ item[p] = First(s) /\ total[p] = 0 /\ First(s) \in Items
      BY <1>1, <1>2, CallAssumption DEF Starts, PurseOf, First, Items
    <2>3. At(p)' = "loop"
      BY <1>2, <2>1, <2>2 DEF At
    <2>4. \A i \in Items : posts[s][i] = 0
      BY <1>1, <2>1 DEF StageInv, Untouched
    <2>5. 1 \in Items /\ 2..N \subseteq Items
      BY CallAssumption DEF Items
    <2>6. \A i \in Items : bill[s][i] = 0
      BY <1>1, <2>4 DEF MoneyOf, Charged
    <2>7. spent[s] = 0
      BY <1>1, <2>4, <2>5, <2>6 DEF MoneyOf, Charged
    <2>8. Owed(p)' = 0
      BY <1>2, <2>2, <2>6 DEF Owed
    <2>9. Ceiling(s) = Cost[item[p]] /\ Ceiling(s) \in Nat
      BY <1>1, <2>2, Reserves
    <2>. QED  BY <1>2, <2>2, <2>3, <2>7, <2>8, <2>9 DEF Reckons
  <1>. QED  BY <1>2, <1>3, OwnMoney, StillStated DEF Step

(* Steps between one count and the next: p counts what it counted. *)
LEMMA MoneyKept ==
    ASSUME IInv, MInv, NEW p \in Procs, Step(p) \/ Crash(p), posts' = posts,
           \A s \in Stages : Stated(s)',
           pc'[p] # "create",
           Executing(p)' =>
               /\ Executing(p) /\ total'[p] = total[p] /\ item'[p] = item[p]
               /\ At(p)' = "validate" =>
                     got'[p] = got[p] /\ (At(p) = "validate" \/ At(p) = "captureOpen")
               /\ At(p)' = "post" =>
                     \/ At(p) = "post"
                     \/ stage[p] # "resume" => total[p] + Cost[item[p]] <= Ceiling(stage[p])
    PROVE  MInv'
  <1>1. CASE Executing(p)'
    <2>1. Reckons(p)
      BY <1>1 DEF MInv, PurseOf
    <2>2. UNCHANGED <<stage, bill, spent>>
      BY OthersKeep DEF IInv
    <2>3. At(p) = "captureOpen" => got[p] = bill[stage[p]][item[p]]
      BY <1>1, OwnPass DEF Current
    <2>. QED  BY <1>1, <2>1, <2>2, <2>3, OwnMoney DEF Reckons, Owed, Within
  <1>2. CASE ~Executing(p)'
    BY <1>2, OwnMoney
  <1>. QED  BY <1>1, <1>2

(* The steps of an executor that neither send, nor count, nor freeze. *)
LEMMA MoneyUnmoved ==
    ASSUME IInv, MInv, NEW p \in Procs,
           \/ TruncateLedger(p) \/ WriteLedger(p) \/ Announce(p) \/ LoseAnswer(p)
           \/ Unserializable(p) \/ Respond(p) \/ OpenCapture(p) \/ SealCapture(p)
           \/ Reject(p) \/ Crash(p)
    PROVE  MInv'
  <1>. USE DEF Goto, Store, files, made, memory, remote
  <1>1. /\ TypeOK /\ then[p] \in {"loop", "post", "validate", "result", "done"}
        /\ p \in DOMAIN pc /\ p \in DOMAIN then /\ p \in DOMAIN got
    BY DEF IInv, TypeOK
  <1>2. CASE TruncateLedger(p)
    <2>1. /\ Step(p) /\ UNCHANGED <<result, posts, served, spent, total, item, got, then>>
          /\ pc[p] = "truncate" /\ pc'[p] = "write"
      BY <1>1, <1>2 DEF TruncateLedger, Step
    <2>2. Executing(p) /\ At(p)' = At(p)
      BY <2>1 DEF At, Executing, Live
    <2>. QED  BY <2>1, <2>2, MoneyKept, StillStated
  <1>3. CASE WriteLedger(p)
    <2>1. /\ Step(p) /\ UNCHANGED <<result, posts, served, spent, total, item, got, then>>
          /\ pc[p] = "write" /\ pc'[p] = then[p]
      BY <1>1, <1>3 DEF WriteLedger, Step
    <2>2. Executing(p) /\ At(p)' = At(p) /\ pc'[p] # "create"
      BY <1>1, <2>1 DEF At, Executing, Live
    <2>. QED  BY <2>1, <2>2, MoneyKept, StillStated
  <1>4. CASE Announce(p)
    <2>1. /\ Step(p) /\ UNCHANGED <<result, posts, served, spent, total, item, got>>
          /\ pc[p] = "loop"
          /\ \/ pc'[p] = "truncate" /\ then'[p] = "post" /\ Funded(p)
             \/ pc'[p] = "done"
      BY <1>1, <1>4 DEF Announce, Step
    <2>2. Executing(p) /\ pc'[p] # "create"
      BY <2>1 DEF Executing, Live
    <2>3. Executing(p)' => At(p)' = "post" /\ Funded(p)
      BY <2>1 DEF At, Executing, Live
    <2>. QED  BY <2>1, <2>2, <2>3, MoneyKept, StillStated DEF Funded
  <1>5. CASE LoseAnswer(p) \/ Reject(p)
    <2>1. /\ Step(p) /\ UNCHANGED <<result, posts, served, spent, total, item, got>>
          /\ pc[p] \in {"waiting", "validate"} /\ pc'[p] = "truncate" /\ then'[p] = "done"
      BY <1>1, <1>5 DEF LoseAnswer, Reject, Step
    <2>2. Executing(p) /\ At(p)' = "done"
      BY <2>1 DEF At, Executing, Live
    <2>. QED  BY <2>1, <2>2, MoneyKept, StillStated
  <1>6. CASE Respond(p)
    <2>1. /\ Step(p) /\ UNCHANGED <<result, posts, served, spent, total, item>>
          /\ pc[p] = "waiting" /\ pc'[p] = "capture"
      BY <1>1, <1>6 DEF Respond, Step
    <2>2. Executing(p) /\ At(p)' = "capture"
      BY <2>1 DEF At, Executing, Live
    <2>. QED  BY <2>1, <2>2, MoneyKept, StillStated
  <1>7. CASE OpenCapture(p)
    <2>1. /\ Step(p) /\ UNCHANGED <<result, posts, served, spent, total, item>>
          /\ pc[p] = "capture" /\ pc'[p] \in {"captureOpen", "done"}
      BY <1>1, <1>7 DEF OpenCapture, Step
    <2>2. Executing(p) /\ At(p)' \in {"captureOpen", "done"}
      BY <2>1 DEF At, Executing, Live
    <2>. QED  BY <2>1, <2>2, MoneyKept, StillStated
  <1>8. CASE SealCapture(p)
    <2>1. /\ Step(p) /\ UNCHANGED <<result, posts, served, spent, total, item, got>>
          /\ pc[p] = "captureOpen" /\ pc'[p] = "truncate" /\ then'[p] = "validate"
      BY <1>1, <1>8 DEF SealCapture, Step
    <2>2. Executing(p) /\ At(p)' = "validate" /\ At(p) = "captureOpen"
      BY <2>1 DEF At, Executing, Live
    <2>. QED  BY <2>1, <2>2, MoneyKept, StillStated
  <1>9. CASE Unserializable(p) \/ Crash(p)
    <2>1. /\ Step(p) \/ Crash(p)
          /\ UNCHANGED <<result, posts, served, spent>>
          /\ pc'[p] \in {"done", "dead"}
      BY <1>1, <1>9 DEF Unserializable, Crash, Step
    <2>2. ~Executing(p)'
      BY <2>1 DEF Executing, Live
    <2>. QED  BY <2>1, <2>2, MoneyKept, StillStated
  <1>. QED  BY <1>2, <1>3, <1>4, <1>5, <1>6, <1>7, <1>8, <1>9

(* A request of the pass other than the executor's own is settled. *)
LEMMA OthersSettled ==
    ASSUME IInv, MInv, NEW p \in Procs, Executing(p), NEW j \in Items, Open(stage[p], j)
    PROVE  j = item[p]
  <1>1. /\ stage[p] \in Stages /\ StageInv(stage[p]) /\ Around(p)
        /\ item[p] \in Nat /\ First(stage[p]) \in {1, 2}
    BY OwnPass
  <1>. USE CallAssumption DEF Items
  <1>2. posts[stage[p]][j] \in Nat /\ posts[stage[p]][j] > 0 /\ j \notin served[stage[p]]
    BY <1>1 DEF IInv, TypeOK, Open
  <1>3. raw[stage[p]][j].file # "WRITTEN"
    BY <1>1, <1>2 DEF StageInv, CapturedAsServed
  <1>. QED  BY <1>1, <1>2, <1>3 DEF Around

(* A request is sent only when the one before is charged, and while its own *)
(* estimate is reserved.                                                    *)
LEMMA MoneyPosts ==
    ASSUME IInv, MInv, NEW p \in Procs, Post(p)
    PROVE  MInv'
  <1>. USE CallAssumption
  <1>. DEFINE s == stage[p]
              i == item[p]
  <1>1. Executing(p) /\ pc[p] = "post" /\ At(p) = "post"
    BY DEF Post, Executing, Live, At
  <1>2. /\ TypeOK /\ s \in Stages /\ MoneyOf(s) /\ Reckons(p) /\ Around(p) /\ Current(p)
        /\ OwnFiles(p) /\ i \in 1..(N + 1) /\ total[p] \in Nat
    BY <1>1, OwnPass DEF IInv, MInv, PurseOf
  <1>3. i \in Items /\ posts[s][i] = 0
    BY <1>1, <1>2 DEF Around, Current, Items
  <1>4. /\ pc'[p] = "waiting" /\ posts' = [posts EXCEPT ![s] = [posts[s] EXCEPT ![i] = @ + 1]]
        /\ UNCHANGED <<result, served, bill, spent, stage, total, item, got, then>>
        /\ \A q \in Procs \ {p} : pc'[q] = pc[q]
    BY <1>2 DEF Post, Goto, TypeOK, files, memory
  <1>5. posts[s] \in [Items -> Nat] /\ posts \in [Stages -> [Items -> Nat]]
    BY <1>2 DEF TypeOK
  <1>6. /\ posts'[s][i] = 1 /\ \A j \in Items : j # i => posts'[s][j] = posts[s][j]
        /\ \A t \in Stages : t # s => posts'[t] = posts[t]
    BY <1>2, <1>3, <1>4, <1>5
  <1>7. i \notin served[s] /\ bill[s][i] = 0
    BY <1>2, <1>3 DEF MoneyOf, Charged
  <1>8. spent[s] = total[p]
    BY <1>2, <1>3, <1>7 DEF Reckons, Owed
  <1>9. ASSUME NEW j \in Items, Open(s, j)' PROVE j = i
    <2>1. j # i => Open(s, j)
      BY <1>4, <1>6, <1>9 DEF Open
    <2>. QED  BY <1>1, <2>1, OthersSettled
  <1>10. ASSUME s # "resume" \/ Within(s) PROVE spent[s] + Est[i] <= Ceiling(s)
    <2>1. /\ Cost[i] = Est[i] + Cost[i + 1] /\ Cost[i + 1] \in Nat
          /\ Est[i] \in Nat /\ Ceiling(s) \in Nat
      BY <1>2, <1>3, Reserves
    <2>2. total[p] + Cost[i] <= Ceiling(s)
      BY <1>1, <1>2, <1>10 DEF Reckons
    <2>. QED  BY <1>2, <1>8, <2>1, <2>2
  <1>11. MoneyOf(s)'
    <2>1. Charged(s)'
      <3>1. \A j \in Items : j \in served[s] => posts'[s][j] > 0
        BY <1>2, <1>6, <1>7 DEF MoneyOf, Charged
      <3>2. (\A j \in 2..N : posts'[s][j] = 0) => \A j \in 2..N : posts[s][j] = 0
        BY <1>3, <1>6 DEF Items
      <3>. QED  BY <1>2, <1>4, <3>1, <3>2 DEF MoneyOf, Charged
    <2>2. InDoubt(s)'
      <3>1. Within(s)' = Within(s) /\ Ceiling(s)' = Ceiling(s)
        BY <1>4 DEF Within, Ceiling, ItemsOf
      <3>2. \A j, k \in Items : Open(s, j)' /\ Open(s, k)' => j = k
        BY <1>9
      <3>. QED  BY <1>4, <1>9, <1>10, <3>1, <3>2 DEF InDoubt
    <2>3. Bounded(s)'
      BY <1>2, <1>4 DEF MoneyOf, Bounded, Within
    <2>4. Stated(s)'
      BY <1>1, <1>2, <1>4 DEF OwnFiles, Stated, Frozen
    <2>. QED  BY <2>1, <2>2, <2>3, <2>4, <1>4 DEF MoneyOf
  <1>12. ASSUME NEW t \in Stages PROVE MoneyOf(t)'
    <2>1. CASE t # s
      <3>1. posts'[t] = posts[t] /\ MoneyOf(t)
        BY <1>6, <2>1 DEF MInv
      <3>. QED  BY <1>4, <3>1 DEF MoneyOf, Charged, InDoubt, Bounded, Stated, Frozen, Open, Within
    <2>. QED  BY <1>4, <1>11, <2>1
  <1>13. ASSUME NEW q \in Procs PROVE PurseOf(q)'
    <2>1. PurseOf(q)
      BY DEF MInv
    <2>2. CASE q = p
      <3>1. At(p)' = "waiting" /\ pc'[p] # "create"
        BY <1>4 DEF At
      <3>. QED  BY <1>2, <1>4, <2>2, <3>1, StillReckons DEF PurseOf
    <2>3. CASE q # p
      <3>1. pc'[q] = pc[q] /\ At(q)' = At(q) /\ Executing(q)' = Executing(q)
        BY <1>4, <2>3 DEF At, Executing
      <3>. QED  BY <1>4, <2>1, <3>1, StillReckons DEF PurseOf
    <2>. QED  BY <2>2, <2>3
  <1>. QED  BY <1>12, <1>13 DEF MInv

(* An accepted answer moves what was charged for it into the total. *)
LEMMA MoneyAccepts ==
    ASSUME IInv, MInv, NEW p \in Procs, Accept(p)
    PROVE  MInv'
  <1>. USE CallAssumption
  <1>. DEFINE s == stage[p]
              i == item[p]
  <1>1. Executing(p) /\ pc[p] = "validate" /\ At(p) = "validate"
    BY DEF Accept, Executing, Live, At
  <1>2. /\ TypeOK /\ s \in Stages /\ MoneyOf(s) /\ Reckons(p) /\ Around(p)
        /\ i \in 1..(N + 1) /\ total[p] \in Nat /\ got[p] \in Nat
    BY <1>1, OwnPass DEF IInv, MInv, PurseOf
  <1>3. i \in Items /\ i \in Nat
    BY <1>1, <1>2 DEF Around, Items
  <1>4. /\ total'[p] = total[p] + got[p]
        /\ UNCHANGED <<result, posts, served, bill, spent, stage>>
        /\ \/ pc'[p] = "truncate" /\ then'[p] \in {"result", "loop"} /\ item'[p] = i + 1
           \/ pc'[p] = "done"
    BY <1>2, <1>3 DEF Accept, Store, Goto, TypeOK, files, remote
  <1>5. ASSUME Executing(p)' PROVE Reckons(p)'
    <2>1. item'[p] = i + 1 /\ At(p)' \in {"result", "loop"}
      BY <1>4, <1>5 DEF Executing, Live, At
    <2>2. spent[s] = total'[p] /\ got[p] = bill[s][i]
      BY <1>1, <1>2, <1>3, <1>4 DEF Reckons, Owed
    <2>3. Owed(p)' = 0
      <3>1. CASE i + 1 \in Items
        <4>1. posts[s][i + 1] = 0
          BY <1>2, <1>3, <3>1 DEF Around
        <4>2. bill[s][i + 1] = 0
          BY <1>2, <3>1, <4>1 DEF MoneyOf, Charged
        <4>. QED  BY <1>4, <2>1, <4>2 DEF Owed
      <3>2. CASE i + 1 \notin Items
        BY <2>1, <3>2 DEF Owed
      <3>. QED  BY <3>1, <3>2
    <2>4. Within(s) => total'[p] + Cost[i + 1] <= Ceiling(s)
      <3>1. /\ Cost[i] = Est[i] + Cost[i + 1] /\ Cost[i + 1] \in Nat
            /\ Est[i] \in Nat /\ Ceiling(s) \in Nat
        BY <1>2, <1>3, Reserves
      <3>2. Within(s) => total[p] + Cost[i] <= Ceiling(s) /\ got[p] <= Est[i]
        BY <1>2, <1>3, <2>2 DEF Reckons, Within
      <3>. QED  BY <1>2, <1>4, <3>1, <3>2
    <2>5. spent'[s] = total'[p] + 0
      BY <1>2, <1>4, <2>2
    <2>. QED  BY <1>4, <2>1, <2>3, <2>4, <2>5 DEF Reckons, Within
  <1>. QED  BY <1>4, <1>5, OwnMoney, StillStated DEF Step

(* The result states the total, which is all that was charged. *)
LEMMA MoneyResult ==
    ASSUME IInv, MInv, NEW p \in Procs, OpenResult(p) \/ SealResult(p)
    PROVE  MInv'
  <1>. USE CallAssumption
  <1>. DEFINE s == stage[p]
  <1>1. TypeOK /\ s \in Stages /\ \A t \in Stages : Stated(t)
    BY DEF IInv, MInv, MoneyOf, TypeOK
  <1>2. CASE OpenResult(p)
    <2>1. /\ Step(p) /\ UNCHANGED <<posts, served, spent, total, item, got, then>>
          /\ pc[p] = "result" /\ pc'[p] \in {"resultOpen", "done"}
          /\ result' = result \/ result' = [result EXCEPT ![s].file = "TORN"]
      BY <1>1, <1>2 DEF OpenResult, Goto, TypeOK, Step, memory, remote
    <2>2. Executing(p) /\ At(p)' \in {"resultOpen", "done"}
      BY <2>1 DEF At, Executing, Live
    <2>3. \A t \in Stages : Frozen(t)' => Frozen(t) /\ result'[t] = result[t]
      <3>1. result \in [Stages -> [file : FileState, cost : Nat, code : Commits \cup {None}]]
        BY <1>1 DEF TypeOK
      <3>2. [result EXCEPT ![s].file = "TORN"][s].file = "TORN"
        BY <1>1, <3>1
      <3>. QED  BY <1>1, <2>1, <3>1, <3>2 DEF Frozen
    <2>4. \A t \in Stages : Stated(t)'
      BY <1>1, <2>1, <2>3 DEF Stated, Open
    <2>. QED  BY <2>1, <2>2, <2>4, MoneyKept
  <1>3. CASE SealResult(p)
    <2>1. /\ Step(p) /\ UNCHANGED <<posts, served, spent>>
          /\ pc[p] = "resultOpen" /\ pc'[p] = "done"
          /\ result'[s].cost = total[p]
          /\ \A t \in Stages : t # s => result'[t] = result[t]
      BY <1>1, <1>3 DEF SealResult, Goto, TypeOK, Step, memory, remote
    <2>2. Executing(p) /\ At(p) = "resultOpen" /\ ~Executing(p)'
      BY <2>1 DEF At, Executing, Live
    <2>3. Reckons(p) /\ Around(p) /\ total[p] \in Nat
      BY <2>2, OwnPass DEF MInv, PurseOf
    <2>4. item[p] = N + 1 /\ item[p] \notin Items
      BY <2>2, <2>3 DEF Around, Items
    <2>5. result'[s].cost = spent[s]
      BY <2>1, <2>3, <2>4 DEF Reckons, Owed
    <2>6. \A j \in Items : ~Open(s, j)
      BY <2>2, <2>4, OthersSettled
    <2>7. ASSUME NEW t \in Stages PROVE Stated(t)'
      <3>1. CASE t = s
        BY <2>1, <2>5, <2>6, <3>1 DEF Stated, Open
      <3>2. CASE t # s
        BY <1>1, <2>1, <3>2 DEF Stated, Frozen, Open
      <3>. QED  BY <3>1, <3>2
    <2>. QED  BY <2>1, <2>2, <2>7, OwnMoney
  <1>. QED  BY <1>2, <1>3

(* The provider charges the one request in doubt, out of what its executor  *)
(* had reserved.                                                            *)
LEMMA MoneyServes ==
    ASSUME IInv, MInv, NEW s \in Stages, NEW i \in Items, NEW c \in Prices[i], Serve(s, i, c)
    PROVE  MInv'
  <1>. USE CallAssumption
  <1>1. TypeOK /\ MoneyOf(s) /\ Open(s, i)
    BY DEF IInv, MInv, Serve, Open
  <1>2. /\ served' = [served EXCEPT ![s] = @ \cup {i}]
        /\ bill' = [bill EXCEPT ![s] = [bill[s] EXCEPT ![i] = c]]
        /\ spent' = [spent EXCEPT ![s] = @ + c]
        /\ UNCHANGED <<result, posts, pc, then, stage, item, total, got>>
    BY DEF Serve, files, memory
  <1>3. /\ c \in Nat /\ c <= Est[i] + Overrun /\ Est[i] \in Nat /\ Overrun \in Nat
        /\ Ceiling(s) \in Nat /\ spent[s] \in Nat /\ bill[s] \in [Items -> Nat]
    BY <1>1, PriceAssumption, Reserves DEF TypeOK
  <1>4. /\ served'[s] = served[s] \cup {i} /\ spent'[s] = spent[s] + c
        /\ bill'[s][i] = c /\ \A j \in Items : j # i => bill'[s][j] = bill[s][j]
        /\ \A t \in Stages : t # s =>
              served'[t] = served[t] /\ bill'[t] = bill[t] /\ spent'[t] = spent[t]
    BY <1>1, <1>2, <1>3 DEF TypeOK
  <1>5. bill[s][i] = 0
    BY <1>1 DEF MoneyOf, Charged, Open
  <1>6. \A j \in Items : ~Open(s, j)'
    BY <1>1, <1>2, <1>4 DEF MoneyOf, InDoubt, Open
  <1>7. Within(s)' => Within(s) /\ c <= Est[i]
    <2>1. \A j \in Items : bill'[s][j] <= Est[j] => bill[s][j] <= Est[j]
      BY <1>3, <1>4, <1>5
    <2>. QED  BY <1>4, <2>1 DEF Within
  <1>8. MoneyOf(s)'
    <2>1. Charged(s)'
      <3>1. ASSUME \A j \in 2..N : posts[s][j] = 0 PROVE i = 1 /\ spent[s] = 0
        <4>1. i = 1
          BY <1>1, <3>1 DEF Open, Items
        <4>. QED  BY <1>1, <1>5, <3>1, <4>1 DEF MoneyOf, Charged
      <3>2. (\A j \in 2..N : posts'[s][j] = 0) => spent'[s] = bill'[s][1]
        BY <1>2, <1>3, <1>4, <3>1
      <3>3. \A j \in Items : /\ j \notin served'[s] => bill'[s][j] = 0
                             /\ j \in served'[s] => posts'[s][j] > 0
        BY <1>1, <1>2, <1>4 DEF MoneyOf, Charged, Open
      <3>. QED  BY <3>2, <3>3 DEF Charged
    <2>2. InDoubt(s)'
      BY <1>6 DEF InDoubt
    <2>3. Bounded(s)'
      <3>1. s # "resume" \/ Within(s) => spent[s] + Est[i] <= Ceiling(s)
        BY <1>1 DEF MoneyOf, InDoubt
      <3>2. s # "resume" => spent'[s] <= Ceiling(s) + Overrun
        BY <1>3, <1>4, <3>1
      <3>3. Within(s)' => spent'[s] <= Ceiling(s)
        BY <1>3, <1>4, <1>7, <3>1
      <3>4. Ceiling(s)' = Ceiling(s)
        BY DEF Ceiling, ItemsOf, First
      <3>. QED  BY <3>2, <3>3, <3>4 DEF Bounded
    <2>4. Stated(s)'
      BY <1>1, <1>2 DEF MoneyOf, Stated, Frozen
    <2>. QED  BY <2>1, <2>2, <2>3, <2>4 DEF MoneyOf
  <1>9. ASSUME NEW t \in Stages PROVE MoneyOf(t)'
    <2>1. CASE t # s
      <3>1. MoneyOf(t)
        BY DEF MInv
      <3>. QED  BY <1>2, <1>4, <2>1, <3>1
                DEF MoneyOf, Charged, InDoubt, Bounded, Stated, Frozen, Open, Within
    <2>. QED  BY <1>8, <2>1
  <1>10. ASSUME NEW q \in Procs PROVE PurseOf(q)'
    <2>1. PurseOf(q) /\ stage[q] \in Stages /\ total[q] \in Nat
      BY <1>1 DEF MInv, TypeOK
    <2>2. Executing(q)' = Executing(q) /\ At(q)' = At(q)
      BY <1>2 DEF Executing, At
    <2>3. ASSUME Executing(q) PROVE Reckons(q)'
      <3>1. Reckons(q) /\ Current(q) /\ StageInv(stage[q])
        BY <2>1, <2>3, OwnPass DEF PurseOf
      <3>2. CASE stage[q] = s
        <4>1. item[q] = i
          BY <1>1, <2>3, <3>2, OthersSettled
        <4>2. spent'[s] = total[q] + Owed(q)'
          BY <1>2, <1>3, <1>4, <1>5, <2>1, <3>1, <3>2, <4>1 DEF Reckons, Owed
        <4>3. At(q) # "validate" /\ At(q) # "post"
          <5>1. posts[s][i] # 0 /\ i \notin served[s]
            BY <1>1 DEF Open
          <5>. QED  BY <3>1, <3>2, <4>1, <5>1 DEF Current, StageInv, CapturedAsServed
        <4>. QED  BY <1>2, <1>7, <2>2, <3>1, <3>2, <4>2, <4>3 DEF Reckons
      <3>3. CASE stage[q] # s
        BY <1>2, <1>4, <2>1, <2>2, <3>1, <3>3 DEF Reckons, Owed, Within
      <3>. QED  BY <3>2, <3>3
    <2>. QED  BY <1>2, <2>1, <2>2, <2>3 DEF PurseOf
  <1>. QED  BY <1>9, <1>10 DEF MInv

(* An invocation starts with nothing spent. *)
LEMMA MoneyLaunches ==
    ASSUME IInv, MInv, NEW p \in Procs, NEW s \in Stages, Launch(p, s)
    PROVE  MInv'
  <1>1. /\ UNCHANGED <<result, posts, served, bill, spent>>
        /\ pc'[p] = "create" /\ total'[p] = 0
        /\ \A q \in Procs \ {p} :
              /\ pc'[q] = pc[q] /\ then'[q] = then[q] /\ item'[q] = item[q]
              /\ total'[q] = total[q] /\ got'[q] = got[q] /\ stage'[q] = stage[q]
    BY DEF IInv, TypeOK, Launch, Goto, files, remote
  <1>2. ASSUME NEW t \in Stages PROVE MoneyOf(t)'
    BY <1>1 DEF MInv, MoneyOf, Charged, InDoubt, Bounded, Stated, Frozen, Open, Within
  <1>3. ASSUME NEW q \in Procs PROVE PurseOf(q)'
    <2>1. CASE q = p
      BY <1>1, <2>1 DEF PurseOf, Executing
    <2>2. CASE q # p
      <3>1. PurseOf(q) /\ At(q)' = At(q) /\ Executing(q)' = Executing(q)
        BY <1>1, <2>2 DEF MInv, At, Executing
      <3>. QED  BY <1>1, <2>2, <3>1, StillReckons DEF PurseOf
    <2>. QED  BY <2>1, <2>2
  <1>. QED  BY <1>2, <1>3 DEF MInv

(* Steps between invocations neither send nor charge. *)
LEMMA MoneyAside ==
    ASSUME MInv, UNCHANGED <<result, pc, memory, remote>>
    PROVE  MInv'
  <1>. USE DEF memory, remote
  <1>1. ASSUME NEW t \in Stages PROVE MoneyOf(t)'
    BY DEF MInv, MoneyOf, Charged, InDoubt, Bounded, Stated, Frozen, Open, Within
  <1>2. ASSUME NEW q \in Procs PROVE PurseOf(q)'
    <2>1. PurseOf(q) /\ At(q)' = At(q) /\ Executing(q)' = Executing(q)
      BY DEF MInv, At, Executing
    <2>. QED  BY <2>1, StillReckons DEF PurseOf
  <1>. QED  BY <1>1, <1>2 DEF MInv

(* Every step keeps the money accounted for. *)
LEMMA MoneyNext == IInv /\ MInv /\ [Next]_vars => MInv'
  <1>. SUFFICES ASSUME IInv, MInv, [Next]_vars PROVE MInv'
    OBVIOUS
  <1>1. ASSUME NEW p \in Procs, NEW s \in Stages, Launch(p, s) PROVE MInv'
    BY <1>1, MoneyLaunches
  <1>2. ASSUME NEW p \in Procs, Step(p) PROVE MInv'
    BY <1>2, MoneyCreates, MoneyUnmoved, MoneyPosts, MoneyAccepts, MoneyResult DEF Step
  <1>3. ASSUME NEW p \in Procs, Crash(p) PROVE MInv'
    BY <1>3, MoneyUnmoved
  <1>4. ASSUME NEW s \in Stages, NEW i \in Items, NEW c \in Prices[i], Serve(s, i, c) PROVE MInv'
    BY <1>4, MoneyServes
  <1>5. CASE \/ \E c \in Commits : CheckOut(c)
             \/ FreezeRequests \/ DispatchPreflight \/ ForensicPreflight
             \/ \E s \in Stages : GetReady(s) \/ Approve(s)
             \/ Reconcile
    <2>1. UNCHANGED <<result, pc, memory, remote>>
      BY <1>5 DEF CheckOut, FreezeRequests, DispatchPreflight, ForensicPreflight, GetReady,
                  Approve, Reconcile, WriteReconciliation
    <2>. QED  BY <2>1, MoneyAside
  <1>6. CASE UNCHANGED vars
    BY <1>6, MoneyAside DEF vars, files
  <1>. QED  BY <1>1, <1>2, <1>3, <1>4, <1>5, <1>6 DEF Next

(* The money is accounted for in every reachable state. *)
THEOREM MoneyInductive == Spec => []MInv
  BY Inductive, MoneyInit, MoneyNext, PTL DEF Spec

(* A pass that reserves the remaining worst case before each request costs  *)
(* at most the overrun of one call more than its ceiling, wherever it is    *)
(* stopped and however often it is started; and while estimates hold, the   *)
(* lineage costs one pass and a first request, because a pass that is       *)
(* followed by another has been charged for its first request at most.      *)
THEOREM BoundsSpend == Spec => []SpendIsBounded
  <1>1. IInv /\ MInv => SpendIsBounded
    <2>. SUFFICES ASSUME IInv, MInv PROVE SpendIsBounded
      OBVIOUS
    <2>1. /\ TypeOK /\ PassesInOrder
          /\ \A s \in Stages : StageInv(s) /\ MoneyOf(s)
      BY DEF IInv, MInv
    <2>2. "initial" \in Stages /\ "recovery" \in Stages /\ "resume" \in Stages
      BY DEF Stages
    <2>3. 1 \in Items /\ 2..N \subseteq Items
      BY CallAssumption DEF Items
    <2>4. \A s \in Stages : spent[s] \in Nat /\ bill[s][1] \in Nat /\ Ceiling(s) \in Nat
      BY <2>1, <2>3, Reserves DEF TypeOK
    <2>5. \A s \in {"initial", "recovery"} : spent[s] <= Ceiling(s) + Overrun
      BY <2>1 DEF Stages, MoneyOf, Bounded
    <2>6. ASSUME \A s \in Stages, i \in Items : bill[s][i] <= Est[i]
          PROVE  spent["initial"] + spent["recovery"] + spent["resume"] <= Cost[1] + Est[1]
      <3>1. \A s \in Stages : spent[s] <= Ceiling(s)
        BY <2>1, <2>6 DEF MoneyOf, Bounded, Within
      <3>2. /\ Ceiling("initial") = Cost[1] /\ Ceiling("recovery") = Cost[1]
            /\ Ceiling("resume") = Cost[2]
        BY DEF Ceiling, ItemsOf, First, Items
      <3>3. Cost[1] = Est[1] + Cost[2] /\ Est[1] \in Nat /\ Cost[2] \in Nat
        <4>1. Cost[1] = Est[1] + Cost[1 + 1] /\ Est[1] \in Nat /\ Cost[1 + 1] \in Nat
          BY <2>3, Reserves
        <4>. QED  BY <4>1 DEF Items
      <3>4. ASSUME NEW s \in Stages, GivenUp(s) PROVE spent[s] <= Est[1]
        BY <2>1, <2>3, <2>6, <3>4 DEF GivenUp, MoneyOf, Charged
      <3>5. ASSUME NEW s \in Stages, ledger[s].file = "ABSENT" PROVE spent[s] = 0
        <4>1. \A i \in Items : posts[s][i] = 0
          BY <2>1, <3>5 DEF StageInv, Untouched
        <4>2. bill[s][1] = 0
          BY <2>1, <2>3, <4>1 DEF MoneyOf, Charged
        <4>. QED  BY <2>1, <2>3, <4>1, <4>2 DEF MoneyOf, Charged
      <3>6. CASE ledger["resume"].file # "ABSENT"
        <4>1. GivenUp("recovery") /\ GivenUp("initial")
          BY <2>1, <3>6 DEF PassesInOrder, Begun, GivenUp
        <4>2. spent["initial"] <= Est[1] /\ spent["recovery"] <= Est[1]
          BY <2>2, <3>4, <4>1
        <4>. QED  BY <2>2, <2>4, <3>1, <3>2, <3>3, <4>2
      <3>7. CASE ledger["resume"].file = "ABSENT" /\ ledger["recovery"].file # "ABSENT"
        <4>1. GivenUp("initial")
          BY <2>1, <3>7 DEF PassesInOrder, Begun
        <4>2. spent["initial"] <= Est[1] /\ spent["resume"] = 0
          BY <2>2, <3>4, <3>5, <3>7, <4>1
        <4>. QED  BY <2>2, <2>4, <3>1, <3>2, <3>3, <4>2
      <3>8. CASE ledger["resume"].file = "ABSENT" /\ ledger["recovery"].file = "ABSENT"
        <4>1. spent["recovery"] = 0 /\ spent["resume"] = 0
          BY <2>2, <3>5, <3>8
        <4>. QED  BY <2>2, <2>4, <3>1, <3>2, <3>3, <4>1
      <3>. QED  BY <3>6, <3>7, <3>8
    <2>. QED  BY <2>5, <2>6 DEF SpendIsBounded
  <1>. QED  BY <1>1, Inductive, MoneyInductive, PTL

(* A frozen council rests on an accepted and captured answer to every       *)
(* request (the first of the resumed pass in the pass before), costs no     *)
(* more than was approved and what the provider charged, was made by the    *)
(* approved code, and is the only one of its lineage.                       *)
THEOREM FreezesWhatIsBacked == Spec => []FrozenIsAccountedFor
  <1>1. IInv => FrozenIsBacked
    <2>. SUFFICES ASSUME IInv PROVE FrozenIsBacked
      OBVIOUS
    <2>1. TypeOK /\ PassesInOrder /\ \A s \in Stages : StageInv(s)
      BY DEF IInv
    <2>2. "initial" \in Stages /\ "recovery" \in Stages /\ "resume" \in Stages
      BY DEF Stages
    <2>3. \A s \in Stages : Frozen(s) => FrozenPass(s) /\ ledger[s].file = "WRITTEN"
      BY <2>1 DEF StageInv, FrozenPass
    <2>4. Frozen("recovery") \/ Frozen("resume") => ~Frozen("initial")
      BY <2>1, <2>2, <2>3 DEF PassesInOrder, Begun, GivenUp, Frozen
    <2>5. Frozen("resume") => ~Frozen("recovery") /\ raw["recovery"][1].file = "WRITTEN"
      BY <2>1, <2>2, <2>3 DEF PassesInOrder, Begun, GivenUp, Frozen
    <2>6. ASSUME NEW s \in Stages, Frozen(s)
          PROVE  /\ ledger[s].file = "WRITTEN"
                 /\ \A i \in ItemsOf(s) : /\ ledger[s].entries[i].state = "COMPLETED"
                                          /\ raw[s][i].file = "WRITTEN"
                 /\ result[s].cost <= Ceiling(s)
                 /\ ready[s].commit = result[s].code
      <3>1. FrozenPass(s)
        BY <2>3, <2>6
      <3>. QED  BY <2>6, <3>1 DEF FrozenPass, Entry
    <2>7. \A s, t \in Stages : Frozen(s) /\ Frozen(t) => s = t
      BY <2>4, <2>5 DEF Stages
    <2>. QED  BY <2>5, <2>6, <2>7 DEF FrozenIsBacked
  <1>2. FrozenIsBacked /\ MInv => FrozenIsAccountedFor
    BY DEF FrozenIsAccountedFor, MInv, MoneyOf, Stated
  <1>. QED  BY <1>1, <1>2, Inductive, MoneyInductive, PTL
=============================================================================
