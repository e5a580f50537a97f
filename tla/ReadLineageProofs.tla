------------------------- MODULE ReadLineageProofs -------------------------
(***************************************************************************)
(* Proofs about ReadLineage, for any number of invocations and of crashes. *)
(* That a read is announced and that a receipt has its response holds in   *)
(* whatever way invocations overlap: the sets on disk only grow, and what  *)
(* an invocation relies on is a membership in them.                        *)
(*                                                                         *)
(* The rest needs that invocations do not overlap, as a refused one writes *)
(* its result at the path of the one it lost to.  The argument is then     *)
(* that a written result closes its pass: nothing of it changes any more,  *)
(* so that what a reconciliation found remains true, and whatever happens  *)
(* in a pass happens after the passes before it were closed.               *)
(***************************************************************************)
EXTENDS ReadLineage, FiniteSetTheorems, TLAPS

Labels == {"idle", "done", "dead", "raised", "authorize", "authorizeOpen", "dispatch", "read", "snapshot",
           "snapshotEvent", "receipt", "judge", "fail", "result", "resultOpen", "except",
           "claim", "claimOpen"}
Working == {"dispatch", "read", "snapshot", "snapshotEvent", "receipt", "judge", "fail",
            "result", "resultOpen"}
Pages == Needs \X Nat
Journal == [attempts : SUBSET Reads, bound : BOOLEAN, snapshots : SUBSET Reads,
            receipts : SUBSET Reads, failures : SUBSET Needs]
Result == [file : {"ABSENT", "TORN", "WRITTEN"},
           status : {"NONE", "PARTIAL", "FAILED", "BLOCKED", "COMPLETE"},
           kept : SUBSET Pages, attempts : Nat]

Shape ==
    /\ auth \in [Passes -> {"ABSENT", "TORN", "WRITTEN"}]
    /\ journal \in [Passes -> Journal]
    /\ raw \in [Passes -> SUBSET Reads] /\ served \in [Passes -> SUBSET Reads]
    /\ result \in [Passes -> Result]
    /\ pc \in [Procs -> Labels] /\ pass \in [Procs -> Passes]
    /\ at \in [Procs -> Nat] /\ n \in [Procs -> Nat] /\ count \in [Procs -> Nat]
    /\ answer \in [Procs -> {"last", "bad", "refused", "lost", "more", "odd", "empty"}]
    /\ outs \in [Procs -> SUBSET Pages] /\ failed \in [Procs -> SUBSET Needs]

(* What is on disk of a pass: each set within the one that comes before it. *)
Announced(k) ==
    /\ served[k] # {} => auth[k] = "WRITTEN"
    /\ served[k] \subseteq journal[k].attempts
    /\ raw[k] \subseteq served[k] /\ journal[k].receipts \subseteq served[k]
    /\ journal[k].snapshots \subseteq raw[k]
    /\ IF k \in {3, 4} THEN journal[k].receipts \subseteq raw[k] ELSE raw[k] = {}
    /\ Cardinality(journal[k].attempts) <= Ceiling(k) /\ result[k].attempts <= Ceiling(k)

(* Where an invocation is, and what it may rely on there. *)
Place(p) == at[p] \in 1..Len(Bundles(pass[p])) /\ n[p] \in 0..MaxPages(pass[p], Need(p))
Current(p) == <<Need(p), n[p]>>
Knows(p) ==
    /\ Place(p) /\ count[p] <= Ceiling(pass[p])
    /\ pc[p] = "authorizeOpen" => n[p] = 0
    /\ pc[p] = "authorize" => n[p] = 0
    /\ pc[p] \in Working => auth[pass[p]] = "WRITTEN"
    /\ pc[p] = "dispatch" => n[p] < MaxPages(pass[p], Need(p))
    /\ pc[p] \in {"read", "snapshot", "snapshotEvent", "receipt", "judge"} => n[p] >= 1
    /\ pc[p] = "read" => Current(p) \in journal[pass[p]].attempts
    /\ pc[p] \in {"snapshot", "snapshotEvent", "receipt"} => Current(p) \in served[pass[p]]
    /\ pc[p] \in {"snapshot", "snapshotEvent"} => pass[p] \in {3, 4}
    /\ pc[p] = "snapshotEvent" => Current(p) \in raw[pass[p]]
    /\ pc[p] = "receipt" /\ pass[p] \in {3, 4} => Current(p) \in raw[pass[p]]

IInv ==
    /\ Shape
    /\ \A k \in Passes : Announced(k)
    /\ \A p \in Procs : Knows(p)
-----------------------------------------------------------------------------
(* The invocations do not overlap. *)
Alone == \A p, q \in Procs : pc[p] \notin Over /\ pc[q] \notin Over => p = q

(* What a pass was started from. *)
Prerequisite(k) ==
    /\ k = 2 => "continuation_preflight" \in artifacts
    /\ k = 3 => {"continuation_preflight", "reconciliation_2"} \subseteq artifacts
    /\ k = 4 => "repair_preflight" \in artifacts

(* A result is opened where there is none; a claimed one has been counted. *)
Holds(p) ==
    /\ pc[p] = "authorize" => ~Evidence(pass[p]) /\ Prerequisite(pass[p])
    /\ pc[p] = "authorizeOpen" => auth[pass[p]] = "TORN" /\ result[pass[p]].file = "ABSENT"
    /\ pc[p] \in Working =>
          result[pass[p]].file = IF pc[p] = "resultOpen" THEN "TORN" ELSE "ABSENT"
    /\ pc[p] = "claimOpen" => result[pass[p]].file = "TORN"
    /\ pc[p] \in {"claim", "claimOpen"} =>
          count[p] = Cardinality(journal[pass[p]].attempts)

Recorded(k) ==
    /\ auth[k] # "ABSENT" => Prerequisite(k)
    /\ result[k].file = "WRITTEN" => result[k].attempts = Cardinality(journal[k].attempts)
    /\ result[k].kept # {} => auth[k] = "WRITTEN" /\ result[k].file = "WRITTEN"

(* What a document was built from is still so. *)
Closed ==
    /\ {"scope", "local_replay"} \subseteq artifacts
    /\ StoppedInNvda /\ StoppedInPortfolio /\ RepairedPortfolio /\ Salvaged
Documented ==
    /\ "reconciliation_1" \in artifacts => StoppedInNvda /\ TwoReadsJournaled
    /\ "continuation_plan" \in artifacts => "reconciliation_1" \in artifacts
    /\ "continuation_preflight" \in artifacts => "continuation_plan" \in artifacts
    /\ "reconciliation_2" \in artifacts => StoppedInMsft
    /\ "reconciliation_3" \in artifacts =>
          auth[3] = "WRITTEN" /\ StoppedInPortfolio /\ SnapshotsComplete
    /\ "repair_preflight" \in artifacts => "reconciliation_3" \in artifacts
    /\ "closure" \in artifacts => Closed

SInv ==
    /\ Alone
    /\ \A p \in Procs : Holds(p)
    /\ \A k \in Passes : Recorded(k)
    /\ Documented
-----------------------------------------------------------------------------
(* The constants of the four passes. *)
LEMMA BundlesKnown ==
  ASSUME NEW k \in Passes
  PROVE  /\ Len(Bundles(k)) \in Nat \ {0}
         /\ \A i \in 1..Len(Bundles(k)) : Bundles(k)[i] \in Needs
         /\ k = 4 => \A i \in 1..Len(Bundles(k)) : Bundles(k)[i] \in {"PORTFOLIO", "MARKET", "NVDA"}
<1>1. CASE k = 1
  BY <1>1 DEF Bundles, ResidualBundles, Needs, News
<1>2. CASE k \in {2, 3}
  BY <1>2 DEF Bundles, ContinuationBundles, Needs, News
<1>3. CASE k = 4
  BY <1>3 DEF Bundles, RepairBundles, Needs, News
<1> QED
  BY <1>1, <1>2, <1>3 DEF Passes

(* Pages are counted from the first or the third, and up to four. *)
LEMMA PagesKnown ==
  ASSUME NEW k \in Passes, NEW need \in Needs
  PROVE  MaxPages(k, need) \in 1..4 /\ FirstPage(k, need) \in {1, 3}
BY DEF MaxPages, FirstPage

(* A ceiling is a number. *)
LEMMA CeilingKnown ==
  ASSUME NEW k \in Passes
  PROVE  Ceiling(k) \in Nat
BY DEF Ceiling, Passes

(* There are finitely many reads to journal; one more counts one more at   *)
(* most.                                                                   *)
LEMMA ReadsFinite ==
  /\ \A S \in SUBSET Reads : IsFiniteSet(S) /\ Cardinality(S) \in Nat
  /\ \A S \in SUBSET Reads : \A x : Cardinality(S \cup {x}) <= Cardinality(S) + 1
<1>1. IsFiniteSet(Needs)
  <2>1. IsFiniteSet({"NVDA"} \cup {"MSFT"} \cup {"META"}
                    \cup {"POSITIONS"} \cup {"PORTFOLIO"} \cup {"MARKET"})
    BY FS_Singleton, FS_Union
  <2> QED
    BY <2>1, Zenon DEF Needs, News
<1>2. IsFiniteSet(1..4)
  <2>1. IsFiniteSet({1} \cup {2} \cup {3} \cup {4})
    BY FS_Singleton, FS_Union
  <2>2. 1..4 = {1} \cup {2} \cup {3} \cup {4}
    OBVIOUS
  <2> QED
    BY <2>1, <2>2, Zenon
<1>3. IsFiniteSet(Reads)
  BY <1>1, <1>2, FS_Product DEF Reads
<1>4. \A S \in SUBSET Reads : IsFiniteSet(S) /\ Cardinality(S) \in Nat
  BY <1>3, FS_Subset, FS_CardinalityType
<1> QED
  BY <1>4, FS_AddElement

(* What an invocation reads now, or next, is a read of its pass. *)
LEMMA CurrentIsARead ==
  ASSUME Shape, NEW p \in Procs, Place(p)
  PROVE  /\ Need(p) \in Needs
         /\ n[p] \in Nat /\ n[p] + 1 \in Nat
         /\ pass[p] \in Passes
         /\ n[p] < MaxPages(pass[p], Need(p)) => <<Need(p), n[p] + 1>> \in Reads
         /\ n[p] >= 1 => Current(p) \in Reads
<1>1. pass[p] \in Passes /\ n[p] \in Nat
  BY DEF Shape
<1>2. Need(p) \in Needs
  BY <1>1, BundlesKnown DEF Place, Need
<1>3. MaxPages(pass[p], Need(p)) \in 1..4
  BY <1>1, <1>2, PagesKnown
<1> QED
  BY <1>1, <1>2, <1>3 DEF Place, Current, Reads
-----------------------------------------------------------------------------
(* What is on disk grows, so that whatever an invocation relies on remains. *)
Grows ==
    \A k \in Passes :
        /\ auth[k] = "WRITTEN" => auth'[k] = "WRITTEN"
        /\ journal[k].attempts \subseteq journal'[k].attempts
        /\ served[k] \subseteq served'[k]
        /\ raw[k] \subseteq raw'[k]

OthersWait(p) ==
    \A q \in Procs \ {p} :
        /\ pc'[q] = pc[q] /\ pass'[q] = pass[q] /\ at'[q] = at[q] /\ n'[q] = n[q]
        /\ count'[q] = count[q]

(* What another invocation relies on is not taken from it. *)
LEMMA OthersKnow ==
  ASSUME IInv, NEW p \in Procs, Grows, OthersWait(p), NEW q \in Procs, q # p
  PROVE  Knows(q)'
<1>1. Knows(q) /\ pass[q] \in Passes
  BY DEF IInv, Shape
<1>2. /\ pc'[q] = pc[q] /\ pass'[q] = pass[q] /\ at'[q] = at[q] /\ n'[q] = n[q]
      /\ count'[q] = count[q]
  BY DEF OthersWait
<1>3. /\ auth[pass[q]] = "WRITTEN" => auth'[pass[q]] = "WRITTEN"
      /\ journal[pass[q]].attempts \subseteq journal'[pass[q]].attempts
      /\ served[pass[q]] \subseteq served'[pass[q]]
      /\ raw[pass[q]] \subseteq raw'[pass[q]]
  BY <1>1 DEF Grows
<1>4. Need(q)' = Need(q)
  BY <1>2 DEF Need
<1>5. Current(q)' = Current(q)
  BY <1>2, <1>4 DEF Current
<1>6. Place(q)'
  BY <1>1, <1>2, <1>4 DEF Knows, Place
<1> QED
  BY <1>1, <1>2, <1>3, <1>4, <1>5, <1>6 DEF Knows

(* So a step of one invocation has to answer for that one, and for the     *)
(* disk.                                                                   *)
LEMMA StepKeeps ==
  ASSUME IInv, NEW p \in Procs, Grows, OthersWait(p), Shape', Knows(p)',
         \A k \in Passes : Announced(k)'
  PROVE  IInv'
<1>1. \A q \in Procs : Knows(q)'
  BY OthersKnow
<1> QED
  BY <1>1 DEF IInv

(* The disk is left alone. *)
LEMMA DiskKept ==
  ASSUME IInv, UNCHANGED <<auth, journal, raw, served, result>>
  PROVE  Grows /\ \A k \in Passes : Announced(k)'
BY DEF IInv, Grows, Announced

(* An invocation goes elsewhere, and nothing else changes. *)
LEMMA GoesOn ==
  ASSUME NEW p, NEW label \in Labels, Shape, Goto(p, label)
  PROVE  pc' \in [Procs -> Labels] /\ \A q \in Procs : pc'[q] = IF q = p THEN label ELSE pc[q]
BY DEF Goto, Shape

(* ... so that it remains where it is within its pass. *)
LEMMA OtherLabels ==
  ASSUME NEW p \in Procs, IInv, NEW label \in Labels, Goto(p, label),
         UNCHANGED <<pass, at, n, count>>
  PROVE  /\ OthersWait(p) /\ pc'[p] = label
         /\ Place(p)' /\ Need(p)' = Need(p) /\ Current(p)' = Current(p)
<1>1. Shape /\ Knows(p)
  BY DEF IInv
<1>2. \A q \in Procs : pc'[q] = IF q = p THEN label ELSE pc[q]
  BY <1>1, GoesOn
<1>3. Need(p)' = Need(p)
  BY DEF Need
<1> QED
  BY <1>1, <1>2, <1>3 DEF OthersWait, Place, Current, Knows
-----------------------------------------------------------------------------
(* Nothing is on disk at first. *)
LEMMA InitHolds ==
  ASSUME Init
  PROVE  IInv
<1>1. Cardinality({}) = 0
  BY FS_EmptySet
<1>2. Shape
  BY DEF Init, Shape, NoEvent, NoResult, Journal, Result, Labels, Passes
<1>3. ASSUME NEW k \in Passes
      PROVE  Announced(k)
  <2>1. /\ served[k] = {} /\ raw[k] = {}
        /\ journal[k] = NoEvent /\ result[k] = NoResult
    BY DEF Init
  <2>2. /\ journal[k].attempts = {} /\ journal[k].receipts = {} /\ journal[k].snapshots = {}
        /\ result[k].attempts = 0
    BY <2>1 DEF NoEvent, NoResult
  <2>3. Ceiling(k) \in Nat
    BY CeilingKnown
  <2> QED
    BY <1>1, <2>1, <2>2, <2>3 DEF Announced
<1>4. ASSUME NEW p \in Procs
      PROVE  Knows(p)
  <2>1. pass[p] = 1 /\ at[p] = 1 /\ n[p] = 0 /\ pc[p] = "idle" /\ count[p] = 0
    BY DEF Init
  <2>2. 1 \in Passes
    BY DEF Passes
  <2>3. Need(p) \in Needs
    BY <2>1, <2>2, BundlesKnown DEF Need
  <2>4. Place(p)
    BY <2>1, <2>2, <2>3, BundlesKnown, PagesKnown DEF Place
  <2> QED
    BY <2>1, <2>2, <2>4, CeilingKnown DEF Knows, Working
<1> QED
  BY <1>2, <1>3, <1>4 DEF IInv

(* The zero-call documents are apart from the reads. *)
LEMMA PublishKeeps ==
  ASSUME IInv, NEW x, Publish(x)
  PROVE  IInv'
<1>1. Shape'
  BY DEF IInv, Publish, Shape, locals
<1>2. \A k \in Passes : Announced(k)'
  BY DEF IInv, Publish, Announced, locals
<1>3. ASSUME NEW p \in Procs
      PROVE  Knows(p)'
  <2>1. Need(p)' = Need(p)
    BY DEF Publish, Need, locals
  <2> QED
    BY <2>1 DEF IInv, Publish, Knows, Place, Current, locals
<1> QED
  BY <1>1, <1>2, <1>3 DEF IInv

(* Launch, LaunchRefused: an invocation starts at the first bundle of its  *)
(* pass.                                                                   *)
LEMMA EnterKeeps ==
  ASSUME IInv, NEW p \in Procs, NEW k \in Passes, NEW label \in {"authorize", "except"},
         Enter(p, k, label)
  PROVE  IInv'
<1> USE DEF Enter
<1>0. Shape /\ label \in Labels
  BY DEF IInv, Labels
<1>1. Shape'
  BY <1>0 DEF Shape, Goto
<1>2. Grows /\ \A j \in Passes : Announced(j)'
  BY DiskKept
<1>3. OthersWait(p)
  BY <1>0 DEF OthersWait, Goto, Shape
<1>4. /\ pc'[p] = label /\ pass'[p] = k /\ at'[p] = 1 /\ n'[p] = 0 /\ count'[p] = 0
  BY <1>0 DEF Shape, Goto
<1>5. Need(p)' = Bundles(k)[1] /\ Bundles(k)[1] \in Needs
  BY <1>4, BundlesKnown DEF Need
<1>6. Place(p)'
  BY <1>4, <1>5, BundlesKnown, PagesKnown DEF Place
<1>7. Knows(p)'
  BY <1>4, <1>6, CeilingKnown DEF Knows, Working
<1> QED
  BY <1>1, <1>2, <1>3, <1>7, StepKeeps

(* OpenAuthorization: where there is one, it stays. *)
LEMMA OpenAuthorizationKeeps ==
  ASSUME IInv, NEW p \in Procs, OpenAuthorization(p)
  PROVE  IInv'
<1> USE DEF OpenAuthorization, locals
<1>0. Shape /\ Knows(p) /\ pass[p] \in Passes
  BY DEF IInv, Shape
<1>1. PICK label \in {"authorizeOpen", "except"} : Goto(p, label)
  OBVIOUS
<1>2. label \in Labels
  BY DEF Labels
<1>3. OthersWait(p) /\ pc'[p] = label /\ Place(p)' /\ Need(p)' = Need(p)
  BY <1>1, <1>2, OtherLabels
<1>4. Shape'
  BY <1>0, <1>1, <1>2, GoesOn DEF Shape
<1>5. \A k \in Passes : auth[k] = "WRITTEN" => auth'[k] = "WRITTEN"
  BY <1>0 DEF Shape
<1>6. Grows
  BY <1>5 DEF Grows
<1>7. \A k \in Passes : Announced(k)'
  BY <1>5 DEF IInv, Announced
<1>8. Knows(p)'
  BY <1>0, <1>3 DEF Knows, Working
<1> QED
  BY <1>3, <1>4, <1>6, <1>7, <1>8, StepKeeps

(* SealAuthorization: only then does an invocation dispatch. *)
LEMMA SealAuthorizationKeeps ==
  ASSUME IInv, NEW p \in Procs, SealAuthorization(p)
  PROVE  IInv'
<1> USE DEF SealAuthorization, locals
<1>0. Shape /\ Knows(p) /\ pass[p] \in Passes
  BY DEF IInv, Shape
<1>1. "dispatch" \in Labels
  BY DEF Labels
<1>2. OthersWait(p) /\ pc'[p] = "dispatch" /\ Place(p)' /\ Need(p)' = Need(p)
  BY <1>1, OtherLabels
<1>3. Shape'
  BY <1>0, <1>1, GoesOn DEF Shape
<1>4. auth'[pass[p]] = "WRITTEN" /\ \A k \in Passes : auth[k] = "WRITTEN" => auth'[k] = "WRITTEN"
  BY <1>0 DEF Shape
<1>5. Grows
  BY <1>4 DEF Grows
<1>6. \A k \in Passes : Announced(k)'
  BY <1>4 DEF IInv, Announced
<1>7. Need(p) \in Needs
  BY <1>0, CurrentIsARead DEF Knows
<1>8. Knows(p)'
  BY <1>0, <1>2, <1>4, <1>7, PagesKnown DEF Knows, Working
<1> QED
  BY <1>2, <1>3, <1>5, <1>6, <1>8, StepKeeps

(* BindMarket: the journal gets the final request of the market read. *)
LEMMA BindMarketKeeps ==
  ASSUME IInv, NEW p \in Procs, BindMarket(p)
  PROVE  IInv'
<1> USE DEF BindMarket, locals
<1>0. Shape /\ Knows(p) /\ pass[p] \in Passes
  BY DEF IInv, Shape
<1>1. journal[pass[p]] \in Journal
  BY <1>0 DEF Shape
<1>2. journal' \in [Passes -> Journal]
  BY <1>0, <1>1 DEF Shape, Journal
<1>3. \A k \in Passes : /\ journal'[k].attempts = journal[k].attempts
                        /\ journal'[k].receipts = journal[k].receipts
                        /\ journal'[k].snapshots = journal[k].snapshots
  BY <1>0, <1>1 DEF Shape, Journal
<1>4. Shape'
  BY <1>0, <1>2 DEF Shape
<1>5. Grows
  BY <1>3 DEF Grows
<1>6. \A k \in Passes : Announced(k)'
  BY <1>3 DEF IInv, Announced
<1>7. OthersWait(p)
  BY DEF OthersWait
<1>8. Need(p)' = Need(p)
  BY DEF Need
<1>9. Knows(p)'
  BY <1>0, <1>3, <1>8 DEF Knows, Place, Current
<1> QED
  BY <1>4, <1>5, <1>6, <1>7, <1>9, StepKeeps
-----------------------------------------------------------------------------
(* The steps of a read. *)
LEMMA DispatchKeeps ==
  ASSUME IInv, NEW p \in Procs, Dispatch(p)
  PROVE  IInv'
<1> USE DEF Dispatch
<1> DEFINE k == pass[p]
           r == <<Need(p), n[p] + 1>>
<1>0. Shape /\ Knows(p) /\ pass[p] \in Passes
  BY DEF IInv, Shape
<1>1. "read" \in Labels /\ pc[p] \in Working
  BY DEF Labels, Working
<1>2. n[p] < MaxPages(k, Need(p)) /\ r \in Reads /\ Need(p) \in Needs /\ n[p] \in Nat
  BY <1>0, CurrentIsARead DEF Knows
<1>3. journal[k] \in Journal /\ IsFiniteSet(journal[k].attempts)
      /\ Cardinality(journal[k].attempts) \in Nat
  BY <1>0, ReadsFinite DEF Shape, Journal
<1>4. /\ journal' \in [Passes -> Journal]
      /\ journal'[k].attempts = journal[k].attempts \cup {r}
      /\ \A j \in Passes : /\ journal[j].attempts \subseteq journal'[j].attempts
                           /\ journal'[j].receipts = journal[j].receipts
                           /\ journal'[j].snapshots = journal[j].snapshots
                           /\ j # k => journal'[j] = journal[j]
  BY <1>0, <1>2, <1>3 DEF Shape, Journal, Record
<1>5. pc' \in [Procs -> Labels] /\ \A q \in Procs : pc'[q] = IF q = p THEN "read" ELSE pc[q]
  BY <1>0, <1>1, GoesOn
<1>6. n' \in [Procs -> Nat] /\ \A q \in Procs : n'[q] = IF q = p THEN n[p] + 1 ELSE n[q]
  BY <1>0 DEF Shape
<1>7. Shape'
  BY <1>0, <1>4, <1>5, <1>6 DEF Shape
<1>8. Grows
  BY <1>4 DEF Grows
<1>9. Cardinality(journal'[k].attempts) <= Ceiling(k)
  <2>1. Cardinality(journal[k].attempts \cup {r}) <= Cardinality(journal[k].attempts) + 1
    BY <1>3, ReadsFinite DEF Journal
  <2>2. Cardinality(journal[k].attempts \cup {r}) \in Nat
    BY <1>2, <1>3, ReadsFinite DEF Journal
  <2> QED
    BY <1>0, <1>3, <1>4, <2>1, <2>2, CeilingKnown
<1>10. \A j \in Passes : Announced(j)'
  BY <1>0, <1>4, <1>9 DEF IInv, Announced
<1>11. OthersWait(p)
  BY <1>5, <1>6 DEF OthersWait
<1>12. Need(p)' = Need(p)
  BY DEF Need
<1>13. Place(p)'
  BY <1>0, <1>2, <1>6, <1>12, PagesKnown DEF Knows, Place
<1>14. Current(p)' = r
  BY <1>6, <1>12 DEF Current
<1>15. Knows(p)'
  BY <1>0, <1>1, <1>2, <1>4, <1>5, <1>6, <1>13, <1>14 DEF Knows, Working
<1> QED
  BY <1>7, <1>8, <1>10, <1>11, <1>15, StepKeeps

(* Read: the provider serves what was journaled. *)
LEMMA ReadKeeps ==
  ASSUME IInv, NEW p \in Procs, NEW a, Read(p, a)
  PROVE  IInv'
<1> USE DEF Read
<1> DEFINE k == pass[p]
<1>0. Shape /\ Knows(p) /\ pass[p] \in Passes /\ Announced(pass[p])
  BY DEF IInv, Shape
<1>1. /\ After(k, a) \in {"fail", "receipt", "snapshot"}
      /\ After(k, a) = "snapshot" => k \in {3, 4}
      /\ After(k, a) = "receipt" => k \in {1, 2}
  BY <1>0 DEF After, AfterHashing, AfterWire, AfterRepair, Passes
<1>2. After(k, a) \in Labels
  BY <1>1 DEF Labels
<1>3. /\ OthersWait(p) /\ pc'[p] = After(k, a)
      /\ Place(p)' /\ Need(p)' = Need(p) /\ Current(p)' = Current(p)
  BY <1>2, OtherLabels
<1>4. Current(p) \in Reads /\ Current(p) \in journal[k].attempts /\ auth[k] = "WRITTEN"
  BY <1>0, CurrentIsARead DEF Knows, Working
<1>5. /\ served' \in [Passes -> SUBSET Reads]
      /\ served'[k] = served[k] \cup {Current(p)}
      /\ \A j \in Passes : served[j] \subseteq served'[j] /\ (j # k => served'[j] = served[j])
  BY <1>0, <1>4 DEF Shape, Current
<1>6. a \in {"last", "bad", "refused", "lost", "more", "odd", "empty"}
  BY DEF Answers
<1>7. Shape'
  BY <1>0, <1>2, <1>5, <1>6, GoesOn DEF Shape
<1>8. Grows
  BY <1>5 DEF Grows
<1>9. \A j \in Passes : Announced(j)'
  BY <1>4, <1>5 DEF IInv, Announced
<1>10. Knows(p)'
  BY <1>0, <1>1, <1>3, <1>4, <1>5 DEF Knows, Working
<1> QED
  BY <1>3, <1>7, <1>8, <1>9, <1>10, StepKeeps

(* Snapshot: what is saved was served. *)
LEMMA SnapshotKeeps ==
  ASSUME IInv, NEW p \in Procs, Snapshot(p)
  PROVE  IInv'
<1> USE DEF Snapshot, locals
<1> DEFINE k == pass[p]
<1>0. Shape /\ Knows(p) /\ pass[p] \in Passes
  BY DEF IInv, Shape
<1>1. "snapshotEvent" \in Labels
  BY DEF Labels
<1>2. /\ OthersWait(p) /\ pc'[p] = "snapshotEvent"
      /\ Place(p)' /\ Need(p)' = Need(p) /\ Current(p)' = Current(p)
  BY <1>1, OtherLabels
<1>3. /\ Current(p) \in Reads /\ Current(p) \in served[k]
      /\ k \in {3, 4} /\ auth[k] = "WRITTEN" /\ n[p] >= 1
  BY <1>0, CurrentIsARead DEF Knows, Working
<1>4. /\ raw' \in [Passes -> SUBSET Reads]
      /\ raw'[k] = raw[k] \cup {Current(p)}
      /\ \A j \in Passes : raw[j] \subseteq raw'[j] /\ (j # k => raw'[j] = raw[j])
  BY <1>0, <1>3 DEF Shape, Current
<1>5. Shape'
  BY <1>0, <1>1, <1>4, GoesOn DEF Shape
<1>6. Grows
  BY <1>4 DEF Grows
<1>7. \A j \in Passes : Announced(j)'
  BY <1>3, <1>4 DEF IInv, Announced
<1>8. Knows(p)'
  BY <1>0, <1>2, <1>3, <1>4 DEF Knows, Working
<1> QED
  BY <1>2, <1>5, <1>6, <1>7, <1>8, StepKeeps

(* SnapshotEvent: what the journal says is saved is saved. *)
LEMMA SnapshotEventKeeps ==
  ASSUME IInv, NEW p \in Procs, SnapshotEvent(p)
  PROVE  IInv'
<1> USE DEF SnapshotEvent, locals
<1> DEFINE k == pass[p]
           label == IF answer[p] = "refused" THEN "fail" ELSE "receipt"
<1>0. Shape /\ Knows(p) /\ pass[p] \in Passes
  BY DEF IInv, Shape
<1>1. label \in Labels /\ label \in {"fail", "receipt"}
  BY DEF Labels
<1>2. /\ OthersWait(p) /\ pc'[p] = label
      /\ Place(p)' /\ Need(p)' = Need(p) /\ Current(p)' = Current(p)
  BY <1>1, OtherLabels
<1>3. /\ Current(p) \in Reads /\ Current(p) \in served[k] /\ Current(p) \in raw[k]
      /\ k \in {3, 4} /\ auth[k] = "WRITTEN" /\ n[p] >= 1
  BY <1>0, CurrentIsARead DEF Knows, Working
<1>4. journal[k] \in Journal
  BY <1>0 DEF Shape
<1>5. /\ journal' \in [Passes -> Journal]
      /\ journal'[k].snapshots = journal[k].snapshots \cup {Current(p)}
      /\ \A j \in Passes : /\ journal[j].attempts = journal'[j].attempts
                           /\ journal'[j].receipts = journal[j].receipts
                           /\ j # k => journal'[j] = journal[j]
  BY <1>0, <1>3, <1>4 DEF Shape, Journal, Record, Current
<1>6. Shape'
  BY <1>0, <1>1, <1>5, GoesOn DEF Shape
<1>7. Grows
  BY <1>5 DEF Grows
<1>8. \A j \in Passes : Announced(j)'
  BY <1>3, <1>5 DEF IInv, Announced
<1>9. Knows(p)'
  BY <1>0, <1>1, <1>2, <1>3 DEF Knows, Working
<1> QED
  BY <1>2, <1>6, <1>7, <1>8, <1>9, StepKeeps

(* Receipt: what it acknowledges was served, and saved from the third pass *)
(* on.                                                                     *)
LEMMA ReceiptKeeps ==
  ASSUME IInv, NEW p \in Procs, Receipt(p)
  PROVE  IInv'
<1> USE DEF Receipt, locals
<1> DEFINE k == pass[p]
<1>0. Shape /\ Knows(p) /\ pass[p] \in Passes
  BY DEF IInv, Shape
<1>1. "judge" \in Labels
  BY DEF Labels
<1>2. /\ OthersWait(p) /\ pc'[p] = "judge"
      /\ Place(p)' /\ Need(p)' = Need(p) /\ Current(p)' = Current(p)
  BY <1>1, OtherLabels
<1>3. /\ Current(p) \in Reads /\ Current(p) \in served[k] /\ (k \in {3, 4} => Current(p) \in raw[k])
      /\ auth[k] = "WRITTEN" /\ n[p] >= 1
  BY <1>0, CurrentIsARead DEF Knows, Working
<1>4. journal[k] \in Journal
  BY <1>0 DEF Shape
<1>5. /\ journal' \in [Passes -> Journal]
      /\ journal'[k].receipts = journal[k].receipts \cup {Current(p)}
      /\ \A j \in Passes : /\ journal[j].attempts = journal'[j].attempts
                           /\ journal'[j].snapshots = journal[j].snapshots
                           /\ j # k => journal'[j] = journal[j]
  BY <1>0, <1>3, <1>4 DEF Shape, Journal, Record, Current
<1>6. Shape'
  BY <1>0, <1>1, <1>5, GoesOn DEF Shape
<1>7. Grows
  BY <1>5 DEF Grows
<1>8. \A j \in Passes : Announced(j)'
  BY <1>3, <1>5 DEF IInv, Announced
<1>9. Knows(p)'
  BY <1>0, <1>2, <1>3 DEF Knows, Working
<1> QED
  BY <1>2, <1>6, <1>7, <1>8, <1>9, StepKeeps
-----------------------------------------------------------------------------
(* An invocation goes to its next bundle, or to its result. *)
LEMMA NextBundleKnown ==
  ASSUME IInv, NEW p \in Procs, UNCHANGED <<pass, count>>,
         \/ NextBundle(p) /\ at[p] < Len(Bundles(pass[p]))
         \/ Finish(p)
  PROVE  /\ OthersWait(p) /\ Place(p)' /\ pc'[p] \in {"dispatch", "result"}
         /\ pc'[p] = "dispatch" => n'[p] < MaxPages(pass'[p], Need(p)')
         /\ pc' \in [Procs -> Labels] /\ at' \in [Procs -> Nat] /\ n' \in [Procs -> Nat]
<1>0. Shape /\ Knows(p) /\ pass[p] \in Passes
  BY DEF IInv, Shape
<1>1. "dispatch" \in Labels /\ "result" \in Labels
  BY DEF Labels
<1>2. CASE NextBundle(p) /\ at[p] < Len(Bundles(pass[p]))
  <2>1. /\ pc' \in [Procs -> Labels] /\ at' \in [Procs -> Nat] /\ n' \in [Procs -> Nat]
        /\ pc'[p] = "dispatch" /\ at'[p] = at[p] + 1 /\ n'[p] = 0
        /\ OthersWait(p)
    BY <1>0, <1>1, <1>2 DEF NextBundle, Goto, Shape, OthersWait
  <2>2. Len(Bundles(pass[p])) \in Nat /\ at[p] \in Nat
    BY <1>0, BundlesKnown DEF Shape
  <2>3. at'[p] \in 1..Len(Bundles(pass[p]))
    BY <1>0, <1>2, <2>1, <2>2 DEF Knows, Place
  <2>4. Need(p)' \in Needs
    BY <1>0, <2>3, BundlesKnown DEF Need
  <2>5. MaxPages(pass[p], Need(p)') \in 1..4
    BY <1>0, <2>4, PagesKnown
  <2> QED
    BY <2>1, <2>3, <2>5 DEF Place
<1>3. CASE Finish(p)
  <2>1. /\ pc' \in [Procs -> Labels] /\ pc'[p] = "result" /\ OthersWait(p)
    BY <1>0, <1>1, <1>3 DEF Finish, Goto, Shape, OthersWait
  <2>2. Need(p)' = Need(p)
    BY <1>3 DEF Finish, Need
  <2> QED
    BY <1>0, <1>3, <2>1, <2>2 DEF Finish, Knows, Place, Shape
<1> QED
  BY <1>2, <1>3

(* What a bundle puts out are pages. *)
LEMMA PagesReadAreRead ==
  ASSUME Shape, NEW p \in Procs, Place(p)
  PROVE  PagesRead(p) \subseteq Pages
<1>1. pass[p] \in Passes /\ Need(p) \in Needs /\ n[p] \in Nat
  BY CurrentIsARead DEF Shape
<1>2. FirstPage(pass[p], Need(p)) \in {1, 3}
  BY <1>1, PagesKnown
<1>3. \A i \in 1..n[p] : FirstPage(pass[p], Need(p)) + i - 1 \in Nat
  BY <1>1, <1>2
<1> QED
  BY <1>1, <1>3 DEF PagesRead, Page, Pages

(* Judge: another page within the bound, the next bundle, or the result. *)
LEMMA JudgeKeeps ==
  ASSUME IInv, NEW p \in Procs, Judge(p)
  PROVE  IInv'
<1> USE DEF Judge
<1>0. Shape /\ Knows(p) /\ pass[p] \in Passes /\ auth[pass[p]] = "WRITTEN"
  BY DEF IInv, Shape, Knows, Working
<1>1. Grows /\ \A k \in Passes : Announced(k)'
  BY DiskKept
<1>2. CASE /\ n[p] < MaxPages(pass[p], Need(p))
           /\ Goto(p, "dispatch") /\ UNCHANGED <<outs, at, n>>
  <2>1. "dispatch" \in Labels
    BY DEF Labels
  <2>2. OthersWait(p) /\ pc'[p] = "dispatch" /\ Place(p)' /\ Need(p)' = Need(p)
    BY <1>2, <2>1, OtherLabels
  <2>3. Shape'
    BY <1>0, <1>2, <2>1, GoesOn DEF Shape
  <2>4. Knows(p)'
    BY <1>0, <1>2, <2>2 DEF Knows, Working
  <2> QED
    BY <1>1, <2>2, <2>3, <2>4, StepKeeps
<1>3. CASE CompleteBundle(p)
  <2>1. \/ NextBundle(p) /\ at[p] < Len(Bundles(pass[p]))
        \/ Finish(p)
    BY <1>3 DEF CompleteBundle
  <2>2. /\ OthersWait(p) /\ Place(p)' /\ pc'[p] \in {"dispatch", "result"}
        /\ pc'[p] = "dispatch" => n'[p] < MaxPages(pass'[p], Need(p)')
        /\ pc' \in [Procs -> Labels] /\ at' \in [Procs -> Nat] /\ n' \in [Procs -> Nat]
    BY <2>1, NextBundleKnown
  <2>3. PagesRead(p) \subseteq Pages
    BY <1>0, PagesReadAreRead DEF Knows
  <2>4. outs' \in [Procs -> SUBSET Pages]
    BY <1>0, <1>3, <2>3 DEF Shape, CompleteBundle
  <2>5. Shape'
    BY <1>0, <2>2, <2>4 DEF Shape
  <2>6. Knows(p)'
    BY <1>0, <2>2 DEF Knows, Working
  <2> QED
    BY <1>1, <2>2, <2>5, <2>6, StepKeeps
<1> QED
  BY <1>2, <1>3

(* A step that only moves the label of an invocation, in ways of no promise. *)
LEMMA MoveKeeps ==
  ASSUME IInv, NEW p \in Procs, NEW label \in {"dead", "raised", "fail", "except", "done"},
         label = "fail" => pc[p] \in Working,
         Goto(p, label), UNCHANGED <<auth, journal, raw, served, result, locals>>
  PROVE  IInv'
<1> USE DEF locals
<1>0. Shape /\ Knows(p) /\ pass[p] \in Passes
  BY DEF IInv, Shape
<1>1. label \in Labels
  BY DEF Labels
<1>2. Grows /\ \A k \in Passes : Announced(k)'
  BY DiskKept
<1>3. OthersWait(p) /\ pc'[p] = label /\ Place(p)' /\ Need(p)' = Need(p)
  BY <1>1, OtherLabels
<1>4. Shape'
  BY <1>0, <1>1, GoesOn DEF Shape
<1>5. Knows(p)'
  BY <1>0, <1>3 DEF Knows, Working
<1> QED
  BY <1>2, <1>3, <1>4, <1>5, StepKeeps

(* Fail: the bundle is recorded as failed, except by the first pass. *)
LEMMA FailKeeps ==
  ASSUME IInv, NEW p \in Procs, Fail(p)
  PROVE  IInv'
<1> USE DEF Fail
<1> DEFINE k == pass[p]
<1>0. Shape /\ Knows(p) /\ pass[p] \in Passes /\ auth[pass[p]] = "WRITTEN"
  BY DEF IInv, Shape, Knows, Working
<1>1. Need(p) \in Needs
  BY <1>0, CurrentIsARead DEF Knows
<1>2. failed' \in [Procs -> SUBSET Needs]
  BY <1>0, <1>1 DEF Shape
<1>3. CASE FailResidual(p)
  <2>1. "except" \in Labels
    BY DEF Labels
  <2>2. Grows /\ \A j \in Passes : Announced(j)'
    BY <1>3, DiskKept DEF FailResidual
  <2>3. OthersWait(p) /\ pc'[p] = "except" /\ Place(p)' /\ Need(p)' = Need(p)
    BY <1>3, <2>1, OtherLabels DEF FailResidual
  <2>4. Shape'
    BY <1>0, <1>2, <1>3, <2>1, GoesOn DEF Shape, FailResidual
  <2>5. Knows(p)'
    BY <1>0, <1>3, <2>3 DEF Knows, Working, FailResidual
  <2> QED
    BY <2>2, <2>3, <2>4, <2>5, StepKeeps
<1>4. CASE FailContinuation(p) \/ FailRepair(p)
  <2>1. \/ NextBundle(p) /\ at[p] < Len(Bundles(pass[p]))
        \/ Finish(p)
    BY <1>4 DEF FailContinuation, FailRepair
  <2>2. /\ OthersWait(p) /\ Place(p)' /\ pc'[p] \in {"dispatch", "result"}
        /\ pc'[p] = "dispatch" => n'[p] < MaxPages(pass'[p], Need(p)')
        /\ pc' \in [Procs -> Labels] /\ at' \in [Procs -> Nat] /\ n' \in [Procs -> Nat]
    BY <2>1, NextBundleKnown
  <2>3. Record(p, "failures", Need(p))
    BY <1>4 DEF FailContinuation, FailRepair
  <2>4. journal[k] \in Journal
    BY <1>0 DEF Shape
  <2>5. /\ journal' \in [Passes -> Journal]
        /\ \A j \in Passes : /\ journal[j].attempts = journal'[j].attempts
                             /\ journal'[j].snapshots = journal[j].snapshots
                             /\ journal'[j].receipts = journal[j].receipts
    BY <1>0, <1>1, <2>3, <2>4 DEF Shape, Journal, Record
  <2>6. Shape'
    BY <1>0, <1>2, <2>2, <2>5 DEF Shape
  <2>7. Grows
    BY <2>5 DEF Grows
  <2>8. \A j \in Passes : Announced(j)'
    BY <2>5 DEF IInv, Announced
  <2>9. Knows(p)'
    BY <1>0, <2>2 DEF Knows, Working
  <2> QED
    BY <2>2, <2>6, <2>7, <2>8, <2>9, StepKeeps
<1> QED
  BY <1>3, <1>4
-----------------------------------------------------------------------------
(* The results. *)
LEMMA ResultKeeps ==
  ASSUME IInv, NEW p \in Procs, NEW label \in Labels \ {"dispatch", "authorize", "authorizeOpen"},
         label \in Working => pc[p] \in Working /\ label = "resultOpen",
         Goto(p, label), UNCHANGED <<auth, journal, raw, served, pass, at, n, answer, outs, failed>>,
         result' \in [Passes -> Result],
         \A k \in Passes : result'[k].attempts <= Ceiling(k),
         count' \in [Procs -> Nat], count'[p] <= Ceiling(pass[p]),
         \A q \in Procs \ {p} : count'[q] = count[q]
  PROVE  IInv'
<1>0. Shape /\ Knows(p) /\ pass[p] \in Passes
  BY DEF IInv, Shape
<1>1. pc' \in [Procs -> Labels] /\ \A q \in Procs : pc'[q] = IF q = p THEN label ELSE pc[q]
  BY <1>0, GoesOn
<1>2. Need(p)' = Need(p)
  BY DEF Need
<1>3. Shape'
  BY <1>0, <1>1 DEF Shape
<1>4. Grows /\ OthersWait(p)
  BY <1>1 DEF Grows, OthersWait
<1>5. \A k \in Passes : Announced(k)'
  BY DEF IInv, Announced
<1>6. Knows(p)'
  BY <1>0, <1>1, <1>2 DEF Knows, Place, Working
<1> QED
  BY <1>3, <1>4, <1>5, <1>6, StepKeeps

(* A file is opened: nothing of what it says is changed. *)
LEMMA TornResult ==
  ASSUME IInv, NEW k \in Passes, result' = [result EXCEPT ![k].file = "TORN"]
  PROVE  /\ result' \in [Passes -> Result]
         /\ \A j \in Passes : result'[j].attempts <= Ceiling(j)
<1>1. result[k] \in Result /\ result \in [Passes -> Result]
  BY DEF IInv, Shape
<1>2. \A j \in Passes : result'[j] \in Result /\ result'[j].attempts = result[j].attempts
  BY <1>1 DEF Result
<1>3. result' \in [Passes -> Result]
  BY <1>1, <1>2
<1> QED
  BY <1>2, <1>3 DEF IInv, Announced

(* A file is sealed with what counts no more than the ceiling. *)
LEMMA SealedResult ==
  ASSUME IInv, NEW k \in Passes, NEW r \in Result, r.attempts <= Ceiling(k),
         result' = [result EXCEPT ![k] = r]
  PROVE  /\ result' \in [Passes -> Result]
         /\ \A j \in Passes : result'[j].attempts <= Ceiling(j)
BY DEF IInv, Shape, Announced

(* The result of an invocation, or one it claims. *)
LEMMA ResultStepKeeps ==
  ASSUME IInv, NEW p \in Procs,
         OpenResult(p) \/ SealResult(p) \/ ClaimResult(p) \/ SealClaim(p)
  PROVE  IInv'
<1> USE DEF locals
<1> DEFINE k == pass[p]
<1>0. /\ Shape /\ Knows(p) /\ k \in Passes /\ count \in [Procs -> Nat] /\ count[p] <= Ceiling(k)
      /\ result \in [Passes -> Result] /\ \A j \in Passes : result[j].attempts <= Ceiling(j)
  BY DEF IInv, Shape, Knows, Announced
<1>1. {"resultOpen", "except", "done", "claimOpen"} \subseteq Labels \ {"dispatch", "authorize", "authorizeOpen"}
  BY DEF Labels
<1>2. "resultOpen" \in Working /\ {"except", "done", "claimOpen"} \cap Working = {}
  BY DEF Working
<1>3. CASE OpenResult(p)
  <2> USE DEF OpenResult
  <2>1. pc[p] \in Working
    BY <1>3 DEF Working
  <2>2. CASE result[k].file = "ABSENT"
    <3>1. result' = [result EXCEPT ![k].file = "TORN"]
      BY <1>3, <2>2
    <3>2. /\ result' \in [Passes -> Result]
          /\ \A j \in Passes : result'[j].attempts <= Ceiling(j)
      BY <1>0, <3>1, TornResult
    <3> QED
      BY <1>0, <1>1, <1>2, <1>3, <2>1, <2>2, <3>2, ResultKeeps
  <2>3. CASE result[k].file # "ABSENT"
    BY <1>0, <1>1, <1>2, <1>3, <2>3, ResultKeeps
  <2> QED
    BY <2>2, <2>3
<1>4. CASE SealResult(p)
  <2> USE DEF SealResult
  <2> DEFINE r == [file |-> "WRITTEN", status |-> Status(p), kept |-> outs[p],
                   attempts |-> Cardinality(journal[k].attempts)]
  <2>1. /\ Cardinality(journal[k].attempts) \in Nat
        /\ Cardinality(journal[k].attempts) <= Ceiling(k)
    BY <1>0, ReadsFinite DEF IInv, Announced, Shape, Journal
  <2>2. r \in Result
    BY <1>0, <2>1 DEF Result, Status, Shape
  <2>3. r.attempts <= Ceiling(k)
    BY <2>1
  <2> HIDE DEF r
  <2>4. result' = [result EXCEPT ![k] = r]
    BY <1>4 DEF r
  <2>5. /\ result' \in [Passes -> Result]
        /\ \A j \in Passes : result'[j].attempts <= Ceiling(j)
    BY <1>0, <2>2, <2>3, <2>4, SealedResult
  <2> QED
    BY <1>0, <1>1, <1>2, <1>4, <2>5, ResultKeeps
<1>5. CASE ClaimResult(p)
  <2> USE DEF ClaimResult
  <2>2. CASE result[k].file = "ABSENT"
    <3>1. result' = [result EXCEPT ![k].file = "TORN"]
      BY <1>5, <2>2
    <3>2. /\ result' \in [Passes -> Result]
          /\ \A j \in Passes : result'[j].attempts <= Ceiling(j)
      BY <1>0, <3>1, TornResult
    <3> QED
      BY <1>0, <1>1, <1>2, <1>5, <2>2, <3>2, ResultKeeps
  <2>3. CASE result[k].file # "ABSENT"
    BY <1>0, <1>1, <1>2, <1>5, <2>3, ResultKeeps
  <2> QED
    BY <2>2, <2>3
<1>6. CASE SealClaim(p)
  <2> USE DEF SealClaim
  <2> DEFINE r == [file |-> "WRITTEN", status |-> "BLOCKED", kept |-> {}, attempts |-> count[p]]
  <2>1. r \in Result /\ r.attempts <= Ceiling(k)
    BY <1>0 DEF Result
  <2> HIDE DEF r
  <2>2. result' = [result EXCEPT ![k] = r]
    BY <1>6 DEF r
  <2>3. /\ result' \in [Passes -> Result]
        /\ \A j \in Passes : result'[j].attempts <= Ceiling(j)
    BY <1>0, <2>1, <2>2, SealedResult
  <2> QED
    BY <1>0, <1>1, <1>2, <1>6, <2>3, ResultKeeps
<1> QED
  BY <1>3, <1>4, <1>5, <1>6

(* CountAttempts: no more than the ceiling. *)
LEMMA CountAttemptsKeeps ==
  ASSUME IInv, NEW p \in Procs, CountAttempts(p)
  PROVE  IInv'
<1> USE DEF CountAttempts
<1> DEFINE k == pass[p]
           label == IF pass[p] = 4 THEN "done" ELSE "claim"
<1>0. /\ k \in Passes /\ count \in [Procs -> Nat] /\ result \in [Passes -> Result]
      /\ \A j \in Passes : result[j].attempts <= Ceiling(j)
  BY DEF IInv, Shape, Announced
<1>1. /\ Cardinality(journal[k].attempts) \in Nat
      /\ Cardinality(journal[k].attempts) <= Ceiling(k)
  BY <1>0, ReadsFinite DEF IInv, Announced, Shape, Journal
<1>2. label \in Labels \ {"dispatch", "authorize", "authorizeOpen"} /\ label \notin Working
  BY DEF Labels, Working
<1>3. /\ count' \in [Procs -> Nat] /\ count'[p] <= Ceiling(k)
      /\ \A q \in Procs \ {p} : count'[q] = count[q]
  BY <1>0, <1>1
<1> HIDE DEF label
<1>4. Goto(p, label)
  BY DEF label
<1> QED
  BY <1>0, <1>2, <1>3, <1>4, ResultKeeps

-----------------------------------------------------------------------------
(* Every step keeps the invariant. *)
LEMMA DocumentPublishes ==
  ASSUME Document
  PROVE  \E x : Publish(x)
<1>1. CASE \/ ScopeReopen \/ InventoryEvidence \/ ReplayLocally
           \/ PlanResidualReads \/ PreflightResidualReads
  BY <1>1, Zenon DEF ScopeReopen, InventoryEvidence, ReplayLocally, PlanResidualReads,
                     PreflightResidualReads
<1>2. CASE \/ ReconcileResidualReads \/ PlanContinuation \/ PreflightContinuation
           \/ ReconcileContinuation
  BY <1>2, Zenon DEF ReconcileResidualReads, PlanContinuation, PreflightContinuation,
                     ReconcileContinuation
<1>3. CASE \/ ReconcileWireRepair \/ PreflightRepair \/ DryRepair \/ CloseResearch
  BY <1>3, Zenon DEF ReconcileWireRepair, PreflightRepair, DryRepair, CloseResearch
<1>4. CASE DryResidual \/ DryContinuation \/ DryWireRepair
  BY <1>4, Zenon DEF DryResidual, DryContinuation, DryWireRepair
<1> QED
  BY <1>1, <1>2, <1>3, <1>4 DEF Document

(* Whichever step is taken. *)
LEMMA NextKeeps ==
  ASSUME IInv, [Next]_vars
  PROVE  IInv'
<1>1. CASE UNCHANGED vars
  BY <1>1 DEF vars, locals, IInv, Shape, Announced, Knows, Place, Current, Need
<1>2. CASE Document
  BY <1>2, DocumentPublishes, PublishKeeps
<1>3. ASSUME NEW p \in Procs, NEW k \in Passes, Launch(p, k) \/ LaunchRefused(p, k)
      PROVE  IInv'
  BY <1>3, EnterKeeps DEF Launch, LaunchRefused
<1>4. ASSUME NEW p \in Procs, Step(p)
      PROVE  IInv'
  <2>1. CASE Judge(p) \/ Fail(p)
    BY <2>1, JudgeKeeps, FailKeeps
  <2>2. CASE Refuse(p)
    <3>1. pc[p] \in Working
      BY <2>2 DEF Refuse, Working
    <3> QED
      BY <2>2, <3>1, MoveKeeps DEF Refuse
  <2>3. CASE OpenAuthorization(p) \/ SealAuthorization(p) \/ BindMarket(p)
    BY <2>3, OpenAuthorizationKeeps, SealAuthorizationKeeps, BindMarketKeeps
  <2>4. CASE Dispatch(p) \/ (\E a \in UNION {Answers(need) : need \in Needs} : Read(p, a))
    BY <2>4, DispatchKeeps, ReadKeeps
  <2>5. CASE Snapshot(p) \/ SnapshotEvent(p) \/ Receipt(p)
    BY <2>5, SnapshotKeeps, SnapshotEventKeeps, ReceiptKeeps
  <2>6. CASE \/ OpenResult(p) \/ SealResult(p) \/ ClaimResult(p) \/ SealClaim(p)
             \/ CountAttempts(p)
    BY <2>6, ResultStepKeeps, CountAttemptsKeeps
  <2> QED
    BY <1>4, <2>1, <2>2, <2>3, <2>4, <2>5, <2>6 DEF Step
<1>5. ASSUME NEW p \in Procs, Crash(p)
      PROVE  IInv'
  BY <1>5, MoveKeeps DEF Crash
<1> QED
  BY <1>1, <1>2, <1>3, <1>4, <1>5 DEF Next

(* The sets on disk, and what each invocation relies on: in any overlap.   *)
THEOREM Inductive == Spec => []IInv
<1>1. Init => IInv
  BY InitHolds
<1>2. IInv /\ [Next]_vars => IInv'
  BY NextKeeps
<1> QED
  BY <1>1, <1>2, PTL DEF Spec

(* Every variable has its type, an invocation is within its pass, and no   *)
(* pass dispatches or claims more than its ceiling.                        *)
THEOREM TypeCorrect == Spec => []TypeOK
<1>1. IInv => TypeOK
  <2> SUFFICES ASSUME IInv PROVE TypeOK
    OBVIOUS
  <2>1. Shape
    BY DEF IInv
  <2>2. ASSUME NEW k \in Passes
        PROVE  /\ journal[k].attempts \subseteq Reads /\ journal[k].receipts \subseteq Reads
               /\ journal[k].snapshots \subseteq Reads /\ journal[k].failures \subseteq Needs
               /\ journal[k].bound \in BOOLEAN
               /\ raw[k] \subseteq Reads /\ served[k] \subseteq Reads
               /\ result[k].file \in {"ABSENT", "TORN", "WRITTEN"}
               /\ result[k].status \in {"NONE", "PARTIAL", "FAILED", "BLOCKED", "COMPLETE"}
               /\ result[k].attempts \in 0..Ceiling(k)
    <3>1. journal[k] \in Journal /\ result[k] \in Result
      BY <2>1 DEF Shape
    <3>2. result[k].attempts <= Ceiling(k)
      BY DEF IInv, Announced
    <3> QED
      BY <2>1, <3>1, <3>2, CeilingKnown DEF Shape, Journal, Result
  <2>3. \A p \in Procs : pass[p] \in Passes /\ Place(p)
    BY DEF IInv, Shape, Knows
  <2> QED
    BY <2>1, <2>2, <2>3 DEF TypeOK, Place, Shape
<1> QED
  BY <1>1, Inductive, PTL

(* A read that the provider executed was journaled under an authorization  *)
(* before, and a response the journal acknowledges from the third pass on  *)
(* is on disk: whatever invocations overlap, and wherever they die.        *)
THEOREM AnnouncedAndKept == Spec => [](WriteAhead /\ ReceiptHasEvidence)
<1>1. IInv => WriteAhead /\ ReceiptHasEvidence
  BY DEF IInv, Announced, WriteAhead, ReceiptHasEvidence, Passes
<1> QED
  BY <1>1, Inductive, PTL
-----------------------------------------------------------------------------
(* A pass that a step leaves alone. *)
Untouched(k) ==
    /\ auth'[k] = auth[k] /\ journal'[k] = journal[k] /\ result'[k] = result[k]
    /\ raw'[k] = raw[k] /\ served'[k] = served[k]

(* What the documents say remains so while written results are left alone. *)
LEMMA DocumentsStand ==
  ASSUME Documented, UNCHANGED artifacts,
         \A k \in Passes : result[k].file = "WRITTEN" => Untouched(k)
  PROVE  Documented'
<1>0. \A k \in {1, 2, 3, 4} : result[k].file = "WRITTEN" => Untouched(k)
  BY DEF Passes
<1>1. StoppedInNvda => StoppedInNvda'
  BY <1>0 DEF StoppedInNvda, Untouched
<1>2. StoppedInNvda /\ TwoReadsJournaled => TwoReadsJournaled'
  BY <1>0 DEF StoppedInNvda, TwoReadsJournaled, Untouched
<1>3. StoppedInMsft => StoppedInMsft'
  BY <1>0 DEF StoppedInMsft, Untouched
<1>4. StoppedInPortfolio => StoppedInPortfolio' /\ auth'[3] = auth[3]
  BY <1>0 DEF StoppedInPortfolio, Untouched, RetainedByWireRepair
<1>5. StoppedInPortfolio /\ SnapshotsComplete => SnapshotsComplete'
  BY <1>0 DEF StoppedInPortfolio, SnapshotsComplete, Untouched, RetainedByWireRepair
<1>6. RepairedPortfolio => RepairedPortfolio' /\ (Salvaged => Salvaged')
  BY <1>0 DEF RepairedPortfolio, Salvaged, Untouched
<1>7. Closed => Closed'
  BY <1>1, <1>4, <1>6 DEF Closed
<1> QED
  BY <1>1, <1>2, <1>3, <1>4, <1>5, <1>7 DEF Documented

(* A step of the one invocation there is, in a pass that has no result or  *)
(* that it leaves alone.                                                   *)
LEMMA SequentialStep ==
  ASSUME IInv, SInv, NEW p \in Procs, UNCHANGED artifacts,
         pc[p] \notin Over \/ \A q \in Procs : pc[q] \in Over,
         \A q \in Procs \ {p} : pc'[q] = pc[q],
         NEW j \in Passes, \A k \in Passes \ {j} : Untouched(k),
         result[j].file = "WRITTEN" => Untouched(j),
         Holds(p)', Recorded(j)'
  PROVE  SInv'
<1>1. \A q \in Procs \ {p} : pc'[q] \in Over
  BY DEF SInv, Alone
<1>2. Alone'
  BY <1>1 DEF Alone
<1>3. \A q \in Procs : Holds(q)'
  <2> SUFFICES ASSUME NEW q \in Procs, q # p PROVE Holds(q)'
    OBVIOUS
  <2> QED
    BY <1>1 DEF Holds, Over, Working
<1>4. ASSUME NEW k \in Passes, k # j
      PROVE  Recorded(k)'
  <2>1. Recorded(k) /\ Untouched(k)
    BY <1>4 DEF SInv
  <2>2. Prerequisite(k)' <=> Prerequisite(k)
    BY DEF Prerequisite
  <2> QED
    BY <2>1, <2>2 DEF Recorded, Untouched
<1>5. Documented'
  BY DocumentsStand DEF SInv
<1> QED
  BY <1>2, <1>3, <1>4, <1>5 DEF SInv

(* The next document, made of what it was built from. *)
LEMMA SequentialPublish ==
  ASSUME SInv, NEW x, Publish(x),
         x = "reconciliation_1" => StoppedInNvda /\ TwoReadsJournaled,
         x = "continuation_plan" => "reconciliation_1" \in artifacts,
         x = "continuation_preflight" => "continuation_plan" \in artifacts,
         x = "reconciliation_2" => StoppedInMsft,
         x = "reconciliation_3" => auth[3] = "WRITTEN" /\ StoppedInPortfolio /\ SnapshotsComplete,
         x = "repair_preflight" => "reconciliation_3" \in artifacts,
         x = "closure" => Closed
  PROVE  SInv'
<1> USE DEF Publish, locals
<1>1. Alone'
  BY DEF SInv, Alone
<1>2. ASSUME NEW k \in Passes
      PROVE  Prerequisite(k) => Prerequisite(k)'
  BY DEF Prerequisite
<1>3. \A k \in Passes : Recorded(k)'
  BY <1>2 DEF SInv, Recorded
<1>4. ASSUME NEW p \in Procs
      PROVE  Holds(p)'
  <2>1. pc[p] = "authorize" => Prerequisite(pass[p]) /\ ~Evidence(pass[p])
    BY DEF SInv, Holds
  <2>2. Prerequisite(pass[p]) => Prerequisite(pass[p])'
    BY DEF Prerequisite
  <2>3. Evidence(pass[p])' <=> Evidence(pass[p])
    BY DEF Evidence
  <2> QED
    BY <2>1, <2>2, <2>3 DEF SInv, Holds
<1>5. /\ StoppedInNvda' <=> StoppedInNvda
      /\ TwoReadsJournaled' <=> TwoReadsJournaled
      /\ StoppedInMsft' <=> StoppedInMsft
      /\ StoppedInPortfolio' <=> StoppedInPortfolio
      /\ SnapshotsComplete' <=> SnapshotsComplete
      /\ Closed => Closed'
  BY DEF StoppedInNvda, TwoReadsJournaled, StoppedInMsft, StoppedInPortfolio, SnapshotsComplete,
         Closed, RepairedPortfolio, Salvaged, RetainedByWireRepair
<1>6. Documented'
  BY <1>5 DEF SInv, Documented
<1> QED
  BY <1>1, <1>3, <1>4, <1>6 DEF SInv

(* Each document is published from those that it names. *)
LEMMA SequentialDocument ==
  ASSUME IInv, SInv, Document
  PROVE  SInv'
<1>1. CASE \/ ScopeReopen \/ InventoryEvidence \/ ReplayLocally
           \/ PlanResidualReads \/ PreflightResidualReads
  BY <1>1, SequentialPublish DEF ScopeReopen, InventoryEvidence, ReplayLocally,
                     PlanResidualReads, PreflightResidualReads
<1>2. CASE ReconcileResidualReads
  BY <1>2, SequentialPublish DEF ReconcileResidualReads
<1>3. CASE PlanContinuation
  BY <1>3, SequentialPublish DEF PlanContinuation
<1>4. CASE PreflightContinuation
  BY <1>4, SequentialPublish DEF PreflightContinuation
<1>5. CASE ReconcileContinuation
  BY <1>5, SequentialPublish DEF ReconcileContinuation
<1>6. CASE ReconcileWireRepair
  BY <1>6, SequentialPublish DEF ReconcileWireRepair
<1>7. CASE PreflightRepair
  BY <1>7, SequentialPublish DEF PreflightRepair
<1>8. CASE DryRepair \/ DryResidual \/ DryContinuation \/ DryWireRepair
  BY <1>8, SequentialPublish DEF DryRepair, DryResidual, DryContinuation, DryWireRepair
<1>9. CASE CloseResearch
  BY <1>9, SequentialPublish DEF CloseResearch, Closed
<1> QED
  BY <1>1, <1>2, <1>3, <1>4, <1>5, <1>6, <1>7, <1>8, <1>9 DEF Document
-----------------------------------------------------------------------------
(* The steps of an invocation that is alone. *)
LEMMA SequentialEnter ==
  ASSUME ~Overlap, IInv, SInv, NEW p \in Procs, NEW k \in Passes,
         Launch(p, k) \/ LaunchRefused(p, k)
  PROVE  SInv'
<1> USE DEF Launch, LaunchRefused, MayLaunch, Enter
<1>1. Shape
  BY DEF IInv
<1>2. PICK label \in {"authorize", "except"} :
        Enter(p, k, label) /\ (label = "authorize" => Clear(k))
  OBVIOUS
<1>3. \A q \in Procs : pc'[q] = IF q = p THEN label ELSE pc[q]
  BY <1>1, <1>2 DEF Goto, Shape
<1>4. pass'[p] = k
  BY <1>1, <1>2 DEF Shape
<1>5. Clear(k) => ~Evidence(k) /\ Prerequisite(k)
  <2>1. CASE k = 1
    BY <2>1 DEF Clear, ResidualClear, Prerequisite
  <2>2. CASE k = 2
    BY <2>2 DEF Clear, ContinuationClear, ContinuationReady, Prerequisite
  <2>3. CASE k = 3
    BY <2>3 DEF Clear, WireRepairClear, WireRepairReady, ContinuationReady, Prerequisite
  <2>4. CASE k = 4
    BY <2>4 DEF Clear, RepairClear, RepairReady, Prerequisite
  <2> QED
    BY <2>1, <2>2, <2>3, <2>4 DEF Passes
<1>6. Prerequisite(k)' <=> Prerequisite(k)
  BY DEF Prerequisite
<1>8. Holds(p)'
  BY <1>2, <1>3, <1>4, <1>5 DEF Holds, Working, Evidence, Prerequisite
<1>9. \A j \in Passes : Untouched(j)
  BY DEF Untouched
<1>10. Recorded(k)'
  BY <1>6 DEF SInv, Recorded
<1> QED
  BY <1>3, <1>8, <1>9, <1>10, SequentialStep

(* Reading changes no result, and the pass that reads has none.            *)
LEMMA SequentialReading ==
  ASSUME IInv, SInv, NEW p \in Procs, pc[p] \in Working \ {"resultOpen"}, NEW label \in Labels,
         \A q \in Procs : pc'[q] = IF q = p THEN label ELSE pc[q],
         label \in (Working \ {"resultOpen"}) \cup {"dead", "raised", "except"},
         UNCHANGED <<artifacts, auth, result, pass>>,
         \A k \in Passes \ {pass[p]} : Untouched(k)
  PROVE  SInv'
<1>1. pass[p] \in Passes /\ result[pass[p]].file = "ABSENT" /\ pass'[p] = pass[p]
  BY DEF IInv, Shape, SInv, Holds
<1>2. Holds(p)'
  BY <1>1 DEF Holds, Working
<1>3. Recorded(pass[p])'
  BY <1>1 DEF SInv, Recorded, Prerequisite
<1>4. pc[p] \notin Over
  BY DEF Over, Working
<1> QED
  BY <1>1, <1>2, <1>3, <1>4, SequentialStep

(* An event goes to the journal of one pass. *)
LEMMA RecordElsewhere ==
  ASSUME Shape, NEW p \in Procs, NEW field, NEW event, Record(p, field, event)
  PROVE  \A k \in Passes \ {pass[p]} : journal'[k] = journal[k]
BY DEF Record, Shape

(* So with every step from the dispatch to the verdict on a page. *)
LEMMA SequentialReads ==
  ASSUME IInv, SInv, NEW p \in Procs,
         \/ BindMarket(p) \/ Dispatch(p) \/ (\E a : Read(p, a))
         \/ Snapshot(p) \/ SnapshotEvent(p) \/ Receipt(p)
         \/ Judge(p) \/ Refuse(p) \/ Fail(p)
  PROVE  SInv'
<1> USE DEF locals
<1> DEFINE reading == (Working \ {"resultOpen"}) \cup {"dead", "raised", "except"}
<1>0. Shape /\ pass[p] \in Passes
  BY DEF IInv, Shape
<1>1. reading \subseteq Labels
  BY DEF Labels, Working
<1>2. pc[p] \in Working \ {"resultOpen"}
  BY DEF BindMarket, Dispatch, Read, Snapshot, SnapshotEvent, Receipt, Judge, Refuse, Fail, Working
<1>3. UNCHANGED <<artifacts, auth, result, pass>>
  BY DEF BindMarket, Dispatch, Read, Snapshot, SnapshotEvent, Receipt, Judge, Refuse, Fail
<1>4. PICK label \in reading : \A q \in Procs : pc'[q] = IF q = p THEN label ELSE pc[q]
  <2>1. CASE BindMarket(p)
    BY <1>0, <1>2, <2>1 DEF BindMarket, Shape
  <2>2. CASE Dispatch(p)
    BY <1>0, <2>2 DEF Dispatch, Goto, Shape, Working
  <2>3. CASE \E a : Read(p, a)
    <3>1. PICK a : Read(p, a)
      BY <2>3
    <3>2. After(pass[p], a) \in {"fail", "receipt", "snapshot"}
      BY <1>0 DEF After, AfterHashing, AfterWire, AfterRepair, Passes
    <3> QED
      BY <1>0, <3>1, <3>2 DEF Read, Goto, Shape, Working
  <2>4. CASE Snapshot(p) \/ SnapshotEvent(p) \/ Receipt(p)
    BY <1>0, <2>4 DEF Snapshot, SnapshotEvent, Receipt, Goto, Shape, Working
  <2>5. CASE Judge(p)
    <3>1. PICK label \in {"dispatch", "result"} : Goto(p, label)
      BY <2>5 DEF Judge, CompleteBundle, NextBundle, Finish
    <3> QED
      BY <1>0, <3>1 DEF Goto, Shape, Working
  <2>6. CASE Refuse(p)
    BY <1>0, <2>6 DEF Refuse, Goto, Shape, Working
  <2>7. CASE Fail(p)
    <3>1. PICK label \in {"dispatch", "result", "except"} : Goto(p, label)
      BY <2>7 DEF Fail, FailResidual, FailContinuation, FailRepair, NextBundle, Finish
    <3> QED
      BY <1>0, <3>1 DEF Goto, Shape, Working
  <2> QED
    BY <2>1, <2>2, <2>3, <2>4, <2>5, <2>6, <2>7
<1>5. \A k \in Passes \ {pass[p]} : Untouched(k)
  <2>1. CASE BindMarket(p)
    BY <1>0, <2>1 DEF BindMarket, Shape, Untouched
  <2>2. CASE Dispatch(p)
    BY <1>0, <2>2, RecordElsewhere DEF Dispatch, Untouched
  <2>3. CASE \E a : Read(p, a)
    BY <1>0, <2>3 DEF Read, Shape, Untouched
  <2>4. CASE Snapshot(p)
    BY <1>0, <2>4 DEF Snapshot, Shape, Untouched
  <2>5. CASE SnapshotEvent(p) \/ Receipt(p)
    BY <1>0, <2>5, RecordElsewhere DEF SnapshotEvent, Receipt, Untouched
  <2>6. CASE Judge(p) \/ Refuse(p)
    BY <2>6 DEF Judge, Refuse, Untouched
  <2>7. CASE Fail(p)
    BY <1>0, <2>7, RecordElsewhere DEF Fail, FailResidual, FailContinuation, FailRepair, Untouched
  <2> QED
    BY <2>1, <2>2, <2>3, <2>4, <2>5, <2>6, <2>7
<1> QED
  BY <1>1, <1>2, <1>3, <1>4, <1>5, SequentialReading

(* The authorization of a pass that has nothing else yet. *)
LEMMA SequentialAuthorization ==
  ASSUME IInv, SInv, NEW p \in Procs, OpenAuthorization(p) \/ SealAuthorization(p)
  PROVE  SInv'
<1> USE DEF OpenAuthorization, SealAuthorization, locals
<1> DEFINE k == pass[p]
<1>0. Shape /\ k \in Passes /\ pc[p] \notin Over /\ Holds(p) /\ Recorded(k)
  BY DEF IInv, Shape, Over, SInv
<1>1. PICK label \in {"authorizeOpen", "except", "dispatch"} :
        /\ Goto(p, label)
        /\ label = "authorizeOpen" => auth' = [auth EXCEPT ![k] = "TORN"]
  OBVIOUS
<1>2. \A q \in Procs : pc'[q] = IF q = p THEN label ELSE pc[q]
  BY <1>0, <1>1 DEF Goto, Shape
<1>3. result[k].file = "ABSENT"
  BY <1>0 DEF Holds, Evidence
<1>4. Prerequisite(k)
  <2>1. CASE OpenAuthorization(p)
    BY <1>0, <2>1 DEF Holds
  <2>2. CASE SealAuthorization(p)
    BY <1>0, <2>2 DEF Holds, Recorded
  <2> QED
    BY <2>1, <2>2
<1>5. Prerequisite(k)' <=> Prerequisite(k)
  BY DEF Prerequisite
<1>6. Recorded(k)'
  BY <1>0, <1>3, <1>4, <1>5 DEF Recorded
<1>7. Holds(p)'
  BY <1>0, <1>1, <1>2, <1>3 DEF Holds, Working, Shape
<1>8. \A j \in Passes \ {k} : Untouched(j)
  BY <1>0 DEF Shape, Untouched
<1> QED
  BY <1>0, <1>2, <1>3, <1>6, <1>7, <1>8, SequentialStep

(* A result is written once, and says what the journal counts. *)
LEMMA SequentialResult ==
  ASSUME IInv, SInv, NEW p \in Procs,
         OpenResult(p) \/ SealResult(p) \/ ClaimResult(p) \/ SealClaim(p)
  PROVE  SInv'
<1> USE DEF locals
<1> DEFINE k == pass[p]
<1>0. /\ Shape /\ k \in Passes /\ Holds(p) /\ Recorded(k) /\ Knows(p)
      /\ result \in [Passes -> Result] /\ pc \in [Procs -> Labels]
  BY DEF IInv, Shape, SInv
<1>1. PICK label \in {"resultOpen", "except", "done", "claimOpen"} : Goto(p, label)
  BY DEF OpenResult, SealResult, ClaimResult, SealClaim
<1>2. \A q \in Procs : pc'[q] = IF q = p THEN label ELSE pc[q]
  BY <1>0, <1>1 DEF Goto
<1>3. /\ UNCHANGED <<artifacts, auth, journal, raw, served, pass, count>>
      /\ pc[p] \notin Over
  BY DEF OpenResult, SealResult, ClaimResult, SealClaim, Over
<1>4. Prerequisite(k)' <=> Prerequisite(k)
  BY <1>3 DEF Prerequisite
<1>5. result[k] \in Result
  BY <1>0
<1>6. CASE OpenResult(p)
  <2> USE DEF OpenResult
  <2>1. result[k].file = "ABSENT" /\ result' = [result EXCEPT ![k].file = "TORN"] /\ pc'[p] = "resultOpen"
    BY <1>0, <1>6 DEF Holds, Working, Goto
  <2>2. /\ result'[k].file = "TORN" /\ result'[k].kept = result[k].kept
        /\ \A j \in Passes \ {k} : result'[j] = result[j]
    BY <1>0, <1>5, <2>1 DEF Result
  <2>3. Holds(p)' /\ Recorded(k)'
    BY <1>0, <1>3, <1>4, <2>1, <2>2 DEF Holds, Recorded, Working
  <2>4. \A j \in Passes \ {k} : Untouched(j)
    BY <1>3, <2>2 DEF Untouched
  <2> QED
    BY <1>0, <1>2, <1>3, <2>1, <2>3, <2>4, SequentialStep
<1>7. CASE ClaimResult(p)
  <2> USE DEF ClaimResult
  <2>1. CASE result[k].file = "ABSENT"
    <3>1. result' = [result EXCEPT ![k].file = "TORN"] /\ pc'[p] = "claimOpen"
      BY <1>0, <1>7, <2>1 DEF Goto
    <3>2. /\ result'[k].file = "TORN" /\ result'[k].kept = result[k].kept
          /\ \A j \in Passes \ {k} : result'[j] = result[j]
      BY <1>0, <1>5, <3>1 DEF Result
    <3>3. Holds(p)' /\ Recorded(k)'
      BY <1>0, <1>3, <1>4, <1>7, <2>1, <3>1, <3>2 DEF Holds, Recorded, Working
    <3>4. \A j \in Passes \ {k} : Untouched(j)
      BY <1>3, <3>2 DEF Untouched
    <3> QED
      BY <1>0, <1>2, <1>3, <2>1, <3>3, <3>4, SequentialStep
  <2>2. CASE result[k].file # "ABSENT"
    <3>1. UNCHANGED result /\ pc'[p] = "done"
      BY <1>0, <1>7, <2>2 DEF Goto
    <3>2. Holds(p)' /\ Recorded(k)'
      BY <1>0, <1>3, <1>4, <3>1 DEF Holds, Recorded, Working
    <3>3. \A j \in Passes : Untouched(j)
      BY <1>3, <3>1 DEF Untouched
    <3> QED
      BY <1>0, <1>2, <1>3, <3>2, <3>3, SequentialStep
  <2> QED
    BY <2>1, <2>2
<1>8. CASE SealResult(p) \/ SealClaim(p)
  <2>1. /\ result'[k].file = "WRITTEN"
        /\ result'[k].attempts = Cardinality(journal[k].attempts)
        /\ result'[k].kept # {} => auth[k] = "WRITTEN"
        /\ \A j \in Passes \ {k} : result'[j] = result[j]
    <3>1. CASE SealResult(p)
      BY <1>0, <3>1 DEF SealResult, Knows, Working
    <3>2. CASE SealClaim(p)
      BY <1>0, <3>2 DEF SealClaim, Holds
    <3> QED
      BY <1>8, <3>1, <3>2
  <2>2. pc'[p] = "done" /\ result[k].file = "TORN"
    BY <1>0, <1>8 DEF SealResult, SealClaim, Goto, Holds, Working
  <2>3. Holds(p)' /\ Recorded(k)'
    BY <1>0, <1>3, <1>4, <2>1, <2>2 DEF Holds, Recorded, Working
  <2>4. \A j \in Passes \ {k} : Untouched(j)
    BY <1>3, <2>1 DEF Untouched
  <2> QED
    BY <1>0, <1>2, <1>3, <2>2, <2>3, <2>4, SequentialStep
<1> QED
  BY <1>6, <1>7, <1>8

(* What is counted is what the journal has: nobody else writes to it. *)
LEMMA SequentialCount ==
  ASSUME IInv, SInv, NEW p \in Procs, CountAttempts(p)
  PROVE  SInv'
<1> USE DEF CountAttempts
<1> DEFINE k == pass[p]
<1>0. Shape /\ k \in Passes /\ Recorded(k) /\ pc[p] \notin Over
  BY DEF IInv, Shape, SInv, Over
<1>1. PICK label \in {"done", "claim"} : Goto(p, label)
  OBVIOUS
<1>2. \A q \in Procs : pc'[q] = IF q = p THEN label ELSE pc[q]
  BY <1>0, <1>1 DEF Goto, Shape
<1>3. count'[p] = Cardinality(journal[k].attempts)
  BY <1>0 DEF Shape
<1>4. Holds(p)'
  BY <1>2, <1>3 DEF Holds, Working
<1>5. \A j \in Passes : Untouched(j)
  BY DEF Untouched
<1>6. Recorded(k)'
  BY <1>0 DEF Recorded, Prerequisite
<1> QED
  BY <1>0, <1>2, <1>4, <1>5, <1>6, SequentialStep

(* A crash leaves the disk as it is. *)
LEMMA SequentialCrash ==
  ASSUME IInv, SInv, NEW p \in Procs, Crash(p)
  PROVE  SInv'
<1> USE DEF Crash, locals
<1>0. Shape /\ pass[p] \in Passes /\ Recorded(pass[p])
  BY DEF IInv, Shape, SInv
<1>1. \A q \in Procs : pc'[q] = IF q = p THEN "dead" ELSE pc[q]
  BY <1>0 DEF Goto, Shape
<1>2. Holds(p)'
  BY <1>1 DEF Holds, Working
<1>3. \A j \in Passes : Untouched(j)
  BY DEF Untouched
<1>4. Recorded(pass[p])'
  BY <1>0 DEF Recorded, Prerequisite
<1> QED
  BY <1>0, <1>1, <1>2, <1>3, <1>4, SequentialStep

-----------------------------------------------------------------------------
(* Nothing is written at first. *)
LEMMA SequentialInit ==
  ASSUME Init
  PROVE  SInv
<1>1. \A p \in Procs : pc[p] = "idle"
  BY DEF Init
<1>2. Alone /\ \A p \in Procs : Holds(p)
  BY <1>1 DEF Alone, Holds, Over, Working
<1>3. ASSUME NEW k \in Passes
      PROVE  Recorded(k)
  <2>1. auth[k] = "ABSENT" /\ result[k] = NoResult
    BY DEF Init
  <2> QED
    BY <2>1 DEF Recorded, NoResult
<1>4. Documented
  BY DEF Init, Documented
<1> QED
  BY <1>2, <1>3, <1>4 DEF SInv

(* Whichever step is taken. *)
LEMMA SequentialNext ==
  ASSUME ~Overlap, IInv, SInv, [Next]_vars
  PROVE  SInv'
<1>1. CASE UNCHANGED vars
  BY <1>1 DEF vars, locals, SInv, Alone, Holds, Recorded, Evidence, Prerequisite, Documented,
              StoppedInNvda, TwoReadsJournaled, StoppedInMsft, StoppedInPortfolio,
              SnapshotsComplete, Closed, RepairedPortfolio, Salvaged, RetainedByWireRepair
<1>2. CASE Document
  BY <1>2, SequentialDocument
<1>3. ASSUME NEW p \in Procs, NEW k \in Passes, Launch(p, k) \/ LaunchRefused(p, k)
      PROVE  SInv'
  BY <1>3, SequentialEnter
<1>4. ASSUME NEW p \in Procs, Step(p)
      PROVE  SInv'
  <2>1. CASE OpenAuthorization(p) \/ SealAuthorization(p)
    BY <2>1, SequentialAuthorization
  <2>2. CASE \/ BindMarket(p) \/ Dispatch(p)
             \/ (\E a \in UNION {Answers(need) : need \in Needs} : Read(p, a))
             \/ Snapshot(p) \/ SnapshotEvent(p) \/ Receipt(p)
             \/ Judge(p) \/ Refuse(p) \/ Fail(p)
    BY <2>2, SequentialReads
  <2>3. CASE OpenResult(p) \/ SealResult(p) \/ ClaimResult(p) \/ SealClaim(p)
    BY <2>3, SequentialResult
  <2>4. CASE CountAttempts(p)
    BY <2>4, SequentialCount
  <2> QED
    BY <1>4, <2>1, <2>2, <2>3, <2>4 DEF Step
<1>5. ASSUME NEW p \in Procs, Crash(p)
      PROVE  SInv'
  BY <1>5, SequentialCrash
<1> QED
  BY <1>1, <1>2, <1>3, <1>4, <1>5 DEF Next

(* If invocations do not overlap: a written result closes its pass, and    *)
(* what the reconciliations found remains so.                              *)
THEOREM SequentialInductive ==
  ASSUME ~Overlap
  PROVE  Spec => [](IInv /\ SInv)
<1>1. Init => IInv /\ SInv
  BY InitHolds, SequentialInit
<1>2. (IInv /\ SInv) /\ [Next]_vars => (IInv /\ SInv)'
  BY NextKeeps, SequentialNext
<1> QED
  BY <1>1, <1>2, PTL DEF Spec
-----------------------------------------------------------------------------
(* What is claimed, if invocations do not overlap.                         *)
LEMMA PassesInOrder ==
  ASSUME IInv, SInv
  PROVE  /\ auth[2] # "ABSENT" => StoppedInNvda /\ TwoReadsJournaled
         /\ auth[3] # "ABSENT" => StoppedInMsft
         /\ auth[4] # "ABSENT" => auth[3] = "WRITTEN" /\ StoppedInPortfolio /\ SnapshotsComplete
<1>1. \A k \in {1, 2, 3, 4} : Recorded(k)
  BY DEF SInv, Passes
<1>2. Documented
  BY DEF SInv
<1>3. auth[2] # "ABSENT" => StoppedInNvda /\ TwoReadsJournaled
  BY <1>1, <1>2 DEF Recorded, Prerequisite, Documented
<1>4. auth[3] # "ABSENT" => StoppedInMsft
  BY <1>1, <1>2 DEF Recorded, Prerequisite, Documented
<1>5. auth[4] # "ABSENT" => auth[3] = "WRITTEN" /\ StoppedInPortfolio /\ SnapshotsComplete
  BY <1>1, <1>2 DEF Recorded, Prerequisite, Documented
<1> QED
  BY <1>3, <1>4, <1>5

(* What happens in a pass happens after those before it have their result. *)
LEMMA EarlierAreClosed ==
  ASSUME IInv, SInv, NEW k \in Passes, NEW j \in Passes, k < j, auth[j] # "ABSENT"
  PROVE  result[k].file = "WRITTEN"
<1>1. auth[4] # "ABSENT" => auth[3] # "ABSENT" /\ result[3].file = "WRITTEN"
  BY PassesInOrder DEF StoppedInPortfolio
<1>2. auth[3] # "ABSENT" => auth[2] # "ABSENT" /\ result[2].file = "WRITTEN"
  BY PassesInOrder DEF StoppedInMsft
<1>3. auth[2] # "ABSENT" => result[1].file = "WRITTEN"
  BY PassesInOrder DEF StoppedInNvda
<1> QED
  BY <1>1, <1>2, <1>3 DEF Passes

(* A held page is kept by a result or saved in a snapshot. *)
LEMMA HeldIs ==
  ASSUME NEW page
  PROVE  page \in Held <=> \E k \in Passes : \/ page \in result[k].kept
                                             \/ \E r \in raw[k] : page = Page(k, r[1], r[2])
<1>1. page \in UNION {result[k].kept : k \in Passes} <=> \E k \in Passes : page \in result[k].kept
  OBVIOUS
<1>2. \A k \in Passes : page \in SavedPages(k) <=> \E r \in raw[k] : page = Page(k, r[1], r[2])
  BY DEF SavedPages
<1>3. page \in UNION {SavedPages(k) : k \in Passes} <=> \E k \in Passes : page \in SavedPages(k)
  OBVIOUS
<1>4. page \in Held <=> \/ page \in UNION {result[k].kept : k \in Passes}
                       \/ page \in UNION {SavedPages(k) : k \in Passes}
  BY DEF Held
<1> QED
  BY <1>1, <1>2, <1>3, <1>4, Zenon

(* A set of one. *)
LEMMA OneOf ==
  ASSUME NEW S, NEW x, \A y : y \in S <=> y = x
  PROVE  Cardinality(S) = 1
<1>1. S = {x}
  OBVIOUS
<1> QED
  BY <1>1, FS_Singleton

(* The closure: what its documents found is what the passes kept and       *)
(* served.                                                                 *)
LEMMA ClosureBacked ==
  ASSUME IInv, SInv
  PROVE  ClosureIsBacked
<1> SUFFICES ASSUME "closure" \in artifacts
             PROVE  ClosureIsBacked
  BY DEF ClosureIsBacked
<1>0. Closed
  BY DEF SInv, Documented
<1>1. /\ result[1].kept = {<<"NVDA", 1>>, <<"NVDA", 2>>}
      /\ result[3].kept = RetainedByWireRepair
      /\ auth[4] = "WRITTEN" /\ result[4].kept = {<<"PORTFOLIO", 1>>}
      /\ journal[4].failures = {"MARKET", "NVDA"}
      /\ <<"NVDA", 1>> \in raw[4]
  BY <1>0 DEF Closed, StoppedInNvda, StoppedInPortfolio, RepairedPortfolio, Salvaged
<1>2. /\ StoppedInNvda /\ TwoReadsJournaled /\ StoppedInMsft /\ SnapshotsComplete
  BY <1>1, PassesInOrder DEF StoppedInMsft
<1>3. 1 \in Passes /\ 3 \in Passes /\ 4 \in Passes
  BY DEF Passes
<1>4. Page(4, "NVDA", 1) = <<"NVDA", 3>>
  BY DEF Page, FirstPage
<1>5. /\ {<<"NVDA", 1>>, <<"NVDA", 2>>} \subseteq Held
      /\ RetainedByWireRepair \subseteq Held
      /\ <<"PORTFOLIO", 1>> \in Held
  BY <1>1, <1>3, HeldIs
<1>6. <<"NVDA", 3>> \in Held
  <2> DEFINE r == <<"NVDA", 1>>
  <2>1. r \in raw[4] /\ Page(4, r[1], r[2]) = <<"NVDA", 3>>
    BY <1>1, <1>4
  <2> QED
    BY <1>3, <2>1, HeldIs
<1>7. {<<"NVDA", i>> : i \in 1..3} \cup RetainedByWireRepair \cup {<<"PORTFOLIO", 1>>} \subseteq Held
  <2>1. \A i \in 1..3 : i = 1 \/ i = 2 \/ i = 3
    OBVIOUS
  <2> QED
    BY <1>5, <1>6, <2>1
<1>8. \A t \in Requirements : \A need \in BundlesOf[t] :
         (\E page \in Held : page[1] = need) \/ need \in journal[4].failures
  <2>1. \A t \in Requirements : BundlesOf[t] \subseteq {"NVDA", "MSFT", "MARKET"}
    BY DEF Requirements, BundlesOf, Targets
  <2>2. <<"MSFT", 1>> \in Held /\ <<"MSFT", 1>>[1] = "MSFT"
    BY <1>5 DEF RetainedByWireRepair
  <2>3. \E page \in Held : page[1] = "MSFT"
    BY <2>2
  <2> QED
    BY <1>1, <2>1, <2>3
<1>9. /\ served[1] = {<<"NVDA", 1>>, <<"NVDA", 2>>}
      /\ served[2] \subseteq {<<"MSFT", 1>>, <<"MSFT", 2>>}
      /\ served[3] \subseteq RetainedByWireRepair \cup {<<"PORTFOLIO", 1>>}
      /\ served[4] \subseteq Reads /\ <<"NVDA", 1>> \in served[4]
  <2>1. \A k \in {1, 2, 3, 4} : Announced(k) /\ served[k] \subseteq Reads
    BY DEF IInv, Shape, Passes
  <2> QED
    BY <1>1, <1>2, <2>1 DEF Announced, TwoReadsJournaled, StoppedInMsft, SnapshotsComplete
<1> DEFINE Took(i, k) == \E r \in served[k] : Page(k, r[1], r[2]) = <<"NVDA", i>>
<1>10. \A i \in 1..3 : ~Took(i, 2) /\ ~Took(i, 3)
  BY <1>9 DEF Page, RetainedByWireRepair
<1>11. /\ Took(1, 1) /\ Took(2, 1) /\ ~Took(3, 1)
  <2>1. \A r \in served[1] : Page(1, r[1], r[2]) = <<"NVDA", r[2]>> /\ r[2] \in {1, 2}
    BY <1>9 DEF Page, FirstPage
  <2>2. <<"NVDA", 1>> \in served[1] /\ <<"NVDA", 2>> \in served[1]
    BY <1>9
  <2> QED
    BY <2>1, <2>2
<1>12. /\ ~Took(1, 4) /\ ~Took(2, 4) /\ Took(3, 4)
  <2>1. ASSUME NEW r \in served[4], NEW i, Page(4, r[1], r[2]) = <<"NVDA", i>>
        PROVE  i >= 3
    <3>1. r[1] \in Needs /\ r[2] \in 1..4
      BY <1>9 DEF Reads
    <3> QED
      BY <2>1, <3>1 DEF Page, FirstPage
  <2>2. Took(3, 4)
    BY <1>4, <1>9
  <2> QED
    BY <2>1, <2>2
<1> HIDE DEF Took
<1>13. \A i \in 1..3 : Cardinality({k \in Passes : Took(i, k)}) = 1
  <2> SUFFICES ASSUME NEW i \in 1..3
               PROVE  Cardinality({k \in Passes : Took(i, k)}) = 1
    OBVIOUS
  <2> DEFINE S == {k \in Passes : Took(i, k)}
  <2>1. \A y : y \in S <=> y = IF i = 3 THEN 4 ELSE 1
    BY <1>10, <1>11, <1>12 DEF Passes
  <2> HIDE DEF S
  <2>2. Cardinality(S) = 1
    BY <2>1, OneOf
  <2> QED
    BY <2>2 DEF S
<1> QED
  BY <1>7, <1>8, <1>13 DEF ClosureIsBacked, Took

(* At every moment a read was announced before it was made, a receipt has  *)
(* its response on disk, a result counts its dispatches, and the closure   *)
(* of the research has its pages, each of them from one pass.              *)
THEOREM ClaimsBacked ==
  ASSUME ~Overlap
  PROVE  Spec => []ClaimsAreBacked
<1>1. IInv /\ SInv => ClaimsAreBacked
  <2>1. IInv => WriteAhead /\ ReceiptHasEvidence
    BY DEF IInv, Announced, WriteAhead, ReceiptHasEvidence, Passes
  <2>2. SInv => ResultCountsDispatches
    BY DEF SInv, Recorded, ResultCountsDispatches
  <2> QED
    BY <2>1, <2>2, ClosureBacked DEF ClaimsAreBacked
<1> QED
  BY <1>1, SequentialInductive, PTL
-----------------------------------------------------------------------------
(* Only a read is served. *)
LEMMA ServedByRead ==
  ASSUME [Next]_vars, served' # served
  PROVE  \E p \in Procs : \E a : Read(p, a)
<1>1. ~(UNCHANGED vars)
  BY DEF vars
<1>2. ~Document
  BY DocumentPublishes DEF Publish
<1>3. ASSUME NEW p \in Procs
      PROVE  /\ \A k \in Passes : ~Launch(p, k) /\ ~LaunchRefused(p, k)
             /\ ~Crash(p)
  BY DEF Launch, LaunchRefused, Enter, Crash
<1>4. PICK p \in Procs : Step(p)
  BY <1>1, <1>2, <1>3 DEF Next
<1>5. ~(\/ OpenAuthorization(p) \/ SealAuthorization(p) \/ BindMarket(p) \/ Dispatch(p)
        \/ Snapshot(p) \/ SnapshotEvent(p) \/ Receipt(p) \/ Judge(p) \/ Refuse(p) \/ Fail(p))
  BY DEF OpenAuthorization, SealAuthorization, BindMarket, Dispatch, Snapshot, SnapshotEvent,
         Receipt, Judge, Refuse, Fail
<1>6. ~(OpenResult(p) \/ SealResult(p) \/ CountAttempts(p) \/ ClaimResult(p) \/ SealClaim(p))
  BY DEF OpenResult, SealResult, CountAttempts, ClaimResult, SealClaim
<1> QED
  BY <1>4, <1>5, <1>6 DEF Step

(* What is about to be read is neither in an earlier pass nor in this one. *)
LEMMA NotHeldYet ==
  ASSUME IInv, SInv, NEW p \in Procs, pc[p] = "read", Current(p) \notin served[pass[p]]
  PROVE  Page(pass[p], Need(p), n[p]) \notin Held
<1> DEFINE k == pass[p]
           page == Page(k, Need(p), n[p])
<1>0. /\ Shape /\ k \in Passes /\ Knows(p) /\ Need(p) \in Needs /\ n[p] \in Nat /\ n[p] >= 1
      /\ result[k].file = "ABSENT"
  BY CurrentIsARead DEF IInv, Shape, Knows, SInv, Holds, Working
<1>1. page = <<Need(p), FirstPage(k, Need(p)) + n[p] - 1>>
  BY DEF Page
<1>2. k = 4 => Need(p) \in {"PORTFOLIO", "MARKET", "NVDA"}
  BY <1>0, BundlesKnown DEF Knows, Place, Need
<1>3. k > 1 => page \notin {<<"NVDA", 1>>, <<"NVDA", 2>>}
  BY <1>0, <1>1 DEF FirstPage
<1>4. k = 4 => page \notin RetainedByWireRepair
  BY <1>1, <1>2 DEF RetainedByWireRepair
<1>5. ASSUME NEW j \in Passes, auth[j] # "ABSENT"
      PROVE  j <= k
  <2>1. k < j => FALSE
    BY <1>0, <1>5, EarlierAreClosed
  <2> QED
    BY <1>0, <2>1 DEF Passes
<1>6. ASSUME NEW j \in Passes
      PROVE  page \notin result[j].kept
  <2> SUFFICES ASSUME page \in result[j].kept
               PROVE  FALSE
    OBVIOUS
  <2>1. auth[j] = "WRITTEN" /\ result[j].file = "WRITTEN"
    BY DEF SInv, Recorded
  <2>2. j < k
    BY <1>0, <1>5, <2>1 DEF Passes
  <2>3. auth[k] = "WRITTEN"
    BY <1>0 DEF Knows, Working
  <2>4. j = 1 => result[j].kept = {<<"NVDA", 1>>, <<"NVDA", 2>>}
    BY <1>0, <2>2, <2>3, PassesInOrder DEF StoppedInMsft, StoppedInNvda, Passes
  <2>5. j = 2 => result[j].kept = {}
    BY <1>0, <2>2, <2>3, PassesInOrder DEF StoppedInMsft, Passes
  <2>6. j = 3 => k = 4 /\ result[j].kept = RetainedByWireRepair
    BY <1>0, <2>2, <2>3, PassesInOrder DEF StoppedInPortfolio, Passes
  <2> QED
    BY <1>0, <1>3, <1>4, <2>2, <2>4, <2>5, <2>6 DEF Passes
<1>7. ASSUME NEW j \in Passes, NEW r \in raw[j]
      PROVE  page # Page(j, r[1], r[2])
  <2>1. /\ Announced(j) /\ r \in served[j] /\ j \in {3, 4} /\ auth[j] = "WRITTEN"
        /\ r \in Reads
    BY <1>7 DEF IInv, Announced, Shape
  <2>2. CASE j = k
    <3> SUFFICES ASSUME page = Page(j, r[1], r[2])
                 PROVE  FALSE
      OBVIOUS
    <3>1. /\ r[1] \in Needs /\ r[2] \in Nat /\ r = <<r[1], r[2]>>
          /\ FirstPage(k, Need(p)) \in {1, 3}
      <4>1. r[1] \in Needs /\ r[2] \in 1..4 /\ r = <<r[1], r[2]>>
        BY <2>1 DEF Reads
      <4>2. FirstPage(k, Need(p)) \in {1, 3}
        BY <1>0, PagesKnown
      <4> QED
        BY <4>1, <4>2
    <3>2. r[1] = Need(p) /\ FirstPage(k, r[1]) + r[2] - 1 = FirstPage(k, Need(p)) + n[p] - 1
      BY <2>2, <1>1 DEF Page
    <3>3. r = Current(p)
      BY <1>0, <3>1, <3>2 DEF Current
    <3> QED
      BY <2>1, <2>2, <3>3
  <2>3. CASE j # k
    <3>1. j = 3 /\ k = 4
      BY <1>0, <1>5, <2>1, <2>3 DEF Passes
    <3>2. auth[4] = "WRITTEN"
      BY <1>0, <3>1 DEF Knows, Working
    <3>3. r \in RetainedByWireRepair
      BY <1>7, <3>1, <3>2, PassesInOrder DEF SnapshotsComplete
    <3>4. Page(j, r[1], r[2])[1] = r[1] /\ page[1] = Need(p)
      BY <1>1 DEF Page
    <3>5. r[1] \in {"MSFT", "META", "POSITIONS"}
      BY <3>3 DEF RetainedByWireRepair
    <3> QED
      BY <1>2, <3>1, <3>4, <3>5
  <2> QED
    BY <2>2, <2>3
<1> HIDE DEF page
<1>8. page \notin Held
  BY <1>6, <1>7, HeldIs
<1> QED
  BY <1>8 DEF page

(* No pass reads again what the files of an earlier pass, or its own, hold. *)
THEOREM NothingReread ==
  ASSUME ~Overlap
  PROVE  Spec => NothingHeldIsReread
<1> DEFINE Fresh ==
      \A k \in Passes : \A r \in served'[k] \ served[k] : Page(k, r[1], r[2]) \notin Held
<1>1. (IInv /\ SInv) /\ [Next]_vars => [Fresh]_vars
  <2> SUFFICES ASSUME IInv, SInv, [Next]_vars, served' # served
               PROVE  Fresh
    BY DEF vars
  <2>1. PICK p \in Procs : \E a : Read(p, a)
    BY ServedByRead
  <2>2. /\ pc[p] = "read"
        /\ served' = [served EXCEPT ![pass[p]] = @ \cup {Current(p)}]
    BY <2>1 DEF Read, Current
  <2>3. SUFFICES ASSUME NEW k \in Passes, NEW r \in served'[k] \ served[k]
                 PROVE  Page(k, r[1], r[2]) \notin Held
    OBVIOUS
  <2>4. k = pass[p] /\ r = Current(p)
    BY <2>2, <2>3 DEF IInv, Shape
  <2>5. Current(p)[1] = Need(p) /\ Current(p)[2] = n[p]
    BY DEF Current
  <2> QED
    BY <2>2, <2>3, <2>4, <2>5, NotHeldYet
<1> QED
  BY <1>1, SequentialInductive, PTL DEF Spec, NothingHeldIsReread
=============================================================================
