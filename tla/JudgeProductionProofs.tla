------------------------ MODULE JudgeProductionProofs ------------------------
(***************************************************************************)
(* Proofs about JudgeProduction for any number of invocations, commits and *)
(* crashes and any answers.  The authorization is created exclusively, so  *)
(* a call belongs to the one invocation that created it, and where that    *)
(* invocation is tells what the journal, the capture and the provider have *)
(* of the call.  When it is gone nobody takes its place: what the disk     *)
(* says of the call stays what it was, and only what was captured but not  *)
(* accepted, or frozen, is ever derived from.                              *)
(***************************************************************************)
EXTENDS JudgeProduction, SequenceTheorems, TLAPS

States == {"idle", "building", "started", "authorized", "attempted", "answered", "failed",
           "recorded", "captured", "noted", "completed", "deriving"}
Paying == {"authorized", "attempted", "answered", "failed", "recorded", "captured", "noted",
           "completed"}
Run == [pc : States, next : Nat, code : Commits \cup {0}, answer : Answers \cup {None}]

Owner(p) == run[p].pc \in Paying
Nobody == \A p \in Procs : ~Owner(p)

(* A sequence, of whatever it holds. *)
IsSequence(s) == s \in Seq(ToSet(s))

(* What the owner is asked to approve, as the code of commit c builds it.  *)
Approved(c) ==
    CASE family = "first" -> DryFirst(c)
      [] family = "reopen" -> DryReopen(c)
      [] family = "v1" -> ReadinessV1(c)
      [] family = "v2" -> ReadinessV2(c)
      [] family = "v3" -> ReadinessV3(c)
      [] family = "v4" -> ReadinessV4(c)

Shape ==
    /\ family \in Families /\ head \in Commits /\ env \in Keys
    /\ run \in [Procs -> Run]
    /\ DOMAIN files = FileNames /\ DOMAIN derived = {1, 2}
    /\ \A n \in FileNames : files[n] # None => files[n].commit \in Commits
    /\ approval # None => approval.commit \in Commits
    /\ IsSequence(journal) /\ IsSequence(sent)
    /\ crashes \in 0..MaxCrashes

(* Whoever runs runs the commit checked out, on what was approved for it. *)
Running(p) ==
    /\ run[p].pc # "idle" => run[p].code = head
    /\ run[p].pc = "building" => run[p].next \in 1..Len(Names[family])
    /\ run[p].pc = "deriving" => run[p].next \in {1, 2}
    /\ run[p].pc = "started" => approval = Approved(head)
    /\ Owner(p) => /\ auth # None /\ auth.commit = run[p].code
                   /\ \A q \in Procs : Owner(q) => q = p

Authorized ==
    /\ auth = None => journal = <<>> /\ raw = None /\ output = None /\ sent = <<>>
    /\ auth # None => auth.commit \in Commits /\ auth.of = Approved(auth.commit)

(* The journal has no other kinds of entries than these. *)
Only(kinds) == \A e \in Kinds : e.kind \in kinds
Answered(p) == sent # <<>> /\ run[p].answer = sent[1].answer
Resulted == \E e \in Kinds : e.kind = "result"
True(e) == e.kind = "result" => sent # <<>> /\ Tells(e.of, sent[1])

(* A decision a was paid for, and the Judge was allowed to take it. *)
Paid(a, known) ==
    /\ sent # <<>> /\ a = sent[1].answer /\ a.received
    /\ known = {a.cost} /\ a.cost <= Ceiling
    /\ a.outcome = "INVEST" =>
          a.eligible /\ ~a.reopen /\ family \in {"reopen", "v1", "v4"}
    /\ IF family \in Later THEN raw # None ELSE Resulted /\ auth.commit \in a.reads

(* The call, wherever its owner is with it. *)
Stage(p) ==
    /\ run[p].pc \in {"authorized", "attempted", "answered", "failed"} =>
          raw = None /\ Only({"attempt"})
    /\ Owner(p) => output = None
    /\ run[p].pc = "authorized" => journal = <<>> /\ sent = <<>>
    /\ run[p].pc = "attempted" => family # "first" /\ journal # <<>> /\ sent = <<>>
    /\ run[p].pc = "answered" =>
          Answered(p) /\ (family \in Later => run[p].answer.received)
    /\ run[p].pc = "failed" =>
          family \in Later /\ journal # <<>> /\ (sent # <<>> => ~sent[1].answer.received)
    /\ run[p].pc = "recorded" => family \notin Later /\ Answered(p) /\ Resulted
    /\ run[p].pc \in {"captured", "noted", "completed"} =>
          Answered(p) /\ raw # None /\ Only({"attempt", "captured", "completed"})
    /\ run[p].pc = "completed" => Paid(run[p].answer, Known(run[p].answer))

(* The call itself. *)
Called ==
    /\ Len(sent) <= 1
    /\ \A s \in ToSet(sent) :
          s.commit = auth.commit /\ s.request = Request(auth.commit) /\ s.answer \in Answers
    /\ family # "first" /\ journal # <<>> =>
          journal[1].kind = "attempt" /\ journal[1].request = Request(auth.commit)
    /\ family # "first" /\ sent # <<>> => journal # <<>>
    /\ Only({"attempt", "result", "ambiguous", "captured", "rejected", "completed"})
    /\ \A e \in Kinds : True(e)
    /\ crashes = 0 /\ sent # <<>> /\ sent[1].answer.received =>
          \/ raw # None \/ Resulted \/ family \in Later \ sent[1].answer.capturable
          \/ \E p \in Procs : run[p].pc = "answered"

(* What is on disk of the call when its owner is done with it. *)
Settled ==
    /\ Noted("ambiguous") => Nobody /\ raw = None /\ output = None
    /\ Noted("rejected") => Nobody /\ raw # None /\ output = None
    /\ Noted("completed") => raw # None
    /\ raw # None => family \in Later /\ sent # <<>> /\ raw.answer = sent[1].answer
    /\ output # None =>
          /\ Nobody /\ sent # <<>>
          /\ output.status \in {"UNKNOWN_DISPATCH", "INCOMPLETE_COST", "CEILING", "INVALID",
                                "FROZEN"}
          /\ output.known \subseteq {sent[1].answer.cost}
          /\ output.status = "UNKNOWN_DISPATCH" <=> ~sent[1].answer.received
          /\ output.status # "FROZEN" /\ output.calls = 1 => sent[1].answer.received
          /\ output.status = "FROZEN" =>
                /\ Paid(output.answer, output.known)
                /\ family = "reopen" /\ output.answer.outcome = "WATCH" => output.answer.reopen

(* What a zero-call step may derive from. *)
Source ==
    \/ family = "v4" /\ Noted("rejected") /\ raw # None
    \/ /\ family = "reopen" /\ output # None
       /\ output.status = "FROZEN" /\ output.answer.reopen
Derivable == Source /\ (family = "v4" => Paid(raw.answer, Known(raw.answer)))
Deriving(p) == run[p].pc = "deriving" => Derivable
Derivations ==
    derived[1] # None =>
        Source /\ (family = "v4" => Paid(derived[1].answer, derived[1].known))

IInv ==
    /\ Shape
    /\ \A p \in Procs : Running(p) /\ Stage(p) /\ Deriving(p)
    /\ Authorized /\ Called /\ Settled /\ Derivations

-----------------------------------------------------------------------------
(* What appending an entry to a journal does. *)
LEMMA Appended ==
    ASSUME NEW s, NEW e, IsSequence(s)
    PROVE  /\ IsSequence(Append(s, e))
           /\ ToSet(Append(s, e)) = ToSet(s) \cup {e}
           /\ Len(Append(s, e)) = Len(s) + 1
           /\ Append(s, e) # <<>>
           /\ s # <<>> => Append(s, e)[1] = s[1]
           /\ s = <<>> => Append(s, e)[1] = e
<1> DEFINE T == ToSet(s) \cup {e}
<1> DEFINE t == Append(s, e)
<1>1. s \in Seq(T) /\ e \in T
  BY SeqMonotonic DEF IsSequence
<1> HIDE DEF T
<1>2. /\ t \in Seq(T) /\ Len(t) = Len(s) + 1 /\ Len(s) \in Nat
      /\ \A i \in 1..Len(s) : t[i] = s[i]
      /\ t[Len(s) + 1] = e
  BY <1>1, AppendProperties, LenProperties
<1>3. DOMAIN t = 1..(Len(s) + 1) /\ DOMAIN s = 1..Len(s)
  BY <1>1, <1>2, LenProperties
<1> HIDE DEF t
<1>4. ToSet(t) = ToSet(s) \cup {e}
  BY <1>2, <1>3 DEF ToSet
<1>5. t \in Seq(ToSet(t))
  BY <1>2, <1>4 DEF T
<1>6. s # <<>> => Len(s) >= 1
  BY <1>1, <1>2, EmptySeq
<1>7. t # <<>>
  BY <1>2, EmptySeq
<1>8. s # <<>> => t[1] = s[1]
  BY <1>2, <1>6
<1>9. s = <<>> => t[1] = e
  BY <1>2, EmptySeq
<1> QED
  BY <1>2, <1>4, <1>5, <1>7, <1>8, <1>9 DEF t, IsSequence

(* The empty one. *)
LEMMA Empty == IsSequence(<<>>) /\ ToSet(<<>>) = {} /\ Len(<<>>) = 0
<1>1. ToSet(<<>>) = {}
  BY DEF ToSet
<1> QED
  BY <1>1, EmptySeq DEF IsSequence

(* One that holds something holds its first element. *)
LEMMA HasFirst ==
    ASSUME NEW s, IsSequence(s), s # <<>>
    PROVE  s[1] \in ToSet(s)
<1>1. Len(s) \in Nat \ {0} /\ DOMAIN s = 1..Len(s)
  BY EmptySeq, LenProperties DEF IsSequence
<1> QED
  BY <1>1 DEF ToSet

(* The last one is among its elements. *)
LEMMA HasLast ==
    ASSUME NEW s, IsSequence(s), s # <<>>
    PROVE  Last(s) \in ToSet(s)
<1>1. Len(s) \in Nat \ {0} /\ DOMAIN s = 1..Len(s)
  BY EmptySeq, LenProperties DEF IsSequence
<1> QED
  BY <1>1 DEF ToSet, Last

(* What is built depends on nothing but the entry of the first family. *)
LEMMA SameBuild ==
    ASSUME NEW c, family \in Families, family' = family,
           family # "first" \/ files'["entry"] = files["entry"]
    PROVE  Request(c)' = Request(c) /\ Approved(c)' = Approved(c)
<1>1. CASE family = "first"
  BY <1>1 DEF Request, ContextFirst, Approved, DryFirst, CostFirst, RequestFirst
<1>2. CASE family = "reopen"
  BY <1>2 DEF Request, ContextReopen, Approved, DryReopen, CostReopen, PreflightReopen, EntryReopen
<1>3. CASE family = "v1"
  BY <1>3 DEF Request, RequestV1, EntryV1, Approved, ReadinessV1, PreflightV1
<1>4. CASE family = "v2"
  BY <1>4 DEF Request, RequestV2, EntryV2, Approved, ReadinessV2, PreflightV2
<1>5. CASE family = "v3"
  BY <1>5 DEF Request, ContextV3, EntryV3, Approved, ReadinessV3, PreflightV3
<1>6. CASE family = "v4"
  BY <1>6 DEF Request, ContextV4, EntryV4, Gate, Approved, ReadinessV4, PreflightV4
<1> QED
  BY <1>1, <1>2, <1>3, <1>4, <1>5, <1>6 DEF Families, Later

(* Every file names the commit whose code wrote it. *)
LEMMA FileNamesCommit ==
    ASSUME NEW c, family \in Families, NEW k \in 1..Len(Names[family])
    PROVE  /\ Names[family][k] \in FileNames
           /\ family = "first" => Names[family][k] # "entry"
           /\ File(Names[family][k], c).commit = c
<1> USE DEF Names, FileNames, Families, Later
<1>1. CASE family = "first"
  <2>1. Names[family] = <<"request", "cost", "dry">>
    BY <1>1
  <2>2. k \in {1, 2, 3}
    BY <2>1
  <2>3. Names[family][k] \in {"request", "cost", "dry"}
    BY <2>1, <2>2
  <2> QED
    BY <1>1, <2>3 DEF File, RequestFirst, CostFirst, DryFirst
<1>2. CASE family = "reopen"
  <2>1. Names[family] = <<"entry", "request", "cost", "dry">>
    BY <1>2
  <2>2. k \in {1, 2, 3, 4}
    BY <2>1
  <2>3. Names[family][k] \in {"entry", "request", "cost", "dry"}
    BY <2>1, <2>2
  <2> QED
    BY <1>2, <2>3 DEF File, Entry, EntryReopen, PreflightReopen, CostReopen, DryReopen
<1>3. CASE family = "v4"
  <2>1. Names[family] = <<"gate", "entry", "preflight", "readiness">>
    BY <1>3
  <2>2. k \in {1, 2, 3, 4}
    BY <2>1
  <2>3. Names[family][k] \in {"gate", "entry", "preflight", "readiness"}
    BY <2>1, <2>2
  <2> QED
    BY <1>3, <2>3 DEF File, Gate, Entry, EntryV4, PreflightV4, ReadinessV4
<1>4. CASE family \in {"v1", "v2", "v3"}
  <2>1. Names[family] = <<"preflight", "readiness">>
    BY <1>4
  <2>2. k \in {1, 2}
    BY <2>1
  <2>3. Names[family][k] \in {"preflight", "readiness"}
    BY <2>1, <2>2
  <2> QED
    BY <1>4, <2>3 DEF File, PreflightV1, PreflightV2, PreflightV3, ReadinessV1, ReadinessV2,
                      ReadinessV3
<1> QED
  BY <1>1, <1>2, <1>3, <1>4

(* What is approved is the last file a build writes. *)
LEMMA ApprovableIsFile ==
    ASSUME family \in Families
    PROVE  Approvable \in FileNames
<1> USE DEF Approvable, Names, FileNames, Last, Families, Later
<1>1. CASE family = "first"
  BY <1>1
<1>2. CASE family = "reopen"
  BY <1>2
<1>3. CASE family = "v4"
  BY <1>3
<1>4. CASE family \in {"v1", "v2", "v3"}
  BY <1>4
<1> QED
  BY <1>1, <1>2, <1>3, <1>4

(* Who is prepared runs on what was approved for the commit. *)
LEMMA PreparedIsApproved ==
    ASSUME NEW c, family \in Families, Prepared(c)
    PROVE  approval = Approved(c)
<1>1. CASE family = "first"
  BY <1>1 DEF Prepared, Approved, FirstAuthorized
<1>2. CASE family = "reopen"
  BY <1>2 DEF Prepared, Approved, ReopenApproved
<1>3. CASE family \in {"v1", "v2"}
  BY <1>3 DEF Prepared, Approved, PrepareV1, PrepareV2
<1>4. CASE family \in {"v3", "v4"}
  BY <1>4 DEF Prepared, Approved, PrepareV3, PrepareV4
<1> QED
  BY <1>1, <1>2, <1>3, <1>4 DEF Families, Later

(* What was approved holds the request. *)
LEMMA ApprovedHoldsRequest ==
    ASSUME NEW c, family \in Families, auth.of = Approved(c)
    PROVE  ApprovedRequest = Request(c)
<1>1. CASE family = "first"
  BY <1>1 DEF ApprovedRequest, Approved, DryFirst, RequestFirst, Later
<1>2. CASE family = "reopen"
  BY <1>2 DEF ApprovedRequest, Approved, DryReopen, PreflightReopen, Later
<1>3. CASE family \in Later
  BY <1>3 DEF ApprovedRequest, Approved, Later, ReadinessV1, ReadinessV2, ReadinessV3,
              ReadinessV4, PreflightV1, PreflightV2, PreflightV3, PreflightV4
<1> QED
  BY <1>1, <1>2, <1>3 DEF Families

(* A known cost is the charge of an answer that was received. *)
LEMMA KnownIsCost ==
    ASSUME NEW a
    PROVE  /\ Known(a) \subseteq {a.cost}
           /\ Known(a) # {} => a.received /\ Known(a) = {a.cost}
  BY DEF Known

(* What the later executors accept is a decision they may take. *)
LEMMA AcceptedIsPaid ==
    ASSUME NEW c, NEW a, family \in Later, Accepts(c, a), Within(a)
    PROVE  /\ Known(a) = {a.cost} /\ a.cost <= Ceiling
           /\ a.outcome = "INVEST" => a.eligible /\ ~a.reopen /\ family \in {"v1", "v4"}
<1>1. Known(a) = {a.cost} /\ a.cost <= Ceiling
  BY KnownIsCost DEF Within
<1>2. CASE family = "v1"
  BY <1>1, <1>2 DEF Accepts, AcceptsV1, Valid, ValidV1
<1>3. CASE family = "v2"
  BY <1>1, <1>3 DEF Accepts, AcceptsV2, Valid, ValidV2
<1>4. CASE family = "v3"
  BY <1>1, <1>4 DEF Accepts, AcceptsV3, Valid, ValidV3
<1>5. CASE family = "v4"
  BY <1>1, <1>5 DEF Accepts, AcceptsV4, Valid, ValidV4
<1> QED
  BY <1>2, <1>3, <1>4, <1>5 DEF Later

(* The verdict of the first two families, and what it freezes. *)
LEMMA VerdictOfCall ==
    ASSUME NEW c, NEW a \in Answers, NEW d, d = Completed(c, a), family \in {"first", "reopen"}
    PROVE  /\ d.known = Known(a) /\ d.proposal = Parsed(c, a) /\ (d.received <=> a.received)
           /\ Verdict(d) \in {"UNKNOWN_DISPATCH", "INCOMPLETE_COST", "CEILING", "INVALID", "FROZEN"}
           /\ Verdict(d) = "UNKNOWN_DISPATCH" <=> ~a.received
           /\ Verdict(d) = "FROZEN" =>
                 /\ Known(a) = {a.cost} /\ a.cost <= Ceiling
                 /\ d.proposal = a /\ c \in a.reads
                 /\ a.outcome = "INVEST" => a.eligible /\ ~a.reopen /\ family = "reopen"
                 /\ family = "reopen" /\ a.outcome = "WATCH" => a.reopen
<1>1. d.known = Known(a) /\ d.proposal = Parsed(c, a)
  BY DEF Completed, CompleteFirst, CompleteReopen
<1>2. d.received <=> a.received
  BY DEF Completed, CompleteFirst, CompleteReopen
<1>3. d.pass => Valid(c, a)
  BY DEF Completed, CompleteFirst, CompleteReopen
<1>4. Verdict(d) \in {"UNKNOWN_DISPATCH", "INCOMPLETE_COST", "CEILING", "INVALID", "FROZEN"}
  BY DEF Verdict
<1>5. Verdict(d) = "UNKNOWN_DISPATCH" <=> ~a.received
  BY <1>2 DEF Verdict
<1>6. ASSUME Verdict(d) = "FROZEN"
      PROVE  Valid(c, a) /\ Known(a) # {} /\ \A k \in Known(a) : ~(k > Ceiling)
  BY <1>1, <1>2, <1>3, <1>6 DEF Verdict
<1>7. ASSUME Verdict(d) = "FROZEN"
      PROVE  Known(a) = {a.cost} /\ a.cost <= Ceiling
  <2>1. Known(a) = {a.cost}
    BY <1>6, <1>7, KnownIsCost
  <2>2. a.cost \in Nat /\ Ceiling \in Nat
    BY AnswersAssumption, CeilingAssumption
  <2> QED
    BY <1>6, <1>7, <2>1, <2>2
<1>10. ASSUME Verdict(d) = "FROZEN"
       PROVE  d.proposal = a /\ c \in a.reads
  <2>1. c \in a.reads /\ a.received
    BY <1>6, <1>10, KnownIsCost, AnswersAssumption DEF Valid
  <2> QED
    BY <1>1, <2>1 DEF Parsed
<1>8. ASSUME Verdict(d) = "FROZEN", family = "first"
      PROVE  a.outcome # "INVEST"
  BY <1>6, <1>8 DEF Valid, ValidFirst
<1>9. ASSUME Verdict(d) = "FROZEN", family = "reopen"
      PROVE  /\ a.outcome = "INVEST" => a.eligible /\ ~a.reopen
             /\ a.outcome = "WATCH" => a.reopen
  BY <1>6, <1>9 DEF Valid, ValidReopen
<1> QED
  BY <1>1, <1>2, <1>4, <1>5, <1>7, <1>8, <1>9, <1>10

-----------------------------------------------------------------------------
Evidence == <<family, auth, journal, raw, output, sent>>
Steady == auth = None \/ family # "first" \/ files'["entry"] = files["entry"]

(* A step that leaves the evidence alone, and the invocation that answers  *)
(* for it unless it dies, leaves what is known of the call true.           *)
LEMMA Quiet ==
    ASSUME IInv, UNCHANGED Evidence, Steady,
           \A q \in Procs : run'[q] = run[q] \/ run'[q].pc \notin Paying,
           crashes' = crashes => \A q \in Procs : Owner(q) => run'[q] = run[q],
           crashes' # crashes => crashes' # 0
    PROVE  /\ \A q \in Procs : Stage(q)' /\ (Owner(q)' => Owner(q) /\ run'[q] = run[q])
           /\ Authorized' /\ Called' /\ Settled'
           /\ Source <=> Source'
           /\ Derivable => Derivable'
           /\ derived'[1] = derived[1] => Derivations'
<1>1. Kinds' = Kinds
  BY DEF Evidence, Kinds
<1>2. \A q \in Procs : Owner(q)' => Owner(q) /\ run'[q] = run[q]
  BY DEF Owner
<1>3. Nobody => Nobody'
  BY <1>2 DEF Nobody
<1>4. Resulted' = Resulted
  BY <1>1 DEF Resulted, Evidence
<1>5. \A a, k : Paid(a, k)' = Paid(a, k)
  BY <1>4 DEF Paid, Evidence
<1>6. \A q \in Procs : Stage(q)'
  <2> SUFFICES ASSUME NEW q \in Procs PROVE Stage(q)'
    OBVIOUS
  <2>1. CASE run'[q] = run[q]
    <3>1. Stage(q)
      BY DEF IInv
    <3> QED
      BY <1>1, <1>4, <1>5, <2>1, <3>1 DEF Stage, Owner, Answered, Only, Evidence
  <2>2. CASE run'[q].pc \notin Paying
    BY <2>2 DEF Stage, Owner, Paying
  <2> QED
    BY <2>1, <2>2
<1>7. Authorized'
  <2>1. Authorized
    BY DEF IInv
  <2>2. CASE auth = None
    BY <2>1, <2>2 DEF Authorized, Evidence
  <2>3. CASE auth # None
    <3>1. \A c : Approved(c)' = Approved(c)
      BY <2>3, SameBuild DEF Steady, IInv, Shape, Evidence
    <3> QED
      BY <2>1, <2>3, <3>1 DEF Authorized, Evidence
  <2> QED
    BY <2>2, <2>3
<1>8. Called'
  <2>1. Called
    BY DEF IInv
  <2>2. CASE auth = None
    <3>1. journal = <<>> /\ sent = <<>>
      BY <2>2 DEF IInv, Authorized
    <3> QED
      BY <1>1, <2>1, <3>1, Empty DEF Called, Evidence, Only, True
  <2>3. CASE auth # None
    <3>1. \A c : Request(c)' = Request(c)
      BY <2>3, SameBuild DEF Steady, IInv, Shape, Evidence
    <3>2. crashes' = 0 => crashes' = crashes
      OBVIOUS
    <3>3. ASSUME crashes' = 0, NEW q \in Procs, run[q].pc = "answered"
          PROVE  run'[q].pc = "answered"
      BY <3>2, <3>3 DEF Owner, Paying
    <3> QED
      BY <1>1, <1>4, <2>1, <2>3, <3>1, <3>2, <3>3 DEF Called, Evidence, Only, True
  <2> QED
    BY <2>2, <2>3
<1>9. Settled'
  <2>1. Settled
    BY DEF IInv
  <2>2. Noted("ambiguous")' = Noted("ambiguous")
    BY <1>1 DEF Noted
  <2>3. Noted("rejected")' = Noted("rejected")
    BY <1>1 DEF Noted
  <2>4. Noted("completed")' = Noted("completed")
    BY <1>1 DEF Noted
  <2> QED
    BY <1>3, <1>5, <2>1, <2>2, <2>3, <2>4 DEF Settled, Evidence
<1>10. Source <=> Source'
  BY <1>1 DEF Source, Noted, Evidence
<1>11. Derivable => Derivable'
  BY <1>5, <1>10 DEF Derivable, Evidence, Known
<1>12. derived'[1] = derived[1] => Derivations'
  BY <1>5, <1>10 DEF IInv, Derivations, Evidence
<1> QED
  BY <1>2, <1>6, <1>7, <1>8, <1>9, <1>10, <1>11, <1>12

(* One invocation moves; the others stay where they are. *)
LEMMA Moved ==
    ASSUME Shape, NEW p \in Procs, NEW r \in Run, run' = [run EXCEPT ![p] = r]
    PROVE  /\ run' \in [Procs -> Run] /\ run'[p] = r
           /\ \A q \in Procs : q # p => run'[q] = run[q]
  BY DEF Shape

(* A step of the call's owner: nobody else has part in it, and nothing was *)
(* derived yet.                                                            *)
LEMMA OwnerStep ==
    ASSUME IInv, NEW p \in Procs, NEW r \in Run, Owner(p), run' = [run EXCEPT ![p] = r],
           r.pc \in Paying \cup {"idle"}, r.pc # "idle" => r.code = run[p].code,
           UNCHANGED <<family, head, env, files, approval, auth, derived, crashes>>,
           IsSequence(journal)', IsSequence(sent)'
    PROVE  /\ Shape' /\ Authorized' /\ Derivations'
           /\ \A q \in Procs : Running(q)' /\ Deriving(q)' /\ (q # p => Stage(q)' /\ ~Owner(q)')
           /\ auth # None /\ auth.commit \in Commits /\ auth.commit = run[p].code
           /\ output = None /\ ~Noted("ambiguous") /\ ~Noted("rejected")
           /\ r.pc = "idle" => Nobody'
           /\ \A c : Request(c)' = Request(c)
<1>1. run' \in [Procs -> Run] /\ run'[p] = r /\ \A q \in Procs : q # p => run'[q] = run[q]
  BY Moved DEF IInv
<1>2. \A q \in Procs : q # p => ~Owner(q)
  BY DEF IInv, Running
<1>3. \A q \in Procs : q # p => ~Owner(q)' /\ Stage(q)'
  BY <1>1, <1>2 DEF Owner, Stage, Paying
<1>4. auth # None /\ auth.commit = run[p].code /\ auth.commit \in Commits
  BY DEF IInv, Running, Authorized
<1>5. output = None /\ ~Noted("ambiguous") /\ ~Noted("rejected")
  BY DEF IInv, Stage, Settled, Nobody
<1>6. ~Source
  BY <1>5 DEF Source
<1>7. \A c : Approved(c)' = Approved(c) /\ Request(c)' = Request(c)
  BY SameBuild DEF IInv, Shape
<1>8. Shape'
  BY <1>1 DEF IInv, Shape
<1>9. Authorized'
  BY <1>4, <1>7 DEF IInv, Authorized
<1>10. Derivations'
  BY <1>6 DEF IInv, Derivations
<1>11. \A q \in Procs : Deriving(q)'
  <2> SUFFICES ASSUME NEW q \in Procs PROVE run'[q].pc # "deriving"
    BY DEF Deriving
  <2>1. run[q].pc # "deriving"
    BY <1>6 DEF IInv, Deriving, Derivable
  <2> QED
    BY <1>1, <2>1 DEF Paying
<1>12. \A q \in Procs : Running(q)'
  <2> SUFFICES ASSUME NEW q \in Procs PROVE Running(q)'
    OBVIOUS
  <2>1. CASE q # p
    BY <1>1, <1>2, <1>7, <2>1 DEF IInv, Running, Owner, Names
  <2>2. CASE q = p
    BY <1>1, <1>3, <1>4, <2>2 DEF IInv, Running, Owner, Paying
  <2> QED
    BY <2>1, <2>2
<1>13. r.pc = "idle" => Nobody'
  BY <1>1, <1>3 DEF Nobody, Owner, Paying
<1> QED
  BY <1>3, <1>4, <1>5, <1>7, <1>8, <1>9, <1>10, <1>11, <1>12, <1>13

-----------------------------------------------------------------------------
(* Initially. *)
THEOREM IInit == Init => IInv
<1> SUFFICES ASSUME Init PROVE IInv
  OBVIOUS
<1>1. run \in [Procs -> Run] /\ \A p \in Procs : run[p].pc = "idle"
  BY DEF Init, Run, Idle, States
<1>2. Kinds = {} /\ IsSequence(journal) /\ IsSequence(sent) /\ Len(sent) = 0 /\ ToSet(sent) = {}
  BY Empty DEF Init, Kinds
<1>3. DOMAIN files = FileNames /\ \A n \in FileNames : files[n] = None
  BY DEF Init
<1>4. DOMAIN derived = {1, 2} /\ derived[1] = None
  BY DEF Init
<1>5. Shape
  BY <1>1, <1>2, <1>3, <1>4, BuildsAssumption, CrashAssumption DEF Init, Shape
<1>6. \A p \in Procs : Running(p) /\ Stage(p) /\ Deriving(p)
  BY <1>1 DEF Running, Stage, Deriving, Owner, Paying
<1>7. Authorized /\ Called /\ Settled /\ Derivations
  BY <1>2, <1>4 DEF Init, Authorized, Called, Settled, Derivations, Only, Noted
<1> QED
  BY <1>5, <1>6, <1>7 DEF IInv

(* Checking out, changing the key, the entry of the first family and the   *)
(* owner's approval happen between invocations.                            *)
LEMMA BetweenRuns ==
    ASSUME IInv, Checkout \/ ChangeKey \/ JudgeEntry \/ Approve
    PROVE  IInv'
<1>1. Between /\ run' = run /\ crashes' = crashes /\ derived' = derived /\ UNCHANGED Evidence
  BY DEF Checkout, ChangeKey, JudgeEntry, Approve, Evidence, evidence
<1>2. Steady
  BY DEF Checkout, ChangeKey, JudgeEntry, Approve, Steady, Unpaid
<1>3. /\ \A q \in Procs : Stage(q)'
      /\ Authorized' /\ Called' /\ Settled' /\ Derivations'
  <2> USE <1>1, <1>2
  <2> QED
    BY Quiet
<1>4. \A q \in Procs : Running(q)' /\ Deriving(q)'
  BY <1>1 DEF Between, Running, Deriving, Owner, Paying
<1>5. Shape'
  <2> USE <1>1 DEF IInv, Shape, Evidence
  <2>1. CASE Checkout
    BY <2>1 DEF Checkout
  <2>2. CASE ChangeKey
    BY <2>2 DEF ChangeKey
  <2>3. CASE JudgeEntry
    BY <2>3 DEF JudgeEntry, EntryFirst
  <2>4. CASE Approve
    <3>1. files[Approvable].commit \in Commits
      BY <2>4, ApprovableIsFile DEF Approve
    <3> QED
      BY <2>4, <3>1 DEF Approve
  <2> QED
    BY <2>1, <2>2, <2>3, <2>4
<1> QED
  BY <1>3, <1>4, <1>5 DEF IInv

(* A zero-call invocation starts: to build, to pay for the call it is      *)
(* prepared for, or to derive from what the call left.                     *)
LEMMA Starts ==
    ASSUME IInv, NEW p \in Procs, StartBuild(p) \/ Start(p) \/ StartDerive(p)
    PROVE  IInv'
<1>0. PICK x \in {"building", "started", "deriving"} :
         /\ run' = [run EXCEPT ![p] = [Idle EXCEPT !.pc = x, !.code = head]]
         /\ x = "started" => Prepared(head)
         /\ x = "deriving" => Recoverable \/ Processable
  BY DEF StartBuild, Start, StartDerive
<1> DEFINE r == [Idle EXCEPT !.pc = x, !.code = head]
<1>1. /\ run[p].pc = "idle" /\ crashes' = crashes /\ derived' = derived /\ UNCHANGED Evidence
      /\ UNCHANGED <<family, head, env, files, approval>>
  BY DEF StartBuild, Start, StartDerive, Evidence, evidence
<1>2. /\ r \in Run /\ r.code = head /\ r.next = 1 /\ r.pc = x
      /\ run' = [run EXCEPT ![p] = r]
  BY <1>0 DEF IInv, Shape, Idle, Run, States
<1> HIDE DEF r
<1>3. run' \in [Procs -> Run] /\ run'[p] = r /\ \A q \in Procs : q # p => run'[q] = run[q]
  BY <1>2, Moved DEF IInv
<1>4. /\ \A q \in Procs : Stage(q)'
      /\ Authorized' /\ Called' /\ Settled' /\ Derivations' /\ (Derivable => Derivable')
      /\ \A q \in Procs : Owner(q)' => Owner(q)
  <2>1. \A q \in Procs : run'[q] = run[q] \/ run'[q].pc \notin Paying
    BY <1>2, <1>3 DEF Paying
  <2>2. \A q \in Procs : Owner(q) => run'[q] = run[q]
    BY <1>1, <1>3 DEF Owner, Paying
  <2> QED
    BY <1>1, <2>1, <2>2, Quiet DEF Steady
<1>5. Shape'
  BY <1>1, <1>3 DEF IInv, Shape, Evidence
<1>6. r.pc = "started" => approval = Approved(head)
  BY <1>0, <1>2, PreparedIsApproved DEF IInv, Shape
<1>7. r.pc = "deriving" => Derivable
  <2> SUFFICES ASSUME r.pc = "deriving" PROVE Derivable
    OBVIOUS
  <2>1. Recoverable \/ Processable
    BY <1>0, <1>2
  <2>2. CASE Recoverable
    <3>1. Noted("rejected")
      BY <2>2, HasLast DEF Recoverable, Unaccepted, Noted, Kinds, IInv, Shape
    <3>2. sent # <<>> /\ raw.answer = sent[1].answer /\ raw # None /\ family = "v4"
      BY <2>2, <3>1 DEF Recoverable, IInv, Settled
    <3>3. Within(raw.answer) /\ Accepts(head, raw.answer)
      BY <2>2, <3>2 DEF Recoverable, AcceptsV4, Accepts
    <3>4. raw.answer.received
      BY <3>3, KnownIsCost DEF Within
    <3> QED
      BY <3>1, <3>2, <3>3, <3>4, AcceptedIsPaid DEF Derivable, Source, Paid, Later
  <2>3. CASE Processable
    BY <2>3 DEF Processable, VerifyResult, Derivable, Source, IInv, Settled
  <2> QED
    BY <2>1, <2>2, <2>3
<1>8. Approved(head)' = Approved(head)
  BY <1>1, SameBuild DEF IInv, Shape
<1>9. \A q \in Procs : Running(q)' /\ Deriving(q)'
  <2> SUFFICES ASSUME NEW q \in Procs PROVE Running(q)' /\ Deriving(q)'
    OBVIOUS
  <2>1. CASE q = p
    <3>1. ~Owner(q)'
      BY <1>2, <1>3, <2>1 DEF Owner, Paying
    <3>2. 1 \in 1..Len(Names[family])
      BY <1>1 DEF IInv, Shape, Families, Later, Names
    <3> QED
      BY <1>1, <1>2, <1>3, <1>4, <1>6, <1>7, <1>8, <2>1, <3>1, <3>2 DEF Running, Deriving
  <2>2. CASE q # p
    <3>1. Running(q) /\ Deriving(q)
      BY DEF IInv
    <3>2. Running(q)'
      BY <1>1, <1>3, <1>4, <1>8, <2>2, <3>1 DEF Running, Evidence, Owner
    <3> QED
      BY <1>3, <1>4, <2>2, <3>1, <3>2 DEF Deriving
  <2> QED
    BY <2>1, <2>2
<1> QED
  BY <1>4, <1>5, <1>9 DEF IInv

(* A build writes a file of the commit checked out. *)
LEMMA BuildStep ==
    ASSUME IInv, NEW p \in Procs, Build(p)
    PROVE  IInv'
<1> DEFINE n == Names[family][run[p].next]
<1>1. /\ run[p].pc = "building" /\ crashes' = crashes /\ derived' = derived /\ UNCHANGED Evidence
      /\ UNCHANGED <<family, head, env, approval>>
  BY DEF Build, Evidence, evidence
<1>2. /\ run[p].code = head /\ run[p].next \in 1..Len(Names[family])
      /\ n \in FileNames /\ (family = "first" => n # "entry") /\ File(n, head).commit = head
  BY <1>1, FileNamesCommit DEF IInv, Shape, Running
<1>3. files' = files \/ files' = [files EXCEPT ![n] = File(n, head)]
  BY <1>2 DEF Build
<1>4. PICK r \in Run :
         /\ run' = [run EXCEPT ![p] = r]
         /\ \/ r.pc = "idle"
            \/ r.pc = "building" /\ r.code = head /\ r.next \in 1..Len(Names[family])
  <2>1. run[p] \in Run /\ Len(Names[family]) \in Nat
    BY DEF IInv, Shape, Families, Later, Names
  <2>2. CASE ~WriteNew(n) \/ run[p].next = Len(Names[family])
    <3>1. run' = [run EXCEPT ![p] = Idle]
      BY <2>2 DEF Build
    <3>2. Idle \in Run /\ Idle.pc = "idle"
      BY DEF Idle, Run, States
    <3> QED
      BY <3>1, <3>2
  <2>3. CASE ~(~WriteNew(n) \/ run[p].next = Len(Names[family]))
    <3> DEFINE r == [run[p] EXCEPT !.next = run[p].next + 1]
    <3>1. run' = [run EXCEPT ![p] = r]
      BY <2>3 DEF Build
    <3>2. run[p].next + 1 \in 1..Len(Names[family]) /\ run[p].next + 1 \in Nat
      BY <1>2, <2>1, <2>3
    <3>3. r \in Run /\ r.pc = "building" /\ r.code = head /\ r.next \in 1..Len(Names[family])
      BY <1>1, <1>2, <2>1, <3>2 DEF Run
    <3> HIDE DEF r
    <3> QED
      BY <3>1, <3>3
  <2> QED
    BY <2>2, <2>3
<1> HIDE DEF n
<1>5. run' \in [Procs -> Run] /\ run'[p] = r /\ \A q \in Procs : q # p => run'[q] = run[q]
  BY <1>4, Moved DEF IInv
<1>6. family # "first" \/ files'["entry"] = files["entry"]
  BY <1>2, <1>3 DEF IInv, Shape, FileNames
<1>7. /\ \A q \in Procs : Stage(q)'
      /\ Authorized' /\ Called' /\ Settled' /\ Derivations' /\ (Derivable => Derivable')
      /\ \A q \in Procs : Owner(q)' => Owner(q)
  <2>1. \A q \in Procs : run'[q] = run[q] \/ run'[q].pc \notin Paying
    BY <1>4, <1>5 DEF Paying
  <2>2. \A q \in Procs : Owner(q) => run'[q] = run[q]
    BY <1>1, <1>5 DEF Owner, Paying
  <2> QED
    BY <1>1, <1>6, <2>1, <2>2, Quiet DEF Steady
<1>8. Shape'
  <2>1. DOMAIN files' = FileNames /\ \A m \in FileNames : files'[m] # None => files'[m].commit \in Commits
    BY <1>2, <1>3 DEF IInv, Shape
  <2> QED
    BY <1>1, <1>5, <2>1 DEF IInv, Shape, Evidence
<1>9. Approved(head)' = Approved(head)
  BY <1>1, <1>6, SameBuild DEF IInv, Shape
<1>10. \A q \in Procs : Running(q)' /\ Deriving(q)'
  <2> SUFFICES ASSUME NEW q \in Procs PROVE Running(q)' /\ Deriving(q)'
    OBVIOUS
  <2>1. CASE q = p
    <3>1. ~Owner(q)'
      BY <1>4, <1>5, <2>1 DEF Owner, Paying
    <3> QED
      BY <1>1, <1>4, <1>5, <2>1, <3>1 DEF Running, Deriving
  <2>2. CASE q # p
    <3>1. Running(q) /\ Deriving(q)
      BY DEF IInv
    <3>2. Running(q)'
      BY <1>1, <1>5, <1>7, <1>9, <2>2, <3>1 DEF Running, Evidence, Owner
    <3> QED
      BY <1>5, <1>7, <2>2, <3>1, <3>2 DEF Deriving
  <2> QED
    BY <2>1, <2>2
<1> QED
  BY <1>7, <1>8, <1>10 DEF IInv

(* An invocation dies. *)
LEMMA CrashStep ==
    ASSUME IInv, NEW p \in Procs, Crash(p)
    PROVE  IInv'
<1>1. /\ crashes' = crashes + 1 /\ derived' = derived /\ UNCHANGED Evidence
      /\ UNCHANGED <<family, head, env, files, approval>>
      /\ run' = [run EXCEPT ![p] = Idle]
  BY DEF Crash, Finish, Evidence, evidence
<1>2. Idle \in Run /\ Idle.pc = "idle"
  BY DEF Idle, Run, States
<1>3. run' \in [Procs -> Run] /\ run'[p] = Idle /\ \A q \in Procs : q # p => run'[q] = run[q]
  BY <1>1, <1>2, Moved DEF IInv
<1>4. crashes' \in 0..MaxCrashes /\ crashes' # 0 /\ crashes' # crashes
  BY <1>1, CrashAssumption DEF IInv, Shape, Crash
<1>5. /\ \A q \in Procs : Stage(q)'
      /\ Authorized' /\ Called' /\ Settled' /\ Derivations' /\ (Derivable => Derivable')
      /\ \A q \in Procs : Owner(q)' => Owner(q)
  <2>1. \A q \in Procs : run'[q] = run[q] \/ run'[q].pc \notin Paying
    BY <1>2, <1>3 DEF Paying
  <2> QED
    BY <1>1, <1>4, <2>1, Quiet DEF Steady
<1>6. Shape'
  BY <1>1, <1>3, <1>4 DEF IInv, Shape, Evidence
<1>7. Approved(head)' = Approved(head)
  BY <1>1, SameBuild DEF IInv, Shape
<1>8. \A q \in Procs : Running(q)' /\ Deriving(q)'
  <2> SUFFICES ASSUME NEW q \in Procs PROVE Running(q)' /\ Deriving(q)'
    OBVIOUS
  <2>1. CASE q = p
    BY <1>2, <1>3, <2>1 DEF Running, Deriving, Owner, Paying
  <2>2. CASE q # p
    <3>1. Running(q) /\ Deriving(q)
      BY DEF IInv
    <3>2. Running(q)'
      BY <1>1, <1>3, <1>5, <1>7, <2>2, <3>1 DEF Running, Evidence, Owner
    <3> QED
      BY <1>3, <1>5, <2>2, <3>1, <3>2 DEF Deriving
  <2> QED
    BY <2>1, <2>2
<1> QED
  BY <1>5, <1>6, <1>8 DEF IInv

-----------------------------------------------------------------------------
(* The invariant, but for what a step of owner p has to show itself. *)
Keeps(p) ==
    /\ Shape' /\ Authorized' /\ Derivations'
    /\ \A q \in Procs : Running(q)' /\ Deriving(q)' /\ (q # p => Stage(q)' /\ ~Owner(q)')
    /\ auth # None /\ auth.commit \in Commits /\ auth.commit = run[p].code
    /\ output = None /\ ~Noted("ambiguous") /\ ~Noted("rejected")
    /\ \A c : Request(c)' = Request(c)

(* The owner goes on to its next step. *)
LEMMA OwnerGoes ==
    ASSUME IInv, NEW p \in Procs, Owner(p), NEW x \in Paying, Goto(p, x),
           UNCHANGED <<family, head, env, files, approval, auth, derived, crashes>>,
           IsSequence(journal)', IsSequence(sent)'
    PROVE  /\ Keeps(p)
           /\ run'[p].pc = x /\ run'[p].code = run[p].code /\ run'[p].answer = run[p].answer
<1> DEFINE r == [run[p] EXCEPT !.pc = x]
<1>1. run[p] \in Run /\ run \in [Procs -> Run]
  BY DEF IInv, Shape
<1>2. run' = [run EXCEPT ![p] = r]
  BY <1>1 DEF Goto
<1>3. r \in Run /\ r.pc = x /\ r.code = run[p].code /\ r.answer = run[p].answer
  BY <1>1 DEF Run, States, Paying
<1> HIDE DEF r
<1>4. run'[p] = r
  BY <1>1, <1>2
<1>5. Keeps(p)
  BY <1>2, <1>3, OwnerStep DEF Keeps
<1> QED
  BY <1>3, <1>4, <1>5

(* The owner is done. *)
LEMMA OwnerFinishes ==
    ASSUME IInv, NEW p \in Procs, Owner(p), Finish(p),
           UNCHANGED <<family, head, env, files, approval, auth, derived, crashes>>,
           IsSequence(journal)', IsSequence(sent)'
    PROVE  Keeps(p) /\ Stage(p)' /\ Nobody' /\ run'[p].pc = "idle"
<1>1. run' = [run EXCEPT ![p] = Idle]
  BY DEF Finish
<1>2. Idle \in Run /\ Idle.pc = "idle"
  BY DEF Idle, Run, States
<1>3. run'[p] = Idle
  BY <1>1 DEF IInv, Shape
<1>4. Keeps(p) /\ Nobody'
  BY <1>1, <1>2, OwnerStep DEF Keeps
<1>5. Stage(p)'
  BY <1>2, <1>3 DEF Stage, Owner, Paying
<1> QED
  BY <1>2, <1>3, <1>4, <1>5

(* The owner notes something in a journal that was begun. *)
LEMMA OwnerNotes ==
    ASSUME IInv, NEW p \in Procs, Owner(p), NEW e, journal' = Append(journal, e),
           Keeps(p), UNCHANGED <<family, auth, sent, crashes>>,
           e.kind \in {"result", "ambiguous", "captured", "rejected", "completed"},
           family = "first" \/ journal # <<>>,
           raw # None => raw' # None,
           True(e), run[p].pc = "answered" => e.kind = "result"
    PROVE  /\ Called' /\ Kinds' = Kinds \cup {e}
           /\ Resulted => Resulted'
<1>1. /\ IsSequence(journal') /\ Kinds' = Kinds \cup {e} /\ journal' # <<>>
      /\ journal # <<>> => journal'[1] = journal[1]
  BY Appended DEF IInv, Shape, Kinds
<1>2. Resulted => Resulted'
  BY <1>1 DEF Resulted
<1>3. Len(sent') <= 1 /\ \A s \in ToSet(sent') :
          s.commit = auth'.commit /\ s.request = Request(auth.commit)' /\ s.answer \in Answers
  BY DEF IInv, Called, Keeps
<1>4. family' # "first" /\ journal' # <<>> =>
          journal'[1].kind = "attempt" /\ journal'[1].request = Request(auth.commit)'
  BY <1>1 DEF IInv, Called, Keeps
<1>5. Only({"attempt", "result", "ambiguous", "captured", "rejected", "completed"})'
  BY <1>1 DEF IInv, Called, Only
<1>6. ASSUME crashes' = 0, sent' # <<>>, sent'[1].answer.received
      PROVE  raw' # None \/ Resulted' \/ family' \in Later \ sent'[1].answer.capturable
  <2>1. \/ raw # None \/ Resulted \/ family \in Later \ sent[1].answer.capturable
        \/ \E q \in Procs : run[q].pc = "answered"
    BY <1>6 DEF IInv, Called
  <2>2. CASE \E q \in Procs : run[q].pc = "answered"
    <3>1. run[p].pc = "answered"
      BY <2>2 DEF IInv, Running, Owner, Paying
    <3> QED
      BY <1>1, <3>1 DEF Resulted
  <2> QED
    BY <1>2, <2>1, <2>2
<1>7. family' # "first" /\ sent' # <<>> => journal' # <<>>
  BY <1>1
<1>8. (\A f \in Kinds : True(f))'
  BY <1>1 DEF IInv, Called, True
<1> QED
  BY <1>1, <1>2, <1>3, <1>4, <1>5, <1>6, <1>7, <1>8 DEF Called

(* The owner leaves the journal alone. *)
LEMMA OwnerWrites ==
    ASSUME IInv, NEW p \in Procs, Owner(p), UNCHANGED <<journal, family, auth, sent, crashes>>,
           Keeps(p), raw # None => raw' # None,
           run[p].pc = "answered" => raw' # None \/ family \in Later \ run[p].answer.capturable
    PROVE  Called' /\ Kinds' = Kinds /\ (Resulted' <=> Resulted)
<1>1. Kinds' = Kinds /\ (Resulted' <=> Resulted)
  BY DEF Kinds, Resulted
<1>2. /\ \A s \in ToSet(sent') :
          s.commit = auth'.commit /\ s.request = Request(auth.commit)' /\ s.answer \in Answers
      /\ family' # "first" /\ journal' # <<>> =>
          journal'[1].kind = "attempt" /\ journal'[1].request = Request(auth.commit)'
  BY DEF IInv, Called, Keeps
<1>3. ASSUME crashes' = 0, sent' # <<>>, sent'[1].answer.received
      PROVE  raw' # None \/ Resulted' \/ family' \in Later \ sent'[1].answer.capturable
  <2>1. \/ raw # None \/ Resulted \/ family \in Later \ sent[1].answer.capturable
        \/ \E q \in Procs : run[q].pc = "answered"
    BY <1>3 DEF IInv, Called
  <2>2. CASE \E q \in Procs : run[q].pc = "answered"
    <3>1. run[p].pc = "answered"
      BY <2>2 DEF IInv, Running, Owner, Paying
    <3>2. run[p].answer = sent[1].answer
      BY <3>1 DEF IInv, Stage, Answered
    <3> QED
      BY <3>1, <3>2
  <2> QED
    BY <1>1, <2>1, <2>2
<1> QED
  BY <1>1, <1>2, <1>3 DEF IInv, Called, Only, True

(* Creating the authorization, which makes the invocation its owner, or    *)
(* finding one there.                                                      *)
LEMMA Creates ==
    ASSUME IInv, NEW p \in Procs, Create(p)
    PROVE  IInv'
<1>1. /\ run[p].pc = "started" /\ run[p].code = head /\ approval = Approved(head)
      /\ UNCHANGED <<family, head, env, files, approval, journal, raw, output, derived, sent,
                     crashes>>
  BY DEF Create, IInv, Running
<1>2. \A c : Approved(c)' = Approved(c) /\ Request(c)' = Request(c)
  BY <1>1, SameBuild DEF IInv, Shape
<1>3. CASE auth = None /\ auth' = Auth(run[p].code) /\ Goto(p, "authorized")
  <2> DEFINE r == [run[p] EXCEPT !.pc = "authorized"]
  <2>1. run[p] \in Run /\ run \in [Procs -> Run]
    BY DEF IInv, Shape
  <2>2. run' = [run EXCEPT ![p] = r]
    BY <1>3, <2>1 DEF Goto
  <2>3. r \in Run /\ r.pc = "authorized" /\ r.code = head
    BY <1>1, <2>1 DEF Run, States
  <2> HIDE DEF r
  <2>4. run' \in [Procs -> Run] /\ run'[p] = r /\ \A q \in Procs : q # p => run'[q] = run[q]
    BY <2>1, <2>2, <2>3
  <2>5. auth' = [commit |-> head, of |-> Approved(head)]
    BY <1>1, <1>3 DEF Auth, AuthFirst, AuthReopen, LedgerLater
  <2>6. auth' # None /\ auth'.commit = head /\ auth'.of = Approved(head)
    BY <2>5 DEF None
  <2>7. \A q \in Procs : ~Owner(q)
    BY <1>3 DEF IInv, Running
  <2>8. journal = <<>> /\ raw = None /\ output = None /\ sent = <<>>
    BY <1>3 DEF IInv, Authorized
  <2>9. Kinds = {} /\ Kinds' = {} /\ ToSet(sent') = {} /\ Len(sent') = 0
    BY <1>1, <2>8, Empty DEF Kinds
  <2>10. Shape'
    BY <1>1, <2>4 DEF IInv, Shape
  <2>11. Authorized'
    BY <1>1, <1>2, <2>6, <2>10 DEF Authorized, Shape
  <2>12. Called' /\ Settled'
    BY <1>1, <2>8, <2>9 DEF Called, Settled, Noted, Only, True
  <2>13. ~Source /\ Derivations'
    BY <1>1, <2>8, <2>9 DEF Source, Noted, IInv, Derivations
  <2>14. \A q \in Procs : Stage(q)'
    <3> SUFFICES ASSUME NEW q \in Procs PROVE Stage(q)'
      OBVIOUS
    <3>1. CASE q = p
      BY <1>1, <2>3, <2>4, <2>8, <2>9, <3>1 DEF Stage, Only
    <3>2. CASE q # p
      BY <2>4, <2>7, <3>2 DEF Stage, Owner, Paying
    <3> QED
      BY <3>1, <3>2
  <2>15. \A q \in Procs : Running(q)' /\ Deriving(q)'
    <3> SUFFICES ASSUME NEW q \in Procs PROVE Running(q)' /\ Deriving(q)'
      OBVIOUS
    <3>1. \A u \in Procs : Owner(u)' => u = p
      BY <2>4, <2>7 DEF Owner
    <3>2. CASE q = p
      BY <1>1, <2>3, <2>4, <2>6, <3>1, <3>2 DEF Running, Deriving
    <3>3. CASE q # p
      BY <1>1, <1>2, <2>4, <2>13, <3>1, <3>3 DEF IInv, Running, Deriving, Derivable
    <3> QED
      BY <3>2, <3>3
  <2> QED
    BY <2>10, <2>11, <2>12, <2>13, <2>14, <2>15 DEF IInv
<1>4. CASE auth' = auth /\ Finish(p)
  <2>1. run' = [run EXCEPT ![p] = Idle] /\ Idle \in Run /\ Idle.pc = "idle"
    BY <1>4 DEF Finish, Idle, Run, States
  <2>2. run' \in [Procs -> Run] /\ run'[p] = Idle /\ \A q \in Procs : q # p => run'[q] = run[q]
    BY <2>1, Moved DEF IInv
  <2>3. /\ \A q \in Procs : Stage(q)'
        /\ Authorized' /\ Called' /\ Settled' /\ Derivations' /\ (Derivable => Derivable')
        /\ \A q \in Procs : Owner(q)' => Owner(q)
    <3>1. \A q \in Procs : run'[q] = run[q] \/ run'[q].pc \notin Paying
      BY <2>1, <2>2 DEF Paying
    <3>2. \A q \in Procs : Owner(q) => run'[q] = run[q]
      BY <1>1, <2>2 DEF Owner, Paying
    <3> QED
      BY <1>1, <1>4, <3>1, <3>2, Quiet DEF Steady, Evidence
  <2>4. Shape'
    BY <1>1, <2>2 DEF IInv, Shape
  <2>5. \A q \in Procs : Running(q)' /\ Deriving(q)'
    <3> SUFFICES ASSUME NEW q \in Procs PROVE Running(q)' /\ Deriving(q)'
      OBVIOUS
    <3>1. CASE q = p
      BY <2>1, <2>2, <3>1 DEF Running, Deriving, Owner, Paying
    <3>2. CASE q # p
      <4>1. Running(q) /\ Deriving(q)
        BY DEF IInv
      <4>2. Running(q)'
        BY <1>1, <1>2, <1>4, <2>2, <2>3, <3>2, <4>1 DEF Running, Owner
      <4> QED
        BY <2>2, <2>3, <3>2, <4>1, <4>2 DEF Deriving
    <3> QED
      BY <3>1, <3>2
  <2> QED
    BY <2>3, <2>4, <2>5 DEF IInv
<1> QED
  BY <1>3, <1>4 DEF Create, Exclusive

(* Announcing the dispatch. *)
LEMMA Attempts ==
    ASSUME IInv, NEW p \in Procs, Attempt(p)
    PROVE  IInv'
<1> DEFINE e == [kind |-> "attempt", request |-> Request(run[p].code)]
<1>1. /\ run[p].pc = "authorized" /\ family # "first" /\ Owner(p)
      /\ journal = <<>> /\ sent = <<>> /\ raw = None
  BY DEF Attempt, Owner, Paying, IInv, Stage
<1>2. UNCHANGED <<family, head, env, files, approval, auth, raw, output, derived, sent, crashes>>
  BY DEF Attempt
<1>3. journal' = Append(journal, e) /\ e.kind = "attempt" /\ e.request = Request(run[p].code)
  BY DEF Attempt
<1> HIDE DEF e
<1>4. /\ IsSequence(journal') /\ Kinds' = {e} /\ journal' # <<>> /\ journal'[1] = e
      /\ IsSequence(sent') /\ ToSet(sent') = {} /\ Len(sent') = 0
  BY <1>1, <1>2, <1>3, Appended, Empty DEF Kinds
<1>5. /\ Keeps(p)
      /\ run'[p].pc = "attempted"
  BY <1>1, <1>2, <1>4, OwnerGoes DEF Attempt, Paying
<1>6. Stage(p)'
  BY <1>1, <1>2, <1>3, <1>4, <1>5 DEF Stage, Only, Keeps
<1>7. Called'
  BY <1>1, <1>2, <1>3, <1>4, <1>5 DEF Called, Only, Keeps, True
<1>8. Settled'
  BY <1>1, <1>2, <1>3, <1>4, <1>5 DEF Settled, Noted, Keeps
<1> QED
  BY <1>5, <1>6, <1>7, <1>8 DEF IInv, Keeps

(* The transport cannot be set up: nothing was sent. *)
LEMMA LacksTransport ==
    ASSUME IInv, NEW p \in Procs, NoTransport(p)
    PROVE  IInv'
<1>1. /\ run[p].pc = "attempted" /\ Owner(p) /\ family \in Later
      /\ journal # <<>> /\ sent = <<>> /\ raw = None /\ output = None /\ Only({"attempt"})
  BY DEF NoTransport, Owner, Paying, IInv, Stage
<1>2. /\ UNCHANGED <<family, head, env, files, approval, auth, raw, output, derived, sent, crashes>>
      /\ journal' = journal
  BY DEF NoTransport, evidence
<1>3. IsSequence(journal') /\ IsSequence(sent')
  BY <1>2 DEF IInv, Shape
<1>4. Keeps(p) /\ (run'[p].pc = "failed" \/ run'[p].pc = "idle")
  <2>1. CASE Goto(p, "failed")
    BY <1>1, <1>2, <1>3, <2>1, OwnerGoes DEF Paying
  <2>2. CASE Finish(p)
    BY <1>1, <1>2, <1>3, <2>2, OwnerFinishes
  <2> QED
    BY <2>1, <2>2 DEF NoTransport
<1>5. Called' /\ Kinds' = Kinds
  BY <1>1, <1>2, <1>4, OwnerWrites
<1>6. Stage(p)'
  BY <1>1, <1>2, <1>4, <1>5 DEF Stage, Only, Owner, Paying
<1>7. Settled'
  BY <1>1, <1>2, <1>4, <1>5 DEF IInv, Settled, Noted, Keeps
<1> QED
  BY <1>4, <1>5, <1>6, <1>7 DEF IInv, Keeps

(* The call itself. *)
LEMMA Dispatches ==
    ASSUME IInv, NEW p \in Procs, Dispatch(p)
    PROVE  IInv'
<1>1. /\ run[p].pc = IF family = "first" THEN "authorized" ELSE "attempted"
      /\ Owner(p) /\ sent = <<>> /\ raw = None /\ output = None /\ Only({"attempt"})
      /\ family # "first" => journal # <<>>
  BY DEF Dispatch, Owner, Paying, IInv, Stage
<1>2. /\ UNCHANGED <<family, head, env, files, approval, auth, raw, output, derived, crashes>>
      /\ journal' = journal
  BY DEF Dispatch, evidence
<1>3. PICK a \in Answers :
         /\ sent' = Append(sent, [commit |-> run[p].code, request |-> Request(run[p].code),
                                  answer |-> a])
         /\ run' = [run EXCEPT ![p].pc = IF a.received \/ family \notin Later
                                          THEN "answered" ELSE "failed",
                               ![p].answer = a]
  BY DEF Dispatch
<1> DEFINE s == [commit |-> run[p].code, request |-> Request(run[p].code), answer |-> a]
<1>4. sent' = Append(sent, s) /\ s.commit = run[p].code /\ s.request = Request(run[p].code)
      /\ s.answer = a
  BY <1>3
<1> HIDE DEF s
<1>5. /\ IsSequence(sent') /\ ToSet(sent') = {s} /\ Len(sent') = 1 /\ sent' # <<>> /\ sent'[1] = s
      /\ IsSequence(journal')
  <2>1. IsSequence(sent) /\ ToSet(sent) = {} /\ Len(sent) = 0
    BY <1>1, Empty
  <2>2. IsSequence(sent') /\ ToSet(sent') = {s} /\ Len(sent') = 1 /\ sent' # <<>> /\ sent'[1] = s
    <3>1. /\ IsSequence(sent') /\ ToSet(sent') = ToSet(sent) \cup {s} /\ Len(sent') = Len(sent) + 1
          /\ sent' # <<>> /\ (sent = <<>> => sent'[1] = s)
      <4>1. sent' = Append(sent, s)
        BY <1>4
      <4> QED
        BY <2>1, <4>1, Appended
    <3> QED
      BY <1>1, <2>1, <3>1
  <2>3. IsSequence(journal')
    BY <1>2 DEF IInv, Shape
  <2> QED
    BY <2>2, <2>3
<1>6. PICK x \in {"answered", "failed"} :
         /\ run' = [run EXCEPT ![p].pc = x, ![p].answer = a]
         /\ x = "answered" => a.received \/ family \notin Later
         /\ x = "failed" => ~a.received /\ family \in Later
  BY <1>3
<1> DEFINE r == [run[p] EXCEPT !.pc = x, !.answer = a]
<1>7. run[p] \in Run /\ run \in [Procs -> Run]
  BY DEF IInv, Shape
<1>8. run' = [run EXCEPT ![p] = r]
  BY <1>6, <1>7
<1>9. r \in Run /\ r.pc = x /\ r.code = run[p].code /\ r.answer = a
  BY <1>7 DEF Run, States
<1> HIDE DEF r
<1>10. run'[p] = r
  BY <1>7, <1>8
<1>11. Keeps(p)
  BY <1>1, <1>2, <1>5, <1>8, <1>9, OwnerStep DEF Keeps, Paying
<1>12. Kinds' = Kinds
  BY <1>2 DEF Kinds
<1>13. Stage(p)'
  <2>1. /\ run'[p].pc = x /\ run'[p].answer = a /\ sent' # <<>> /\ sent'[1].answer = a
        /\ raw' = None /\ output' = None /\ Only({"attempt"})' /\ family' = family
        /\ family # "first" => journal' # <<>>
    BY <1>1, <1>2, <1>4, <1>5, <1>9, <1>10, <1>12 DEF Only
  <2>2. CASE x = "answered"
    BY <1>6, <2>1, <2>2 DEF Stage, Owner, Paying, Answered
  <2>3. CASE x = "failed"
    BY <1>6, <2>1, <2>3 DEF Stage, Owner, Paying, Answered, Later
  <2> QED
    BY <2>2, <2>3
<1>14. Called'
  <2>1. \A t \in ToSet(sent') :
          t.commit = auth'.commit /\ t.request = Request(auth.commit)' /\ t.answer \in Answers
    BY <1>2, <1>4, <1>5, <1>11 DEF Keeps
  <2>2. family' # "first" /\ journal' # <<>> =>
          journal'[1].kind = "attempt" /\ journal'[1].request = Request(auth.commit)'
    BY <1>2, <1>11 DEF IInv, Called, Keeps
  <2>3. family' # "first" /\ sent' # <<>> => journal' # <<>>
    BY <1>1, <1>2
  <2>4. Only({"attempt", "result", "ambiguous", "captured", "rejected", "completed"})'
    BY <1>12 DEF IInv, Called, Only
  <2>6. (\A e \in Kinds : True(e))'
    BY <1>1, <1>12 DEF Only, True
  <2>5. sent'[1].answer.received => run'[p].pc = "answered"
    BY <1>4, <1>5, <1>6, <1>9, <1>10
  <2> QED
    BY <1>5, <2>1, <2>2, <2>3, <2>4, <2>5, <2>6 DEF Called
<1>15. Settled'
  BY <1>1, <1>2, <1>11, <1>12 DEF IInv, Settled, Noted, Keeps
<1> QED
  BY <1>11, <1>13, <1>14, <1>15 DEF IInv, Keeps

(* The receipt of the first two families. *)
LEMMA Receipts ==
    ASSUME IInv, NEW p \in Procs, Receipt(p)
    PROVE  IInv'
<1> DEFINE d == Completed(run[p].code, run[p].answer)
<1> DEFINE e == [kind |-> "result", of |-> d]
<1>1. /\ run[p].pc = "answered" /\ Owner(p) /\ family \notin Later
      /\ Answered(p) /\ raw = None /\ output = None /\ Only({"attempt"})
  BY DEF Receipt, Owner, Paying, IInv, Stage
<1>2. UNCHANGED <<family, head, env, files, approval, auth, raw, output, derived, sent, crashes>>
  BY DEF Receipt
<1>3. journal' = Append(journal, e) /\ e.kind = "result" /\ True(e)
  <2>1. journal' = Append(journal, e)
    BY DEF Receipt, ReceiptFirst, ReceiptReopen
  <2>2. /\ d.received = run[p].answer.received /\ d.known = Known(run[p].answer)
        /\ d.proposal = Parsed(run[p].code, run[p].answer)
    BY DEF Completed, CompleteFirst, CompleteReopen
  <2>3. sent # <<>> /\ sent[1].answer = run[p].answer /\ sent[1].commit = run[p].code
    <3>1. sent[1] \in ToSet(sent)
      BY <1>1, HasFirst DEF IInv, Shape, Answered
    <3> QED
      BY <1>1, <3>1 DEF IInv, Called, Running, Answered
  <2> HIDE DEF d
  <2>4. Tells(d, sent[1])
    BY <2>2, <2>3 DEF Tells
  <2> QED
    BY <2>1, <2>3, <2>4 DEF True
<1> HIDE DEF e, d
<1>4. IsSequence(journal') /\ IsSequence(sent')
  BY <1>2, <1>3, Appended DEF IInv, Shape
<1>5. Keeps(p) /\ run'[p].pc = "recorded" /\ run'[p].answer = run[p].answer
  BY <1>1, <1>2, <1>4, OwnerGoes DEF Receipt, Paying
<1>6. Called' /\ Kinds' = Kinds \cup {e}
  <2>1. family = "first" \/ journal # <<>>
    BY <1>1 DEF IInv, Called, Answered
  <2> QED
    BY <1>1, <1>2, <1>3, <1>5, <2>1, OwnerNotes
<1>7. Resulted'
  BY <1>1, <1>2, <1>3, <1>6 DEF Resulted, Answered
<1>8. Stage(p)'
  BY <1>1, <1>2, <1>5, <1>7 DEF Stage, Owner, Paying, Answered
<1>9. Settled'
  BY <1>1, <1>2, <1>3, <1>5, <1>6 DEF IInv, Settled, Noted, Keeps
<1> QED
  BY <1>5, <1>6, <1>8, <1>9 DEF IInv, Keeps

(* ... and their verdict. *)
LEMMA Concludes ==
    ASSUME IInv, NEW p \in Procs, Conclude(p)
    PROVE  IInv'
<1>0. PICK a, d : a = run[p].answer /\ d = Completed(run[p].code, a)
  OBVIOUS
<1>1. /\ run[p].pc = "recorded" /\ Owner(p) /\ family \in {"first", "reopen"}
      /\ Answered(p) /\ Resulted
  BY DEF Conclude, Owner, Paying, IInv, Stage, Shape, Families
<1>2. /\ UNCHANGED <<family, head, env, files, approval, auth, journal, raw, derived, sent, crashes>>
      /\ Finish(p)
  BY DEF Conclude
<1>3. raw = None
  BY <1>1 DEF IInv, Settled, Later
<1>4. IsSequence(journal') /\ IsSequence(sent')
  BY <1>2 DEF IInv, Shape
<1>5. Keeps(p) /\ Stage(p)' /\ Nobody'
  BY <1>1, <1>2, <1>4, OwnerFinishes
<1>6. Called' /\ Kinds' = Kinds /\ Resulted'
  BY <1>1, <1>2, <1>3, <1>5, OwnerWrites
<1>7. a \in Answers /\ a = sent[1].answer /\ sent # <<>>
  <2>1. sent[1] \in ToSet(sent)
    BY <1>1, HasFirst DEF IInv, Shape, Answered
  <2> QED
    BY <1>0, <1>1, <2>1 DEF IInv, Called, Answered
<1>8. /\ output'.status = Verdict(d) /\ output'.known = d.known
      /\ Verdict(d) = "FROZEN" => output'.answer = d.proposal
      /\ Verdict(d) # "FROZEN" /\ output'.calls = 1 => d.received \/ d.known # {}
  BY <1>0 DEF Conclude, BlockedFirst, BlockedReopen, FrozenFirst, FrozenReopen
<1>9. /\ d.known = Known(a) /\ (d.received <=> a.received)
      /\ Verdict(d) \in {"UNKNOWN_DISPATCH", "INCOMPLETE_COST", "CEILING", "INVALID", "FROZEN"}
      /\ Verdict(d) = "UNKNOWN_DISPATCH" <=> ~a.received
      /\ Verdict(d) = "FROZEN" =>
            /\ Known(a) = {a.cost} /\ a.cost <= Ceiling
            /\ d.proposal = a /\ run[p].code \in a.reads
            /\ a.outcome = "INVEST" => a.eligible /\ ~a.reopen /\ family = "reopen"
            /\ family = "reopen" /\ a.outcome = "WATCH" => a.reopen
  BY <1>0, <1>1, <1>7, VerdictOfCall
<1>10. output'.known \subseteq {sent[1].answer.cost}
  BY <1>7, <1>8, <1>9, KnownIsCost
<1>11. Verdict(d) = "FROZEN" => Paid(a, Known(a))'
  <2>1. auth'.commit = run[p].code
    BY <1>2, <1>5 DEF Keeps
  <2> QED
    BY <1>1, <1>2, <1>6, <1>7, <1>9, <2>1, KnownIsCost DEF Paid, Later
<1>12. Settled'
  <2>1. ~Noted("ambiguous")' /\ ~Noted("rejected")'
    BY <1>5, <1>6 DEF Keeps, Noted
  <2>2. ~Noted("completed")'
    BY <1>3, <1>6 DEF IInv, Settled, Noted
  <2>3. output'.status = "UNKNOWN_DISPATCH" <=> ~sent'[1].answer.received
    BY <1>2, <1>7, <1>8, <1>9
  <2>4. output'.status = "FROZEN" =>
          /\ Paid(output.answer, output.known)'
          /\ family' = "reopen" /\ output'.answer.outcome = "WATCH" => output'.answer.reopen
    BY <1>2, <1>8, <1>9, <1>11
  <2>5. output'.status # "FROZEN" /\ output'.calls = 1 => sent'[1].answer.received
    BY <1>2, <1>7, <1>8, <1>9, KnownIsCost
  <2> QED
    BY <1>2, <1>3, <1>5, <1>7, <1>8, <1>9, <1>10, <2>1, <2>2, <2>3, <2>4, <2>5 DEF Settled
<1> QED
  BY <1>5, <1>6, <1>12 DEF IInv, Keeps

(* The later executors note that they do not know what came of the call. *)
LEMMA FindsAmbiguous ==
    ASSUME IInv, NEW p \in Procs, Ambiguous(p)
    PROVE  IInv'
<1> DEFINE e == [kind |-> "ambiguous"]
<1>1. /\ run[p].pc = "failed" /\ Owner(p) /\ raw = None /\ output = None /\ journal # <<>>
  BY DEF Ambiguous, Owner, Paying, IInv, Stage
<1>2. UNCHANGED <<family, head, env, files, approval, auth, raw, output, derived, sent, crashes>>
  BY DEF Ambiguous
<1>3. journal' = Append(journal, e) /\ e.kind = "ambiguous"
  BY DEF Ambiguous
<1> HIDE DEF e
<1>4. IsSequence(journal') /\ IsSequence(sent')
  BY <1>2, <1>3, Appended DEF IInv, Shape
<1>5. Keeps(p) /\ Stage(p)' /\ Nobody'
  BY <1>1, <1>2, <1>4, OwnerFinishes DEF Ambiguous
<1>6. Called' /\ Kinds' = Kinds \cup {e}
  BY <1>1, <1>2, <1>3, <1>5, OwnerNotes DEF True
<1>7. Settled'
  BY <1>1, <1>2, <1>3, <1>5, <1>6 DEF IInv, Settled, Noted, Keeps
<1> QED
  BY <1>5, <1>6, <1>7 DEF IInv, Keeps

(* They capture the response before they look into it. *)
LEMMA Captures ==
    ASSUME IInv, NEW p \in Procs, Capture(p)
    PROVE  IInv'
<1>1. /\ run[p].pc = "answered" /\ Owner(p) /\ family \in Later
      /\ Answered(p) /\ output = None /\ Only({"attempt"})
  BY DEF Capture, Owner, Paying, IInv, Stage
<1>2. UNCHANGED <<family, head, env, files, approval, auth, journal, output, derived, sent, crashes>>
  BY DEF Capture
<1>3. raw' # None /\ raw'.answer = run[p].answer
  <2>1. raw' = [request |-> Request(run[p].code), answer |-> run[p].answer]
    BY <1>1 DEF Capture, CaptureV1, CaptureV2, CaptureV3, CaptureV4, Later
  <2> QED
    BY <2>1 DEF None
<1>4. IsSequence(journal') /\ IsSequence(sent')
  BY <1>2 DEF IInv, Shape
<1>5. Keeps(p) /\ run'[p].pc = "captured" /\ run'[p].answer = run[p].answer
  BY <1>1, <1>2, <1>4, OwnerGoes DEF Capture, Paying
<1>6. Called' /\ Kinds' = Kinds
  BY <1>1, <1>2, <1>3, <1>5, OwnerWrites
<1>7. Stage(p)'
  BY <1>1, <1>2, <1>3, <1>5, <1>6 DEF Stage, Owner, Paying, Answered, Only
<1>8. Settled'
  BY <1>1, <1>2, <1>3, <1>5, <1>6 DEF IInv, Settled, Noted, Keeps, Answered
<1> QED
  BY <1>5, <1>6, <1>7, <1>8 DEF IInv, Keeps

(* Or they cannot, and keep nothing of it. *)
LEMMA MissesCapture ==
    ASSUME IInv, NEW p \in Procs, Uncaptured(p)
    PROVE  IInv'
<1>1. /\ run[p].pc = "answered" /\ Owner(p) /\ family \in Later \ run[p].answer.capturable
      /\ Finish(p) /\ output = None
  BY DEF Uncaptured, Owner, Paying, IInv, Stage
<1>2. UNCHANGED <<family, head, env, files, approval, auth, journal, raw, output, derived, sent,
                  crashes>>
  BY DEF Uncaptured, evidence
<1>3. IsSequence(journal') /\ IsSequence(sent')
  BY <1>2 DEF IInv, Shape
<1>4. Keeps(p) /\ Stage(p)' /\ Nobody'
  BY <1>1, <1>2, <1>3, OwnerFinishes
<1>5. Called' /\ Kinds' = Kinds
  BY <1>1, <1>2, <1>4, OwnerWrites
<1>6. Settled'
  BY <1>1, <1>2, <1>4, <1>5 DEF IInv, Settled, Noted, Keeps
<1> QED
  BY <1>4, <1>5, <1>6 DEF IInv, Keeps

(* The ledger says so. *)
LEMMA NotesCapture ==
    ASSUME IInv, NEW p \in Procs, NoteCapture(p)
    PROVE  IInv'
<1> DEFINE e == [kind |-> "captured"]
<1>1. /\ run[p].pc = "captured" /\ Owner(p)
      /\ Answered(p) /\ raw # None /\ output = None /\ Only({"attempt", "captured", "completed"})
  BY DEF NoteCapture, Owner, Paying, IInv, Stage
<1>2. UNCHANGED <<family, head, env, files, approval, auth, raw, output, derived, sent, crashes>>
  BY DEF NoteCapture
<1>3. journal' = Append(journal, e) /\ e.kind = "captured"
  BY DEF NoteCapture
<1> HIDE DEF e
<1>4. IsSequence(journal') /\ IsSequence(sent')
  BY <1>2, <1>3, Appended DEF IInv, Shape
<1>5. Keeps(p) /\ run'[p].pc = "noted" /\ run'[p].answer = run[p].answer
  BY <1>1, <1>2, <1>4, OwnerGoes DEF NoteCapture, Paying
<1>6. Called' /\ Kinds' = Kinds \cup {e}
  <2>1. family = "first" \/ journal # <<>>
    BY <1>1 DEF IInv, Called, Answered
  <2> QED
    BY <1>1, <1>2, <1>3, <1>5, <2>1, OwnerNotes DEF True
<1>7. Stage(p)'
  BY <1>1, <1>2, <1>3, <1>5, <1>6 DEF Stage, Owner, Paying, Answered, Only
<1>8. Settled'
  BY <1>1, <1>2, <1>3, <1>5, <1>6 DEF IInv, Settled, Noted, Keeps
<1> QED
  BY <1>5, <1>6, <1>7, <1>8 DEF IInv, Keeps

(* They accept the response, or not. *)
LEMMA Judges ==
    ASSUME IInv, NEW p \in Procs, Judge(p)
    PROVE  IInv'
<1>1. /\ run[p].pc = "noted" /\ Owner(p)
      /\ Answered(p) /\ raw # None /\ output = None /\ Only({"attempt", "captured", "completed"})
  BY DEF Judge, Owner, Paying, IInv, Stage
<1>2. family \in Later
  BY <1>1 DEF IInv, Settled
<1>3. UNCHANGED <<family, head, env, files, approval, auth, raw, output, derived, sent, crashes>>
  BY DEF Judge
<1>4. family = "first" \/ journal # <<>>
  BY <1>1 DEF IInv, Called, Answered
<1>5. IsSequence(sent')
  BY <1>3 DEF IInv, Shape
<1>6. CASE /\ Accepts(run[p].code, run[p].answer) /\ Within(run[p].answer)
           /\ journal' = Append(journal, [kind |-> "completed"])
           /\ Goto(p, "completed")
  <2> DEFINE e == [kind |-> "completed"]
  <2>1. journal' = Append(journal, e) /\ e.kind = "completed"
    BY <1>6
  <2> HIDE DEF e
  <2>2. IsSequence(journal')
    BY <2>1, Appended DEF IInv, Shape
  <2>3. Keeps(p) /\ run'[p].pc = "completed" /\ run'[p].answer = run[p].answer
    BY <1>1, <1>3, <1>5, <1>6, <2>2, OwnerGoes DEF Paying
  <2>4. Called' /\ Kinds' = Kinds \cup {e}
    BY <1>1, <1>3, <1>4, <2>1, <2>3, OwnerNotes DEF True
  <2>5. Paid(run[p].answer, Known(run[p].answer))
    BY <1>1, <1>2, <1>6, AcceptedIsPaid, KnownIsCost DEF Paid, Answered
  <2>6. Paid(run[p].answer, Known(run[p].answer))'
    BY <1>2, <1>3, <2>3, <2>5 DEF Paid, Known
  <2>7. Stage(p)'
    BY <1>1, <1>3, <2>1, <2>3, <2>4, <2>6 DEF Stage, Owner, Paying, Answered, Only
  <2>8. Settled'
    BY <1>1, <1>3, <2>1, <2>3, <2>4 DEF IInv, Settled, Noted, Keeps
  <2> QED
    BY <2>3, <2>4, <2>7, <2>8 DEF IInv, Keeps
<1>7. CASE UNCHANGED journal /\ Finish(p)
  <2>1. IsSequence(journal')
    BY <1>7 DEF IInv, Shape
  <2>2. Keeps(p) /\ Stage(p)' /\ Nobody'
    BY <1>1, <1>3, <1>5, <1>7, <2>1, OwnerFinishes
  <2>3. Called' /\ Kinds' = Kinds
    BY <1>1, <1>3, <1>7, <2>2, OwnerWrites
  <2>4. Settled'
    BY <1>1, <1>3, <2>2, <2>3 DEF IInv, Settled, Noted, Keeps
  <2> QED
    BY <2>2, <2>3, <2>4 DEF IInv, Keeps
<1>8. CASE journal' = Append(journal, [kind |-> "rejected"]) /\ Finish(p)
  <2> DEFINE e == [kind |-> "rejected"]
  <2>1. journal' = Append(journal, e) /\ e.kind = "rejected"
    BY <1>8
  <2> HIDE DEF e
  <2>2. IsSequence(journal')
    BY <2>1, Appended DEF IInv, Shape
  <2>3. Keeps(p) /\ Stage(p)' /\ Nobody'
    BY <1>1, <1>3, <1>5, <1>8, <2>2, OwnerFinishes
  <2>4. Called' /\ Kinds' = Kinds \cup {e}
    BY <1>1, <1>3, <1>4, <2>1, <2>3, OwnerNotes DEF True
  <2>5. Settled'
    BY <1>1, <1>3, <2>1, <2>3, <2>4 DEF IInv, Settled, Noted, Keeps
  <2> QED
    BY <2>3, <2>4, <2>5 DEF IInv, Keeps
<1> QED
  BY <1>6, <1>7, <1>8 DEF Judge

(* What they accepted they freeze. *)
LEMMA Freezes ==
    ASSUME IInv, NEW p \in Procs, Freeze(p)
    PROVE  IInv'
<1>0. PICK a : a = run[p].answer
  OBVIOUS
<1>1. /\ run[p].pc = "completed" /\ Owner(p)
      /\ Answered(p) /\ raw # None /\ Paid(a, Known(a))
  BY <1>0 DEF Freeze, Owner, Paying, IInv, Stage
<1>2. family \in Later
  BY <1>1 DEF IInv, Settled
<1>3. /\ UNCHANGED <<family, head, env, files, approval, auth, journal, raw, derived, sent, crashes>>
      /\ Finish(p)
  BY DEF Freeze
<1>4. IsSequence(journal') /\ IsSequence(sent')
  BY <1>3 DEF IInv, Shape
<1>5. Keeps(p) /\ Stage(p)' /\ Nobody'
  BY <1>1, <1>3, <1>4, OwnerFinishes
<1>6. Called' /\ Kinds' = Kinds
  BY <1>1, <1>3, <1>5, OwnerWrites
<1>7. output'.status = "FROZEN" /\ output'.known = Known(a) /\ output'.answer = a
  BY <1>0 DEF Freeze, FrozenLater
<1>8. Paid(output.answer, output.known)'
  BY <1>1, <1>2, <1>3, <1>7 DEF Paid
<1>9. sent'[1].answer.received /\ output'.known \subseteq {sent'[1].answer.cost}
  <2>1. Known(a) = {a.cost} /\ a = sent[1].answer
    BY <1>1 DEF Paid
  <2> QED
    BY <1>3, <1>7, <2>1, KnownIsCost
<1>10. Settled'
  <2>1. ~Noted("ambiguous")' /\ ~Noted("rejected")'
    BY <1>5, <1>6 DEF Keeps, Noted
  <2>2. family # "reopen"
    BY <1>2 DEF Later
  <2>3. output'.status = "UNKNOWN_DISPATCH" <=> ~sent'[1].answer.received
    BY <1>7, <1>9
  <2> QED
    BY <1>1, <1>3, <1>5, <1>6, <1>7, <1>8, <1>9, <2>1, <2>2, <2>3 DEF IInv, Settled, Answered
<1> QED
  BY <1>5, <1>6, <1>10 DEF IInv, Keeps

(* A zero-call step writes what it derives. *)
LEMMA Derives ==
    ASSUME IInv, NEW p \in Procs, Derive(p)
    PROVE  IInv'
<1> DEFINE i == run[p].next
<1> DEFINE v == Derived(i, head)
<1>1. /\ run[p].pc = "deriving" /\ run[p].code = head /\ i \in {1, 2}
      /\ Derivable /\ crashes' = crashes /\ UNCHANGED Evidence
      /\ UNCHANGED <<family, head, env, files, approval>>
  BY DEF Derive, IInv, Running, Deriving, Evidence, evidence
<1>2. derived' = derived \/ derived' = [derived EXCEPT ![i] = v]
  BY <1>1 DEF Derive, PersistOrVerify
<1>3. PICK r \in Run :
         /\ run' = [run EXCEPT ![p] = r]
         /\ \/ r.pc = "idle"
            \/ r.pc = "deriving" /\ r.code = head /\ r.next = 2
  <2>1. run[p] \in Run /\ run \in [Procs -> Run]
    BY DEF IInv, Shape
  <2>2. Idle \in Run /\ Idle.pc = "idle"
    BY DEF Idle, Run, States
  <2>3. CASE run' = [run EXCEPT ![p] = Idle]
    BY <2>2, <2>3
  <2>4. CASE run' = [run EXCEPT ![p] = [@ EXCEPT !.next = 2]]
    <3> DEFINE r == [run[p] EXCEPT !.next = 2]
    <3>1. run' = [run EXCEPT ![p] = r]
      BY <2>4
    <3>2. r \in Run /\ r.pc = "deriving" /\ r.code = head /\ r.next = 2
      BY <1>1, <2>1 DEF Run
    <3> HIDE DEF r
    <3> QED
      BY <3>1, <3>2
  <2> QED
    BY <2>3, <2>4 DEF Derive, Finish
<1>4. run' \in [Procs -> Run] /\ run'[p] = r /\ \A q \in Procs : q # p => run'[q] = run[q]
  BY <1>3, Moved DEF IInv
<1>5. /\ \A q \in Procs : Stage(q)'
      /\ Authorized' /\ Called' /\ Settled' /\ (Source <=> Source')
      /\ (Derivable => Derivable') /\ (derived'[1] = derived[1] => Derivations')
      /\ \A q \in Procs : Owner(q)' => Owner(q)
  <2>1. \A q \in Procs : run'[q] = run[q] \/ run'[q].pc \notin Paying
    BY <1>3, <1>4 DEF Paying
  <2>2. \A q \in Procs : Owner(q) => run'[q] = run[q]
    BY <1>1, <1>4 DEF Owner, Paying
  <2> QED
    BY <1>1, <2>1, <2>2, Quiet DEF Steady
<1>6. Derivations'
  <2>1. CASE derived'[1] = derived[1]
    BY <1>5, <2>1
  <2>2. CASE derived'[1] # derived[1]
    <3>1. i = 1 /\ derived'[1] = v
      BY <1>1, <1>2, <2>2 DEF IInv, Shape
    <3>2. CASE family = "v4"
      <4>1. v = Recovered(head)
        BY <3>1, <3>2 DEF Derived
      <4>2. derived'[1].answer = raw.answer /\ derived'[1].known = Known(raw.answer)
        BY <3>1, <4>1 DEF Recovered
      <4>3. Paid(raw.answer, Known(raw.answer))
        BY <1>1, <3>2 DEF Derivable
      <4>4. Paid(derived[1].answer, derived[1].known)'
        BY <1>1, <4>2, <4>3 DEF Paid, Evidence, Resulted, Kinds
      <4> QED
        BY <1>1, <1>5, <4>4 DEF Derivations, Derivable
    <3>3. CASE family # "v4"
      BY <1>1, <1>5, <3>3 DEF Derivations, Derivable
    <3> QED
      BY <3>2, <3>3
  <2> QED
    BY <2>1, <2>2
<1>7. Shape'
  BY <1>1, <1>2, <1>4 DEF IInv, Shape, Evidence
<1>8. Approved(head)' = Approved(head)
  BY <1>1, SameBuild DEF IInv, Shape
<1>9. \A q \in Procs : Running(q)' /\ Deriving(q)'
  <2> SUFFICES ASSUME NEW q \in Procs PROVE Running(q)' /\ Deriving(q)'
    OBVIOUS
  <2>1. CASE q = p
    <3>1. ~Owner(q)'
      BY <1>3, <1>4, <2>1 DEF Owner, Paying
    <3> QED
      BY <1>1, <1>3, <1>4, <1>5, <2>1, <3>1 DEF Running, Deriving
  <2>2. CASE q # p
    <3>1. Running(q) /\ Deriving(q)
      BY DEF IInv
    <3>2. Running(q)'
      BY <1>1, <1>4, <1>5, <1>8, <2>2, <3>1 DEF Running, Evidence, Owner
    <3> QED
      BY <1>4, <1>5, <2>2, <3>1, <3>2 DEF Deriving
  <2> QED
    BY <2>1, <2>2
<1> QED
  BY <1>5, <1>6, <1>7, <1>9 DEF IInv

-----------------------------------------------------------------------------
(* Every step preserves the invariant. *)
THEOREM INext == IInv /\ [Next]_vars => IInv'
<1> SUFFICES ASSUME IInv, [Next]_vars PROVE IInv'
  OBVIOUS
<1>1. CASE Checkout \/ ChangeKey \/ JudgeEntry \/ Approve
  BY <1>1, BetweenRuns
<1>2. ASSUME NEW p \in Procs, StartBuild(p) \/ Start(p) \/ StartDerive(p)
      PROVE  IInv'
  BY <1>2, Starts
<1>3. ASSUME NEW p \in Procs, Build(p) \/ Derive(p) \/ Crash(p)
      PROVE  IInv'
  BY <1>3, BuildStep, Derives, CrashStep
<1>4. ASSUME NEW p \in Procs, Create(p) \/ Attempt(p) \/ NoTransport(p) \/ Dispatch(p)
      PROVE  IInv'
  BY <1>4, Creates, Attempts, LacksTransport, Dispatches
<1>5. ASSUME NEW p \in Procs, Receipt(p) \/ Conclude(p)
      PROVE  IInv'
  BY <1>5, Receipts, Concludes
<1>6. ASSUME NEW p \in Procs,
             \/ Ambiguous(p) \/ Capture(p) \/ Uncaptured(p) \/ NoteCapture(p)
             \/ Judge(p) \/ Freeze(p)
      PROVE  IInv'
  BY <1>6, FindsAmbiguous, Captures, MissesCapture, NotesCapture, Judges, Freezes
<1>7. CASE UNCHANGED vars
  <2>1. /\ run' = run /\ crashes' = crashes /\ derived' = derived /\ UNCHANGED Evidence
        /\ UNCHANGED <<family, head, env, files, approval>>
    BY <1>7 DEF vars, evidence, Evidence
  <2>2. /\ \A q \in Procs : Stage(q)'
        /\ Authorized' /\ Called' /\ Settled' /\ Derivations' /\ (Derivable => Derivable')
    BY <2>1, Quiet DEF Steady
  <2>3. Approved(head)' = Approved(head)
    BY <2>1, SameBuild DEF IInv, Shape
  <2>4. \A q \in Procs : Running(q)' /\ Deriving(q)'
    BY <2>1, <2>2, <2>3 DEF IInv, Running, Deriving, Owner, Evidence
  <2>5. Shape'
    BY <2>1 DEF IInv, Shape, Evidence
  <2> QED
    BY <2>2, <2>4, <2>5 DEF IInv
<1> QED
  BY <1>1, <1>2, <1>3, <1>4, <1>5, <1>6, <1>7 DEF Next

(* Hence it holds of every behaviour. *)
THEOREM Inductive == Spec => []IInv
<1>1. Init => IInv
  BY IInit
<1>2. IInv /\ [Next]_vars => IInv'
  BY INext
<1> QED
  BY <1>1, <1>2, PTL DEF Spec

(* The state has the shape that TypeOK gives it. *)
THEOREM TypeCorrect == Spec => []TypeOK
<1>1. IInv => TypeOK
  <2> SUFFICES ASSUME IInv PROVE TypeOK
    OBVIOUS
  <2>1. /\ family \in Families /\ head \in Commits /\ env \in Keys /\ crashes \in 0..MaxCrashes
        /\ \A n \in FileNames : files[n] # None => \E c \in Commits : files[n].commit = c
        /\ approval # None => approval.commit \in Commits
    BY DEF IInv, Shape
  <2>2. auth # None => auth.commit \in Commits
    BY DEF IInv, Authorized
  <2>3. \A e \in Kinds : e.kind \in {"attempt", "result", "ambiguous", "captured", "rejected",
                                      "completed"}
    BY DEF IInv, Called, Only
  <2>4. output # None => output.status \in {"UNKNOWN_DISPATCH", "INCOMPLETE_COST", "CEILING",
                                             "INVALID", "FROZEN"}
    BY DEF IInv, Settled
  <2>5. \A p \in Procs : run[p].pc \in States
    BY DEF IInv, Shape, Run
  <2> QED
    BY <2>1, <2>2, <2>3, <2>4, <2>5 DEF TypeOK, States
<1> QED
  BY <1>1, Inductive, PTL

(* The Judge is asked once whatever invocations overlap or die, for the    *)
(* very request the owner approved, after it was announced.                *)
THEOREM PaidOnce == Spec => []PaidOnceAhead
<1>1. IInv => PaidOnceAhead
  <2> SUFFICES ASSUME IInv PROVE PaidOnceAhead
    OBVIOUS
  <2>1. Called /\ Authorized /\ family \in Families /\ IsSequence(journal)
    BY DEF IInv, Shape
  <2>2. ASSUME NEW s \in ToSet(sent)
        PROVE  /\ auth # None /\ auth.commit = s.commit
               /\ s.request = ApprovedRequest
               /\ family # "first" => Noted("attempt") /\ journal[1].request = s.request
    <3>1. sent # <<>>
      BY Empty
    <3>2. auth # None /\ auth.of = Approved(auth.commit)
      BY <2>1, <3>1 DEF Authorized
    <3>3. ApprovedRequest = Request(auth.commit)
      BY <2>1, <3>2, ApprovedHoldsRequest
    <3>4. s.commit = auth.commit /\ s.request = Request(auth.commit)
      BY <2>1 DEF Called
    <3>5. ASSUME family # "first"
          PROVE  Noted("attempt") /\ journal[1].request = s.request
      <4>1. journal # <<>> /\ journal[1].kind = "attempt" /\ journal[1].request = Request(auth.commit)
        BY <2>1, <3>1, <3>5 DEF Called
      <4>2. journal[1] \in Kinds
        BY <2>1, <4>1, HasFirst DEF Kinds
      <4> QED
        BY <3>4, <4>1, <4>2 DEF Noted
    <3> QED
      BY <3>2, <3>3, <3>4, <3>5
  <2> QED
    BY <2>1, <2>2 DEF PaidOnceAhead, Called
<1> QED
  BY <1>1, Inductive, PTL

(* A decision is the one that was paid for, and what the disk says of a    *)
(* call is true of it.                                                     *)
THEOREM HonestRecord == Spec => []RecordIsHonest
<1>1. IInv => RecordIsHonest
  <2> SUFFICES ASSUME IInv PROVE RecordIsHonest
    OBVIOUS
  <2>1. Settled /\ Called
    BY DEF IInv
  <2>2. ASSUME NEW a, NEW k, Paid(a, k)
        PROVE  /\ sent # <<>> /\ a = sent[1].answer
               /\ IF family \in Later THEN raw.answer = a
                  ELSE \E e \in Kinds : e.kind = "result" /\ e.of.proposal = a
               /\ k = {sent[1].answer.cost} /\ sent[1].answer.cost <= Ceiling
               /\ a.outcome = "INVEST" =>
                     a.eligible /\ ~a.reopen /\ family \in {"reopen", "v1", "v4"}
    <3>1. CASE family \in Later
      BY <2>1, <2>2, <3>1 DEF Paid, Settled
    <3>2. CASE family \notin Later
      <4>1. sent # <<>> /\ a = sent[1].answer /\ auth.commit \in a.reads /\ a.received
        BY <2>2, <3>2 DEF Paid
      <4>2. PICK e \in Kinds : e.kind = "result"
        BY <2>2, <3>2 DEF Paid, Resulted
      <4>3. e.of.proposal = Parsed(sent[1].commit, a)
        BY <2>1, <4>1, <4>2 DEF Called, True, Tells
      <4>4. sent[1].commit = auth.commit
        <5>1. sent[1] \in ToSet(sent)
          BY <4>1, HasFirst DEF IInv, Shape
        <5> QED
          BY <2>1, <5>1 DEF Called
      <4>5. e.of.proposal = a
        BY <4>1, <4>3, <4>4 DEF Parsed
      <4> QED
        BY <2>2, <3>2, <4>2, <4>5 DEF Paid
    <3> QED
      BY <3>1, <3>2
  <2>3. ASSUME NEW d \in Decisions
        PROVE  Paid(d.answer, d.known)
    <3>1. CASE d = output /\ d # None /\ d.status = "FROZEN"
      BY <2>1, <3>1 DEF Settled
    <3>2. CASE d = derived[1] /\ d # None /\ family = "v4"
      BY <3>2 DEF IInv, Derivations
    <3> QED
      BY <3>1, <3>2 DEF Decisions
  <2>4. DecisionIsPaid
    BY <2>2, <2>3 DEF DecisionIsPaid
  <2>5. Between /\ crashes = 0 /\ sent # <<>> /\ sent[1].answer.received =>
          \/ raw # None \/ Noted("result")
          \/ family \in Later \ sent[1].answer.capturable
    BY <2>1 DEF Called, Between, Resulted, Noted
  <2>6. \A e \in Kinds : e.kind = "result" => sent # <<>> /\ Tells(e.of, sent[1])
    BY <2>1 DEF Called, True
  <2> QED
    BY <2>1, <2>4, <2>5, <2>6 DEF RecordIsHonest, Settled
<1> QED
  BY <1>1, Inductive, PTL

(* A call yields one decision, for good. *)
THEOREM FinalDecision == Spec => DecisionIsFinal
<1> DEFINE Final ==
      /\ output # None => output' = output
      /\ \A i \in 1..2 : derived[i] # None => derived'[i] = derived[i]
      /\ family = "v4" => output' = None \/ derived'[1] = None
      /\ family = "reopen" /\ derived'[1] # None =>
            output # None /\ output.status = "FROZEN" /\ output.answer.reopen
<1>1. IInv /\ IInv' /\ [Next]_vars => [Final]_vars
  <2> SUFFICES ASSUME IInv, IInv', Next PROVE Final
    OBVIOUS
  <2>1. output # None => output' = output
    <3>1. ASSUME NEW p \in Procs, Conclude(p) \/ Freeze(p) PROVE output = None
      BY <3>1 DEF Conclude, Freeze, IInv, Stage, Owner, Paying
    <3> QED
      BY <3>1 DEF Next, evidence, Checkout, ChangeKey, JudgeEntry, Approve, StartBuild, Build,
             Start, Create, Attempt, NoTransport, Dispatch, Receipt, Ambiguous, Capture,
             Uncaptured, NoteCapture, Judge, StartDerive, Derive, Crash
  <2>2. \A i \in 1..2 : derived[i] # None => derived'[i] = derived[i]
    <3>1. ASSUME NEW p \in Procs, Derive(p), NEW i \in 1..2, derived[i] # None
          PROVE  derived'[i] = derived[i]
      BY <3>1 DEF Derive, PersistOrVerify, IInv, Shape, Running
    <3> QED
      BY <3>1 DEF Next, evidence, Checkout, ChangeKey, JudgeEntry, Approve, StartBuild, Build,
             Start, Create, Attempt, NoTransport, Dispatch, Receipt, Conclude, Ambiguous,
             Capture, Uncaptured, NoteCapture, Judge, Freeze, StartDerive, Crash
  <2>3. family' = family
    BY DEF Next, evidence, Checkout, ChangeKey, JudgeEntry, Approve, StartBuild, Build,
           Start, Create, Attempt, NoTransport, Dispatch, Receipt, Conclude, Ambiguous,
           Capture, Uncaptured, NoteCapture, Judge, Freeze, StartDerive, Derive, Crash
  <2>4. family = "v4" /\ derived'[1] # None => output' = None
    BY <2>3 DEF IInv, Derivations, Source, Settled
  <2>5. family = "reopen" /\ derived'[1] # None =>
          output # None /\ output.status = "FROZEN" /\ output.answer.reopen
    <3>1. CASE derived[1] # None
      BY <3>1 DEF IInv, Derivations, Source
    <3>2. CASE derived'[1] # derived[1]
      <4>1. PICK p \in Procs : Derive(p)
        BY <3>2 DEF Next, evidence, Checkout, ChangeKey, JudgeEntry, Approve, StartBuild, Build,
               Start, Create, Attempt, NoTransport, Dispatch, Receipt, Conclude, Ambiguous,
               Capture, Uncaptured, NoteCapture, Judge, Freeze, StartDerive, Crash
      <4> QED
        BY <4>1 DEF Derive, IInv, Deriving, Derivable, Source
    <3> QED
      BY <3>1, <3>2
  <2> QED
    BY <2>1, <2>2, <2>4, <2>5
<1> QED
  BY <1>1, Inductive, PTL DEF Spec, DecisionIsFinal

=============================================================================
