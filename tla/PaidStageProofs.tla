-------------------------- MODULE PaidStageProofs --------------------------
(***************************************************************************)
(* Proofs about the three models built on PaidStage, for any number of     *)
(* invocations and crashes, any answers and any ceiling: the Rebuttal, the *)
(* first Initial runners and the model evaluations. They are in one module *)
(* because they rest on the same facts about sums of costs, which come     *)
(* first; each part then has the inductive invariant of its model, one     *)
(* lemma for each of its steps, and its theorems.                          *)
(***************************************************************************)
EXTENDS RebuttalRuntime, FirstInitialRunner, ModelEvaluation,
        FiniteSetTheorems, WellFoundedInduction, TLAPS

-----------------------------------------------------------------------------
(***************************************************************************)
(* Sums. The library's induction theorems take a predicate that the        *)
(* provers here cannot instantiate; the least element of a set of natural  *)
(* numbers (well-foundedness) is about a set, and gives induction for it.  *)
(***************************************************************************)

(* The order of the natural numbers, as a relation.                        *)
Below == {ss \in Nat \X Nat : ss[1] < ss[2]}

(* Every nonempty set of natural numbers has a least element.              *)
LEMMA Least ==
  ASSUME NEW T \in SUBSET Nat, T # {}
  PROVE  \E n \in T : \A m \in T : n <= m
  <1>1. OpToRel(<, Nat) = Below
    BY Zenon DEF OpToRel, Below
  <1>2. IsWellFoundedOn(Below, Nat)
    BY <1>1, NatLessThanWellFounded, Zenon
  <1>3. PICK x \in T : \A y \in T : ~(<<y, x>> \in Below)
    BY <1>2, WFMin, Zenon
  <1>4. ASSUME NEW m \in T, m < x PROVE <<m, x>> \in Below
    <2>1. <<m, x>> \in Nat \X Nat /\ <<m, x>>[1] < <<m, x>>[2]
      BY <1>4
    <2>. QED
      BY <2>1, Zenon DEF Below
  <1>5. \A m \in T : ~(m < x)
    BY <1>3, <1>4
  <1>6. \A m \in T : m \in Nat /\ x \in Nat
    OBVIOUS
  <1>. QED
    BY <1>5, <1>6

(* Induction, said of sets: the prover can instantiate this form.          *)
LEMMA InductiveSet ==
  ASSUME NEW S \in SUBSET Nat, 0 \in S, \A n \in S : n + 1 \in S
  PROVE  S = Nat
  <1>1. SUFFICES ASSUME Nat \ S # {} PROVE FALSE
    OBVIOUS
  <1>2. PICK n \in Nat \ S : \A m \in Nat \ S : n <= m
    BY <1>1, Least
  <1>3. n # 0 /\ n - 1 \in Nat /\ n - 1 \notin Nat \ S
    BY <1>2
  <1>. QED
    BY <1>2, <1>3

(* The partial sums of s.                                                  *)
IsTotals(t, s) == t = [n \in 0..Len(s) |-> IF n = 0 THEN 0 ELSE t[n - 1] + s[n]]

(* A function of the partial sums of a sequence exists ...                 *)
LEMMA TotalsExist ==
  ASSUME NEW s \in Seq(Nat)
  PROVE  \E t \in [0..Len(s) -> Nat] : t[0] = 0 /\ \A n \in 1..Len(s) : t[n] = t[n - 1] + s[n]
  <1> DEFINE Upto(k) == \E t \in [0..k -> Nat] : t[0] = 0 /\ \A n \in 1..k : t[n] = t[n - 1] + s[n]
             S == {k \in Nat : k <= Len(s) => Upto(k)}
  <1>1. 0 \in S
    <2> DEFINE z == [i \in 0..0 |-> 0]
    <2>1. 0..0 = {0} /\ 1..0 = {}
      OBVIOUS
    <2>2. z \in [0..0 -> Nat] /\ z[0] = 0
      BY <2>1
    <2>. HIDE DEF z
    <2>3. Upto(0)
      BY <2>1, <2>2
    <2>. QED
      BY <2>3
  <1>2. ASSUME NEW k \in S PROVE k + 1 \in S
    <2>1. SUFFICES ASSUME k + 1 <= Len(s) PROVE Upto(k + 1)
      <3>. HIDE DEF Upto
      <3>. QED
        OBVIOUS
    <2>6. k \in Nat /\ Len(s) \in Nat /\ Upto(k)
      <3>. HIDE DEF Upto
      <3>. QED
        BY <2>1
    <2>2. PICK t \in [0..k -> Nat] : t[0] = 0 /\ \A n \in 1..k : t[n] = t[n - 1] + s[n]
      BY <2>6
    <2> DEFINE u == [n \in 0..(k + 1) |-> IF n = k + 1 THEN t[k] + s[k + 1] ELSE t[n]]
    <2>3. s[k + 1] \in Nat
      BY <2>1
    <2>4. u \in [0..(k + 1) -> Nat]
      <3>1. \A n \in 0..(k + 1) : n # k + 1 => n \in 0..k
        BY <2>6
      <3>2. k \in 0..k
        BY <2>6
      <3>3. t[k] + s[k + 1] \in Nat
        BY <2>3, <3>2
      <3>. QED
        BY <3>1, <3>3
    <2>7. ASSUME NEW n \in 1..(k + 1) PROVE u[n] = u[n - 1] + s[n]
      <3>1. n - 1 \in 0..(k + 1) /\ n - 1 # k + 1 /\ n \in 0..(k + 1)
        BY <2>6
      <3>2. CASE n = k + 1
        BY <2>6, <3>1, <3>2
      <3>3. CASE n # k + 1
        <4>1. n \in 1..k
          BY <2>6, <3>3
        <4>. QED
          BY <2>2, <3>1, <3>3, <4>1
      <3>. QED
        BY <3>2, <3>3
    <2>8. 0 \in 0..(k + 1) /\ 0 # k + 1
      BY <2>6
    <2>9. u[0] = 0
      BY <2>2, <2>8
    <2>5. u[0] = 0 /\ \A n \in 1..(k + 1) : u[n] = u[n - 1] + s[n]
      <3>. HIDE DEF u
      <3>. QED
        BY <2>7, <2>9
    <2>. HIDE DEF u
    <2>. QED
      BY <2>4, <2>5
  <1>3. S \in SUBSET Nat
    OBVIOUS
  <1>4. S = Nat
    <2>. HIDE DEF S
    <2>. QED
      BY <1>1, <1>2, <1>3, InductiveSet
  <1>5. Len(s) \in S
    <2>. HIDE DEF S
    <2>. QED
      BY <1>4
  <1>. QED
    BY <1>5

(* ... so the recursive function in Total is one.                          *)
LEMMA TotalDef ==
  ASSUME NEW s \in Seq(Nat)
  PROVE  \E t \in [0..Len(s) -> Nat] :
            t[0] = 0 /\ (\A n \in 1..Len(s) : t[n] = t[n - 1] + s[n]) /\ Total(s) = t[Len(s)]
  <1> DEFINE t == CHOOSE u : IsTotals(u, s)
  <1>1. PICK u \in [0..Len(s) -> Nat] : u[0] = 0 /\ \A n \in 1..Len(s) : u[n] = u[n - 1] + s[n]
    BY TotalsExist
  <1>2. IsTotals(u, s)
    <2>1. u = [n \in 0..Len(s) |-> IF n = 0 THEN 0 ELSE u[n - 1] + s[n]]
      BY <1>1
    <2>. QED
      BY <2>1 DEF IsTotals
  <1>3. IsTotals(t, s)
    BY <1>2, Zenon
  <1>4. Total(s) = t[Len(s)]
    BY Zenon DEF Total, IsTotals
  <1>. HIDE DEF t
  <1>5. t[0] = 0 /\ \A n \in 1..Len(s) : t[n] = t[n - 1] + s[n]
    BY <1>3, SMTT(30) DEF IsTotals
  <1>6. DOMAIN t = 0..Len(s) /\ t = [n \in 0..Len(s) |-> t[n]]
    BY <1>3 DEF IsTotals
  <1> DEFINE S == {k \in Nat : k <= Len(s) => t[k] \in Nat}
  <1>7. 0 \in S /\ S \in SUBSET Nat
    BY <1>5
  <1>8. ASSUME NEW k \in S PROVE k + 1 \in S
    <2>1. SUFFICES ASSUME k + 1 <= Len(s) PROVE t[k + 1] \in Nat
      OBVIOUS
    <2>2. t[k] \in Nat /\ s[k + 1] \in Nat
      BY <2>1
    <2>3. t[k + 1] = t[k] + s[k + 1]
      BY <1>5, <2>1
    <2>. QED
      BY <2>2, <2>3
  <1>9. S = Nat
    <2>. HIDE DEF S
    <2>. QED
      BY <1>7, <1>8, InductiveSet
  <1>10. \A k \in 0..Len(s) : t[k] \in Nat
    BY <1>9
  <1>11. t \in [0..Len(s) -> Nat]
    BY <1>6, <1>10
  <1>. QED
    BY <1>4, <1>5, <1>11

(* A sum of natural numbers is one.                                        *)
LEMMA TotalNat ==
  ASSUME NEW s \in Seq(Nat)
  PROVE  Total(s) \in Nat
  BY TotalDef

(* The sum of nothing.                                                     *)
LEMMA TotalEmpty == Total(<<>>) = 0
  <1>1. <<>> \in Seq(Nat) /\ Len(<<>>) = 0
    OBVIOUS
  <1>. QED
    BY <1>1, TotalDef

(* Two sequences that compare element by element compare in their sums.    *)
LEMMA TotalAtMost ==
  ASSUME NEW s \in Seq(Nat), NEW t \in Seq(Nat), Len(s) <= Len(t),
         \A k \in 1..Len(s) : s[k] <= t[k]
  PROVE  Total(s) <= Total(t)
  <1>1. PICK f \in [0..Len(s) -> Nat] :
            f[0] = 0 /\ (\A n \in 1..Len(s) : f[n] = f[n - 1] + s[n]) /\ Total(s) = f[Len(s)]
    BY TotalDef
  <1>2. PICK g \in [0..Len(t) -> Nat] :
            g[0] = 0 /\ (\A n \in 1..Len(t) : g[n] = g[n - 1] + t[n]) /\ Total(t) = g[Len(t)]
    BY TotalDef
  <1> DEFINE S == {k \in Nat : k <= Len(t) => f[IF k <= Len(s) THEN k ELSE Len(s)] <= g[k]}
  <1>3. 0 \in S /\ S \in SUBSET Nat
    BY <1>1, <1>2
  <1>9. Len(s) \in Nat /\ Len(t) \in Nat /\ (\A k \in 1..Len(s) : s[k] \in Nat)
        /\ \A k \in 1..Len(t) : t[k] \in Nat
    OBVIOUS
  <1>4. ASSUME NEW k \in S PROVE k + 1 \in S
    <2>1. SUFFICES ASSUME k + 1 <= Len(t)
                   PROVE  f[IF k + 1 <= Len(s) THEN k + 1 ELSE Len(s)] <= g[k + 1]
      OBVIOUS
    <2>2. k + 1 \in 1..Len(t) /\ k \in 0..Len(t) /\ (k + 1) - 1 = k
      BY <1>9, <2>1
    <2>5. g[k + 1] = g[k] + t[k + 1] /\ t[k + 1] \in Nat /\ g[k] \in Nat /\ g[k + 1] \in Nat
      <3>1. g[k + 1] = g[(k + 1) - 1] + t[k + 1]
        BY <1>2, <2>2
      <3>3. k + 1 \in 0..Len(t)
        BY <1>9, <2>2
      <3>4. t[k + 1] \in Nat
        BY <1>9, <2>2
      <3>2. t[k + 1] \in Nat /\ g[k] \in Nat /\ k + 1 \in 0..Len(t)
        BY <1>2, <2>2, <3>3, <3>4
      <3>. QED
        BY <2>2, <3>1, <3>2
    <2>6. f[IF k <= Len(s) THEN k ELSE Len(s)] <= g[k]
      BY <2>1, <1>9
    <2>3. CASE k + 1 <= Len(s)
      <3>1. k + 1 \in 1..Len(s) /\ k \in 0..Len(s)
        BY <1>9, <2>3
      <3>2. f[k + 1] = f[k] + s[k + 1] /\ s[k + 1] <= t[k + 1] /\ s[k + 1] \in Nat /\ f[k] \in Nat
        BY <1>1, <1>9, <2>2, <3>1
      <3>3. f[k] <= g[k]
        BY <2>6, <3>1
      <3>4. f[k] + s[k + 1] <= g[k] + t[k + 1]
        BY <2>5, <3>2, <3>3
      <3>. QED
        BY <2>3, <2>5, <3>2, <3>4
    <2>4. CASE ~(k + 1 <= Len(s))
      <3>1. Len(s) \in 0..Len(s) /\ (IF k <= Len(s) THEN k ELSE Len(s)) = Len(s)
        BY <1>9, <2>4
      <3>2. f[Len(s)] <= g[k] /\ f[Len(s)] \in Nat
        BY <1>1, <2>6, <3>1
      <3>3. f[Len(s)] <= g[k + 1]
        BY <2>5, <3>2
      <3>. QED
        BY <2>4, <3>3
    <2>. QED
      BY <2>3, <2>4
  <1>5. S = Nat
    <2>. HIDE DEF S
    <2>. QED
      BY <1>3, <1>4, InductiveSet
  <1>6. Len(t) \in S
    <2>. HIDE DEF S
    <2>. QED
      BY <1>5
  <1>. QED
    BY <1>1, <1>2, <1>6

(* The sum after one more number.                                          *)
LEMMA TotalAppend ==
  ASSUME NEW s \in Seq(Nat), NEW x \in Nat
  PROVE  Total(Append(s, x)) = Total(s) + x
  <1> DEFINE t == Append(s, x)
  <1>1. t \in Seq(Nat) /\ Len(t) = Len(s) + 1 /\ t[Len(s) + 1] = x
        /\ \A k \in 1..Len(s) : t[k] = s[k]
    OBVIOUS
  <1>. HIDE DEF t
  <1>2. PICK f \in [0..Len(s) -> Nat] :
            f[0] = 0 /\ (\A n \in 1..Len(s) : f[n] = f[n - 1] + s[n]) /\ Total(s) = f[Len(s)]
    BY TotalDef
  <1>3. PICK g \in [0..Len(t) -> Nat] :
            g[0] = 0 /\ (\A n \in 1..Len(t) : g[n] = g[n - 1] + t[n]) /\ Total(t) = g[Len(t)]
    BY <1>1, TotalDef
  <1> DEFINE S == {k \in Nat : k <= Len(s) => f[k] = g[k]}
  <1>4. 0 \in S /\ S \in SUBSET Nat
    BY <1>2, <1>3
  <1>5. ASSUME NEW k \in S PROVE k + 1 \in S
    <2>1. SUFFICES ASSUME k + 1 <= Len(s) PROVE f[k + 1] = g[k + 1]
      OBVIOUS
    <2>2. f[k + 1] = f[k] + s[k + 1]
      BY <1>2, <2>1
    <2>3. g[k + 1] = g[k] + t[k + 1]
      BY <1>1, <1>3, <2>1
    <2>4. t[k + 1] = s[k + 1] /\ f[k] = g[k]
      BY <1>1, <2>1
    <2>. QED
      BY <2>2, <2>3, <2>4
  <1>6. S = Nat
    <2>. HIDE DEF S
    <2>. QED
      BY <1>4, <1>5, InductiveSet
  <1>7. Len(s) \in S
    <2>. HIDE DEF S
    <2>. QED
      BY <1>6
  <1>8. Len(s) \in Nat /\ Len(s) + 1 \in 1..Len(t) /\ (Len(s) + 1) - 1 = Len(s)
    BY <1>1
  <1>9. g[Len(s) + 1] = g[Len(s)] + x
    BY <1>1, <1>3, <1>8
  <1>10. Total(t) = Total(s) + x
    BY <1>1, <1>2, <1>3, <1>7, <1>8, <1>9
  <1>. QED
    BY <1>10 DEF t

-----------------------------------------------------------------------------
(***************************************************************************)
(* The Rebuttal. An invocation pays for its step from the moment it has    *)
(* created the authorization or, in the reopened family, has found its     *)
(* journal empty; at most one does, because the authorization is created   *)
(* exclusively and the invocations of the reopened family do not overlap.  *)
(* What it remembers is what the journal has, and the journal accounts for *)
(* every call: its results are those of the calls in order, and at most    *)
(* one call is without a result. Once it is gone, an invocation only       *)
(* concludes from the journal. The lineage of a replaced key is kept       *)
(* beside that: a recovery goes back to a key that was rejected, the       *)
(* second probe to one that was answered, and the run after it uses the    *)
(* latter.                                                                 *)
(***************************************************************************)

(* An invocation past its authorization, or past an empty journal.         *)
Payers == {"ready", "attempted", "answered", "noted", "captured", "process", "done"}
Waits == {"answered", "captured", "process"}   \* called, and the answer not yet recorded

(* What invocations, journals and calls are made of.                       *)
RunFields == {"pc", "step", "code", "key", "dry", "memory", "answer"}
AttemptRows == [i : Nat, key : Keys \cup {None}]
ResultRows == [i : Nat, answer : AnswerRecords, key : Keys \cup {None}]
NoteRows == [stopped : {"AMBIGUOUS_PROVIDER_OUTCOME", "RESPONSE_CAPTURED_BUT_NOT_ACCEPTED"}]
            \cup [captured : Nat]
Journals == [attempts : Seq(AttemptRows), results : Seq(ResultRows), notes : Seq(NoteRows)]
CallRows == [i : Nat, key : Keys, code : Revisions, cost : Nat]

(* How many calls a step may make, and the requests its artifact asks for. *)
MaxCalls(s) == IF s \in Probes THEN 1 ELSE Calls
Asked(s, d) == IF s = "first" THEN d.of.of.of.requests ELSE d.of.requests

RebuttalTypes ==
    /\ family \in DOMAIN StepsOf /\ head \in Revisions /\ env \in Keys
    /\ raws \subseteq 1..Calls /\ crashes \in 0..MaxCrashes
    /\ DOMAIN dry = Steps /\ DOMAIN auth = Steps /\ DOMAIN output = Steps /\ DOMAIN run = Procs
    /\ journal \in [Steps -> Journals] /\ sent \in [Steps -> Seq(CallRows)]
    /\ \A s \in Steps : s \notin StepsOf[family] => dry[s] = None /\ auth[s] = None

(* A receipt is about a call the provider has seen.                        *)
IsReceipt(s, k, r, c) ==
    /\ r.i = k /\ r.answer \in ProviderAnswers(s, c.key) /\ r.answer.cost = c.cost
    /\ s = "probe2" => r.key = c.key
(* The calls j records of a step, and the calls c of it that were made.    *)
LogHolds(s, j, c) ==
    /\ Len(c) <= MaxCalls(s) /\ Len(j.results) <= Len(c) /\ Len(c) <= Len(j.results) + 1
    /\ s = "first" => j.attempts = <<>>
    /\ s # "first" => Len(c) <= Len(j.attempts) /\ Len(j.attempts) <= Len(j.results) + 1
    /\ \A k \in DOMAIN c : c[k].i = k
    /\ \A k \in DOMAIN j.results : IsReceipt(s, k, j.results[k], c[k])
AuthHolds(s, a, j, c, o) ==
    /\ a = None => j = Blank /\ c = <<>> /\ o = None
    /\ a # None => a.calls = MaxCalls(s)
    /\ s \in Runs => \A k \in DOMAIN c : Builds[c[k].code] = Asked(s, a.dry)
ChargedFor(c) == Total([k \in DOMAIN c |-> c[k].cost])
OutcomeHolds(s, o, j, c) ==
    s \in Runs /\ o # None =>
        /\ o.known <= ChargedFor(c) /\ o.calls >= Len(c)
        /\ o.status = "FROZEN" =>
              /\ Len(c) = Calls /\ o.known = ChargedFor(c) /\ ChargedFor(c) <= Ceiling
              /\ Len(j.results) = Calls /\ \A k \in DOMAIN j.results : Passed(j.results[k].answer)
StepHolds(s) ==
    /\ LogHolds(s, journal[s], sent[s])
    /\ AuthHolds(s, auth[s], journal[s], sent[s], output[s])
    /\ OutcomeHolds(s, output[s], journal[s], sent[s])

(* What the plan, the second probe and the run with its key go back to.    *)
ProbePaid == sent["probe2"] # <<>> /\ output["probe2"].key = sent["probe2"][1].key
             /\ (output["probe2"].status = "PASS" => sent["probe2"][1].key \in Valid)
Replaced ==
    /\ plan # None => sent["v1"] # <<>> /\ sent["v1"][1].key \notin Valid
    /\ output["probe2"] # None => plan # None /\ ProbeRejected /\ ProbePaid
    /\ \A k \in DOMAIN sent["v3"] : ProbePassed /\ sent["v3"][k].key = output["probe2"].key

(* What a started invocation has checked.                                  *)
Running(r) ==
    /\ DOMAIN r = RunFields /\ r.pc \in {"started", "journal"} \cup Payers
    /\ r.step \in StepsOf[family] /\ r.code \in Revisions /\ r.key \in Keys
    /\ r.memory \in Seq(ResultRows)
    /\ r.step \in Runs => Builds[r.code] = Asked(r.step, r.dry)
    /\ r.step = "v3" => ProbePassed /\ r.key = output["probe2"].key
    /\ r.step = "probe2" => plan # None /\ ProbeRejected
    /\ r.pc \in {"started", "journal"} => r.memory = <<>>
    /\ r.pc = "journal" => r.step \notin {"first", "post"}
    /\ family = "reopen" \/ r.pc \in Payers => output[r.step] = None
    /\ r.pc # "started" => auth[r.step] # None /\ auth[r.step].dry = r.dry

(* What the one invocation that pays for a step remembers of it.           *)
AllPass(rs) == \A k \in DOMAIN rs : Passed(rs[k].answer)
PayerHolds(r, j, c) ==
    LET m == Len(r.memory)
    IN  /\ r.memory = j.results
        /\ r.step # "first" => Len(j.attempts) = IF r.pc \in {"attempted"} \cup Waits THEN m + 1 ELSE m
        /\ Len(c) = IF r.pc \in Waits THEN m + 1 ELSE m
        /\ r.pc \in Waits =>
              /\ r.answer \in ProviderAnswers(r.step, r.key)
              /\ c[m + 1] = [i |-> m + 1, key |-> r.key, code |-> r.code, cost |-> r.answer.cost]
        /\ r.pc \in {"ready", "attempted"} \cup Waits => m < MaxCalls(r.step) /\ AllPass(r.memory)
        /\ r.pc = "noted" => m > 0 /\ \A k \in 1..(m - 1) : Passed(r.memory[k].answer)
        /\ r.pc = "attempted" => r.step # "first"
        /\ r.pc = "noted" => r.step # "post"
        /\ r.pc \in {"captured", "process"} => r.step = "post"
        /\ r.pc = "done" =>
              r.step = "post" /\ m = Calls /\ AllPass(r.memory) /\ Known(r.memory) <= Ceiling
Payer(p) == run[p].pc \in Payers
RunsHold ==
    /\ \A p \in Procs : run[p] = Idle \/ Running(run[p])
    /\ \A p \in Procs : Payer(p) => PayerHolds(run[p], journal[run[p].step], sent[run[p].step])
    /\ \A p, q \in Procs : (Payer(p) /\ Payer(q)) \/ (family = "reopen" /\ run[p] # Idle /\ run[q] # Idle)
                              => p = q

RebuttalInv == RebuttalTypes /\ (\A s \in Steps : StepHolds(s)) /\ Replaced /\ RunsHold

-----------------------------------------------------------------------------
(* The steps of each family of scripts.                                    *)
LEMMA Families ==
  /\ DOMAIN StepsOf = {"first", "reopen", "post"}
  /\ StepsOf["first"] = {"first"} /\ StepsOf["post"] = {"post"}
  /\ StepsOf["reopen"] = {"v1", "v2", "v3", "probe1", "probe2"}
  /\ \A f \in DOMAIN StepsOf : StepsOf[f] \subseteq Steps
  BY DEF StepsOf, Steps, Runs, Probes

(* What an idle invocation looks like.                                     *)
LEMMA IdleRun == Idle.pc = "idle" /\ DOMAIN Idle = RunFields
  BY DEF Idle, RunFields

(* A started invocation is told from an idle one.                          *)
LEMMA LiveNotIdle == \A r : Running(r) => r.pc # "idle" /\ r # Idle
  BY IdleRun DEF Running, Payers

(* An invocation that pays has been started, and remembers its step.       *)
LEMMA PayerIsLive ==
  ASSUME RebuttalInv, NEW p \in Procs, Payer(p)
  PROVE  Running(run[p]) /\ PayerHolds(run[p], journal[run[p].step], sent[run[p].step])
         /\ run[p].step \in Steps
<1>1. run[p] # Idle
  BY IdleRun DEF Payer, Payers
<1>2. Running(run[p])
  BY <1>1 DEF RebuttalInv, RunsHold
<1>. QED
  BY <1>2, Families DEF RebuttalInv, RunsHold, RebuttalTypes, Running

(* Outside the reopened family there is one step, and it needs no key of a *)
(* probe.                                                                  *)
LEMMA IsFirst ==
  ASSUME RebuttalInv, NEW p \in Procs, run[p] # Idle, family # "reopen"
  PROVE  /\ Running(run[p]) /\ run[p].step \in {"first", "post"} /\ StepsOf[family] = {run[p].step}
         /\ run[p].step \notin {"v3", "probe2"}
<1>1. Running(run[p]) /\ family \in {"first", "reopen", "post"}
  BY Families DEF RebuttalInv, RunsHold, RebuttalTypes
<1>. QED
  BY <1>1, Families DEF Running

(* What a step that an invocation p takes for its step s leaves to others. *)
LEMMA OthersHold ==
  ASSUME RebuttalInv, family' = family, plan' = plan, NEW p \in Procs, NEW r,
         run'[p] = r, \A q \in Procs : q # p => run'[q] = run[q],
         NEW s \in Steps, run[p] # Idle => run[p].step = s, r # Idle => r.step = s,
         r = Idle \/ Running(r)',
         r.pc \in Payers => PayerHolds(r, journal'[s], sent'[s]),
         \A t \in Steps : output[t] # None => output'[t] = output[t],
         \A t \in Steps : auth[t] # None => auth'[t] = auth[t],
         (run[p] # Idle /\ family = "reopen") \/ Payer(p) \/ UNCHANGED <<journal, sent, output>>,
         run[p] # Idle \/ UNCHANGED auth,
         r # Idle /\ family = "reopen" => run[p] # Idle \/ \A q \in Procs : run[q] = Idle,
         r.pc \in Payers => Payer(p) \/ family = "reopen" \/ auth[s] = None
  PROVE  RunsHold'
<1>1. ASSUME NEW q \in Procs, q # p, run[q] # Idle
      PROVE  /\ Running(run[q])' /\ (Payer(q) => PayerHolds(run[q], journal[run[q].step], sent[run[q].step])')
             /\ family = "reopen" => r = Idle
             /\ r.pc \in Payers => ~Payer(q)
  <2>1. Running(run[q]) /\ run'[q] = run[q] /\ run[q].step \in Steps
    BY <1>1, Families DEF RebuttalInv, RunsHold, RebuttalTypes, Running
  <2>2. CASE family = "reopen"
    <3>1. run[p] = Idle
      BY <1>1, <2>2 DEF RebuttalInv, RunsHold
    <3>2. r = Idle
      BY <1>1, <2>2, <3>1
    <3>3. UNCHANGED <<auth, journal, sent, output>>
      BY <3>1, IdleRun DEF Payer, Payers
    <3>4. Running(run[q])'
      BY <2>1, <3>3 DEF Running, ProbePassed, ProbeRejected
    <3>5. Payer(q) => PayerHolds(run[q], journal[run[q].step], sent[run[q].step])'
      BY <2>1, <3>3, PayerIsLive
    <3>. QED
      BY <3>2, <3>4, <3>5, IdleRun DEF Payers
  <2>3. CASE family # "reopen"
    <3>1. run[q].step \notin {"v3", "probe2"} /\ StepsOf[family] = {run[q].step}
      BY <1>1, <2>3, IsFirst
    <3>2. auth[run[q].step] # None => auth'[run[q].step] = auth[run[q].step]
      BY <2>1
    <3>3. CASE Payer(q)
      <4>1. ~Payer(p)
        BY <1>1, <3>3 DEF RebuttalInv, RunsHold
      <4>2. UNCHANGED <<journal, sent, output>>
        BY <2>3, <4>1
      <4>3. Running(run[q])'
        BY <2>1, <3>1, <3>2, <4>2 DEF Running
      <4>4. PayerHolds(run[q], journal[run[q].step], sent[run[q].step])'
        BY <2>1, <3>3, <4>2, PayerIsLive
      <4>5. r.pc \notin Payers
        <5>1. SUFFICES ASSUME r.pc \in Payers PROVE FALSE
          OBVIOUS
        <5>2. auth[s] = None /\ r # Idle
          BY <2>3, <4>1, <5>1, IdleRun DEF Payers
        <5>3. s \in StepsOf[family]
          BY <5>2 DEF Running
        <5>4. auth[run[q].step] # None
          BY <2>1, <3>3 DEF Running, Payer, Payers
        <5>. QED
          BY <3>1, <5>2, <5>3, <5>4
      <4>. QED
        BY <2>3, <4>3, <4>4, <4>5
    <3>4. CASE ~Payer(q)
      <4>1. Running(run[q])'
        BY <2>1, <2>3, <3>1, <3>2, <3>4 DEF Running, Payer
      <4>. QED
        BY <2>3, <3>4, <4>1
    <3>. QED
      BY <3>3, <3>4
  <2>. QED
    BY <2>2, <2>3
<1>2. ASSUME NEW q \in Procs PROVE run'[q] = Idle \/ Running(run[q])'
  BY <1>1, <1>2
<1>3. ASSUME NEW q \in Procs, Payer(q)'
      PROVE  PayerHolds(run[q], journal[run[q].step], sent[run[q].step])'
  <2>1. CASE q = p
    <3>1. r.step = s /\ r.pc \in Payers
      BY <1>3, <2>1, IdleRun DEF Payer, Payers
    <3>. QED
      BY <2>1, <3>1
  <2>2. CASE q # p
    <3>1. run[q] # Idle /\ Payer(q)
      BY <1>3, <2>2, IdleRun DEF Payer, Payers
    <3>. QED
      BY <1>1, <2>2, <3>1
  <2>. QED
    BY <2>1, <2>2
<1>4. ASSUME NEW q1 \in Procs, NEW q2 \in Procs,
             (Payer(q1) /\ Payer(q2))' \/ (family' = "reopen" /\ run'[q1] # Idle /\ run'[q2] # Idle)
      PROVE  q1 = q2
  <2>1. \A q \in Procs : q # p => (Payer(q)' => Payer(q) /\ run[q] # Idle)
    BY IdleRun DEF Payer, Payers
  <2>2. Payer(p)' => r.pc \in Payers
    BY DEF Payer
  <2>3. CASE q1 # p /\ q2 # p
    <3>1. (Payer(q1) /\ Payer(q2)) \/ (family = "reopen" /\ run[q1] # Idle /\ run[q2] # Idle)
      BY <1>4, <2>1, <2>3
    <3>. QED
      BY <3>1 DEF RebuttalInv, RunsHold
  <2>4. ASSUME NEW q \in Procs, q # p,
               (Payer(q) /\ Payer(p))' \/ (family = "reopen" /\ run'[q] # Idle /\ run'[p] # Idle)
        PROVE  FALSE
    BY <1>1, <2>1, <2>2, <2>4
  <2>. QED
    BY <1>4, <2>3, <2>4
<1>. QED
  BY <1>2, <1>3, <1>4 DEF RunsHold

(* The lineage of the replaced key stands while calls are only appended    *)
(* and artifacts only created.                                             *)
LEMMA ReplacedStays ==
  ASSUME RebuttalInv, plan' = plan, sent' \in [Steps -> Seq(CallRows)],
         \A t \in Steps : output[t] # None => output'[t] = output[t],
         \A t \in Steps : \A k \in DOMAIN sent[t] : k \in DOMAIN sent'[t] /\ sent'[t][k] = sent[t][k],
         \A k \in DOMAIN sent'["v3"] \ DOMAIN sent["v3"] :
            ProbePassed /\ sent'["v3"][k].key = output["probe2"].key,
         output["probe2"] = None /\ output'["probe2"] # None => plan # None /\ ProbeRejected /\ ProbePaid'
  PROVE  Replaced'
<1>1. {"v1", "v3", "probe1", "probe2"} \subseteq Steps
  BY DEF Steps, Runs, Probes
<1>2. Replaced /\ sent \in [Steps -> Seq(CallRows)]
  BY DEF RebuttalInv, RebuttalTypes
<1>3. ASSUME NEW t \in Steps, sent[t] # <<>> PROVE sent'[t] # <<>> /\ sent'[t][1] = sent[t][1]
  <2>1. 1 \in DOMAIN sent[t]
    BY <1>2, <1>3
  <2>2. 1 \in DOMAIN sent'[t] /\ sent'[t][1] = sent[t][1]
    BY <2>1
  <2>. QED
    BY <2>2
<1>4. plan' # None => sent'["v1"] # <<>> /\ sent'["v1"][1].key \notin Valid
  BY <1>1, <1>2, <1>3 DEF Replaced
<1>5. ProbeRejected => ProbeRejected'
  BY <1>1 DEF ProbeRejected
<1>6. ProbePassed => ProbePassed' /\ output'["probe2"] = output["probe2"]
  BY <1>1 DEF ProbePassed
<1>7. output["probe2"] # None => plan # None /\ ProbeRejected /\ ProbePaid'
  BY <1>1, <1>2, <1>3 DEF Replaced, ProbePaid
<1>8. output'["probe2"] # None => plan' # None /\ ProbeRejected' /\ ProbePaid'
  BY <1>5, <1>7
<1>9. ASSUME NEW k \in DOMAIN sent'["v3"]
      PROVE  ProbePassed' /\ sent'["v3"][k].key = output'["probe2"].key
  <2>1. CASE k \in DOMAIN sent["v3"]
    <3>1. ProbePassed /\ sent["v3"][k].key = output["probe2"].key /\ sent'["v3"][k] = sent["v3"][k]
      BY <1>1, <1>2, <2>1 DEF Replaced
    <3>. QED
      BY <1>6, <3>1
  <2>2. CASE k \notin DOMAIN sent["v3"]
    BY <1>6, <1>9, <2>2
  <2>. QED
    BY <2>1, <2>2
<1>. QED
  BY <1>4, <1>8, <1>9 DEF Replaced

(* A step of an invocation p for its step s: it keeps the invariant when   *)
(* it keeps what holds of s and of p, creates artifacts and appends calls. *)
LEMMA Acts ==
  ASSUME RebuttalInv, Quiet, NEW p \in Procs, NEW s \in Steps, run[p] # Idle, run[p].step = s,
         NEW r, run' = [run EXCEPT ![p] = r], r # Idle => r.step = s, r = Idle \/ Running(r)',
         r.pc \in Payers => PayerHolds(r, journal'[s], sent'[s]),
         r.pc \in Payers => Payer(p) \/ family = "reopen" \/ auth[s] = None,
         raws' \subseteq 1..Calls, crashes' \in 0..MaxCrashes,
         journal' \in [Steps -> Journals], sent' \in [Steps -> Seq(CallRows)],
         DOMAIN auth' = Steps, DOMAIN output' = Steps,
         \A t \in Steps : t # s => /\ journal'[t] = journal[t] /\ sent'[t] = sent[t]
                                   /\ auth'[t] = auth[t] /\ output'[t] = output[t],
         output[s] # None => output'[s] = output[s],
         auth[s] # None => auth'[s] = auth[s],
         StepHolds(s)',
         family = "reopen" \/ Payer(p) \/ UNCHANGED <<journal, sent, output>>,
         \A k \in DOMAIN sent[s] : k \in DOMAIN sent'[s] /\ sent'[s][k] = sent[s][k],
         \A k \in DOMAIN sent'[s] \ DOMAIN sent[s] : sent'[s][k].key = run[p].key,
         s = "probe2" /\ output[s] = None /\ output'[s] # None => ProbePaid'
  PROVE  RebuttalInv'
<1>1. UNCHANGED <<family, head, env, plan, dry>>
  BY DEF Quiet, preflights
<1>2. DOMAIN run = Procs /\ Running(run[p])
  BY DEF RebuttalInv, RebuttalTypes, RunsHold
<1>3. run'[p] = r /\ (\A q \in Procs : q # p => run'[q] = run[q]) /\ DOMAIN run' = Procs
  BY <1>2
<1>4. RebuttalTypes'
  <2>1. s \in StepsOf[family]
    BY <1>2 DEF Running
  <2>2. \A t \in Steps : t \notin StepsOf[family] => dry'[t] = None /\ auth'[t] = None
    BY <1>1, <2>1 DEF RebuttalInv, RebuttalTypes
  <2>. QED
    BY <1>1, <1>3, <2>2 DEF RebuttalInv, RebuttalTypes
<1>5. ASSUME NEW t \in Steps PROVE StepHolds(t)'
  <2>1. CASE t = s
    BY <2>1
  <2>2. CASE t # s
    BY <2>2 DEF RebuttalInv, StepHolds
  <2>. QED
    BY <2>1, <2>2
<1>6. \A t \in Steps : (output[t] # None => output'[t] = output[t])
                       /\ (auth[t] # None => auth'[t] = auth[t])
  OBVIOUS
<1>7. Replaced'
  <2>1. \A t \in Steps : \A k \in DOMAIN sent[t] : k \in DOMAIN sent'[t] /\ sent'[t][k] = sent[t][k]
    OBVIOUS
  <2>2. \A k \in DOMAIN sent'["v3"] \ DOMAIN sent["v3"] :
           ProbePassed /\ sent'["v3"][k].key = output["probe2"].key
    <3>1. "v3" \in Steps
      BY DEF Steps, Runs
    <3>2. CASE s = "v3"
      BY <1>2, <3>2 DEF Running, Runs
    <3>3. CASE s # "v3"
      BY <3>1, <3>3
    <3>. QED
      BY <3>2, <3>3
  <2>3. output["probe2"] = None /\ output'["probe2"] # None => plan # None /\ ProbeRejected /\ ProbePaid'
    <3>1. "probe2" \in Steps
      BY DEF Steps, Probes
    <3>2. CASE s = "probe2"
      BY <1>2, <3>2 DEF Running
    <3>3. CASE s # "probe2"
      BY <3>1, <3>3
    <3>. QED
      BY <3>2, <3>3
  <2>. QED
    BY <1>1, <1>6, <2>1, <2>2, <2>3, ReplacedStays
<1>8. RunsHold'
  BY <1>1, <1>3, <1>6, OthersHold
<1>. QED
  BY <1>4, <1>5, <1>7, <1>8 DEF RebuttalInv

-----------------------------------------------------------------------------
(* A step makes at least one call and at most one for each candidate.      *)
LEMMA CallsNat == Calls \in Nat /\ Calls > 0 /\ \A s : MaxCalls(s) \in Nat /\ MaxCalls(s) >= 1
                  /\ MaxCalls(s) <= Calls
  BY RebuttalAssumption DEF MaxCalls

(* Only a key the provider does not know is rejected, and no probe of such *)
(* a key is answered.                                                      *)
LEMMA AnswersTyped ==
  ASSUME NEW s \in Steps, NEW k \in Keys, NEW a \in ProviderAnswers(s, k)
  PROVE  /\ a \in AnswerRecords /\ a # None
         /\ a.rejected => k \notin Valid
         /\ s \in Probes /\ a.valid => k \in Valid
<1>1. NoAnswer \in AnswerRecords /\ Unauthorized \in AnswerRecords /\ Metadata \in AnswerRecords
      /\ NoAnswer.rejected = FALSE /\ Metadata.rejected = FALSE /\ Unauthorized.valid = FALSE
  BY DEF NoAnswer, Unauthorized, Metadata, AnswerRecords
<1>2. \A b \in RebuttalAnswers : b \in AnswerRecords /\ ~b.rejected
  BY RebuttalAssumption
<1>3. \A b \in AnswerRecords : b # None
  <2>1. \A b \in AnswerRecords : DOMAIN b = {"received", "rejected", "usage", "valid", "bundle", "cost"}
    BY DEF AnswerRecords
  <2>2. DOMAIN None = {"none"}
    BY DEF None
  <2>. QED
    BY <2>1, <2>2
<1>4. CASE k \notin Valid
  BY <1>1, <1>3, <1>4 DEF ProviderAnswers
<1>5. CASE k \in Valid /\ s \in Probes
  BY <1>1, <1>3, <1>5 DEF ProviderAnswers
<1>6. CASE k \in Valid /\ s \notin Probes
  BY <1>2, <1>3, <1>6 DEF ProviderAnswers
<1>. QED
  BY <1>4, <1>5, <1>6

(* An attempt is a row of a journal.                                       *)
LEMMA AttemptTyped ==
  ASSUME NEW s \in Steps, s # "first", NEW i \in Nat, NEW k \in Keys
  PROVE  AttemptOf(s, i, k) \in AttemptRows
<1>1. DispatchAttempt(i) \in AttemptRows /\ AttemptV03(i, k) \in AttemptRows
      /\ ProbeAttempt \in AttemptRows /\ ProbeAttemptV02(k) \in AttemptRows
  BY DEF DispatchAttempt, AttemptV03, ProbeAttempt, ProbeAttemptV02, Signed, AttemptRows
<1>. QED
  BY <1>1 DEF AttemptOf, Steps, Runs, Probes

(* A receipt says which call it is of, what was answered and, for the      *)
(* second probe, with which key.                                           *)
LEMMA ReceiptTyped ==
  ASSUME NEW s \in Steps, NEW i \in Nat, s \in Probes => i = 1, NEW a \in AnswerRecords,
         NEW k \in Keys
  PROVE  /\ ReceiptOf(s, i, a, k) \in ResultRows /\ ReceiptOf(s, i, a, k).i = i
         /\ ReceiptOf(s, i, a, k).answer = a
         /\ s = "probe2" => ReceiptOf(s, i, a, k).key = k
<1> DEFINE plain == [i |-> i, answer |-> a, key |-> None]
           signed == [i |-> i, answer |-> a, key |-> k]
<1>1. plain \in ResultRows /\ signed \in ResultRows
  BY DEF ResultRows
<1>2. Signed(plain, k) = signed
  BY DEF Signed
<1>3. s \in Probes => ProbeReceipt(a) = plain
  BY DEF ProbeReceipt
<1>4. FirstReceipt(i, a) = plain /\ ResultReceipt(i, a) = plain
  BY DEF FirstReceipt, ResultReceipt
<1>5. ReceiptOf(s, i, a, k) = IF s \in {"v3", "probe2"} THEN signed ELSE plain
  <2>1. CASE s \in {"first", "v1", "v2", "post"}
    BY <1>4, <2>1 DEF ReceiptOf
  <2>2. CASE s = "v3"
    BY <1>2, <1>4, <2>2 DEF ReceiptOf, ReceiptV03
  <2>3. CASE s = "probe1"
    BY <1>3, <2>3 DEF ReceiptOf, Probes
  <2>4. CASE s = "probe2"
    BY <1>2, <1>3, <2>4 DEF ReceiptOf, ProbeReceiptV02, Probes
  <2>. QED
    BY <2>1, <2>2, <2>3, <2>4 DEF Steps, Runs, Probes
<1>. QED
  BY <1>1, <1>5

(* An authorization binds the dry artifact it was given for.               *)
LEMMA AuthTyped ==
  ASSUME NEW s \in Steps, NEW d, NEW k
  PROVE  AuthOf(s, d, k).dry = d /\ AuthOf(s, d, k).calls = MaxCalls(s) /\ AuthOf(s, d, k) # None
<1>1. \A n : DOMAIN [dry |-> d, calls |-> n, key |-> None] = {"dry", "calls", "key"}
  OBVIOUS
<1>2. DOMAIN None = {"none"}
  BY DEF None
<1>3. \A n : LET e == [dry |-> d, calls |-> n, key |-> None]
             IN  e # None /\ Signed(e, k) # None /\ Signed(e, k).dry = d /\ Signed(e, k).calls = n
  BY <1>1, <1>2 DEF Signed
<1>4. CASE s \in {"first", "v1", "v2", "v3", "post"}
  <2>1. MaxCalls(s) = Calls
    BY <1>4 DEF MaxCalls, Probes
  <2>. QED
    BY <1>3, <1>4, <2>1 DEF AuthOf, FirstAuth, ReopenAuth, AuthV03, PostLedger
<1>5. CASE s \in {"probe1", "probe2"}
  <2>1. MaxCalls(s) = 1
    BY <1>5 DEF MaxCalls, Probes
  <2>. QED
    BY <1>3, <1>5, <2>1 DEF AuthOf, ProbeAuth, ProbeAuthV02
<1>. QED
  BY <1>4, <1>5 DEF Steps, Runs, Probes

(* Artifacts say what they are made from.                                  *)
LEMMA ArtifactFields ==
  ASSUME NEW why, NEW code, NEW n, NEW m, NEW k
  PROVE  LET e == [status |-> why, code |-> code, known |-> n, calls |-> m, key |-> None]
         IN  /\ e # None /\ e.status = why /\ e.known = n /\ e.calls = m
             /\ Signed(e, k) # None /\ Signed(e, k).status = why /\ Signed(e, k).known = n
             /\ Signed(e, k).calls = m
<1> DEFINE e == [status |-> why, code |-> code, known |-> n, calls |-> m, key |-> None]
<1>1. DOMAIN e = {"status", "code", "known", "calls", "key"} /\ DOMAIN None = {"none"}
      /\ DOMAIN Signed(e, k) = {"status", "code", "known", "calls", "key"}
  BY DEF None, Signed
<1>2. e # None /\ Signed(e, k) # None
  BY <1>1
<1>. QED
  BY <1>2 DEF Signed

(* A frozen artifact has the costs and the calls of its results.           *)
LEMMA FreezeTyped ==
  ASSUME NEW s \in Runs, s # "post", NEW code, NEW rs, NEW k
  PROVE  LET o == FreezeOf(s, code, rs, k)
         IN  o # None /\ o.status = "FROZEN" /\ o.known = Known(rs) /\ o.calls = Len(rs)

<1>1. CASE s = "first"
  BY <1>1, ArtifactFields DEF FreezeOf, FirstFreeze
<1>2. CASE s \in {"v1", "v2"}
  BY <1>2, ArtifactFields DEF FreezeOf, ReopenFreeze
<1>3. CASE s = "v3"
  BY <1>3, ArtifactFields DEF FreezeOf, FreezeV03, ReopenFreeze
<1>. QED
  BY <1>1, <1>2, <1>3 DEF Runs

(* A blocked artifact has its reason, and the costs of its results.        *)
LEMMA BlockedTyped ==
  ASSUME NEW s \in Runs, s # "post", NEW code, NEW why, NEW n, NEW rs, NEW k
  PROVE  LET o == BlockedOf(s, code, why, n, rs, k)
         IN  o # None /\ o.status = why /\ o.known = Known(rs)
             /\ o.calls = IF s = "first" THEN Len(rs) ELSE n
<1>1. CASE s = "first"
  BY <1>1, ArtifactFields DEF BlockedOf, FirstBlocked
<1>2. CASE s \in {"v1", "v2"}
  BY <1>2, ArtifactFields DEF BlockedOf, ReopenBlocked
<1>3. CASE s = "v3"
  BY <1>3, ArtifactFields DEF BlockedOf, BlockedV03, ReopenBlocked
<1>. QED
  BY <1>1, <1>2, <1>3 DEF Runs

(* A probe passes when its answer is valid; the second says with which key *)
(* it was made.                                                            *)
LEMMA ProbeTyped ==
  ASSUME NEW s \in Probes, NEW code, NEW r
  PROVE  LET o == ProbeFinalOf(s, code, r)
         IN  /\ o # None /\ (o.status = "PASS" => r.answer.valid)
             /\ s = "probe2" => o.key = r.key
<1> DEFINE w == IF r.answer.valid THEN "PASS" ELSE IF r.answer.rejected THEN "REJECTED" ELSE "FAIL"
           e == [status |-> w, code |-> code, key |-> None]
<1>1. ProbeFinal(code, r) = e
  BY DEF ProbeFinal
<1>2. w = "PASS" => r.answer.valid
  OBVIOUS
<1>. HIDE DEF w
<1>3. e.status = w /\ Signed(e, r.key).status = w /\ Signed(e, r.key).key = r.key
  BY DEF Signed
<1>4. DOMAIN e = {"status", "code", "key"} /\ DOMAIN Signed(e, r.key) = {"status", "code", "key"}
      /\ DOMAIN None = {"none"}
  BY DEF Signed, None
<1>5. e # None /\ Signed(e, r.key) # None
  BY <1>4
<1>. QED
  BY <1>1, <1>2, <1>3, <1>5 DEF ProbeFinalOf, ProbeFinalV02, Probes

(* Costs known and costs charged.                                          *)
LEMMA ResultCost == \A r \in ResultRows : r.answer \in AnswerRecords /\ r.answer.cost \in Nat
  BY DEF ResultRows, AnswerRecords

(* Every call is charged an amount.                                        *)
LEMMA CallCost == \A c \in CallRows : c.cost \in Nat
  BY DEF CallRows

KnownOf(r) == IF Complete(r.answer) THEN r.answer.cost ELSE 0
KnownCosts(rs) == [k \in DOMAIN rs |-> IF Complete(rs[k].answer) THEN rs[k].answer.cost ELSE 0]
ChargedCosts(c) == [k \in DOMAIN c |-> c[k].cost]

(* The known costs of a journal are amounts, one for each result.          *)
LEMMA KnownCostsSeq ==
  ASSUME NEW rs \in Seq(ResultRows)
  PROVE  /\ KnownCosts(rs) \in Seq(Nat) /\ Len(KnownCosts(rs)) = Len(rs) /\ Known(rs) \in Nat
         /\ \A k \in 1..Len(rs) : KnownCosts(rs)[k] = KnownOf(rs[k])
<1>1. \A k \in 1..Len(rs) : KnownOf(rs[k]) \in Nat
  BY ResultCost DEF KnownOf
<1>2. KnownCosts(rs) = [k \in 1..Len(rs) |-> KnownOf(rs[k])]
  BY DEF KnownCosts, KnownOf
<1>3. KnownCosts(rs) \in Seq(Nat) /\ Len(KnownCosts(rs)) = Len(rs)
      /\ \A k \in 1..Len(rs) : KnownCosts(rs)[k] = KnownOf(rs[k])
  <2>. HIDE DEF KnownOf
  <2>. QED
    BY <1>1, <1>2
<1>4. Known(rs) = Total(KnownCosts(rs))
  BY DEF Known, KnownCosts
<1>. QED
  BY <1>3, <1>4, TotalNat

(* The costs charged are amounts, one for each call.                       *)
LEMMA ChargedCostsSeq ==
  ASSUME NEW c \in Seq(CallRows)
  PROVE  /\ ChargedCosts(c) \in Seq(Nat) /\ Len(ChargedCosts(c)) = Len(c) /\ ChargedFor(c) \in Nat
         /\ \A k \in 1..Len(c) : ChargedCosts(c)[k] = c[k].cost
<1>1. \A k \in 1..Len(c) : c[k].cost \in Nat
  BY CallCost
<1>2. ChargedCosts(c) \in Seq(Nat) /\ Len(ChargedCosts(c)) = Len(c)
      /\ \A k \in 1..Len(c) : ChargedCosts(c)[k] = c[k].cost
  BY <1>1 DEF ChargedCosts
<1>3. ChargedFor(c) = Total(ChargedCosts(c))
  BY DEF ChargedFor, ChargedCosts
<1>. QED
  BY <1>2, <1>3, TotalNat

(* No more is known than was charged; all of it, when every answer passed. *)
LEMMA KnownAtMost ==
  ASSUME NEW rs \in Seq(ResultRows), NEW c \in Seq(CallRows), Len(rs) <= Len(c),
         \A k \in 1..Len(rs) : rs[k].answer.cost = c[k].cost
  PROVE  /\ Known(rs) <= ChargedFor(c)
         /\ AllPass(rs) /\ Len(rs) = Len(c) => Known(rs) = ChargedFor(c)
<1>1. Known(rs) = Total(KnownCosts(rs)) /\ ChargedFor(c) = Total(ChargedCosts(c))
  BY DEF Known, KnownCosts, ChargedFor, ChargedCosts
<1>2. ASSUME NEW k \in 1..Len(rs)
      PROVE  /\ KnownCosts(rs)[k] <= ChargedCosts(c)[k]
             /\ AllPass(rs) => KnownCosts(rs)[k] = ChargedCosts(c)[k]
  <2>1. KnownCosts(rs)[k] = KnownOf(rs[k]) /\ k \in 1..Len(c) /\ ChargedCosts(c)[k] = c[k].cost
    BY KnownCostsSeq, ChargedCostsSeq
  <2>2. rs[k].answer.cost = c[k].cost /\ c[k].cost \in Nat
    BY <2>1, CallCost
  <2>3. AllPass(rs) => Complete(rs[k].answer)
    BY DEF AllPass, Passed
  <2>. QED
    BY <2>1, <2>2, <2>3 DEF KnownOf
<1>3. Known(rs) <= ChargedFor(c)
  BY <1>1, <1>2, KnownCostsSeq, ChargedCostsSeq, TotalAtMost
<1>4. ASSUME AllPass(rs), Len(rs) = Len(c) PROVE Known(rs) = ChargedFor(c)
  <2>1. KnownCosts(rs) = ChargedCosts(c)
    BY <1>2, <1>4, KnownCostsSeq, ChargedCostsSeq, SMTT(30)
  <2>. QED
    BY <1>1, <2>1
<1>. QED
  BY <1>3, <1>4

(* What is known after one more result.                                    *)
LEMMA KnownAppended ==
  ASSUME NEW rs \in Seq(ResultRows), NEW r \in ResultRows
  PROVE  Known(Append(rs, r)) = Known(rs) + KnownOf(r)
<1> DEFINE t == Append(rs, r)
<1>1. t \in Seq(ResultRows) /\ Len(t) = Len(rs) + 1 /\ t[Len(rs) + 1] = r
      /\ \A k \in 1..Len(rs) : t[k] = rs[k]
  OBVIOUS
<1>2. KnownOf(r) \in Nat
  BY ResultCost DEF KnownOf
<1>3. KnownCosts(t) = Append(KnownCosts(rs), KnownOf(r))
  <2>. HIDE DEF t
  <2>1. KnownCosts(t) \in Seq(Nat) /\ Len(KnownCosts(t)) = Len(rs) + 1
        /\ \A k \in 1..(Len(rs) + 1) : KnownCosts(t)[k] = KnownOf(t[k])
    BY <1>1, KnownCostsSeq
  <2> DEFINE u == Append(KnownCosts(rs), KnownOf(r))
  <2>2. KnownCosts(rs) \in Seq(Nat) /\ Len(KnownCosts(rs)) = Len(rs)
        /\ \A k \in 1..Len(rs) : KnownCosts(rs)[k] = KnownOf(rs[k])
    BY KnownCostsSeq
  <2>3. u \in Seq(Nat) /\ Len(u) = Len(rs) + 1 /\ u[Len(rs) + 1] = KnownOf(r)
        /\ \A k \in 1..Len(rs) : u[k] = KnownOf(rs[k])
    BY <1>2, <2>2
  <2>. HIDE DEF u
  <2>4. ASSUME NEW k \in 1..(Len(rs) + 1) PROVE KnownCosts(t)[k] = u[k]
    <3>1. KnownCosts(t)[k] = KnownOf(t[k])
      BY <2>1
    <3>2. CASE k \in 1..Len(rs)
      BY <1>1, <2>3, <3>1, <3>2
    <3>3. CASE k = Len(rs) + 1
      BY <1>1, <2>3, <3>1, <3>3
    <3>. QED
      BY <3>2, <3>3
  <2>5. KnownCosts(t) = u
    BY <2>1, <2>3, <2>4
  <2>. QED
    BY <2>5 DEF u
<1>4. Total(KnownCosts(t)) = Total(KnownCosts(rs)) + KnownOf(r)
  BY <1>2, <1>3, KnownCostsSeq, TotalAppend
<1>. QED
  BY <1>4 DEF Known, KnownCosts

-----------------------------------------------------------------------------
(* The initial state.                                                      *)
LEMMA RebuttalInitInv == RebuttalInit => RebuttalInv
<1> SUFFICES ASSUME RebuttalInit PROVE RebuttalInv
  OBVIOUS
<1>1. Blank \in Journals /\ Len(Blank.results) = 0 /\ Len(Blank.attempts) = 0
      /\ Blank.attempts = <<>> /\ DOMAIN Blank.results = {}
  BY DEF Blank, Journals
<1>2. RebuttalTypes
  BY <1>1, RebuttalAssumption, StageAssumption, CallsNat DEF RebuttalInit, RebuttalTypes
<1>3. ASSUME NEW s \in Steps PROVE StepHolds(s)
  <2>1. journal[s] = Blank /\ sent[s] = <<>> /\ auth[s] = None /\ output[s] = None
    BY DEF RebuttalInit
  <2>2. LogHolds(s, Blank, <<>>)
    BY <1>1, CallsNat DEF LogHolds
  <2>. QED
    BY <2>1, <2>2 DEF StepHolds, AuthHolds, OutcomeHolds
<1>4. Replaced
  BY DEF RebuttalInit, Replaced, Steps, Runs, Probes
<1>5. RunsHold
  BY IdleRun DEF RebuttalInit, RunsHold, Payer, Payers
<1>. QED
  BY <1>2, <1>3, <1>4, <1>5 DEF RebuttalInv

(* The developer, the operator and the owner, and the plan to recover.     *)
LEMMA Stays ==
  ASSUME RebuttalInv, UNCHANGED <<family, rebuttalFiles, run, sent, crashes>>,
         head' \in Revisions, env' \in Keys, DOMAIN dry' = Steps,
         \A s \in Steps : s \notin StepsOf[family] => dry'[s] = None,
         plan' = plan \/ (plan = None /\ sent["v1"] # <<>> /\ sent["v1"][1].key \notin Valid)
  PROVE  RebuttalInv'
<1>1. UNCHANGED <<auth, journal, raws, output>>
  BY DEF rebuttalFiles
<1>2. RebuttalTypes'
  BY <1>1 DEF RebuttalInv, RebuttalTypes
<1>3. \A s \in Steps : StepHolds(s)'
  BY <1>1 DEF RebuttalInv, StepHolds
<1>4. Replaced'
  BY <1>1 DEF RebuttalInv, Replaced, ProbeRejected, ProbePassed, ProbePaid
<1>5. \A r : Running(r) => Running(r)'
  BY <1>1 DEF Running, ProbePassed, ProbeRejected
<1>6. RunsHold'
  BY <1>1, <1>5 DEF RebuttalInv, RunsHold, Payer
<1>. QED
  BY <1>2, <1>3, <1>4, <1>6 DEF RebuttalInv

(* The journal a recovery starts from is of a key the provider does not    *)
(* know.                                                                   *)
LEMMA RejectedKey ==
  ASSUME RebuttalInv, RejectedJournal(journal["v1"])
  PROVE  sent["v1"] # <<>> /\ sent["v1"][1].key \notin Valid
<1>1. "v1" \in Steps
  BY DEF Steps, Runs
<1>2. journal["v1"].results \in Seq(ResultRows) /\ sent["v1"] \in Seq(CallRows)
  BY <1>1 DEF RebuttalInv, RebuttalTypes, Journals
<1>3. Len(journal["v1"].results) = 1 /\ journal["v1"].results[1].answer.rejected
  BY DEF RejectedJournal
<1>4. Len(sent["v1"]) >= 1 /\ IsReceipt("v1", 1, journal["v1"].results[1], sent["v1"][1])
  BY <1>1, <1>2, <1>3 DEF RebuttalInv, StepHolds, LogHolds
<1>5. sent["v1"][1] \in CallRows
  BY <1>2, <1>4
<1>6. sent["v1"][1].key \in Keys
  BY <1>5 DEF CallRows
<1>. QED
  BY <1>1, <1>2, <1>3, <1>4, <1>6, AnswersTyped DEF IsReceipt

(* Checkout, change of key, preflights, dry runs and approvals.            *)
LEMMA EnvironmentStep ==
  ASSUME RebuttalInv,
         Checkout \/ ChangeKey \/ Preflight \/ \E s \in Steps : DryRun(s) \/ Approve(s)
  PROVE  RebuttalInv'
<1>0. head \in Revisions /\ env \in Keys /\ DOMAIN dry = Steps
      /\ \A s \in Steps : s \notin StepsOf[family] => dry[s] = None
  BY DEF RebuttalInv, RebuttalTypes
<1>1. CASE Checkout
  BY <1>0, <1>1, Stays DEF Checkout, preflights
<1>2. CASE ChangeKey
  BY <1>0, <1>2, Stays DEF ChangeKey, preflights
<1>3. CASE Preflight
  <2>1. plan' = plan \/ (plan = None /\ sent["v1"] # <<>> /\ sent["v1"][1].key \notin Valid)
    BY <1>3, RejectedKey DEF Preflight, SourcePreflight, RequestPreflight, CostPreflight,
       ReopenCost, Recover, PostPreflight
  <2>. QED
    BY <1>0, <1>3, <2>1, Stays DEF Preflight
<1>4. ASSUME NEW s \in Steps, DryRun(s) PROVE RebuttalInv'
  <2>1. DOMAIN dry' = Steps /\ \A t \in Steps : t # s => dry'[t] = dry[t]
    BY <1>0, <1>4 DEF DryRun
  <2>2. UNCHANGED <<family, head, env, plan, rebuttalFiles, run, sent, crashes>>
        /\ s \in StepsOf[family]
    BY <1>4 DEF DryRun, preflights
  <2>. QED
    BY <1>0, <2>1, <2>2, Stays
<1>5. ASSUME NEW s \in Steps, Approve(s) PROVE RebuttalInv'
  BY <1>0, <1>5, Stays DEF Approve, preflights
<1>. QED
  BY <1>1, <1>2, <1>3, <1>4, <1>5

(* The requests a run was approved with are those its code builds.         *)
LEMMA BoundAsks ==
  ASSUME NEW s \in Steps, NEW c, NEW k, Bound(s, c, k)
  PROVE  /\ s \in Runs => Builds[c] = Asked(s, DryOf(s, c, k))
         /\ s = "v3" => ProbePassed /\ k = output["probe2"].key
         /\ s = "probe2" => plan # None /\ ProbeRejected
<1>1. CASE s = "first"
  BY <1>1 DEF Bound, FirstBound, Asked, DryOf, FirstDry
<1>2. CASE s \in {"v1", "v2"}
  BY <1>2 DEF Bound, ReopenBound, ReopenBoundV02, Asked, DryOf, ReopenDry
<1>3. CASE s = "v3"
  BY <1>3 DEF Bound, ReopenBoundV02, Asked, DryOf, DryV03, BindCredential
<1>4. CASE s = "post"
  BY <1>4 DEF Bound, PostBound, Asked, DryOf, Readiness
<1>5. CASE s \in Probes
  BY <1>5 DEF Bound, ProbeSource, Probes, Runs
<1>. QED
  BY <1>1, <1>2, <1>3, <1>4, <1>5 DEF Steps, Runs

(* An invocation starts: in the reopened family, alone.                    *)
LEMMA StartKeeps ==
  ASSUME RebuttalInv, NEW p \in Procs, NEW s \in Steps, Start(p, s)
  PROVE  RebuttalInv'
<1> PICK r : r = [Idle EXCEPT !.pc = "started", !.step = s, !.code = head, !.key = env,
                              !.dry = DryOf(s, head, env)]
  OBVIOUS
<1>1. UNCHANGED <<family, head, env, plan, dry, auth, journal, raws, output, sent, crashes>>
      /\ s \in StepsOf[family] /\ Bound(s, head, env)
  BY DEF Start, preflights, rebuttalFiles
<1>2. DOMAIN run = Procs /\ head \in Revisions /\ env \in Keys
  BY DEF RebuttalInv, RebuttalTypes
<1>3. run[p] = Idle
  BY LiveNotIdle DEF RebuttalInv, RunsHold, Start
<1>4. run' = [run EXCEPT ![p] = r]
  BY DEF Start
<1>5. r.pc = "started" /\ r.step = s /\ r.code = head /\ r.key = env /\ r.dry = DryOf(s, head, env)
      /\ r.memory = <<>> /\ DOMAIN r = RunFields
  BY DEF Idle, RunFields
<1>6. family = "reopen" => output[s] = None /\ \A q \in Procs : run[q] = Idle
  <2>1. SUFFICES ASSUME family = "reopen" PROVE output[s] = None /\ Between
    BY LiveNotIdle DEF Between, RebuttalInv, RunsHold
  <2>2. s \notin {"first", "post"}
    BY <1>1, <2>1, Families
  <2>3. StartReopened(s, head, env)
    BY <2>2 DEF Start
  <2>. QED
    BY <2>3 DEF StartReopened
<1>7. Running(r)
  <2>1. /\ s \in Runs => Builds[r.code] = Asked(s, r.dry)
        /\ s = "v3" => ProbePassed /\ r.key = output["probe2"].key
        /\ s = "probe2" => plan # None /\ ProbeRejected
    BY <1>1, <1>5, BoundAsks
  <2>2. r.pc \notin Payers
    BY <1>5 DEF Payers
  <2>3. <<>> \in Seq(ResultRows)
    OBVIOUS
  <2>4. r.memory \in Seq(ResultRows)
    BY <1>5, <2>3
  <2>. QED
    BY <1>1, <1>2, <1>5, <1>6, <2>1, <2>2, <2>4 DEF Running
<1>8. Running(r)' /\ r.pc \notin Payers
  BY <1>1, <1>5, <1>7 DEF Running, Payers, ProbePassed, ProbeRejected
<1>9. run'[p] = r /\ (\A q \in Procs : q # p => run'[q] = run[q]) /\ DOMAIN run' = Procs
  BY <1>2, <1>4
<1>10. RunsHold'
  BY <1>1, <1>3, <1>5, <1>6, <1>8, <1>9, OthersHold
<1>11. RebuttalTypes'
  BY <1>1, <1>9 DEF RebuttalInv, RebuttalTypes
<1>12. \A t \in Steps : StepHolds(t)'
  BY <1>1 DEF RebuttalInv, StepHolds
<1>13. Replaced'
  BY <1>1 DEF RebuttalInv, Replaced, ProbeRejected, ProbePassed, ProbePaid
<1>. QED
  BY <1>10, <1>11, <1>12, <1>13 DEF RebuttalInv

-----------------------------------------------------------------------------
(* What is known of an invocation that is not idle, and of its step.       *)
LEMMA ActorHolds ==
  ASSUME RebuttalInv, NEW p \in Procs, run[p].pc # "idle"
  PROVE  /\ run[p] # Idle /\ Running(run[p]) /\ run[p].step \in Steps /\ DOMAIN run = Procs
         /\ StepHolds(run[p].step) /\ DOMAIN auth = Steps /\ DOMAIN output = Steps
         /\ journal[run[p].step] \in Journals /\ sent[run[p].step] \in Seq(CallRows)
         /\ raws \subseteq 1..Calls /\ crashes \in 0..MaxCrashes
<1>1. run[p] # Idle
  BY IdleRun
<1>2. Running(run[p])
  BY <1>1 DEF RebuttalInv, RunsHold
<1>3. run[p].step \in Steps
  BY <1>2, Families DEF RebuttalInv, RebuttalTypes, Running
<1>. QED
  BY <1>1, <1>2, <1>3 DEF RebuttalInv, RebuttalTypes

(* An invocation that goes on or ends, with no effect on the files.        *)
LEMMA Moves ==
  ASSUME RebuttalInv, Quiet, NEW p \in Procs, run[p].pc # "idle",
         NEW r, run' = [run EXCEPT ![p] = r], r # Idle => r.step = run[p].step,
         r = Idle \/ Running(r)',
         r.pc \in Payers => PayerHolds(r, journal[run[p].step], sent[run[p].step]),
         r.pc \in Payers => Payer(p) \/ family = "reopen",
         raws' \subseteq 1..Calls, crashes' \in 0..MaxCrashes,
         UNCHANGED <<auth, journal, output, sent>>
  PROVE  RebuttalInv'
<1> PICK s \in Steps : s = run[p].step
  BY ActorHolds
<1>1. StepHolds(s)'
  BY ActorHolds DEF StepHolds
<1>2. run[p] # Idle /\ journal' \in [Steps -> Journals] /\ sent' \in [Steps -> Seq(CallRows)]
      /\ DOMAIN auth' = Steps /\ DOMAIN output' = Steps
  BY ActorHolds DEF RebuttalInv, RebuttalTypes
<1>3. r.pc \in Payers => PayerHolds(r, journal'[s], sent'[s])
  OBVIOUS
<1>4. /\ \A t \in Steps : t # s => /\ journal'[t] = journal[t] /\ sent'[t] = sent[t]
                                   /\ auth'[t] = auth[t] /\ output'[t] = output[t]
      /\ output'[s] = output[s] /\ auth'[s] = auth[s] /\ sent'[s] = sent[s]
  OBVIOUS
<1>. QED
  BY <1>1, <1>2, <1>3, <1>4, Acts

(* An invocation dies: the files stay.                                     *)
LEMMA CrashKeeps == ASSUME RebuttalInv, NEW p \in Procs, Crash(p) PROVE RebuttalInv'
<1>1. Quiet /\ run' = [run EXCEPT ![p] = Idle] /\ UNCHANGED <<auth, journal, output, sent, raws>>
      /\ run[p].pc # "idle" /\ crashes < MaxCrashes /\ crashes' = crashes + 1
  BY DEF Crash, Exit, rebuttalFiles
<1>2. crashes' \in 0..MaxCrashes /\ raws' \subseteq 1..Calls
  BY <1>1, StageAssumption, ActorHolds
<1>3. Idle.pc \notin Payers
  BY IdleRun DEF Payers
<1>. QED
  BY <1>1, <1>2, <1>3, Moves

(* An invocation that goes on keeps what it has read.                      *)
LEMMA GoesOn ==
  ASSUME NEW q, DOMAIN q = RunFields, NEW pc
  PROVE  LET r == [q EXCEPT !.pc = pc]
         IN  /\ DOMAIN r = RunFields /\ r.pc = pc /\ r.step = q.step /\ r.code = q.code
             /\ r.key = q.key /\ r.dry = q.dry /\ r.memory = q.memory /\ r.answer = q.answer
  BY DEF RunFields

(* The authorization: whoever creates it is the first to pay for the step; *)
(* a reopened step may find its own.                                       *)
LEMMA AuthorizeStep == ASSUME RebuttalInv, NEW p \in Procs, Authorize(p) PROVE RebuttalInv'
<1>0. run[p].pc = "started" /\ Quiet /\ UNCHANGED <<journal, raws, output, sent, crashes>>
      /\ family' = family /\ plan' = plan
  BY DEF Authorize, At, Quiet, preflights
<1> PICK s \in Steps : s = run[p].step
  BY <1>0, ActorHolds
<1>1. /\ run[p] # Idle /\ Running(run[p]) /\ DOMAIN run = Procs /\ StepHolds(s) /\ DOMAIN auth = Steps
      /\ DOMAIN output = Steps /\ raws \subseteq 1..Calls /\ crashes \in 0..MaxCrashes
      /\ journal \in [Steps -> Journals] /\ sent \in [Steps -> Seq(CallRows)]
  BY <1>0, ActorHolds DEF RebuttalInv, RebuttalTypes
<1> PICK r : r = [run[p] EXCEPT !.pc = IF s \in {"first", "post"} THEN "ready" ELSE "journal"]
  OBVIOUS
<1>2. /\ DOMAIN r = RunFields /\ r.step = s /\ r.code = run[p].code /\ r.key = run[p].key
      /\ r.dry = run[p].dry /\ r.memory = <<>>
      /\ r.pc = IF s \in {"first", "post"} THEN "ready" ELSE "journal"
  BY <1>0, <1>1, GoesOn DEF Running
<1>3. Idle.pc \notin Payers
  BY IdleRun DEF Payers
<1>4. ASSUME auth'[s] # None, auth'[s].dry = r.dry, r.pc = "ready" => output[s] = None
      PROVE  Running(r)'
  BY <1>0, <1>1, <1>2, <1>4 DEF Running, Payers, ProbePassed, ProbeRejected
<1>5. CASE CreateAuth(p)
  <2>1. run' = [run EXCEPT ![p] = r]
    BY <1>1, <1>5 DEF CreateAuth, Go
  <2>2. auth' = [auth EXCEPT ![s] = AuthOf(s, run[p].dry, run[p].key)] /\ auth[s] = None
    BY <1>5 DEF CreateAuth
  <2>3. auth'[s] # None /\ auth'[s].dry = r.dry /\ auth'[s].calls = MaxCalls(s) /\ DOMAIN auth' = Steps
    BY <1>1, <1>2, <2>2, AuthTyped
  <2>4. journal[s] = Blank /\ sent[s] = <<>> /\ output[s] = None
    BY <1>1, <2>2 DEF StepHolds, AuthHolds
  <2>5. StepHolds(s)'
    BY <1>0, <1>1, <2>3, <2>4 DEF StepHolds, AuthHolds
  <2>6. Running(r)'
    BY <1>4, <2>3, <2>4
  <2>7. PayerHolds(r, journal[s], sent[s]) \/ r.pc = "journal"
    BY <1>2, <2>4, CallsNat DEF PayerHolds, Blank, AllPass, Waits
  <2>8. r.pc \in Payers => r.pc = "ready"
    BY <1>2 DEF Payers
  <2>9. \A t \in Steps : t # s => auth'[t] = auth[t]
    BY <1>1, <2>2
  <2>. QED
    BY <1>0, <1>1, <1>2, <2>1, <2>2, <2>3, <2>5, <2>6, <2>7, <2>8, <2>9, Acts, ZenonT(60)
<1>6. CASE VerifyExistingAuth(p)
  <2>1. auth[s] # None /\ auth' = auth
    BY <1>6 DEF VerifyExistingAuth
  <2>2. CASE s \notin {"first", "post"} /\ auth[s] = AuthOf(s, run[p].dry, run[p].key)
    <3>1. run' = [run EXCEPT ![p] = r]
      BY <1>1, <1>6, <2>2 DEF VerifyExistingAuth, Go
    <3>2. Running(r)' /\ r.pc \notin Payers
      BY <1>2, <1>4, <2>1, <2>2, AuthTyped DEF Payers
    <3>. QED
      BY <1>0, <1>1, <1>2, <2>1, <3>1, <3>2, Moves
  <2>3. CASE ~(s \notin {"first", "post"} /\ auth[s] = AuthOf(s, run[p].dry, run[p].key))
    <3>1. run' = [run EXCEPT ![p] = Idle]
      BY <1>6, <2>3 DEF VerifyExistingAuth, Exit
    <3>. QED
      BY <1>0, <1>1, <1>3, <2>1, <3>1, Moves
  <2>. QED
    BY <2>2, <2>3
<1>. QED
  BY <1>5, <1>6 DEF Authorize

-----------------------------------------------------------------------------
(* Appending a row to a journal.                                           *)
LEMMA Appended ==
  ASSUME journal \in [Steps -> Journals], NEW s \in Steps,
         NEW kind \in {"attempts", "results", "notes"}, NEW row,
         row \in (IF kind = "attempts" THEN AttemptRows
                  ELSE IF kind = "results" THEN ResultRows ELSE NoteRows),
         AppendRow(s, kind, row)
  PROVE  /\ journal' \in [Steps -> Journals] /\ \A t \in Steps : t # s => journal'[t] = journal[t]
         /\ journal'[s].attempts = IF kind = "attempts" THEN Append(journal[s].attempts, row)
                                   ELSE journal[s].attempts
         /\ journal'[s].results = IF kind = "results" THEN Append(journal[s].results, row)
                                  ELSE journal[s].results
<1> PICK j \in Journals : j = journal[s]
  OBVIOUS
<1> PICK new : new = [j EXCEPT ![kind] = Append(@, row)]
  OBVIOUS
<1>1. journal' = [journal EXCEPT ![s] = new]
  BY DEF AppendRow
<1>2. DOMAIN j = {"attempts", "results", "notes"} /\ j.attempts \in Seq(AttemptRows)
      /\ j.results \in Seq(ResultRows) /\ j.notes \in Seq(NoteRows)
  BY DEF Journals
<1>3. CASE kind = "attempts"
  <2>1. Append(j.attempts, row) \in Seq(AttemptRows)
    BY <1>2, <1>3
  <2>2. new = [attempts |-> Append(j.attempts, row), results |-> j.results, notes |-> j.notes]
    BY <1>3 DEF Journals
  <2>. QED
    BY <1>1, <1>2, <1>3, <2>1, <2>2 DEF Journals
<1>4. CASE kind = "results"
  <2>1. Append(j.results, row) \in Seq(ResultRows)
    BY <1>2, <1>4
  <2>2. new = [attempts |-> j.attempts, results |-> Append(j.results, row), notes |-> j.notes]
    BY <1>4 DEF Journals
  <2>. QED
    BY <1>1, <1>2, <1>4, <2>1, <2>2 DEF Journals
<1>5. CASE kind = "notes"
  <2>1. Append(j.notes, row) \in Seq(NoteRows)
    BY <1>2, <1>5
  <2>2. new = [attempts |-> j.attempts, results |-> j.results, notes |-> Append(j.notes, row)]
    BY <1>5 DEF Journals
  <2>. QED
    BY <1>1, <1>2, <1>5, <2>1, <2>2 DEF Journals
<1>. QED
  BY <1>3, <1>4, <1>5

(* What is known of a step whose invocation pays for it.                   *)
LEMMA PayerStep ==
  ASSUME RebuttalInv, NEW p \in Procs, Payer(p)
  PROVE  /\ run[p] # Idle /\ Running(run[p]) /\ DOMAIN run = Procs /\ DOMAIN run[p] = RunFields
         /\ run[p].step \in Steps /\ run[p].key \in Keys /\ run[p].code \in Revisions
         /\ output[run[p].step] = None
         /\ auth[run[p].step] # None /\ auth[run[p].step].dry = run[p].dry
         /\ PayerHolds(run[p], journal[run[p].step], sent[run[p].step])
         /\ StepHolds(run[p].step) /\ DOMAIN auth = Steps /\ DOMAIN output = Steps
         /\ journal \in [Steps -> Journals] /\ sent \in [Steps -> Seq(CallRows)]
         /\ raws \subseteq 1..Calls /\ crashes \in 0..MaxCrashes
         /\ run[p].memory \in Seq(ResultRows) /\ Len(run[p].memory) \in Nat
<1>1. run[p].pc # "idle" /\ run[p].pc # "started"
  BY DEF Payer, Payers
<1>2. Running(run[p])
  BY <1>1, ActorHolds
<1>3. run[p].memory \in Seq(ResultRows)
  BY <1>2 DEF Running
<1>4. Len(run[p].memory) \in Nat
  BY <1>3
<1>. QED
  BY <1>1, <1>2, <1>3, <1>4, ActorHolds, PayerIsLive DEF Running, Payer, RebuttalInv, RebuttalTypes

(* The attempt is on disk before the call.                                 *)
LEMMA AttemptStep == ASSUME RebuttalInv, NEW p \in Procs, Attempt(p) PROVE RebuttalInv'
<1>0. /\ run[p].pc = "ready" /\ Quiet /\ UNCHANGED <<auth, raws, output, sent, crashes>>
      /\ family' = family /\ plan' = plan /\ Payer(p) /\ run[p].step # "first"
  BY DEF Attempt, At, Quiet, preflights, Payer, Payers
<1> PICK s \in Steps : s = run[p].step
  BY <1>0, PayerStep
<1> PICK m : m = Len(run[p].memory)
  OBVIOUS
<1>1. m \in Nat /\ run[p].key \in Keys /\ s # "first"
  BY <1>0, PayerStep
<1> PICK row \in AttemptRows : row = AttemptOf(s, m + 1, run[p].key)
  BY <1>1, AttemptTyped
<1> PICK r : r = [run[p] EXCEPT !.pc = "attempted"]
  OBVIOUS
<1>2. run' = [run EXCEPT ![p] = r] /\ AppendRow(s, "attempts", row)
  BY <1>0, PayerStep DEF Attempt, Go, Index
<1>3. /\ DOMAIN r = RunFields /\ r.step = s /\ r.code = run[p].code /\ r.key = run[p].key
      /\ r.dry = run[p].dry /\ r.memory = run[p].memory /\ r.pc = "attempted"
  BY <1>0, PayerStep, GoesOn
<1>4. journal' \in [Steps -> Journals] /\ \A t \in Steps : t # s => journal'[t] = journal[t]
  BY <1>0, <1>2, PayerStep, Appended
<1>5. journal'[s].attempts = Append(journal[s].attempts, row)
      /\ journal'[s].results = journal[s].results /\ sent'[s] = sent[s]
  BY <1>0, <1>2, PayerStep, Appended
<1>6. journal[s].attempts \in Seq(AttemptRows)
  BY <1>0, PayerStep DEF Journals
<1>7. Len(journal'[s].attempts) = Len(journal[s].attempts) + 1
  BY <1>5, <1>6
<1>8. PayerHolds(run[p], journal[s], sent[s]) /\ LogHolds(s, journal[s], sent[s])
  BY <1>0, PayerStep DEF StepHolds
<1>9. /\ run[p].memory = journal[s].results /\ Len(journal[s].attempts) = m /\ Len(sent[s]) = m
      /\ m < MaxCalls(s) /\ AllPass(run[p].memory)
  BY <1>0, <1>1, <1>8 DEF PayerHolds, Waits
<1>10. PayerHolds(r, journal'[s], sent'[s])
  BY <1>1, <1>3, <1>5, <1>7, <1>9 DEF PayerHolds, Waits
<1>11. LogHolds(s, journal'[s], sent'[s])
  <2>1. Len(journal[s].results) = m /\ Len(sent[s]) = m /\ Len(journal'[s].attempts) = m + 1
    BY <1>1, <1>7, <1>9
  <2>2. Len(sent[s]) <= Len(journal'[s].attempts)
        /\ Len(journal'[s].attempts) <= Len(journal[s].results) + 1
    BY <1>1, <2>1
  <2>. QED
    BY <1>1, <1>5, <1>8, <2>2 DEF LogHolds
<1>12. auth[s] # None /\ output[s] = None /\ StepHolds(s)
  BY <1>0, PayerStep
<1>13. StepHolds(s)'
  BY <1>0, <1>11, <1>12 DEF StepHolds, AuthHolds, OutcomeHolds
<1>14. Running(r)'
  BY <1>0, <1>3, <1>12, PayerStep DEF Running, Payers, ProbePassed, ProbeRejected
<1>15. /\ DOMAIN auth' = Steps /\ DOMAIN output' = Steps /\ sent' \in [Steps -> Seq(CallRows)]
       /\ raws' \subseteq 1..Calls /\ crashes' \in 0..MaxCrashes /\ run[p] # Idle
  BY <1>0, PayerStep
<1>. QED
  BY <1>0, <1>2, <1>3, <1>4, <1>10, <1>12, <1>13, <1>14, <1>15, Acts

(* The call: the provider has one more, of the requests that were          *)
(* approved.                                                               *)
LEMMA DispatchStep == ASSUME RebuttalInv, NEW p \in Procs, Dispatch(p) PROVE RebuttalInv'
<1>0. /\ run[p].pc \in {"ready", "attempted"} /\ Quiet /\ UNCHANGED <<auth, journal, raws, output, crashes>>
      /\ family' = family /\ plan' = plan /\ Payer(p)
      /\ run[p].pc = IF run[p].step = "first" THEN "ready" ELSE "attempted"
  BY DEF Dispatch, At, Quiet, preflights, rebuttalFiles, Payer, Payers
<1> PICK s \in Steps : s = run[p].step
  BY <1>0, PayerStep
<1> PICK m \in Nat : m = Len(run[p].memory)
  BY <1>0, PayerStep
<1> PICK a \in ProviderAnswers(s, run[p].key) :
       /\ run' = [run EXCEPT ![p].pc = "answered", ![p].answer = a]
       /\ sent' = [sent EXCEPT ![s] = Append(@,
             [i |-> m + 1, key |-> run[p].key, code |-> run[p].code, cost |-> a.cost])]
  BY DEF Dispatch, Index
<1> PICK c : c = [i |-> m + 1, key |-> run[p].key, code |-> run[p].code, cost |-> a.cost]
  OBVIOUS
<1> PICK r : r = [run[p] EXCEPT !.pc = "answered", !.answer = a]
  OBVIOUS
<1>1. a.cost \in Nat
  BY <1>0, PayerStep, AnswersTyped DEF AnswerRecords
<1>2. c \in CallRows /\ c.i = m + 1 /\ c.key = run[p].key /\ c.code = run[p].code
  BY <1>0, <1>1, PayerStep DEF CallRows
<1>3. run' = [run EXCEPT ![p] = r]
  BY <1>0, PayerStep
<1>4. /\ DOMAIN r = RunFields /\ r.step = s /\ r.code = run[p].code /\ r.key = run[p].key
      /\ r.dry = run[p].dry /\ r.memory = run[p].memory /\ r.pc = "answered" /\ r.answer = a
  BY <1>0, PayerStep DEF RunFields
<1>5. sent[s] \in Seq(CallRows) /\ DOMAIN sent = Steps
  BY <1>0, PayerStep
<1>6. sent'[s] = Append(sent[s], c) /\ \A t \in Steps : t # s => sent'[t] = sent[t]
  BY <1>5
<1>7. sent' \in [Steps -> Seq(CallRows)]
  <2>1. Append(sent[s], c) \in Seq(CallRows)
    BY <1>2, <1>5
  <2>. QED
    BY <1>0, <2>1, PayerStep
<1>8. /\ run[p].memory = journal[s].results /\ m < MaxCalls(s) /\ AllPass(run[p].memory)
      /\ s # "first" => Len(journal[s].attempts) = m + 1
      /\ Len(sent[s]) = m /\ LogHolds(s, journal[s], sent[s])
  BY <1>0, PayerStep DEF PayerHolds, StepHolds, Waits
<1>9. /\ Len(sent'[s]) = m + 1 /\ sent'[s][m + 1] = c
      /\ DOMAIN sent'[s] = 1..(m + 1) /\ DOMAIN sent[s] = 1..m
      /\ \A k \in 1..m : sent'[s][k] = sent[s][k]
  BY <1>2, <1>5, <1>6, <1>8, SMTT(30)
<1>10. PayerHolds(r, journal'[s], sent'[s])
  BY <1>0, <1>4, <1>8, <1>9 DEF PayerHolds, Waits
<1>11. LogHolds(s, journal'[s], sent'[s])
  <2>1. m + 1 <= MaxCalls(s) /\ Len(journal[s].results) = m
    BY <1>8, CallsNat
  <2>2. \A k \in DOMAIN sent'[s] : sent'[s][k].i = k
    BY <1>2, <1>8, <1>9, SMTT(30) DEF LogHolds
  <2>3. DOMAIN journal[s].results = 1..m
    BY <1>0, <1>8, PayerStep
  <2>4. \A k \in DOMAIN journal[s].results : IsReceipt(s, k, journal[s].results[k], sent'[s][k])
    BY <1>8, <1>9, <2>3 DEF LogHolds
  <2>. QED
    BY <1>0, <1>8, <1>9, <2>1, <2>2, <2>4, SMTT(30) DEF LogHolds
<1>12. auth[s] # None /\ output[s] = None /\ StepHolds(s) /\ auth[s].dry = run[p].dry /\ Running(run[p])
  BY <1>0, PayerStep
<1>13. s \in Runs => \A k \in DOMAIN sent'[s] : Builds[sent'[s][k].code] = Asked(s, auth[s].dry)
  <2>1. s \in Runs => Builds[c.code] = Asked(s, auth[s].dry)
    BY <1>2, <1>12 DEF Running
  <2>2. s \in Runs => \A k \in DOMAIN sent[s] : Builds[sent[s][k].code] = Asked(s, auth[s].dry)
    BY <1>12 DEF StepHolds, AuthHolds
  <2>. QED
    BY <1>9, <2>1, <2>2
<1>14. StepHolds(s)'
  BY <1>0, <1>11, <1>12, <1>13 DEF StepHolds, AuthHolds, OutcomeHolds
<1>15. Running(r)'
  BY <1>0, <1>4, <1>12, PayerStep DEF Running, Payers, ProbePassed, ProbeRejected
<1>16. /\ DOMAIN auth' = Steps /\ DOMAIN output' = Steps /\ journal' \in [Steps -> Journals]
       /\ raws' \subseteq 1..Calls /\ crashes' \in 0..MaxCrashes /\ run[p] # Idle
  BY <1>0, PayerStep
<1>17. /\ \A k \in DOMAIN sent[s] : k \in DOMAIN sent'[s] /\ sent'[s][k] = sent[s][k]
       /\ \A k \in DOMAIN sent'[s] \ DOMAIN sent[s] : sent'[s][k].key = run[p].key
  BY <1>2, <1>9
<1>. QED
  BY <1>0, <1>3, <1>4, <1>6, <1>7, <1>10, <1>12, <1>14, <1>15, <1>16, <1>17, Acts

(* The answer of the call in flight, once it is a row of the journal.      *)
LEMMA ResultStep ==
  ASSUME RebuttalInv, NEW p \in Procs, Payer(p), run[p].pc \in Waits, Quiet,
         UNCHANGED <<auth, raws, output, sent, crashes>>,
         NEW pc \in {"noted", "ready", "done"}, Keep(p, pc),
         AppendRow(run[p].step, "results", Received(p)),
         pc = "noted" => run[p].step # "post",
         pc = "ready" => Passed(Received(p).answer) /\ Len(run[p].memory) + 1 < MaxCalls(run[p].step),
         pc = "done" => /\ Passed(Received(p).answer) /\ run[p].step = "post"
                        /\ Len(run[p].memory) + 1 = Calls
                        /\ Known(run[p].memory) + Received(p).answer.cost <= Ceiling
  PROVE  RebuttalInv'
<1>0. UNCHANGED <<family, plan>>
  BY DEF Quiet, preflights
<1> PICK s \in Steps : s = run[p].step
  BY PayerStep
<1> PICK m \in Nat : m = Len(run[p].memory)
  BY PayerStep
<1>1. /\ run[p].memory = journal[s].results /\ m < MaxCalls(s) /\ AllPass(run[p].memory)
      /\ s # "first" => Len(journal[s].attempts) = m + 1
      /\ Len(sent[s]) = m + 1 /\ LogHolds(s, journal[s], sent[s])
      /\ run[p].answer \in ProviderAnswers(s, run[p].key)
      /\ sent[s][m + 1] = [i |-> m + 1, key |-> run[p].key, code |-> run[p].code,
                           cost |-> run[p].answer.cost]
  BY PayerStep DEF PayerHolds, StepHolds, Waits
<1> PICK row : row = Received(p)
  OBVIOUS
<1>2. row = ReceiptOf(s, m + 1, run[p].answer, run[p].key)
  BY DEF Received, Index
<1>3. run[p].key \in Keys /\ run[p].answer \in AnswerRecords
  BY <1>1, PayerStep, AnswersTyped
<1>4. s \in Probes => m + 1 = 1
  BY <1>1 DEF MaxCalls
<1>5. /\ row \in ResultRows /\ row.i = m + 1 /\ row.answer = run[p].answer
      /\ s = "probe2" => row.key = run[p].key
  BY <1>2, <1>3, <1>4, ReceiptTyped
<1> PICK r : r = [run[p] EXCEPT !.pc = pc, !.answer = None, !.memory = Append(@, row)]
  OBVIOUS
<1>6. run' = [run EXCEPT ![p] = r]
  BY PayerStep DEF Keep
<1>7. /\ DOMAIN r = RunFields /\ r.step = s /\ r.code = run[p].code /\ r.key = run[p].key
      /\ r.dry = run[p].dry /\ r.memory = Append(run[p].memory, row) /\ r.pc = pc
  BY PayerStep DEF RunFields
<1>8. AppendRow(s, "results", row)
  OBVIOUS
<1>. HIDE DEF ResultRows, AttemptRows, NoteRows, Journals
<1>9a. journal \in [Steps -> Journals] /\ run[p].memory \in Seq(ResultRows)
  BY PayerStep
<1>9. journal' \in [Steps -> Journals] /\ \A t \in Steps : t # s => journal'[t] = journal[t]
  BY <1>5, <1>8, <1>9a, Appended
<1>10. journal'[s].attempts = journal[s].attempts /\ journal'[s].results = Append(journal[s].results, row)
  BY <1>5, <1>8, <1>9a, Appended
<1>11. run[p].memory \in Seq(ResultRows)
  BY <1>9a
<1>12. /\ r.memory \in Seq(ResultRows) /\ Len(r.memory) = m + 1 /\ DOMAIN r.memory = 1..(m + 1)
       /\ r.memory[m + 1] = row /\ \A k \in 1..m : r.memory[k] = run[p].memory[k]
  <2> PICK rs \in Seq(ResultRows) : rs = run[p].memory
    BY <1>11
  <2>1. row \in ResultRows /\ Len(rs) = m
    BY <1>5
  <2>2. r.memory = Append(rs, row)
    BY <1>7
  <2>3. /\ Append(rs, row) \in Seq(ResultRows) /\ Len(Append(rs, row)) = m + 1
        /\ DOMAIN Append(rs, row) = 1..(m + 1) /\ Append(rs, row)[m + 1] = row
        /\ \A k \in 1..m : Append(rs, row)[k] = rs[k]
    BY <2>1
  <2>. QED
    BY <2>2, <2>3
<1>13. r.memory = journal'[s].results
  BY <1>1, <1>7, <1>10
<1>14. \A k \in 1..m : Passed(r.memory[k].answer)
  BY <1>1, <1>11, <1>12, SMTT(30) DEF AllPass
<1>15. Passed(row.answer) => AllPass(r.memory)
  BY <1>12, <1>14 DEF AllPass
<1>16. pc = "done" => Known(r.memory) <= Ceiling
  <2>1. SUFFICES ASSUME pc = "done" PROVE Known(r.memory) <= Ceiling
    OBVIOUS
  <2>2. Known(r.memory) = Known(run[p].memory) + KnownOf(row)
    <3>1. row \in ResultRows
      BY <1>5
    <3>. QED
      BY <1>7, <1>11, <3>1, KnownAppended
  <2>3. KnownOf(row) = row.answer.cost
    BY <2>1 DEF Passed, KnownOf
  <2>. QED
    BY <2>1, <2>2, <2>3
<1>17. PayerHolds(r, journal'[s], sent'[s])
  <2>1. s # "first" => Len(journal'[s].attempts) = m + 1
    BY <1>1, <1>10
  <2>2. Len(sent'[s]) = m + 1 /\ r.pc \notin {"attempted"} \cup Waits
    BY <1>1, <1>7 DEF Waits
  <2>3. m + 1 > 0 /\ (m + 1) - 1 = m
    OBVIOUS
  <2>. QED
    BY <1>7, <1>12, <1>13, <1>14, <1>15, <1>16, <2>1, <2>2, <2>3 DEF PayerHolds
<1>18. LogHolds(s, journal'[s], sent'[s])
  <2>1. Len(journal'[s].results) = m + 1 /\ DOMAIN journal'[s].results = 1..(m + 1)
    BY <1>12, <1>13
  <2>2. IsReceipt(s, m + 1, row, sent[s][m + 1])
    <3>1. sent[s][m + 1].cost = row.answer.cost /\ sent[s][m + 1].key = run[p].key
      BY <1>1, <1>5
    <3>2. row.answer \in ProviderAnswers(s, sent[s][m + 1].key)
      BY <1>1, <1>5, <3>1
    <3>. QED
      BY <1>5, <3>1, <3>2 DEF IsReceipt
  <2>3. \A k \in 1..m : IsReceipt(s, k, run[p].memory[k], sent[s][k])
    BY <1>1, <1>11, SMTT(30) DEF LogHolds
  <2>4. \A k \in 1..(m + 1) : IsReceipt(s, k, r.memory[k], sent[s][k])
    BY <1>12, <2>2, <2>3
  <2>5. m + 1 <= (m + 1) + 1
    OBVIOUS
  <2>. QED
    BY <1>1, <1>10, <1>13, <2>1, <2>4, <2>5 DEF LogHolds
<1>19. auth[s] # None /\ output[s] = None /\ StepHolds(s)
  BY PayerStep
<1>20. StepHolds(s)'
  BY <1>18, <1>19 DEF StepHolds, AuthHolds, OutcomeHolds
<1>21. Running(r)'
  BY <1>0, <1>7, <1>12, <1>19, PayerStep DEF Running, Payers, ProbePassed, ProbeRejected
<1>22. /\ DOMAIN auth' = Steps /\ DOMAIN output' = Steps /\ sent' \in [Steps -> Seq(CallRows)]
       /\ raws' \subseteq 1..Calls /\ crashes' \in 0..MaxCrashes /\ run[p] # Idle
  BY PayerStep
<1>. QED
  BY <1>0, <1>6, <1>7, <1>9, <1>17, <1>19, <1>20, <1>21, <1>22, Acts

(* The receipt of the answer.                                              *)
LEMMA ReceiptRowStep == ASSUME RebuttalInv, NEW p \in Procs, Receipt(p) PROVE RebuttalInv'
<1>1. Payer(p) /\ run[p].pc \in Waits
  BY DEF Receipt, At, Payer, Payers, Waits
<1>. QED
  BY <1>1, ResultStep DEF Receipt

(* What an invocation that ends writes about its step.                     *)
LEMMA Concludes ==
  ASSUME RebuttalInv, Quiet, NEW p \in Procs, run[p].pc # "idle", Exit(p),
         UNCHANGED <<auth, journal, raws, sent, crashes>>,
         NEW o, Write(run[p].step, o), auth[run[p].step] # None, family = "reopen" \/ Payer(p),
         OutcomeHolds(run[p].step, o, journal[run[p].step], sent[run[p].step]),
         run[p].step = "probe2" =>
            /\ sent["probe2"] # <<>> /\ o.key = sent["probe2"][1].key
            /\ o.status = "PASS" => sent["probe2"][1].key \in Valid
  PROVE  RebuttalInv'
<1> PICK s \in Steps : s = run[p].step
  BY ActorHolds
<1>1. /\ run[p] # Idle /\ StepHolds(s) /\ DOMAIN auth = Steps /\ DOMAIN output = Steps
      /\ raws \subseteq 1..Calls /\ crashes \in 0..MaxCrashes
      /\ journal \in [Steps -> Journals] /\ sent \in [Steps -> Seq(CallRows)]
  BY ActorHolds DEF RebuttalInv, RebuttalTypes
<1>2. output[s] = None /\ output' = [output EXCEPT ![s] = o] /\ run' = [run EXCEPT ![p] = Idle]
  BY DEF Write, Exit
<1>3. output'[s] = o /\ DOMAIN output' = Steps /\ \A t \in Steps : t # s => output'[t] = output[t]
  BY <1>1, <1>2
<1>4. OutcomeHolds(s, o, journal[s], sent[s])
  OBVIOUS
<1>5. StepHolds(s)'
  BY <1>1, <1>3, <1>4 DEF StepHolds, AuthHolds
<1>6. Idle.pc \notin Payers
  BY IdleRun DEF Payers
<1>7. s = "probe2" => ProbePaid'
  BY <1>3 DEF ProbePaid
<1>8. \A t \in Steps : t # s => /\ journal'[t] = journal[t] /\ sent'[t] = sent[t]
                                /\ auth'[t] = auth[t] /\ output'[t] = output[t]
  BY <1>3
<1>. QED
  BY <1>1, <1>2, <1>3, <1>5, <1>6, <1>7, <1>8, Acts

(* The results on disk and the calls of a step.                            *)
LEMMA RowsAreCharged ==
  ASSUME NEW s, NEW j \in Journals, NEW c \in Seq(CallRows), LogHolds(s, j, c)
  PROVE  /\ j.results \in Seq(ResultRows) /\ Len(j.results) \in Nat /\ Len(c) \in Nat
         /\ Known(j.results) <= ChargedFor(c)
         /\ AllPass(j.results) /\ Len(j.results) = Len(c) => Known(j.results) = ChargedFor(c)
<1>1. j.results \in Seq(ResultRows)
  BY DEF Journals
<1>2. Len(j.results) \in Nat /\ Len(c) \in Nat /\ DOMAIN j.results = 1..Len(j.results)
  BY <1>1
<1>3. \A k \in 1..Len(j.results) : j.results[k].answer.cost = c[k].cost
  BY <1>2 DEF LogHolds, IsReceipt
<1>. QED
  BY <1>1, <1>2, <1>3, KnownAtMost DEF LogHolds

(* Results that were all accepted cost what was charged.                   *)
LEMMA FrozenOutcome ==
  ASSUME NEW s, NEW j \in Journals, NEW c \in Seq(CallRows), LogHolds(s, j, c), NEW o,
         Len(j.results) = Calls, Len(c) = Calls, AllPass(j.results), Known(j.results) <= Ceiling,
         o.known = Known(j.results), o.calls = Calls
  PROVE  OutcomeHolds(s, o, j, c)
<1>1. o.known = ChargedFor(c) /\ ChargedFor(c) <= Ceiling
  BY RowsAreCharged
<1>2. ChargedFor(c) \in Nat
  BY ChargedCostsSeq
<1>. QED
  BY <1>1, <1>2, CallsNat DEF OutcomeHolds, AllPass

(* A blocked artifact claims no more than was charged.                     *)
LEMMA BlockedOutcome ==
  ASSUME NEW s, NEW j \in Journals, NEW c \in Seq(CallRows), LogHolds(s, j, c), NEW o,
         o.status # "FROZEN", o.known = Known(j.results), o.calls >= Len(c)
  PROVE  OutcomeHolds(s, o, j, c)
  BY RowsAreCharged DEF OutcomeHolds

(* No reason to stop reads as a freeze.                                    *)
LEMMA Reasons == /\ \A a : ResultVerdict(a) # "FROZEN"
                 /\ \A j : JournalReason(j) # "FROZEN" /\ \A rs : StopReason(rs) # "FROZEN"
<1>1. \A a : ResultVerdict(a) # "FROZEN"
  BY DEF ResultVerdict
<1>. QED
  BY <1>1 DEF JournalReason, StopReason

(* The result of a probe is about the one call it made.                    *)
LEMMA ProbeOutcome ==
  ASSUME RebuttalInv, NEW s \in Probes, Len(journal[s].results) >= 1, NEW o, NEW code,
         o = ProbeFinalOf(s, code, journal[s].results[1])
  PROVE  s = "probe2" => /\ sent["probe2"] # <<>> /\ o.key = sent["probe2"][1].key
                         /\ o.status = "PASS" => sent["probe2"][1].key \in Valid
<1> SUFFICES ASSUME s = "probe2"
             PROVE  /\ sent["probe2"] # <<>> /\ o.key = sent["probe2"][1].key
                    /\ o.status = "PASS" => sent["probe2"][1].key \in Valid
  OBVIOUS
<1> PICK x : x = journal[s].results[1]
  OBVIOUS
<1>1. s \in Steps
  BY DEF Steps
<1>2. journal[s].results \in Seq(ResultRows) /\ sent[s] \in Seq(CallRows)
      /\ LogHolds(s, journal[s], sent[s])
  BY <1>1 DEF RebuttalInv, RebuttalTypes, Journals, StepHolds
<1>3. Len(sent[s]) >= 1 /\ IsReceipt(s, 1, x, sent[s][1])
  BY <1>2 DEF LogHolds
<1>4. sent[s][1] \in CallRows /\ sent[s] # <<>>
  BY <1>2, <1>3
<1>5. sent[s][1].key \in Keys
  BY <1>4 DEF CallRows
<1>6. x.answer \in ProviderAnswers(s, sent[s][1].key) /\ x.key = sent[s][1].key
  BY <1>3 DEF IsReceipt
<1>7. x.answer.valid => sent[s][1].key \in Valid
  BY <1>1, <1>5, <1>6, AnswersTyped
<1>8. (o.status = "PASS" => x.answer.valid) /\ o.key = x.key
  BY ProbeTyped
<1>. QED
  BY <1>4, <1>6, <1>7, <1>8

(* A range has one length.                                                 *)
LEMMA SameRange == \A a, b \in Nat : 1..a = 1..b => a = b
<1> SUFFICES ASSUME NEW a \in Nat, NEW b \in Nat, 1..a = 1..b PROVE a = b
  OBVIOUS
<1>1. (a \in 1..a \/ a = 0) /\ (b \in 1..b \/ b = 0)
  OBVIOUS
<1>2. (a \in 1..b \/ a = 0) /\ (b \in 1..a \/ b = 0)
  BY <1>1
<1>. QED
  BY <1>2

(* A reopened step reads its journal: it pays only when that is empty, and *)
(* else concludes from it without a call.                                  *)
LEMMA ReadJournalStep == ASSUME RebuttalInv, NEW p \in Procs, ReadJournal(p) PROVE RebuttalInv'
<1>0. /\ run[p].pc = "journal" /\ Quiet /\ UNCHANGED <<auth, journal, raws, sent, crashes>>
      /\ family' = family /\ plan' = plan
  BY DEF ReadJournal, At, Quiet, preflights
<1> PICK s \in Steps : s = run[p].step
  BY <1>0, ActorHolds
<1> PICK j \in Journals : j = journal[s]
  BY <1>0, ActorHolds
<1> PICK c \in Seq(CallRows) : c = sent[s]
  BY <1>0, ActorHolds
<1>1. /\ run[p] # Idle /\ Running(run[p]) /\ DOMAIN run = Procs /\ StepHolds(s)
      /\ LogHolds(s, j, c) /\ raws \subseteq 1..Calls /\ crashes \in 0..MaxCrashes
      /\ s \notin {"first", "post"} /\ auth[s] # None /\ DOMAIN run[p] = RunFields
      /\ run[p].memory = <<>> /\ family \in DOMAIN StepsOf /\ s \in StepsOf[family]
  BY <1>0, ActorHolds DEF Running, StepHolds, RebuttalInv, RebuttalTypes
<1>2. family = "reopen" /\ output[s] = None
  BY <1>0, <1>1, Families DEF Running
<1>3. j.attempts \in Seq(AttemptRows) /\ j.results \in Seq(ResultRows)
      /\ Len(j.attempts) \in Nat /\ Len(j.results) \in Nat /\ Len(c) \in Nat
  BY DEF Journals
<1>4. Len(c) <= Len(j.attempts) /\ Len(j.attempts) <= Len(j.results) + 1 /\ Len(j.results) <= Len(c)
  BY <1>1 DEF LogHolds
<1>5. Idle.pc \notin Payers
  BY IdleRun DEF Payers
<1>6. CASE Fresh(j) /\ Go(p, "ready") /\ UNCHANGED output
  <2> PICK r : r = [run[p] EXCEPT !.pc = "ready"]
    OBVIOUS
  <2>1. run' = [run EXCEPT ![p] = r]
    BY <1>1, <1>6 DEF Go
  <2>2. /\ DOMAIN r = RunFields /\ r.step = s /\ r.code = run[p].code /\ r.key = run[p].key
        /\ r.dry = run[p].dry /\ r.memory = <<>> /\ r.pc = "ready"
    BY <1>1, GoesOn
  <2>3. j.results = <<>> /\ Len(j.attempts) = 0 /\ Len(j.results) = 0
    BY <1>6 DEF Fresh, Blank
  <2>4. Len(c) = 0
    BY <1>3, <1>4, <2>3
  <2>5. PayerHolds(r, j, c)
    BY <2>2, <2>3, <2>4, CallsNat DEF PayerHolds, Waits, AllPass
  <2>6. Running(r)'
    BY <1>0, <1>1, <1>2, <1>6, <2>2 DEF Running, Payers, ProbePassed, ProbeRejected
  <2>. QED
    BY <1>0, <1>1, <1>2, <1>6, <2>1, <2>2, <2>5, <2>6, Moves
<1>7. CASE Exit(p) /\ UNCHANGED output
  BY <1>0, <1>1, <1>5, <1>7, Moves DEF Exit
<1>8. CASE s \in Runs /\ Exit(p) /\ Finalize(s, run[p].code, run[p].key, j)
  <2> PICK o : o = FreezeOf(s, run[p].code, j.results, run[p].key)
    OBVIOUS
  <2>1. Whole(j) /\ Finalizable(j.results) /\ Write(s, o)
    BY <1>8 DEF Finalize
  <2>2. o.known = Known(j.results) /\ o.calls = Len(j.results)
    BY <1>1, <1>8, FreezeTyped
  <2>3. DOMAIN j.results = DOMAIN AllIndices /\ DOMAIN j.attempts = DOMAIN AllIndices
    BY <2>1 DEF Whole, Indices
  <2>4. Len(j.results) = Calls /\ Len(j.attempts) = Calls
    <3>1. DOMAIN j.results = 1..Len(j.results) /\ DOMAIN j.attempts = 1..Len(j.attempts)
      BY <1>3
    <3>2. DOMAIN AllIndices = 1..Calls
      BY DEF AllIndices
    <3>. QED
      BY <1>3, <2>3, <3>1, <3>2, CallsNat, SameRange
  <2>5. Len(c) = Calls
    BY <1>3, <1>4, <2>4, CallsNat
  <2>6. AllPass(j.results) /\ Known(j.results) <= Ceiling
    BY <2>1 DEF Finalizable, AllPass
  <2>7. OutcomeHolds(s, o, j, c)
    BY <1>1, <2>2, <2>4, <2>5, <2>6, FrozenOutcome
  <2>8. s # "probe2"
    BY <1>8 DEF Runs
  <2>. QED
    BY <1>0, <1>1, <1>2, <1>8, <2>1, <2>7, <2>8, Concludes
<1>9. CASE s \in Runs /\ Exit(p) /\ BlockFromJournal(s, run[p].code, run[p].key, j)
  <2> PICK o : o = BlockedOf(s, run[p].code, JournalReason(j), Len(j.attempts), j.results, run[p].key)
    OBVIOUS
  <2>1. Write(s, o)
    BY <1>9 DEF BlockFromJournal
  <2>2. o.status = JournalReason(j) /\ o.known = Known(j.results) /\ o.calls = Len(j.attempts)
    BY <1>1, <1>9, BlockedTyped
  <2>3. OutcomeHolds(s, o, j, c)
    BY <1>1, <1>3, <1>4, <2>2, Reasons, BlockedOutcome
  <2>4. s # "probe2"
    BY <1>9 DEF Runs
  <2>. QED
    BY <1>0, <1>1, <1>2, <1>9, <2>1, <2>3, <2>4, Concludes
<1>10. CASE s \in Probes /\ Exit(p) /\ FinalizeProbe(s, run[p].code, j)
  <2> PICK o : o = ProbeFinalOf(s, run[p].code, j.results[1])
    OBVIOUS
  <2>1. Write(s, o) /\ Len(j.results) >= 1
    BY <1>3, <1>10 DEF FinalizeProbe, ProbeAnswered
  <2>2. OutcomeHolds(s, o, j, c)
    BY <1>10 DEF OutcomeHolds, Probes, Runs
  <2>3. s = "probe2" => /\ sent["probe2"] # <<>> /\ o.key = sent["probe2"][1].key
                        /\ o.status = "PASS" => sent["probe2"][1].key \in Valid
    BY <1>10, <2>1, ProbeOutcome
  <2>. QED
    BY <1>0, <1>1, <1>2, <1>10, <2>1, <2>2, <2>3, Concludes
<1>. QED
  BY <1>6, <1>7, <1>8, <1>9, <1>10 DEF ReadJournal, Raises

(* The verdict on the last result.                                         *)
LEMMA Judged ==
  ASSUME NEW rs \in Seq(ResultRows), Len(rs) > 0, StopReason(rs) = "PASS",
         \A k \in 1..(Len(rs) - 1) : Passed(rs[k].answer)
  PROVE  AllPass(rs) /\ Known(rs) <= Ceiling
<1> PICK n \in Nat : n = Len(rs)
  OBVIOUS
<1>1. Passed(rs[n].answer) /\ ~(Known(rs) > Ceiling)
  BY DEF StopReason, ResultVerdict, Passed, Complete
<1>2. Known(rs) \in Nat
  BY KnownCostsSeq
<1>3. DOMAIN rs = 1..n /\ \A k \in 1..n : k = n \/ k \in 1..(n - 1)
  OBVIOUS
<1>. QED
  BY <1>1, <1>2, <1>3, StageAssumption DEF AllPass

(* The last result is looked at: stop, go on, or freeze.                   *)
LEMMA SettleStep == ASSUME RebuttalInv, NEW p \in Procs, Settle(p) PROVE RebuttalInv'
<1>0. /\ run[p].pc = "noted" /\ Quiet /\ UNCHANGED <<auth, journal, raws, sent, crashes>>
      /\ family' = family /\ plan' = plan /\ Payer(p) /\ run[p].step \in Runs
  BY DEF Settle, At, Quiet, preflights, Payer, Payers
<1> PICK s \in Steps : s = run[p].step
  BY <1>0, PayerStep
<1> PICK j \in Journals : j = journal[s]
  BY <1>0, PayerStep
<1> PICK c \in Seq(CallRows) : c = sent[s]
  BY <1>0, PayerStep
<1> PICK m \in Nat : m = Len(run[p].memory)
  BY <1>0, PayerStep
<1>1. /\ run[p] # Idle /\ Running(run[p]) /\ DOMAIN run = Procs /\ DOMAIN run[p] = RunFields
      /\ StepHolds(s) /\ PayerHolds(run[p], j, c) /\ LogHolds(s, j, c)
      /\ raws \subseteq 1..Calls /\ crashes \in 0..MaxCrashes
      /\ auth[s] # None /\ auth[s].dry = run[p].dry /\ output[s] = None
      /\ run[p].memory \in Seq(ResultRows)
  BY <1>0, PayerStep DEF StepHolds
<1>2. /\ run[p].memory = j.results /\ Len(c) = m /\ m > 0 /\ s # "post"
      /\ \A k \in 1..(m - 1) : Passed(run[p].memory[k].answer)
      /\ s # "first" => Len(j.attempts) = m
  BY <1>0, <1>1 DEF PayerHolds, Waits
<1>3. StopReason(run[p].memory) = "PASS" => AllPass(run[p].memory) /\ Known(run[p].memory) <= Ceiling
  BY <1>1, <1>2, Judged
<1>4. m <= Calls
  <2>1. m <= MaxCalls(s)
    BY <1>1, <1>2 DEF LogHolds
  <2>. QED
    BY <2>1, CallsNat
<1>5. s \in Runs /\ s # "probe2" /\ MaxCalls(s) = Calls
  BY <1>0 DEF Runs, MaxCalls, Probes
<1>6. CASE /\ Exit(p)
           /\ Write(s, BlockedOf(s, run[p].code, StopReason(run[p].memory), m, run[p].memory, run[p].key))
  <2> PICK o : o = BlockedOf(s, run[p].code, StopReason(run[p].memory), m, run[p].memory, run[p].key)
    OBVIOUS
  <2>1. /\ o.status = StopReason(run[p].memory) /\ o.known = Known(j.results)
        /\ o.calls = m
    BY <1>2, <1>5, BlockedTyped
  <2>2. OutcomeHolds(s, o, j, c)
    BY <1>1, <1>2, <2>1, Reasons, BlockedOutcome, SMTT(30)
  <2>. QED
    BY <1>0, <1>1, <1>5, <1>6, <2>2, Concludes
<1>7. CASE /\ StopReason(run[p].memory) = "PASS" /\ m < Calls
           /\ Go(p, "ready") /\ UNCHANGED output
  <2> PICK r : r = [run[p] EXCEPT !.pc = "ready"]
    OBVIOUS
  <2>1. run' = [run EXCEPT ![p] = r]
    BY <1>1, <1>7 DEF Go
  <2>2. /\ DOMAIN r = RunFields /\ r.step = s /\ r.code = run[p].code /\ r.key = run[p].key
        /\ r.dry = run[p].dry /\ r.memory = run[p].memory /\ r.pc = "ready"
    BY <1>1, GoesOn
  <2>3. PayerHolds(r, j, c)
    BY <1>2, <1>3, <1>5, <1>7, <2>2 DEF PayerHolds, Waits
  <2>4. Running(r)'
    BY <1>0, <1>1, <1>7, <2>2 DEF Running, Payers, ProbePassed, ProbeRejected
  <2>. QED
    BY <1>0, <1>1, <1>7, <2>1, <2>2, <2>3, <2>4, Moves
<1>8. CASE Exit(p) /\ UNCHANGED output
  <2>1. Idle.pc \notin Payers
    BY IdleRun DEF Payers
  <2>. QED
    BY <1>0, <1>1, <1>8, <2>1, Moves DEF Exit
<1>9. CASE /\ StopReason(run[p].memory) = "PASS" /\ m = Calls /\ Exit(p)
           /\ Write(s, FreezeOf(s, run[p].code, run[p].memory, run[p].key))
  <2> PICK o : o = FreezeOf(s, run[p].code, run[p].memory, run[p].key)
    OBVIOUS
  <2>1. o.known = Known(j.results) /\ o.calls = Calls
    BY <1>2, <1>5, <1>9, FreezeTyped
  <2>2. OutcomeHolds(s, o, j, c)
    BY <1>1, <1>2, <1>3, <1>9, <2>1, FrozenOutcome
  <2>. QED
    BY <1>0, <1>1, <1>5, <1>9, <2>2, Concludes
<1>. QED
  BY <1>6, <1>7, <1>8, <1>9 DEF Settle

(* A probe concludes from its one answer.                                  *)
LEMMA SettleProbeStep == ASSUME RebuttalInv, NEW p \in Procs, SettleProbe(p) PROVE RebuttalInv'
<1>0. /\ run[p].pc = "noted" /\ Quiet /\ UNCHANGED <<auth, journal, raws, sent, crashes>>
      /\ Payer(p) /\ run[p].step \in Probes /\ Exit(p)
  BY DEF SettleProbe, At, Payer, Payers
<1> PICK s \in Steps : s = run[p].step
  BY <1>0, PayerStep
<1> PICK o : o = ProbeFinalOf(s, run[p].code, journal[s].results[1])
  OBVIOUS
<1>1. /\ PayerHolds(run[p], journal[s], sent[s]) /\ auth[s] # None
      /\ run[p].memory \in Seq(ResultRows)
  BY <1>0, PayerStep
<1>2. run[p].memory = journal[s].results /\ Len(run[p].memory) >= 1
  BY <1>0, <1>1 DEF PayerHolds
<1>3. Write(s, o)
  BY <1>2 DEF SettleProbe
<1>4. OutcomeHolds(s, o, journal[s], sent[s])
  BY <1>0 DEF OutcomeHolds, Probes, Runs
<1>5. s = "probe2" => /\ sent["probe2"] # <<>> /\ o.key = sent["probe2"][1].key
                      /\ o.status = "PASS" => sent["probe2"][1].key \in Valid
  BY <1>0, <1>2, ProbeOutcome
<1>. QED
  BY <1>0, <1>1, <1>3, <1>4, <1>5, Concludes DEF Payers

(* A note in the ledger of "post" changes nothing that is counted.         *)
LEMMA NoteStep ==
  ASSUME RebuttalInv, Quiet, NEW p \in Procs, Payer(p), run[p].step = "post",
         UNCHANGED <<auth, raws, output, sent, crashes>>,
         NEW row \in NoteRows, AppendRow("post", "notes", row),
         NEW r, run' = [run EXCEPT ![p] = r], r # Idle => r.step = "post", r = Idle \/ Running(r),
         r.pc \in Payers => PayerHolds(r, journal["post"], sent["post"])
  PROVE  RebuttalInv'
<1> PICK s \in Steps : s = "post" /\ s = run[p].step
  BY PayerStep
<1>1. UNCHANGED <<family, plan>>
  BY DEF Quiet, preflights
<1>2. /\ journal \in [Steps -> Journals] /\ run[p] # Idle /\ StepHolds(s)
      /\ DOMAIN auth = Steps /\ DOMAIN output = Steps /\ sent \in [Steps -> Seq(CallRows)]
      /\ raws \subseteq 1..Calls /\ crashes \in 0..MaxCrashes
  BY PayerStep
<1>. HIDE DEF NoteRows, ResultRows, AttemptRows, Journals
<1>3. AppendRow(s, "notes", row)
  OBVIOUS
<1>4. /\ journal' \in [Steps -> Journals] /\ \A t \in Steps : t # s => journal'[t] = journal[t]
      /\ journal'[s].attempts = journal[s].attempts /\ journal'[s].results = journal[s].results
  BY <1>2, <1>3, Appended
<1>5. r = Idle \/ Running(r)'
  BY <1>1 DEF Running, ProbePassed, ProbeRejected
<1>6. r.pc \in Payers => PayerHolds(r, journal'[s], sent'[s])
  BY <1>4 DEF PayerHolds
<1>7. StepHolds(s)'
  <2>1. LogHolds(s, journal'[s], sent'[s])
    BY <1>2, <1>4 DEF StepHolds, LogHolds
  <2>2. auth[s] # None
    BY PayerStep
  <2>3. AuthHolds(s, auth'[s], journal'[s], sent'[s], output'[s])
    BY <1>2, <2>2 DEF StepHolds, AuthHolds
  <2>4. OutcomeHolds(s, output'[s], journal'[s], sent'[s])
    BY <1>2, <1>4 DEF StepHolds, OutcomeHolds
  <2>. QED
    BY <2>1, <2>3, <2>4 DEF StepHolds
<1>8. s # "probe2"
  OBVIOUS
<1>9. /\ \A t \in Steps : t # s => /\ journal'[t] = journal[t] /\ sent'[t] = sent[t]
                                   /\ auth'[t] = auth[t] /\ output'[t] = output[t]
      /\ output'[s] = output[s] /\ auth'[s] = auth[s] /\ sent'[s] = sent[s]
      /\ DOMAIN auth' = Steps /\ DOMAIN output' = Steps /\ sent' \in [Steps -> Seq(CallRows)]
      /\ raws' \subseteq 1..Calls /\ crashes' \in 0..MaxCrashes
  BY <1>2, <1>4
<1>. QED
  BY <1>2, <1>4, <1>5, <1>6, <1>7, <1>8, <1>9, Acts

(* No response: the ledger of "post" says so and the invocation ends.      *)
LEMMA AmbiguousStep == ASSUME RebuttalInv, NEW p \in Procs, Ambiguous(p) PROVE RebuttalInv'
<1>1. Payer(p) /\ Quiet /\ run[p].step = "post" /\ UNCHANGED <<auth, raws, output, sent, crashes>>
      /\ run' = [run EXCEPT ![p] = Idle]
  BY DEF Ambiguous, At, Payer, Payers, Exit
<1> PICK row \in NoteRows : row = Stopped("AMBIGUOUS_PROVIDER_OUTCOME")
  BY DEF Stopped, NoteRows
<1>2. AppendRow("post", "notes", row)
  BY DEF Ambiguous
<1>. QED
  BY <1>1, <1>2, IdleRun, NoteStep DEF Payers

(* The response in flight of "post" is taken one step further.             *)
LEMMA NextStage ==
  ASSUME RebuttalInv, NEW p \in Procs, run[p].pc \in Waits, run[p].step = "post",
         NEW pc \in {"captured", "process"}
  PROVE  LET r == [run[p] EXCEPT !.pc = pc]
         IN  /\ r # Idle /\ r.step = "post" /\ Running(r) /\ Payer(p)
             /\ PayerHolds(r, journal["post"], sent["post"])
             /\ Len(run[p].memory) + 1 \in 1..Calls
<1> PICK r : r = [run[p] EXCEPT !.pc = pc]
  OBVIOUS
<1>1. Payer(p)
  BY DEF Payer, Payers, Waits
<1>2. /\ Running(run[p]) /\ DOMAIN run[p] = RunFields /\ output["post"] = None /\ auth["post"] # None
      /\ auth["post"].dry = run[p].dry /\ Len(run[p].memory) \in Nat
      /\ PayerHolds(run[p], journal["post"], sent["post"])
  BY <1>1, PayerStep
<1>3. /\ DOMAIN r = RunFields /\ r.step = "post" /\ r.code = run[p].code /\ r.key = run[p].key
      /\ r.dry = run[p].dry /\ r.memory = run[p].memory /\ r.pc = pc /\ r.answer = run[p].answer
  BY <1>2, GoesOn
<1>4. Running(r)
  BY <1>2, <1>3 DEF Running, Payers
<1>5. PayerHolds(r, journal["post"], sent["post"])
  BY <1>2, <1>3 DEF PayerHolds, Waits
<1>6. Len(run[p].memory) < Calls
  BY <1>2 DEF PayerHolds, MaxCalls, Probes
<1>7. Len(run[p].memory) + 1 \in 1..Calls
  BY <1>2, <1>6, CallsNat
<1>. QED
  BY <1>1, <1>3, <1>4, <1>5, <1>7, LiveNotIdle

(* The response is captured, under the number of its call.                 *)
LEMMA CaptureStep == ASSUME RebuttalInv, NEW p \in Procs, Capture(p) PROVE RebuttalInv'
<1>1. /\ Quiet /\ run[p].pc \in Waits /\ run[p].step = "post" /\ run[p].pc # "idle"
      /\ UNCHANGED <<auth, journal, output, sent, crashes>>
      /\ raws' = raws \cup {Len(run[p].memory) + 1} /\ family' = family /\ plan' = plan
  BY DEF Capture, At, Waits, Index, Quiet, preflights
<1> PICK r : r = [run[p] EXCEPT !.pc = "captured"]
  OBVIOUS
<1>2. /\ r # Idle /\ r.step = "post" /\ Running(r) /\ Payer(p)
      /\ PayerHolds(r, journal["post"], sent["post"]) /\ Len(run[p].memory) + 1 \in 1..Calls
  BY <1>1, NextStage
<1>3. run' = [run EXCEPT ![p] = r]
  BY <1>1, ActorHolds DEF Capture, Go
<1>4. raws' \subseteq 1..Calls /\ crashes' \in 0..MaxCrashes
  BY <1>1, <1>2, ActorHolds
<1>5. Running(r)'
  BY <1>1, <1>2 DEF Running, ProbePassed, ProbeRejected
<1>. QED
  BY <1>1, <1>2, <1>3, <1>4, <1>5, Moves

(* The ledger says what was captured.                                      *)
LEMMA NoteCaptureStep == ASSUME RebuttalInv, NEW p \in Procs, NoteCapture(p) PROVE RebuttalInv'
<1>1. Payer(p) /\ Quiet /\ run[p].pc = "captured" /\ run[p].pc \in Waits
      /\ UNCHANGED <<auth, raws, output, sent, crashes>>
  BY DEF NoteCapture, At, Payer, Payers, Waits
<1>2. run[p].step = "post"
  BY <1>1, PayerStep DEF PayerHolds
<1> PICK r : r = [run[p] EXCEPT !.pc = "process"]
  OBVIOUS
<1>3. /\ r # Idle /\ r.step = "post" /\ Running(r)
      /\ PayerHolds(r, journal["post"], sent["post"]) /\ Len(run[p].memory) + 1 \in 1..Calls
  BY <1>1, <1>2, NextStage
<1>4. run' = [run EXCEPT ![p] = r]
  BY <1>1, PayerStep DEF NoteCapture, Go
<1> PICK row : row = [captured |-> Index(p)]
  OBVIOUS
<1>5. row \in NoteRows
  BY <1>3 DEF Index, NoteRows
<1>6. AppendRow("post", "notes", row)
  BY DEF NoteCapture
<1>. QED
  BY <1>1, <1>2, <1>3, <1>4, <1>5, <1>6, NoteStep

(* The captured response is accepted, refused, or over the ceiling.        *)
LEMMA ProcessStep == ASSUME RebuttalInv, NEW p \in Procs, Process(p) PROVE RebuttalInv'
<1>1. Payer(p) /\ Quiet /\ run[p].pc = "process" /\ run[p].pc \in Waits /\ run[p].pc # "idle"
      /\ UNCHANGED <<auth, raws, output, sent, crashes>>
  BY DEF Process, At, Payer, Payers, Waits
<1>2. run[p].step = "post"
  BY <1>1, PayerStep DEF PayerHolds
<1>3. Idle.pc \notin Payers
  BY IdleRun DEF Payers
<1>4. CASE Exit(p) /\ AppendRow("post", "notes", Stopped("RESPONSE_CAPTURED_BUT_NOT_ACCEPTED"))
  <2> PICK row \in NoteRows : row = Stopped("RESPONSE_CAPTURED_BUT_NOT_ACCEPTED")
    BY DEF Stopped, NoteRows
  <2>1. run' = [run EXCEPT ![p] = Idle] /\ AppendRow("post", "notes", row)
    BY <1>4 DEF Exit
  <2>. QED
    BY <1>1, <1>2, <1>3, <2>1, NoteStep
<1>5. CASE Exit(p) /\ UNCHANGED journal
  <2>1. run' = [run EXCEPT ![p] = Idle] /\ raws' \subseteq 1..Calls /\ crashes' \in 0..MaxCrashes
    BY <1>1, <1>5, ActorHolds DEF Exit
  <2>. QED
    BY <1>1, <1>3, <1>5, <2>1, Moves
<1>6. CASE /\ Passed(Received(p).answer) /\ AppendRow("post", "results", Received(p))
           /\ Known(run[p].memory) + Received(p).answer.cost <= Ceiling
           /\ Keep(p, IF Index(p) < Calls THEN "ready" ELSE "done")
  <2> PICK pc : pc = IF Index(p) < Calls THEN "ready" ELSE "done"
    OBVIOUS
  <2>1. Len(run[p].memory) \in Nat /\ Len(run[p].memory) + 1 <= Calls
    <3>1. "captured" \in {"captured", "process"}
      OBVIOUS
    <3>2. Len(run[p].memory) + 1 \in 1..Calls
      BY <1>1, <1>2, <3>1, NextStage
    <3>. QED
      BY <1>1, <3>2, PayerStep, CallsNat
  <2>2. /\ pc \in {"noted", "ready", "done"} /\ pc # "noted"
        /\ pc = "ready" => Len(run[p].memory) + 1 < Calls
        /\ pc = "done" => Len(run[p].memory) + 1 = Calls
    BY <2>1, CallsNat DEF Index
  <2>3. MaxCalls("post") = Calls
    BY DEF MaxCalls, Probes
  <2>4. Keep(p, pc)
    BY <1>6
  <2>. QED
    BY <1>1, <1>2, <1>6, <2>2, <2>3, <2>4, ResultStep
<1>. QED
  BY <1>4, <1>5, <1>6 DEF Process

(* All the calls of "post" were accepted within the ceiling.               *)
LEMMA FreezePostStep == ASSUME RebuttalInv, NEW p \in Procs, FreezePost(p) PROVE RebuttalInv'
<1>1. Payer(p) /\ Quiet /\ run[p].pc = "done" /\ UNCHANGED <<auth, journal, raws, sent, crashes>>
      /\ Exit(p)
  BY DEF FreezePost, At, Payer, Payers
<1> PICK s \in Steps : s = run[p].step
  BY <1>1, PayerStep
<1> PICK j \in Journals : j = journal[s]
  BY <1>1, PayerStep
<1> PICK c \in Seq(CallRows) : c = sent[s]
  BY <1>1, PayerStep
<1>2. PayerHolds(run[p], j, c) /\ LogHolds(s, j, c) /\ auth[s] # None
  BY <1>1, PayerStep DEF StepHolds
<1>3. /\ s = "post" /\ run[p].memory = j.results /\ Len(j.results) = Calls /\ Len(c) = Calls
      /\ AllPass(j.results) /\ Known(j.results) <= Ceiling
  BY <1>1, <1>2 DEF PayerHolds, Waits
<1> PICK o : o = PostFreeze(run[p].code, j.results)
  OBVIOUS
<1>4. o.known = Known(j.results) /\ o.calls = Calls
  BY <1>3, ArtifactFields DEF PostFreeze
<1>5. Write(s, o)
  BY <1>3 DEF FreezePost
<1>6. OutcomeHolds(s, o, j, c)
  BY <1>2, <1>3, <1>4, FrozenOutcome
<1>. QED
  BY <1>1, <1>2, <1>3, <1>5, <1>6, Concludes DEF Payers

-----------------------------------------------------------------------------
(* Every step keeps the invariant.                                         *)
LEMMA RebuttalStepInv == RebuttalInv /\ [RebuttalNext]_rebuttalVars => RebuttalInv'
<1> SUFFICES ASSUME RebuttalInv, [RebuttalNext]_rebuttalVars PROVE RebuttalInv'
  OBVIOUS
<1>1. CASE UNCHANGED rebuttalVars
  BY <1>1, Stays DEF rebuttalVars, preflights, rebuttalFiles, RebuttalInv, RebuttalTypes
<1>2. CASE Checkout \/ ChangeKey \/ Preflight
  BY <1>2, EnvironmentStep
<1>3. ASSUME NEW s \in Steps, DryRun(s) \/ Approve(s) PROVE RebuttalInv'
  BY <1>3, EnvironmentStep
<1>4. ASSUME NEW s \in Steps, NEW p \in Procs, Start(p, s) PROVE RebuttalInv'
  BY <1>4, StartKeeps
<1>5. ASSUME NEW p \in Procs, Step(p) PROVE RebuttalInv'
  BY <1>5, AuthorizeStep, ReadJournalStep, AttemptStep, DispatchStep, ReceiptRowStep, SettleStep,
     SettleProbeStep, AmbiguousStep, CaptureStep, NoteCaptureStep, ProcessStep, FreezePostStep DEF Step
<1>6. ASSUME NEW p \in Procs, Crash(p) PROVE RebuttalInv'
  BY <1>6, CrashKeeps
<1>. QED
  BY <1>1, <1>2, <1>3, <1>4, <1>5, <1>6 DEF RebuttalNext

(* The invariant of the Rebuttal.                                          *)
LEMMA RebuttalInvariant == RebuttalSpec => []RebuttalInv
  BY RebuttalInitInv, RebuttalStepInv, PTL DEF RebuttalSpec

(* Type correctness: every invocation runs a step of its family with a     *)
(* commit and a key, and a step of another family has no file and no call. *)
THEOREM RebuttalTypeCorrect == RebuttalSpec => []RebuttalTypeOK
<1>1. RebuttalInv => RebuttalTypeOK
  <2> SUFFICES ASSUME RebuttalInv PROVE RebuttalTypeOK
    OBVIOUS
  <2>1. \A p \in Procs : run[p] # Idle =>
           run[p].step \in StepsOf[family] /\ run[p].code \in Revisions /\ run[p].key \in Keys
    BY DEF RebuttalInv, RunsHold, Running
  <2>2. ASSUME NEW s \in Steps, s \notin StepsOf[family]
        PROVE  dry[s] = None /\ journal[s] = Blank /\ sent[s] = <<>> /\ output[s] = None
    BY <2>2 DEF RebuttalInv, RebuttalTypes, StepHolds, AuthHolds
  <2>. QED
    BY <2>1, <2>2 DEF RebuttalTypeOK, RebuttalInv, RebuttalTypes
<1>. QED
  BY <1>1, RebuttalInvariant, PTL

(* A step pays for each candidate once, in order, with the requests its    *)
(* approval binds, each call recorded ahead, none after its artifact.      *)
THEOREM RebuttalPaidOnceAhead == RebuttalSpec => []PaidOnceAhead
<1>1. RebuttalInv => PaidOnceAhead
  <2> SUFFICES ASSUME RebuttalInv PROVE PaidOnceAhead
    OBVIOUS
  <2>1. ASSUME NEW s \in Steps
        PROVE  /\ Indices(sent[s]) = [k \in 1..Len(sent[s]) |-> k]
               /\ sent[s] # <<>> => Len(sent[s]) <= auth[s].calls
               /\ Len(sent[s]) <= (IF s = "first" THEN Len(journal[s].results) + 1
                                   ELSE Len(journal[s].attempts))
               /\ s \in Runs => \A k \in DOMAIN sent[s] :
                     Builds[sent[s][k].code] = Asked(s, auth[s].dry)
    <3>1. sent[s] \in Seq(CallRows) /\ LogHolds(s, journal[s], sent[s])
          /\ AuthHolds(s, auth[s], journal[s], sent[s], output[s])
      BY DEF RebuttalInv, RebuttalTypes, StepHolds
    <3>2. DOMAIN sent[s] = 1..Len(sent[s]) /\ \A k \in DOMAIN sent[s] : sent[s][k].i = k
      BY <3>1 DEF LogHolds
    <3>3. Indices(sent[s]) = [k \in 1..Len(sent[s]) |-> k]
      BY <3>2 DEF Indices
    <3>4. sent[s] # <<>> => Len(sent[s]) <= auth[s].calls
      BY <3>1 DEF LogHolds, AuthHolds
    <3>. QED
      BY <3>1, <3>3, <3>4 DEF LogHolds, AuthHolds
  <2>2. \A p \in Procs : run[p].pc \in {"attempted", "answered"} => output[run[p].step] = None
    BY PayerStep DEF Payer, Payers
  <2>. QED
    BY <2>1, <2>2 DEF PaidOnceAhead, Asked
<1>. QED
  BY <1>1, RebuttalInvariant, PTL

(* A frozen Rebuttal costs what the provider charged, within the ceiling,  *)
(* for one valid answer per candidate; a blocked one claims no more than   *)
(* was charged; and the run that replaced a rejected key used the key of   *)
(* the probe that passed.                                                  *)
THEOREM RebuttalFrozenIsPaid == RebuttalSpec => []FrozenIsPaid
<1>1. RebuttalInv => FrozenIsPaid
  <2> SUFFICES ASSUME RebuttalInv PROVE FrozenIsPaid
    OBVIOUS
  <2>1. ProbedKeyOnly
    BY DEF ProbedKeyOnly, RebuttalInv, Replaced, ProbePassed, ProbeRejected, ProbePaid
  <2>2. ASSUME NEW s \in Runs, output[s] # None
        PROVE  /\ output[s].known <= Charged(s)
               /\ output[s].calls >= Len(sent[s])
               /\ output[s].status = "FROZEN" =>
                     /\ Len(sent[s]) = Calls /\ output[s].known = Charged(s) /\ Charged(s) <= Ceiling
                     /\ \A i \in 1..Calls : \E k \in DOMAIN journal[s].results :
                           LET r == journal[s].results[k] IN r.i = i /\ Passed(r.answer)
    <3>1. s \in Steps
      BY DEF Steps
    <3>2. OutcomeHolds(s, output[s], journal[s], sent[s]) /\ LogHolds(s, journal[s], sent[s])
      BY <3>1 DEF RebuttalInv, StepHolds
    <3>3. Charged(s) = ChargedFor(sent[s])
      BY DEF Charged, ChargedFor
    <3>4. journal[s].results \in Seq(ResultRows)
      BY <3>1 DEF RebuttalInv, RebuttalTypes, Journals
    <3>5. ASSUME output[s].status = "FROZEN"
          PROVE  \A i \in 1..Calls : \E k \in DOMAIN journal[s].results :
                    LET r == journal[s].results[k] IN r.i = i /\ Passed(r.answer)
      <4>1. Len(journal[s].results) = Calls
            /\ \A k \in DOMAIN journal[s].results : Passed(journal[s].results[k].answer)
        BY <2>2, <3>2, <3>5 DEF OutcomeHolds
      <4>2. DOMAIN journal[s].results = 1..Calls
        BY <3>4, <4>1
      <4>3. \A k \in DOMAIN journal[s].results : journal[s].results[k].i = k
        BY <3>2 DEF LogHolds, IsReceipt
      <4>. QED
        BY <4>1, <4>2, <4>3
    <3>. QED
      BY <2>2, <3>2, <3>3, <3>5 DEF OutcomeHolds
  <2>. QED
    BY <2>1, <2>2 DEF FrozenIsPaid
<1>. QED
  BY <1>1, RebuttalInvariant, PTL

-----------------------------------------------------------------------------
(***************************************************************************)
(* A step that announces its calls implements OneShotPaidRun. That needs   *)
(* two facts beside the invariant: an invocation that goes on has spent no *)
(* more than the ceiling so far, and only the ledger of "post" has notes,  *)
(* so that a journal a reopened step finds in use has an attempt in it.    *)
(***************************************************************************)
Paced(r) == r.pc \in {"ready", "attempted"} \cup Waits => Known(r.memory) <= Ceiling
NotesOfPost == \A t \in Steps \ {"post"} : journal[t].notes = <<>>
RebuttalPace == (\A p \in Procs : Paced(run[p])) /\ NotesOfPost

(* Nothing is known of no results.                                         *)
LEMMA NothingKnown == Known(<<>>) = 0
<1>1. <<>> \in Seq(ResultRows) /\ Len(<<>>) = 0
  OBVIOUS
<1>2. KnownCosts(<<>>) \in Seq(Nat) /\ Len(KnownCosts(<<>>)) = 0
  BY <1>1, KnownCostsSeq
<1>3. KnownCosts(<<>>) = <<>>
  BY <1>2
<1>4. Known(<<>>) = Total(KnownCosts(<<>>))
  BY DEF Known, KnownCosts
<1>. QED
  BY <1>3, <1>4, TotalEmpty

(* A row appended to one journal leaves the other kinds and journals.      *)
LEMMA OtherRows ==
  ASSUME RebuttalInv, NEW s \in Steps, NEW kind, NEW row, AppendRow(s, kind, row)
  PROVE  /\ \A t \in Steps : t # s => journal'[t] = journal[t]
         /\ kind # "attempts" => journal'[s].attempts = journal[s].attempts
         /\ kind # "notes" => journal'[s].notes = journal[s].notes
<1>1. journal \in [Steps -> Journals] /\ journal[s] \in Journals
  BY DEF RebuttalInv, RebuttalTypes
<1>2. DOMAIN journal[s] = {"attempts", "results", "notes"} /\ DOMAIN journal = Steps
  BY <1>1 DEF Journals
<1>. QED
  BY <1>2 DEF AppendRow

(* An invocation that goes on, and one that ends.                          *)
LEMMA PaceMoves ==
  ASSUME RebuttalInv, RebuttalPace, NEW p \in Procs, NEW r, run' = [run EXCEPT ![p] = r], Paced(r),
         \A t \in Steps \ {"post"} : journal'[t].notes = journal[t].notes
  PROVE  RebuttalPace'
<1>1. DOMAIN run = Procs
  BY DEF RebuttalInv, RebuttalTypes
<1>2. \A q \in Procs : run'[q] = r \/ run'[q] = run[q]
  BY <1>1
<1>. QED
  BY <1>2 DEF RebuttalPace, NotesOfPost, Paced

LEMMA PaceGo ==
  ASSUME RebuttalInv, RebuttalPace, NEW p \in Procs, run[p].pc # "idle", NEW pc, Go(p, pc),
         pc \in {"ready", "attempted"} \cup Waits => Known(run[p].memory) <= Ceiling,
         \A t \in Steps \ {"post"} : journal'[t].notes = journal[t].notes
  PROVE  RebuttalPace'
<1> PICK r : r = [run[p] EXCEPT !.pc = pc]
  OBVIOUS
<1>1. DOMAIN run[p] = RunFields /\ DOMAIN run = Procs
  BY ActorHolds DEF Running
<1>2. r.pc = pc /\ r.memory = run[p].memory
  BY <1>1, GoesOn
<1>3. run' = [run EXCEPT ![p] = r]
  BY <1>1 DEF Go
<1>. QED
  BY <1>2, <1>3, PaceMoves DEF Paced

LEMMA PaceExit ==
  ASSUME RebuttalInv, RebuttalPace, NEW p \in Procs, Exit(p),
         \A t \in Steps \ {"post"} : journal'[t].notes = journal[t].notes
  PROVE  RebuttalPace'
<1>1. Paced(Idle)
  BY IdleRun DEF Paced, Waits
<1>. QED
  BY <1>1, PaceMoves DEF Exit

(* The receipt of the answer in flight is a row of a journal.              *)
LEMMA ReceivedTyped ==
  ASSUME RebuttalInv, NEW p \in Procs, Payer(p), run[p].pc \in Waits
  PROVE  Received(p) \in ResultRows /\ Received(p).answer = run[p].answer
<1> PICK s \in Steps : s = run[p].step
  BY PayerStep
<1> PICK m \in Nat : m = Len(run[p].memory)
  BY PayerStep
<1>1. m < MaxCalls(s) /\ run[p].answer \in ProviderAnswers(s, run[p].key) /\ run[p].key \in Keys
  BY PayerStep DEF PayerHolds
<1>2. s \in Probes => m + 1 = 1
  BY <1>1 DEF MaxCalls
<1>3. run[p].answer \in AnswerRecords
  BY <1>1, AnswersTyped
<1>4. Received(p) = ReceiptOf(s, m + 1, run[p].answer, run[p].key)
  BY DEF Received, Index
<1>. QED
  BY <1>1, <1>2, <1>3, <1>4, ReceiptTyped

(* Every step of an invocation keeps the pace.                             *)
LEMMA PaceStep == ASSUME RebuttalInv, RebuttalPace, NEW p \in Procs, Step(p) PROVE RebuttalPace'
<1>0. run[p].pc # "idle"
  BY DEF Step, Authorize, ReadJournal, Attempt, Dispatch, Receipt, Settle, SettleProbe,
     Ambiguous, Capture, NoteCapture, Process, FreezePost, At
<1> PICK s \in Steps : s = run[p].step
  BY <1>0, ActorHolds
<1>1. Running(run[p]) /\ run[p].memory \in Seq(ResultRows) /\ DOMAIN run = Procs
  BY <1>0, ActorHolds DEF Running
<1>2. run[p].pc \in {"started", "journal"} => Known(run[p].memory) <= Ceiling
  <2>1. run[p].pc \in {"started", "journal"} => run[p].memory = <<>>
    BY <1>1 DEF Running
  <2>2. 0 <= Ceiling
    BY StageAssumption
  <2>. QED
    BY <2>1, <2>2, NothingKnown, Zenon
<1>3. Paced(run[p])
  BY DEF RebuttalPace
<1>4. UNCHANGED journal => \A t \in Steps \ {"post"} : journal'[t].notes = journal[t].notes
  OBVIOUS
<1>5. CASE Authorize(p)
  <2>1. run[p].pc = "started" /\ UNCHANGED journal
    BY <1>5 DEF Authorize, At
  <2>2. Exit(p) \/ \E pc : Go(p, pc)
    BY <1>5 DEF Authorize, CreateAuth, VerifyExistingAuth
  <2>. QED
    BY <1>0, <1>2, <1>4, <2>1, <2>2, PaceGo, PaceExit
<1>6. CASE ReadJournal(p)
  <2>1. run[p].pc = "journal" /\ UNCHANGED journal /\ (Exit(p) \/ Go(p, "ready"))
    BY <1>6 DEF ReadJournal, At
  <2>. QED
    BY <1>0, <1>2, <1>4, <2>1, PaceGo, PaceExit
<1>7. CASE Attempt(p)
  <2>1. run[p].pc = "ready" /\ Go(p, "attempted")
        /\ AppendRow(s, "attempts", AttemptOf(s, Index(p), run[p].key))
    BY <1>7 DEF Attempt, At
  <2>2. \A t \in Steps \ {"post"} : journal'[t].notes = journal[t].notes
    BY <2>1, OtherRows
  <2>. QED
    BY <1>0, <1>3, <2>1, <2>2, PaceGo DEF Paced
<1>8. CASE Dispatch(p)
  <2>1. run[p].pc \in {"ready", "attempted"} /\ UNCHANGED journal
    BY <1>8 DEF Dispatch, At, rebuttalFiles
  <2> PICK a : run' = [run EXCEPT ![p].pc = "answered", ![p].answer = a]
    BY <1>8 DEF Dispatch
  <2> PICK r : r = [run[p] EXCEPT !.pc = "answered", !.answer = a]
    OBVIOUS
  <2>2. run' = [run EXCEPT ![p] = r] /\ r.memory = run[p].memory
    BY <1>1 DEF Running, RunFields
  <2>3. Paced(r)
    BY <1>3, <2>1, <2>2 DEF Paced
  <2>. QED
    BY <1>4, <2>1, <2>2, <2>3, PaceMoves
<1>9. CASE Receipt(p)
  <2>1. Keep(p, "noted") /\ AppendRow(s, "results", Received(p))
    BY <1>9 DEF Receipt
  <2> PICK r : r = [run[p] EXCEPT !.pc = "noted", !.answer = None,
                                  !.memory = Append(run[p].memory, Received(p))]
    OBVIOUS
  <2>2. run' = [run EXCEPT ![p] = r] /\ r.pc = "noted"
    BY <1>1, <2>1 DEF Keep, Running, RunFields
  <2>3. Paced(r)
    BY <2>2 DEF Paced, Waits
  <2>4. \A t \in Steps \ {"post"} : journal'[t].notes = journal[t].notes
    BY <2>1, OtherRows
  <2>. QED
    BY <2>2, <2>3, <2>4, PaceMoves
<1>10. CASE Settle(p)
  <2>1. run[p].pc = "noted" /\ UNCHANGED journal
        /\ (Exit(p) \/ (StopReason(run[p].memory) = "PASS" /\ Go(p, "ready")))
    BY <1>10 DEF Settle, At
  <2>2. Payer(p)
    BY <2>1 DEF Payer, Payers
  <2>3. Len(run[p].memory) > 0
        /\ \A k \in 1..(Len(run[p].memory) - 1) : Passed(run[p].memory[k].answer)
    BY <2>1, <2>2, PayerStep DEF PayerHolds
  <2>4. StopReason(run[p].memory) = "PASS" => Known(run[p].memory) <= Ceiling
    BY <1>1, <2>3, Judged
  <2>. QED
    BY <1>0, <1>4, <2>1, <2>4, PaceGo, PaceExit
<1>11. CASE SettleProbe(p) \/ FreezePost(p)
  BY <1>4, <1>11, PaceExit DEF SettleProbe, FreezePost
<1>12. CASE Ambiguous(p)
  <2>1. s = "post" /\ Exit(p) /\ \E row : AppendRow(s, "notes", row)
    BY <1>12 DEF Ambiguous
  <2>. QED
    BY <2>1, OtherRows, PaceExit
<1>13. CASE Capture(p)
  BY <1>0, <1>3, <1>4, <1>13, PaceGo DEF Capture, At, Paced, Waits
<1>14. CASE NoteCapture(p)
  <2>1. run[p].pc = "captured" /\ Go(p, "process") /\ \E row : AppendRow("post", "notes", row)
    BY <1>14 DEF NoteCapture, At
  <2>2. \A t \in Steps \ {"post"} : journal'[t].notes = journal[t].notes
    BY <2>1, OtherRows DEF Steps, Runs
  <2>. QED
    BY <1>0, <1>3, <2>1, <2>2, PaceGo DEF Paced, Waits
<1>15. CASE Process(p)
  <2>1. run[p].pc = "process" /\ run[p].pc \in Waits /\ Payer(p)
    BY <1>15 DEF Process, At, Waits, Payer, Payers
  <2>2. \A t \in Steps \ {"post"} : journal'[t].notes = journal[t].notes
    <3>1. UNCHANGED journal \/ \E kind, row : AppendRow("post", kind, row)
      BY <1>15 DEF Process
    <3>. QED
      BY <1>4, <3>1, OtherRows DEF Steps, Runs
  <2>3. CASE Exit(p)
    BY <2>2, <2>3, PaceExit
  <2>4. ASSUME NEW pc, Keep(p, pc), Passed(Received(p).answer),
               Known(run[p].memory) + Received(p).answer.cost <= Ceiling
        PROVE  RebuttalPace'
    <3> PICK row : row = Received(p)
      OBVIOUS
    <3> PICK r : r = [run[p] EXCEPT !.pc = pc, !.answer = None,
                                    !.memory = Append(run[p].memory, row)]
      OBVIOUS
    <3>1. run' = [run EXCEPT ![p] = r] /\ r.memory = Append(run[p].memory, row)
      BY <1>1, <2>4 DEF Keep, Running, RunFields
    <3>2. row \in ResultRows
      BY <2>1, ReceivedTyped
    <3>3. Known(r.memory) = Known(run[p].memory) + row.answer.cost
      BY <1>1, <2>4, <3>1, <3>2, KnownAppended DEF KnownOf, Passed
    <3>4. Paced(r)
      BY <2>4, <3>3 DEF Paced
    <3>. QED
      BY <2>2, <3>1, <3>4, PaceMoves
  <2>. QED
    BY <1>15, <2>3, <2>4 DEF Process
<1>. QED
  BY <1>5, <1>6, <1>7, <1>8, <1>9, <1>10, <1>11, <1>12, <1>13, <1>14, <1>15 DEF Step

(* The pace is kept.                                                       *)
LEMMA RebuttalPaceInv == RebuttalSpec => [](RebuttalInv /\ RebuttalPace)
<1>1. RebuttalInit => RebuttalPace
  <2> SUFFICES ASSUME RebuttalInit PROVE RebuttalPace
    OBVIOUS
  <2>1. (\A p \in Procs : run[p] = Idle) /\ (\A t \in Steps : journal[t] = Blank)
    BY DEF RebuttalInit
  <2>2. Paced(Idle) /\ Blank.notes = <<>>
    BY IdleRun DEF Paced, Waits, Blank
  <2>. QED
    BY <2>1, <2>2 DEF RebuttalPace, NotesOfPost
<1>2. RebuttalInv /\ RebuttalPace /\ [RebuttalNext]_rebuttalVars => RebuttalPace'
  <2> SUFFICES ASSUME RebuttalInv, RebuttalPace, [RebuttalNext]_rebuttalVars PROVE RebuttalPace'
    OBVIOUS
  <2>1. ASSUME UNCHANGED <<run, journal>> PROVE RebuttalPace'
    BY <2>1 DEF RebuttalPace, NotesOfPost
  <2>2. CASE Checkout \/ ChangeKey \/ Preflight \/ UNCHANGED rebuttalVars
    BY <2>1, <2>2 DEF Checkout, ChangeKey, Preflight, rebuttalVars, rebuttalFiles
  <2>3. ASSUME NEW s \in Steps, DryRun(s) \/ Approve(s) PROVE RebuttalPace'
    BY <2>1, <2>3 DEF DryRun, Approve, rebuttalFiles
  <2>4. ASSUME NEW s \in Steps, NEW p \in Procs, Start(p, s) PROVE RebuttalPace'
    <3> PICK r : r = [Idle EXCEPT !.pc = "started", !.step = s, !.code = head, !.key = env,
                                  !.dry = DryOf(s, head, env)]
      OBVIOUS
    <3>1. run' = [run EXCEPT ![p] = r] /\ UNCHANGED journal
      BY <2>4 DEF Start, rebuttalFiles
    <3>2. r.pc = "started"
      BY DEF Idle
    <3>3. Paced(r)
      BY <3>2 DEF Paced, Waits
    <3>. QED
      BY <3>1, <3>3, PaceMoves
  <2>5. ASSUME NEW p \in Procs, Step(p) PROVE RebuttalPace'
    BY <2>5, PaceStep
  <2>6. ASSUME NEW p \in Procs, Crash(p) PROVE RebuttalPace'
    BY <2>6, PaceExit DEF Crash, rebuttalFiles
  <2>. QED
    BY <2>2, <2>3, <2>4, <2>5, <2>6 DEF RebuttalNext
<1>. QED
  BY <1>1, <1>2, RebuttalInitInv, RebuttalStepInv, PTL DEF RebuttalSpec

-----------------------------------------------------------------------------
(* A step the contract does not see.                                       *)
Untouched(s) ==
    journal'[s].attempts = journal[s].attempts /\ sent'[s] = sent[s] /\ output'[s] = output[s]
LEMMA ContractKept ==
  ASSUME NEW s \in Announced, NEW most \in Nat, Untouched(s)
  PROVE  [StepContract(s, most)!Next]_(StepContract(s, most)!vars)
  BY DEF Untouched, StepContract!vars, Charged

(* The costs charged after one more call.                                  *)
LEMMA ChargedAppended ==
  ASSUME NEW c \in Seq(CallRows), NEW x \in CallRows
  PROVE  ChargedCosts(Append(c, x)) = Append(ChargedCosts(c), x.cost)
<1> DEFINE t == Append(c, x)
           u == Append(ChargedCosts(c), x.cost)
<1>1. t \in Seq(CallRows) /\ Len(t) = Len(c) + 1 /\ \A k \in 1..(Len(c) + 1) :
         t[k] = IF k = Len(c) + 1 THEN x ELSE c[k]
  OBVIOUS
<1>2. x.cost \in Nat /\ Len(c) \in Nat
  BY CallCost
<1>3. ChargedCosts(c) \in Seq(Nat) /\ Len(ChargedCosts(c)) = Len(c)
      /\ \A k \in 1..Len(c) : ChargedCosts(c)[k] = c[k].cost
  BY ChargedCostsSeq
<1>4. u \in Seq(Nat) /\ Len(u) = Len(c) + 1 /\ \A k \in 1..(Len(c) + 1) :
         u[k] = IF k = Len(c) + 1 THEN x.cost ELSE c[k].cost
  BY <1>2, <1>3
<1>. HIDE DEF t, u
<1>5. ChargedCosts(t) \in Seq(Nat) /\ Len(ChargedCosts(t)) = Len(c) + 1
      /\ \A k \in 1..(Len(c) + 1) : ChargedCosts(t)[k] = t[k].cost
  BY <1>1, ChargedCostsSeq
<1>6. \A k \in 1..(Len(c) + 1) : ChargedCosts(t)[k] = u[k]
  BY <1>1, <1>4, <1>5
<1>7. ChargedCosts(t) = u
  BY <1>4, <1>5, <1>6, SMTT(30)
<1>. QED
  BY <1>7 DEF t, u

(* What was charged before a call, and what may be charged for it.         *)
LEMMA WithinCeiling ==
  ASSUME RebuttalInv, RebuttalPace, NEW p \in Procs, run[p].pc \in {"ready", "attempted"}
  PROVE  /\ Charged(run[p].step) \in Nat /\ Charged(run[p].step) <= Ceiling
         /\ output[run[p].step] = None /\ Len(sent[run[p].step]) = Len(run[p].memory)
         /\ run[p].step # "first" =>
               Len(journal[run[p].step].attempts) =
                  Len(run[p].memory) + (IF run[p].pc = "attempted" THEN 1 ELSE 0)
         /\ Len(run[p].memory) \in Nat /\ Len(run[p].memory) < MaxCalls(run[p].step)
<1>1. Payer(p)
  BY DEF Payer, Payers
<1> PICK s \in Steps : s = run[p].step
  BY <1>1, PayerStep
<1> PICK m \in Nat : m = Len(run[p].memory)
  BY <1>1, PayerStep
<1>2. /\ PayerHolds(run[p], journal[s], sent[s]) /\ LogHolds(s, journal[s], sent[s])
      /\ journal[s] \in Journals /\ sent[s] \in Seq(CallRows) /\ output[s] = None
  BY <1>1, PayerStep DEF StepHolds
<1>3. /\ run[p].memory = journal[s].results /\ Len(sent[s]) = m /\ AllPass(run[p].memory)
      /\ m < MaxCalls(s)
      /\ s # "first" => Len(journal[s].attempts) = m + (IF run[p].pc = "attempted" THEN 1 ELSE 0)
  <2>1. CASE run[p].pc = "ready"
    BY <1>2, <2>1 DEF PayerHolds, Waits
  <2>2. CASE run[p].pc = "attempted"
    BY <1>2, <2>2 DEF PayerHolds, Waits
  <2>. QED
    BY <2>1, <2>2
<1>4. Known(run[p].memory) = ChargedFor(sent[s])
  BY <1>2, <1>3, RowsAreCharged
<1>5. Known(run[p].memory) <= Ceiling
  BY DEF RebuttalPace, Paced
<1>6. Charged(s) = ChargedFor(sent[s]) /\ ChargedFor(sent[s]) \in Nat
  BY <1>2, ChargedCostsSeq DEF Charged, ChargedFor
<1>. QED
  BY <1>2, <1>3, <1>4, <1>5, <1>6

(* An attempt announces the next call.                                     *)
LEMMA ContractAttempt ==
  ASSUME RebuttalInv, RebuttalPace, NEW p \in Procs, Attempt(p), NEW s \in Announced,
         run[p].step = s, NEW most \in Nat
  PROVE  StepContract(s, most)!Attempt
<1>1. run[p].pc = "ready" /\ UNCHANGED <<output, sent>>
      /\ AppendRow(s, "attempts", AttemptOf(s, Index(p), run[p].key))
  BY DEF Attempt, At
<1>2. s \in Steps /\ s \in Runs /\ s # "first" /\ MaxCalls(s) = Calls
  BY DEF Announced, Steps, Runs, MaxCalls, Probes
<1> PICK m \in Nat : m = Len(run[p].memory)
  BY <1>1, WithinCeiling
<1>3. Charged(s) <= Ceiling /\ output[s] = None /\ Len(journal[s].attempts) = m /\ m < Calls
  <2>1. run[p].pc \in {"ready", "attempted"} /\ run[p].pc # "attempted"
    BY <1>1
  <2>2. Len(journal[s].attempts) = m + 0 /\ m < MaxCalls(s) /\ Charged(s) <= Ceiling
        /\ output[s] = None
    BY <1>2, <2>1, WithinCeiling
  <2>. QED
    BY <1>2, <2>2
<1>4. journal \in [Steps -> Journals] /\ run[p].key \in Keys
  BY <1>1, PayerStep DEF Payer, Payers
<1>5. AttemptOf(s, m + 1, run[p].key) \in AttemptRows
  <2>1. m + 1 \in Nat /\ run[p].key \in Keys
    BY <1>4
  <2>. QED
    BY <1>2, <2>1, AttemptTyped
<1> PICK row \in AttemptRows : row = AttemptOf(s, m + 1, run[p].key)
  BY <1>5
<1>6. journal'[s].attempts = Append(journal[s].attempts, row)
  BY <1>1, <1>2, <1>4, Appended DEF Index
<1>7. Len(journal'[s].attempts) = m + 1
  <2>1. journal[s].attempts \in Seq(AttemptRows)
    BY <1>2, <1>4 DEF Journals
  <2>. HIDE DEF AttemptRows
  <2>2. Len(Append(journal[s].attempts, row)) = Len(journal[s].attempts) + 1
    BY <2>1
  <2>. QED
    BY <1>3, <1>6, <2>2
<1>8. ShownVerdict(output[s]) = "NONE" /\ Charged(s)' = Charged(s)
  BY <1>1, <1>3 DEF ShownVerdict, Charged
<1>. QED
  BY <1>1, <1>3, <1>7, <1>8 DEF StepContract!Attempt

(* A call is served once, for what the provider asks.                      *)
LEMMA ContractDispatch ==
  ASSUME RebuttalInv, RebuttalPace, NEW p \in Procs, Dispatch(p), NEW s \in Announced,
         run[p].step = s, NEW most \in Nat, \A a \in RebuttalAnswers : a.cost <= most
  PROVE  \E i \in 1..Calls : StepContract(s, most)!Serve(i)
<1>1. s \in Steps /\ s \in Runs /\ s # "first" /\ s \notin Probes /\ MaxCalls(s) = Calls
  BY DEF Announced, Steps, Runs, MaxCalls, Probes
<1>2. run[p].pc = "attempted" /\ UNCHANGED <<output, journal>>
  BY <1>1 DEF Dispatch, At, rebuttalFiles
<1> PICK m \in Nat : m = Len(run[p].memory)
  BY <1>2, WithinCeiling
<1>3. /\ Charged(s) \in Nat /\ Charged(s) <= Ceiling /\ Len(sent[s]) = m
      /\ Len(journal[s].attempts) = m + 1 /\ m < Calls
  BY <1>1, <1>2, WithinCeiling
<1>4. sent \in [Steps -> Seq(CallRows)] /\ run[p].key \in Keys /\ run[p].code \in Revisions
  BY <1>2, PayerStep DEF Payer, Payers
<1> PICK a \in ProviderAnswers(s, run[p].key) :
       sent' = [sent EXCEPT ![s] = Append(@,
          [i |-> m + 1, key |-> run[p].key, code |-> run[p].code, cost |-> a.cost])]
  BY DEF Dispatch, Index
<1>5. a.cost \in Nat
  BY <1>1, <1>4, AnswersTyped DEF AnswerRecords
<1>6. a.cost <= most
  BY <1>1 DEF ProviderAnswers, NoAnswer, Unauthorized
<1> PICK c \in CallRows :
       c = [i |-> m + 1, key |-> run[p].key, code |-> run[p].code, cost |-> a.cost]
  BY <1>4, <1>5 DEF CallRows
<1>7. sent'[s] = Append(sent[s], c) /\ sent[s] \in Seq(CallRows) /\ c.cost = a.cost
  BY <1>1, <1>4
<1>8. DOMAIN sent'[s] = DOMAIN sent[s] \cup {m + 1} /\ m + 1 \notin DOMAIN sent[s]
  BY <1>3, <1>7
<1>9. Charged(s)' = Charged(s) + a.cost
  <2>1. Charged(s) = Total(ChargedCosts(sent[s])) /\ Charged(s)' = Total(ChargedCosts(sent'[s]))
    BY DEF Charged, ChargedCosts
  <2>2. ChargedCosts(sent'[s]) = Append(ChargedCosts(sent[s]), a.cost)
    BY <1>5, <1>7, ChargedAppended
  <2>. QED
    BY <1>5, <1>7, <2>1, <2>2, ChargedCostsSeq, TotalAppend
<1>10. m + 1 \in 1..Calls /\ a.cost \in 0..most /\ m + 1 <= Len(journal[s].attempts)
  BY <1>3, <1>5, <1>6, CallsNat
<1>11. StepContract(s, most)!Serve(m + 1)
  BY <1>2, <1>3, <1>8, <1>9, <1>10 DEF StepContract!Serve
<1>. QED
  BY <1>10, <1>11

(* The artifact of a step is the verdict on it.                            *)
LEMMA ContractVerdict ==
  ASSUME RebuttalInv, RebuttalInv', NEW s \in Announced, NEW most \in Nat, NEW o, o # None,
         Write(s, o), UNCHANGED <<journal, sent>>,
         o.status = "FROZEN" \/ Len(journal[s].attempts) > 0
  PROVE  StepContract(s, most)!Freeze \/ StepContract(s, most)!Block
<1>1. s \in Steps /\ s \in Runs /\ DOMAIN output = Steps
  BY DEF Announced, Steps, Runs, RebuttalInv, RebuttalTypes
<1>2. output[s] = None /\ output'[s] = o
  BY <1>1 DEF Write
<1>3. ShownVerdict(output[s]) = "NONE" /\ Charged(s)' = Charged(s)
      /\ ShownVerdict(output'[s]) = IF o.status = "FROZEN" THEN "FROZEN" ELSE "BLOCKED"
  BY <1>2 DEF ShownVerdict, Charged
<1>4. CASE o.status = "FROZEN"
  <2>1. OutcomeHolds(s, output'[s], journal'[s], sent'[s])
    BY <1>1 DEF RebuttalInv, StepHolds
  <2>2. Len(sent[s]) = Calls /\ ChargedFor(sent[s]) <= Ceiling
    BY <1>1, <1>2, <1>4, <2>1 DEF OutcomeHolds
  <2>3. sent[s] \in Seq(CallRows)
    BY <1>1 DEF RebuttalInv, RebuttalTypes
  <2>4. DOMAIN sent[s] = 1..Calls /\ Charged(s) <= Ceiling
    BY <2>2, <2>3 DEF Charged, ChargedFor
  <2>. QED
    BY <1>3, <1>4, <2>4 DEF StepContract!Freeze
<1>5. CASE o.status # "FROZEN"
  BY <1>3, <1>5 DEF StepContract!Block
<1>. QED
  BY <1>4, <1>5

(* An invocation does nothing to the steps it does not run.                *)
LEMMA OthersUntouched ==
  ASSUME RebuttalInv, NEW p \in Procs, Step(p), NEW s \in Steps, run[p].step # s
  PROVE  Untouched(s)
<1>0. run[p].pc # "idle"
  BY DEF Step, Authorize, ReadJournal, Attempt, Dispatch, Receipt, Settle, SettleProbe,
     Ambiguous, Capture, NoteCapture, Process, FreezePost, At
<1> PICK t \in Steps : t = run[p].step
  BY <1>0, ActorHolds
<1>1. run[p].pc \in {"captured", "process", "done"} => t = "post"
  BY PayerStep DEF Payer, Payers, PayerHolds
<1>2. UNCHANGED journal \/ \E kind, row : AppendRow(t, kind, row)
  BY <1>1 DEF Step, Authorize, ReadJournal, Attempt, Dispatch, Receipt, Settle, SettleProbe,
     Ambiguous, Capture, NoteCapture, Process, FreezePost, At, rebuttalFiles
<1>3. UNCHANGED output \/ \E o : Write(t, o)
  BY <1>1 DEF Step, Authorize, ReadJournal, Attempt, Dispatch, Receipt, Settle, SettleProbe,
     Ambiguous, Capture, NoteCapture, Process, FreezePost, At, rebuttalFiles, Finalize,
     BlockFromJournal, FinalizeProbe, Raises
<1>4. UNCHANGED sent \/ \E c : sent' = [sent EXCEPT ![t] = c]
  BY DEF Step, Authorize, ReadJournal, Attempt, Dispatch, Receipt, Settle, SettleProbe,
     Ambiguous, Capture, NoteCapture, Process, FreezePost
<1>5. journal'[s] = journal[s]
  BY <1>2, OtherRows
<1>6. DOMAIN output = Steps /\ DOMAIN sent = Steps
  BY DEF RebuttalInv, RebuttalTypes
<1>7. output'[s] = output[s]
  BY <1>3, <1>6 DEF Write
<1>8. sent'[s] = sent[s]
  BY <1>4, <1>6
<1>. QED
  BY <1>5, <1>7, <1>8 DEF Untouched

(* A journal that is not empty has an attempt.                             *)
LEMMA NotFreshIsAttempted ==
  ASSUME RebuttalInv, RebuttalPace, NEW s \in Steps \ {"first", "post"}, ~Fresh(journal[s])
  PROVE  Len(journal[s].attempts) > 0
<1> PICK j : j = journal[s]
  OBVIOUS
<1> PICK c : c = sent[s]
  OBVIOUS
<1>1. j \in Journals /\ c \in Seq(CallRows) /\ LogHolds(s, j, c) /\ j.notes = <<>>
  BY DEF RebuttalInv, RebuttalTypes, StepHolds, RebuttalPace, NotesOfPost
<1>2. j.attempts \in Seq(AttemptRows) /\ j.results \in Seq(ResultRows)
      /\ Len(c) \in Nat /\ Len(c) <= Len(j.attempts) /\ Len(j.results) <= Len(c)
  BY <1>1 DEF Journals, LogHolds
<1>3. Len(j.attempts) = 0 => j.attempts = <<>> /\ j.results = <<>>
  BY <1>2
<1>4. j = [attempts |-> j.attempts, results |-> j.results, notes |-> j.notes]
  BY <1>1 DEF Journals
<1>5. Len(j.attempts) = 0 => j = Blank
  BY <1>1, <1>3, <1>4 DEF Blank
<1>. QED
  BY <1>2, <1>5 DEF Fresh

(* The steps of an invocation, as the contract of its step sees them.      *)
LEMMA ContractOwnStep ==
  ASSUME RebuttalInv, RebuttalPace, RebuttalInv', NEW p \in Procs, Step(p), NEW s \in Announced,
         run[p].step = s, NEW most \in Nat, \A a \in RebuttalAnswers : a.cost <= most
  PROVE  StepContract(s, most)!Next \/ Untouched(s)
<1>1. s \in Steps /\ s \in Runs /\ s # "first" /\ s \notin Probes
  BY DEF Announced, Steps, Runs, Probes
<1>2. CASE Attempt(p)
  BY <1>2, ContractAttempt DEF StepContract!Next
<1>3. CASE Dispatch(p)
  BY <1>3, ContractDispatch DEF StepContract!Next
<1>4. CASE Authorize(p) \/ Capture(p)
  BY <1>4 DEF Authorize, Capture, Untouched
<1>5. CASE Receipt(p)
  BY <1>1, <1>5, OtherRows DEF Receipt, Untouched
<1>6. CASE Ambiguous(p)
  BY <1>1, <1>6, OtherRows DEF Ambiguous, Untouched
<1>7. CASE NoteCapture(p) \/ Process(p)
  <2>1. run[p].pc \in {"captured", "process"}
    BY <1>7 DEF NoteCapture, Process, At
  <2>2. s = "post"
    BY <2>1, PayerStep DEF Payer, Payers, PayerHolds
  <2>3. UNCHANGED <<output, sent>>
        /\ (UNCHANGED journal \/ \E kind \in {"notes", "results"} : \E row : AppendRow(s, kind, row))
    BY <1>7, <2>2 DEF NoteCapture, Process
  <2>. QED
    BY <1>1, <2>3, OtherRows DEF Untouched
<1>8. ASSUME NEW o, o # None, Write(s, o), UNCHANGED <<journal, sent>>,
             o.status = "FROZEN" \/ Len(journal[s].attempts) > 0
      PROVE  StepContract(s, most)!Next
  BY <1>8, ContractVerdict DEF StepContract!Next
<1>9. CASE ReadJournal(p)
  <2>1. UNCHANGED <<journal, sent>> /\ run[p].pc = "journal"
    BY <1>9 DEF ReadJournal, At
  <2>2. s \notin {"first", "post"}
    BY <1>1, <2>1, ActorHolds DEF Running
  <2>3. CASE UNCHANGED output
    BY <2>1, <2>3 DEF Untouched
  <2>4. CASE Finalize(s, run[p].code, run[p].key, journal[s])
    BY <1>1, <1>8, <2>1, <2>2, <2>4, FreezeTyped DEF Finalize
  <2>5. CASE ~Fresh(journal[s]) /\ BlockFromJournal(s, run[p].code, run[p].key, journal[s])
    <3>1. Len(journal[s].attempts) > 0
      BY <1>1, <2>2, <2>5, NotFreshIsAttempted
    <3>. QED
      BY <1>1, <1>8, <2>1, <2>2, <2>5, <3>1, BlockedTyped DEF BlockFromJournal
  <2>. QED
    BY <1>1, <1>9, <2>3, <2>4, <2>5 DEF ReadJournal, Raises
<1>10. CASE Settle(p)
  <2>1. UNCHANGED <<journal, sent>> /\ run[p].pc = "noted" /\ Payer(p)
    BY <1>10 DEF Settle, At, Payer, Payers
  <2>2. s # "post" /\ Len(run[p].memory) > 0 /\ Len(journal[s].attempts) = Len(run[p].memory)
    BY <1>1, <2>1, PayerStep DEF PayerHolds, Waits
  <2>3. CASE UNCHANGED output
    BY <2>1, <2>3 DEF Untouched
  <2>4. ASSUME NEW why, NEW n, NEW rs, Write(s, BlockedOf(s, run[p].code, why, n, rs, run[p].key))
        PROVE  StepContract(s, most)!Next
    <3>1. Len(journal[s].attempts) > 0
      BY <2>2
    <3>. QED
      BY <1>1, <1>8, <2>1, <2>2, <2>4, <3>1, BlockedTyped
  <2>5. ASSUME NEW rs, Write(s, FreezeOf(s, run[p].code, rs, run[p].key))
        PROVE  StepContract(s, most)!Next
    BY <1>1, <1>8, <2>1, <2>2, <2>5, FreezeTyped
  <2>. QED
    BY <1>10, <2>3, <2>4, <2>5 DEF Settle
<1>11. CASE SettleProbe(p)
  BY <1>1, <1>11 DEF SettleProbe
<1>12. CASE FreezePost(p)
  <2>1. UNCHANGED <<journal, sent>> /\ run[p].pc = "done" /\ Payer(p)
    BY <1>12 DEF FreezePost, At, Payer, Payers
  <2>2. s = "post"
    BY <2>1, PayerStep DEF PayerHolds
  <2> PICK o : o = PostFreeze(run[p].code, run[p].memory)
    OBVIOUS
  <2>3. o # None /\ o.status = "FROZEN" /\ Write(s, o)
    BY <1>12, <2>2, ArtifactFields DEF FreezePost, PostFreeze
  <2>. QED
    BY <1>8, <2>1, <2>3
<1>. QED
  BY <1>2, <1>3, <1>4, <1>5, <1>6, <1>7, <1>9, <1>10, <1>11, <1>12 DEF Step

(* Every step of the Rebuttal is a step of the contract, or none.          *)
LEMMA ContractStep ==
  ASSUME NEW s \in Announced, NEW most \in Nat, \A a \in RebuttalAnswers : a.cost <= most
  PROVE  RebuttalInv /\ RebuttalPace /\ RebuttalInv' /\ [RebuttalNext]_rebuttalVars
            => [StepContract(s, most)!Next]_(StepContract(s, most)!vars)
<1> SUFFICES ASSUME RebuttalInv, RebuttalPace, RebuttalInv', [RebuttalNext]_rebuttalVars
             PROVE  [StepContract(s, most)!Next]_(StepContract(s, most)!vars)
  OBVIOUS
<1>1. s \in Steps
  BY DEF Announced, Steps
<1>2. SUFFICES StepContract(s, most)!Next \/ Untouched(s)
  BY ContractKept
<1>3. CASE UNCHANGED <<rebuttalFiles, sent>>
  BY <1>3 DEF rebuttalFiles, Untouched
<1>4. CASE Checkout \/ ChangeKey \/ Preflight \/ UNCHANGED rebuttalVars
  BY <1>3, <1>4 DEF Checkout, ChangeKey, Preflight, rebuttalVars
<1>5. ASSUME NEW t \in Steps, DryRun(t) \/ Approve(t) PROVE Untouched(s)
  BY <1>5 DEF DryRun, Approve, rebuttalFiles, Untouched
<1>6. ASSUME NEW t \in Steps, NEW p \in Procs, Start(p, t) PROVE Untouched(s)
  BY <1>6 DEF Start, rebuttalFiles, Untouched
<1>7. ASSUME NEW p \in Procs, Step(p) PROVE StepContract(s, most)!Next \/ Untouched(s)
  BY <1>1, <1>7, OthersUntouched, ContractOwnStep
<1>8. ASSUME NEW p \in Procs, Crash(p) PROVE Untouched(s)
  BY <1>8 DEF Crash, rebuttalFiles, Untouched
<1>. QED
  BY <1>4, <1>5, <1>6, <1>7, <1>8 DEF RebuttalNext

(* Every step of the Rebuttal that announces its calls, the reopened runs  *)
(* and the one after the research was reopened, implements the contract of *)
(* a paid stage: over all its invocations and crashes it makes one pass    *)
(* over the candidates, each call is announced before it is served and     *)
(* served once, none once the ceiling is passed, and the pass ends in at   *)
(* most one verdict, which is never replaced.                              *)
THEOREM RebuttalKeepsContract ==
  ASSUME NEW s \in Announced, NEW most \in Nat, \A a \in RebuttalAnswers : a.cost <= most
  PROVE  RebuttalSpec => StepContract(s, most)!Spec
<1>1. RebuttalInit => StepContract(s, most)!Init
  <2> SUFFICES ASSUME RebuttalInit PROVE StepContract(s, most)!Init
    OBVIOUS
  <2>1. s \in Steps /\ Blank.attempts = <<>>
    BY DEF Announced, Steps, Blank
  <2>2. journal[s] = Blank /\ sent[s] = <<>> /\ output[s] = None
    BY <2>1 DEF RebuttalInit
  <2>3. Charged(s) = 0
    <3>1. <<>> \in Seq(CallRows) /\ Len(<<>>) = 0
      OBVIOUS
    <3>2. ChargedCosts(<<>>) = <<>>
      <4>1. ChargedCosts(<<>>) \in Seq(Nat) /\ Len(ChargedCosts(<<>>)) = 0
        BY <3>1, ChargedCostsSeq
      <4>. QED
        BY <4>1
    <3>3. Charged(s) = Total(ChargedCosts(<<>>))
      BY <2>2 DEF Charged, ChargedCosts
    <3>. QED
      BY <3>2, <3>3, TotalEmpty
  <2>. QED
    BY <2>1, <2>2, <2>3 DEF StepContract!Init, ShownVerdict
<1>. QED
  BY <1>1, ContractStep, RebuttalPaceInv, PTL DEF RebuttalSpec, StepContract!Spec

-----------------------------------------------------------------------------
(***************************************************************************)
(* The first Initial runners. The authorization of a version is created    *)
(* exclusively, so one invocation at most holds it, and it remembers the   *)
(* answers of the calls it made; the receipts are what the version makes   *)
(* of those, all of them passed but the last. Versions pay with different  *)
(* approvals, because what a cost file is of tells which code built it and *)
(* which pricing it has; that two versions never share a call follows.     *)
(***************************************************************************)

(* Where an invocation is; where it holds the version it runs.             *)
RunnerPcs == {"idle", "source", "runtime", "started", "ready", "answered", "blocked", "complete"}
Mine == {"ready", "answered", "blocked", "complete"}

(* What the files of the runners may say.                                  *)
SourceFiles == [builder : {"base"} \cup Repaired, marks : {"none"} \cup Repaired]
RuntimeFiles == [of : SourceFiles, marks : {"none"} \cup Repaired, commit : Commits]
CostFiles == [pricing : {"v1", "v2"}, of : RuntimeFiles]
Authorizations == [of : CostFiles, commit : Commits]
Amounts == {{}} \cup {{n} : n \in Nat}
Receipts == [item : Nat, answer : RunnerAnswers, known : Amounts, pass : BOOLEAN]
CallsMade == [cost : CostFiles, commit : Commits, item : Nat,
              builder : {"base"} \cup Repaired, answer : RunnerAnswers]
Invocations == [pc : RunnerPcs, v : Versions, code : Commits \cup {None},
                cost : CostFiles \cup {None}, answers : Seq(RunnerAnswers)]

RunnerTypes ==
    /\ live \in Live /\ head \in Commits /\ builds \in 0..MaxBuilds /\ crashes \in 0..MaxCrashes
    /\ sourceFile \in SourceFiles \cup {None} /\ runtime \in RuntimeFiles \cup {None}
    /\ cost \in [{"v1", "v2"} -> CostFiles \cup {None}] /\ approval \in CostFiles \cup {None}
    /\ auth \in [Versions -> Authorizations \cup {None}]
    /\ receiptLog \in [Versions -> Seq(Receipts)] /\ calls \in [Versions -> Seq(CallsMade)]
    /\ DOMAIN output = Versions /\ DOMAIN diagnosis = Versions /\ DOMAIN proof = Versions
    /\ output = [v \in Versions |-> output[v]]
    /\ diagnosis = [v \in Versions |-> diagnosis[v]]
    /\ proof = [v \in Versions |-> proof[v]]
    /\ run \in [Procs -> Invocations]

(* A wrapper that is about to mark a file finds it.                        *)
Wrappers ==
    \A p \in Procs :
        /\ run[p].pc = "source" => run[p].v \in Repaired /\ sourceFile # None
        /\ run[p].pc = "runtime" => run[p].v \in Repaired /\ runtime # None

(* The two cost files differ by their pricing.                             *)
Priced == \A f \in {"v1", "v2"} : cost[f] # None => cost[f].pricing = f

(* A cost file that the code of a version may be run on.                   *)
Covers(c, k, v) ==
    k \in CostFiles /\ k.pricing = CostFile(v) /\ k.of.commit = c /\ k.of.of.builder = Builder(v)

(* What the files of a version record of its calls.                        *)
VersionHolds(v) ==
    /\ auth[v] = None => calls[v] = <<>> /\ receiptLog[v] = <<>> /\ output[v] = None
    /\ auth[v] # None => Covers(auth[v].commit, auth[v].of, v)
    /\ \A i \in DOMAIN calls[v] :
          /\ calls[v][i].item = i /\ calls[v][i].cost = auth[v].of
          /\ calls[v][i].commit = auth[v].commit /\ calls[v][i].builder = Builder(v)
    /\ Len(receiptLog[v]) <= Len(calls[v]) /\ Len(calls[v]) <= Len(receiptLog[v]) + 1
    /\ Len(calls[v]) <= N
    /\ \A i \in DOMAIN receiptLog[v] :
          /\ receiptLog[v][i] = CallReceipt(v, i, calls[v][i].answer)
          /\ i < Len(calls[v]) => receiptLog[v][i].pass
    /\ Len(calls[v]) > Len(receiptLog[v]) =>
          output[v] = None
          /\ (crashes > 0 \/ \E p \in Procs : run[p].pc = "answered" /\ run[p].v = v)

(* The verdict of a version is what its receipts say.                      *)
IsBlockedOutput(v) ==
    /\ receiptLog[v] # <<>>
    /\ output[v] = (IF v = "v1" THEN BlockedV1(receiptLog[v]) ELSE BlockedV2(receiptLog[v]))
IsFrozenOutput(v) ==
    /\ Len(receiptLog[v]) = N /\ Spent(receiptLog[v]) <= Ceiling
    /\ \A i \in DOMAIN receiptLog[v] : receiptLog[v][i].pass
    /\ output[v] = Frozen(v, receiptLog[v])
OutputHolds(v) == output[v] = None \/ IsBlockedOutput(v) \/ IsFrozenOutput(v)

(* What an invocation r that holds a version remembers, of its files.      *)
Remembers(r, granted, log, made, verdict) ==
    /\ granted = [of |-> r.cost, commit |-> r.code] /\ verdict = None
    /\ Len(r.answers) = Len(made) /\ \A i \in DOMAIN made : r.answers[i] = made[i].answer
    /\ Len(made) = Len(log) + (IF r.pc = "answered" THEN 1 ELSE 0)
    /\ r.pc = "blocked" => log # <<>>
    /\ r.pc # "blocked" => \A i \in DOMAIN log : log[i].pass
    /\ r.pc = "ready" => Len(made) < N
    /\ r.pc = "complete" => Len(log) = N /\ Spent(log) <= Ceiling
HolderHolds(p) ==
    LET v == run[p].v IN Remembers(run[p], auth[v], receiptLog[v], calls[v], output[v])

(* Of a version that is held there is one holder.                          *)
Holders ==
    /\ \A p \in Procs : run[p].pc \in Mine => HolderHolds(p)
    /\ \A p \in Procs : run[p].pc = "started" => Covers(run[p].code, run[p].cost, run[p].v)
                                                /\ run[p].code \in Commits /\ run[p].answers = <<>>
    /\ \A p, q \in Procs :
          run[p].pc \in Mine /\ run[q].pc \in Mine /\ run[p].v = run[q].v => p = q

(* The record of a version is final: it has a verdict, or a receipt that   *)
(* did not pass.                                                           *)
Final(v) ==
    output[v] # None \/ (receiptLog[v] # <<>> /\ ~receiptLog[v][Len(receiptLog[v])].pass)

(* What is derived from a final record is about its last answer.           *)
DiagnosisHolds(v) ==
    diagnosis[v] # None =>
        /\ output[v] # None /\ diagnosis[v].of = output[v]
        /\ diagnosis[v].replayed \in {output[v].processed, output[v].processed + 1}
        /\ diagnosis[v].gap =>
              /\ Admits(v, Last(calls[v]).answer) /\ Rejects(After[v], Last(calls[v]).answer)
              /\ \A i \in 1..(Len(calls[v]) - 1) : Promotes(calls[v][i].answer)
              /\ output[v].known = Charge(v)
ProofHolds(v) ==
    proof[v] # None =>
        LET u == Predecessor[v]
        IN  /\ Final(u)
            /\ proof[v].receipt.answer = Last(calls[u]).answer
            /\ Rejects(v, Last(calls[u]).answer) /\ Len(receiptLog[u]) = Len(calls[u])

RunnerInv ==
    /\ RunnerTypes /\ Wrappers /\ Priced /\ Holders
    /\ \A v \in Versions : VersionHolds(v) /\ OutputHolds(v)
    /\ \A v \in DOMAIN After : DiagnosisHolds(v)
    /\ \A v \in Repaired : ProofHolds(v)
-----------------------------------------------------------------------------
(* No file is mistaken for a missing one.                                  *)
LEMMA NotNone ==
    /\ None \notin SourceFiles /\ None \notin RuntimeFiles /\ None \notin CostFiles
    /\ None \notin Authorizations
BY DEF None, SourceFiles, RuntimeFiles, CostFiles, Authorizations

(* What a receipt is made of.                                              *)
LEMMA ReceiptType ==
  ASSUME NEW v \in Versions, NEW i \in Nat, NEW a \in RunnerAnswers
  PROVE  /\ CallReceipt(v, i, a) \in Receipts
         /\ CallReceipt(v, i, a).item = i /\ CallReceipt(v, i, a).answer = a
         /\ CallReceipt(v, i, a).pass = Processed(v, a)
         /\ CallReceipt(v, i, a).known = KnownCost(v, a)
<1>1. a.cost \in Nat /\ a.written \in Nat /\ a.written <= a.cost /\ a.received \in BOOLEAN
      /\ a.parsed \in BOOLEAN
  BY RunnerAssumption
<1>2. CostOfV1(a) \in Nat
  BY <1>1 DEF CostOfV1
<1>3. KnownV1(a) \in Amounts /\ KnownV2(a) \in Amounts
  BY <1>1, <1>2 DEF KnownV1, KnownV2, Amounts
<1>4. ProcessV1(a) \in BOOLEAN /\ ProcessV2(a) \in BOOLEAN
  BY DEF ProcessV1, ProcessV2, Promotes
<1>. QED
  BY <1>3, <1>4 DEF CallReceipt, ReceiptV1, ReceiptV2, Receipts, Processed, KnownCost

(* What is known of a call is at most what it is charged; from v0.2 on it  *)
(* is what it is charged, or nothing.                                      *)
LEMMA AmountBound ==
  ASSUME NEW v \in Versions, NEW a \in RunnerAnswers
  PROVE  /\ a.cost \in Nat /\ Amount(KnownCost(v, a)) \in Nat
         /\ Amount(KnownCost(v, a)) <= a.cost
         /\ v # "v1" /\ KnownCost(v, a) # {} => Amount(KnownCost(v, a)) = a.cost /\ Told(v, a)
         /\ Told(v, a) => KnownCost(v, a) = {a.cost} /\ Amount(KnownCost(v, a)) = a.cost
<1>1. a.cost \in Nat /\ a.written \in Nat /\ a.written <= a.cost
  BY RunnerAssumption
<1>2. CostOfV1(a) \in Nat /\ CostOfV1(a) <= a.cost
  BY <1>1 DEF CostOfV1
<1>3. Amount({}) = 0 /\ \A n \in Nat : Amount({n}) = n
  BY DEF Amount
<1>4. KnownCost(v, a) \in {{}, {CostOfV1(a)}, {a.cost}}
      /\ (v # "v1" => KnownCost(v, a) \in {{}, {a.cost}})
  BY DEF KnownCost, KnownV1, KnownV2
<1>8. v # "v1" /\ KnownCost(v, a) # {} => Told(v, a)
  BY DEF KnownCost, KnownV2, Told
<1>9. Told(v, a) => KnownCost(v, a) = {a.cost}
  BY <1>1 DEF KnownCost, KnownV1, KnownV2, CostOfV1, Told
<1>5. CASE KnownCost(v, a) = {}
  BY <1>1, <1>3, <1>5, <1>9
<1>6. CASE v = "v1" /\ KnownCost(v, a) = {CostOfV1(a)}
  BY <1>1, <1>2, <1>3, <1>6, <1>9
<1>7. CASE KnownCost(v, a) = {a.cost}
  BY <1>1, <1>3, <1>7, <1>8, <1>9
<1>. QED
  BY <1>4, <1>5, <1>6, <1>7

(* The initial state.                                                      *)
LEMMA RunnerInitInv == RunnerInit => RunnerInv
<1> SUFFICES ASSUME RunnerInit PROVE RunnerInv
  OBVIOUS
<1> USE RunnerAssumption, StageAssumption DEF RunnerInit
<1>1. RunnerTypes
  <2>1. head \in Commits
    OBVIOUS
  <2>2. IdleRunner \in Invocations
    BY DEF IdleRunner, Invocations, RunnerPcs, Versions
  <2>3. run \in [Procs -> Invocations]
    BY <2>2
  <2>4. calls \in [Versions -> Seq(CallsMade)] /\ receiptLog \in [Versions -> Seq(Receipts)]
    OBVIOUS
  <2>. QED
    BY <2>1, <2>3, <2>4 DEF RunnerTypes
<1>2. \A p \in Procs : run[p].pc = "idle"
  BY DEF IdleRunner
<1>3. Wrappers /\ Priced /\ Holders
  BY <1>2 DEF Wrappers, Priced, Holders, Mine
<1>4. ASSUME NEW v \in Versions PROVE VersionHolds(v) /\ OutputHolds(v)
  BY DEF VersionHolds, OutputHolds
<1>5. \A v \in Versions : diagnosis[v] = None /\ proof[v] = None
  OBVIOUS
<1>6. DOMAIN After \subseteq Versions /\ Repaired \subseteq Versions
  BY DEF After, Versions, Repaired
<1>. QED
  BY <1>1, <1>3, <1>4, <1>5, <1>6 DEF RunnerInv, DiagnosisHolds, ProofHolds

(* A step that leaves the record of every version alone, and in which      *)
(* invocations only go on to check, or give up, what they hold.            *)
LEMMA RunnerFrame ==
  ASSUME RunnerInv, RunnerTypes', Wrappers', Priced',
         UNCHANGED <<auth, receiptLog, calls, output>>, crashes' >= crashes,
         \A p \in Procs :
            \/ run'[p] = run[p]
            \/ /\ run'[p].pc \notin Mine
               /\ run'[p].pc = "started" => Covers(run'[p].code, run'[p].cost, run'[p].v)
                                            /\ run'[p].code \in Commits /\ run'[p].answers = <<>>
               /\ run[p].pc = "answered" => crashes' > 0,
         \A v \in DOMAIN After : DiagnosisHolds(v)',
         \A v \in Repaired : ProofHolds(v)'
  PROVE  RunnerInv'
<1> USE DEF RunnerInv
<1>1. Holders'
  <2>1. ASSUME NEW p \in Procs, run'[p].pc \in Mine PROVE HolderHolds(p)'
    <3>1. run'[p] = run[p] /\ HolderHolds(p)
      BY <2>1 DEF Holders
    <3>. QED
      BY <3>1 DEF HolderHolds
  <2>2. ASSUME NEW p \in Procs, run'[p].pc = "started"
        PROVE  Covers(run'[p].code, run'[p].cost, run'[p].v) /\ run'[p].code \in Commits
               /\ run'[p].answers = <<>>
    BY <2>2 DEF Holders
  <2>3. ASSUME NEW p \in Procs, NEW q \in Procs, run'[p].pc \in Mine, run'[q].pc \in Mine,
               run'[p].v = run'[q].v
        PROVE  p = q
    BY <2>3 DEF Holders
  <2>. QED
    BY <2>1, <2>2, <2>3 DEF Holders, Covers
<1>2. ASSUME NEW v \in Versions PROVE VersionHolds(v)'
  <2>1. ASSUME Len(calls[v]) > Len(receiptLog[v])
        PROVE  crashes' > 0 \/ \E p \in Procs : run'[p].pc = "answered" /\ run'[p].v = v
    <3>1. crashes \in Nat /\ crashes' \in Nat
      BY StageAssumption DEF RunnerTypes
    <3>2. crashes > 0 \/ \E p \in Procs : run[p].pc = "answered" /\ run[p].v = v
      BY <2>1 DEF VersionHolds
    <3>3. CASE crashes > 0
      BY <3>1, <3>3
    <3>4. ASSUME NEW p \in Procs, run[p].pc = "answered", run[p].v = v
          PROVE  crashes' > 0 \/ (run'[p].pc = "answered" /\ run'[p].v = v)
      BY <3>4
    <3>. QED
      BY <3>2, <3>3, <3>4
  <2>2. VersionHolds(v)
    OBVIOUS
  <2>. QED
    BY <2>1, <2>2 DEF VersionHolds, Covers, CallReceipt, ReceiptV1, ReceiptV2
<1>3. ASSUME NEW v \in Versions PROVE OutputHolds(v)'
  <2>1. OutputHolds(v)
    OBVIOUS
  <2>. QED
    BY <2>1 DEF OutputHolds, IsBlockedOutput, IsFrozenOutput, Frozen
<1>. QED
  BY <1>1, <1>2, <1>3

(* What was derived stays derived.                                         *)
LEMMA DerivedFrame ==
  ASSUME RunnerInv, UNCHANGED <<receiptLog, calls, output, derived>>
  PROVE  /\ \A v \in DOMAIN After : DiagnosisHolds(v)'
         /\ \A v \in Repaired : ProofHolds(v)'
<1>1. ASSUME NEW v \in DOMAIN After PROVE DiagnosisHolds(v)'
  <2>1. DiagnosisHolds(v)
    BY DEF RunnerInv
  <2>. QED
    BY <2>1 DEF DiagnosisHolds, derived, Charge
<1>2. ASSUME NEW v \in Repaired PROVE ProofHolds(v)'
  <2>1. ProofHolds(v)
    BY DEF RunnerInv
  <2>. QED
    BY <2>1 DEF ProofHolds, derived, Final
<1>. QED
  BY <1>1, <1>2

(* Entering a wrapper, and leaving it.                                     *)
LEMMA Entered ==
  ASSUME run \in [Procs -> Invocations], NEW p \in Procs, NEW pc \in RunnerPcs, NEW w \in Versions,
         Enter(p, pc, w)
  PROVE  /\ run' \in [Procs -> Invocations] /\ run'[p].pc = pc /\ run'[p].v = w
         /\ run'[p].answers = run[p].answers
         /\ \A q \in Procs : q # p => run'[q] = run[q]
<1> DEFINE r == [run EXCEPT ![p].pc = pc]
<1>1. run' = [r EXCEPT ![p].v = w]
  BY DEF Enter
<1>2. r = [run EXCEPT ![p] = [run[p] EXCEPT !.pc = pc]]
  OBVIOUS
<1>3. r \in [Procs -> Invocations] /\ r[p].pc = pc /\ r[p].answers = run[p].answers
      /\ \A q \in Procs : q # p => r[q] = run[q]
  BY <1>2 DEF Invocations
<1>. HIDE DEF r
<1>. QED
  BY <1>1, <1>3 DEF Invocations

(* The steps before the authorization.                                     *)
LEMMA MoveHeadStep == ASSUME RunnerInv, MoveHead PROVE RunnerInv'
<1> USE DEF MoveHead, runnerFiles, derived, artifacts
<1>1. RunnerTypes' /\ Wrappers' /\ Priced'
  BY DEF RunnerInv, RunnerTypes, Wrappers, Priced
<1>2. crashes' >= crashes
  BY StageAssumption DEF RunnerInv, RunnerTypes
<1>. QED
  BY <1>1, <1>2, RunnerFrame, DerivedFrame

(* A wrapper builds an artifact of the chain.                              *)
LEMMA BuildStep ==
  ASSUME RunnerInv, NEW p \in Procs, NEW v \in Versions,
         BuildSource(p, v) \/ BuildRuntime(p, v) \/ BuildCost(p, v)
  PROVE  RunnerInv'
<1> USE DEF runnerFiles, derived, BuildStarts
<1>1. builds' \in 0..MaxBuilds /\ run[p].pc = "idle" /\ run[p] \in Invocations
  BY RunnerAssumption DEF RunnerInv, RunnerTypes, BuildSource, BuildRuntime, BuildCost
<1>2. Builder(v) \in {"base"} \cup Repaired
  BY DEF Builder, RequestV1, RequestV3, RequestV4, RequestV5, Repaired
<1>6. ASSUME NEW pc \in {"source", "runtime"}, v \in Repaired, Enter(p, pc, v)
      PROVE  /\ run' \in [Procs -> Invocations] /\ run'[p].pc = pc /\ run'[p].v \in Repaired
             /\ \A q \in Procs : q # p => run'[q] = run[q]
  <2>1. pc \in RunnerPcs /\ run \in [Procs -> Invocations]
    BY DEF RunnerPcs, RunnerInv, RunnerTypes
  <2>. QED
    BY <1>6, <2>1, Entered
<1>3. CASE BuildSource(p, v)
  <2>1. sourceFile' \in SourceFiles
    BY <1>2, <1>3 DEF BuildSource, SourceArtifact, SourceFiles
  <2>2. sourceFile' # None
    BY <2>1, NotNone
  <2>3. run' \in [Procs -> Invocations]
    BY <1>3, <1>6 DEF BuildSource, RunnerInv, RunnerTypes
  <2>4. RunnerTypes'
    BY <1>1, <1>3, <2>1, <2>3 DEF BuildSource, RunnerInv, RunnerTypes
  <2>5. Wrappers' /\ Priced'
    BY <1>1, <1>3, <1>6, <2>2 DEF BuildSource, RunnerInv, Wrappers, Priced
  <2>6. \A q \in Procs : run'[q] = run[q] \/ (run'[q].pc = "source" /\ run[q].pc = "idle")
    BY <1>1, <1>3, <1>6 DEF BuildSource
  <2>7. crashes' >= crashes
    BY <1>3, StageAssumption DEF BuildSource, RunnerInv, RunnerTypes
  <2>. QED
    BY <1>3, <2>4, <2>5, <2>6, <2>7, RunnerFrame, DerivedFrame DEF BuildSource, Mine
<1>4. CASE BuildRuntime(p, v)
  <2>1. runtime' \in RuntimeFiles
    BY <1>4, NotNone DEF BuildRuntime, SourceBinds, RuntimePreflight, RuntimeFiles, RunnerInv,
                         RunnerTypes
  <2>2. runtime' # None
    BY <2>1, NotNone
  <2>3. run' \in [Procs -> Invocations]
    BY <1>4, <1>6 DEF BuildRuntime, RunnerInv, RunnerTypes
  <2>4. RunnerTypes'
    BY <1>1, <1>4, <2>1, <2>3 DEF BuildRuntime, RunnerInv, RunnerTypes
  <2>5. Wrappers' /\ Priced'
    BY <1>1, <1>4, <1>6, <2>2 DEF BuildRuntime, RunnerInv, Wrappers, Priced
  <2>6. \A q \in Procs : run'[q] = run[q] \/ (run'[q].pc = "runtime" /\ run[q].pc = "idle")
    BY <1>1, <1>4, <1>6 DEF BuildRuntime
  <2>7. crashes' >= crashes
    BY <1>4, StageAssumption DEF BuildRuntime, RunnerInv, RunnerTypes
  <2>. QED
    BY <1>4, <2>4, <2>5, <2>6, <2>7, RunnerFrame, DerivedFrame DEF BuildRuntime, Mine
<1>5. CASE BuildCost(p, v)
  <2>1. CostV1 \in CostFiles /\ CostV2 \in CostFiles /\ CostV1.pricing = "v1" /\ CostV2.pricing = "v2"
    BY <1>5 DEF BuildCost, CostV1, CostV2, CostFiles, RunnerInv, RunnerTypes
  <2>2. CostFile(v) = IF v = "v1" THEN "v1" ELSE "v2"
    BY DEF CostFile
  <2>3. cost' \in [{"v1", "v2"} -> CostFiles \cup {None}] /\ Priced'
    BY <1>5, <2>1, <2>2 DEF BuildCost, RunnerInv, RunnerTypes, Priced
  <2>4. RunnerTypes' /\ Wrappers'
    BY <1>1, <1>5, <2>3 DEF BuildCost, RunnerInv, RunnerTypes, Wrappers
  <2>5. crashes' >= crashes
    BY <1>5, StageAssumption DEF BuildCost, RunnerInv, RunnerTypes
  <2>. QED
    BY <1>5, <2>3, <2>4, <2>5, RunnerFrame, DerivedFrame DEF BuildCost
<1>. QED
  BY <1>3, <1>4, <1>5

(* A wrapper of a repaired version marks what it has just built.           *)
LEMMA MarkStep ==
  ASSUME RunnerInv, NEW p \in Procs, MarkSource(p) \/ MarkRuntime(p)
  PROVE  RunnerInv'
<1> USE DEF runnerFiles, derived
<1>1. run[p].v \in Repaired /\ run[p] \in Invocations
  BY DEF RunnerInv, RunnerTypes, Wrappers, MarkSource, MarkRuntime
<1>2. run' \in [Procs -> Invocations] /\ (\A q \in Procs : q # p => run'[q] = run[q])
      /\ run'[p].pc = "idle"
  <2>1. Enter(p, "idle", "v1") /\ "idle" \in RunnerPcs /\ "v1" \in Versions
        /\ run \in [Procs -> Invocations]
    BY DEF MarkSource, MarkRuntime, RunnerPcs, Versions, RunnerInv, RunnerTypes
  <2>. QED
    BY <2>1, Entered
<1>3. ASSUME NEW f, f \in SourceFiles \/ f \in RuntimeFiles
      PROVE  /\ f \in SourceFiles => Marks(f, run[p].v) \in SourceFiles
             /\ f \in RuntimeFiles => Marks(f, run[p].v) \in RuntimeFiles
  BY <1>1 DEF Marks, MarksV3, MarksV4, MarksV5, SourceFiles, RuntimeFiles, Repaired
<1>4. CASE MarkSource(p)
  <2>1. sourceFile' \in SourceFiles
    BY <1>3, <1>4 DEF MarkSource, RunnerInv, RunnerTypes, Wrappers
  <2>2. sourceFile' # None
    BY <2>1, NotNone
  <2>3. RunnerTypes'
    BY <1>2, <1>4, <2>1 DEF MarkSource, RunnerInv, RunnerTypes
  <2>4. Wrappers' /\ Priced'
    BY <1>2, <1>4, <2>2 DEF MarkSource, RunnerInv, Wrappers, Priced
  <2>5. crashes' >= crashes
    BY <1>4, StageAssumption DEF MarkSource, RunnerInv, RunnerTypes
  <2>. QED
    BY <1>2, <1>4, <2>3, <2>4, <2>5, RunnerFrame, DerivedFrame DEF MarkSource, Mine
<1>5. CASE MarkRuntime(p)
  <2>1. runtime' \in RuntimeFiles
    BY <1>3, <1>5 DEF MarkRuntime, RunnerInv, RunnerTypes, Wrappers
  <2>2. runtime' # None
    BY <2>1, NotNone
  <2>3. RunnerTypes'
    BY <1>2, <1>5, <2>1 DEF MarkRuntime, RunnerInv, RunnerTypes
  <2>4. Wrappers' /\ Priced'
    BY <1>2, <1>5, <2>2 DEF MarkRuntime, RunnerInv, Wrappers, Priced
  <2>5. crashes' >= crashes
    BY <1>5, StageAssumption DEF MarkRuntime, RunnerInv, RunnerTypes
  <2>. QED
    BY <1>2, <1>5, <2>3, <2>4, <2>5, RunnerFrame, DerivedFrame DEF MarkRuntime, Mine
<1>. QED
  BY <1>4, <1>5

(* The owner approves a cost file.                                         *)
LEMMA ApproveCostStep ==
  ASSUME RunnerInv, NEW v \in Versions, ApproveCost(v)
  PROVE  RunnerInv'
<1> USE DEF ApproveCost, runnerFiles, derived, artifacts
<1>1. CostFile(v) \in {"v1", "v2"}
  BY DEF CostFile
<1>2. RunnerTypes' /\ Wrappers' /\ Priced'
  BY <1>1 DEF RunnerInv, RunnerTypes, Wrappers, Priced
<1>3. crashes' >= crashes
  BY StageAssumption DEF RunnerInv, RunnerTypes
<1>. QED
  BY <1>2, <1>3, RunnerFrame, DerivedFrame

(* A runner starts on a cost file that its code may be run on.             *)
LEMMA StartRunnerStep ==
  ASSUME RunnerInv, NEW p \in Procs, NEW v \in Versions, StartRunner(p, v)
  PROVE  RunnerInv'
<1> USE DEF runnerFiles, derived, artifacts
<1>1. CostFile(v) \in {"v1", "v2"}
  BY DEF CostFile
<1>2. /\ cost[CostFile(v)] \in CostFiles /\ approval = cost[CostFile(v)]
      /\ approval.of = runtime /\ runtime \in RuntimeFiles /\ head = runtime.commit
      /\ runtime.of.builder = Builder(v) /\ approval.pricing = CostFile(v) /\ head \in Commits
  BY <1>1, NotNone DEF StartRunner, CostBinds, Authorized, PlanMatches, RunnerInv, RunnerTypes, Priced
<1>3. /\ run'[p] = [pc |-> "started", v |-> v, code |-> head, cost |-> approval, answers |-> <<>>]
      /\ \A q \in Procs : q # p => run'[q] = run[q]
  BY DEF StartRunner, RunnerInv, RunnerTypes
<1>4. run'[p] \in Invocations
  BY <1>2, <1>3 DEF Invocations, RunnerPcs
<1>5. run' \in [Procs -> Invocations]
  BY <1>4 DEF StartRunner, RunnerInv, RunnerTypes
<1>6. RunnerTypes' /\ Wrappers' /\ Priced'
  BY <1>3, <1>5 DEF StartRunner, RunnerInv, RunnerTypes, Wrappers, Priced
<1>7. Covers(run'[p].code, run'[p].cost, run'[p].v)
  BY <1>2, <1>3 DEF Covers
<1>8. run[p].pc = "idle" /\ run'[p].pc = "started" /\ run'[p].code \in Commits /\ run'[p].answers = <<>>
  BY <1>2, <1>3 DEF StartRunner
<1>9. crashes' >= crashes
  BY StageAssumption DEF StartRunner, RunnerInv, RunnerTypes
<1>. QED
  BY <1>3, <1>6, <1>7, <1>8, <1>9, RunnerFrame, DerivedFrame DEF StartRunner, Mine

(* An invocation gives up, or dies.                                        *)
LEMMA EndRunStep ==
  ASSUME RunnerInv, NEW p \in Procs, NoKey(p) \/ RejectCouncil(p) \/ RunnerCrash(p)
  PROVE  RunnerInv'
<1> USE DEF runnerFiles, derived, artifacts, EndRun
<1>1. /\ run'[p] = IdleRunner /\ IdleRunner.pc = "idle"
      /\ \A q \in Procs : q # p => run'[q] = run[q]
  BY DEF NoKey, RejectCouncil, RunnerCrash, RunnerInv, RunnerTypes, IdleRunner
<1>2. IdleRunner \in Invocations
  BY DEF IdleRunner, Invocations, RunnerPcs, Versions
<1>3. run' \in [Procs -> Invocations]
  BY <1>2 DEF NoKey, RejectCouncil, RunnerCrash, RunnerInv, RunnerTypes
<1>4. crashes \in Nat /\ crashes' \in 0..MaxCrashes /\ crashes' >= crashes
      /\ (run[p].pc = "answered" => crashes' > 0)
  BY StageAssumption DEF NoKey, RejectCouncil, RunnerCrash, RunnerInv, RunnerTypes
<1>5. RunnerTypes' /\ Wrappers' /\ Priced'
  BY <1>1, <1>3, <1>4 DEF NoKey, RejectCouncil, RunnerCrash, RunnerInv, RunnerTypes, Wrappers, Priced
<1>. QED
  BY <1>1, <1>4, <1>5, RunnerFrame, DerivedFrame DEF NoKey, RejectCouncil, RunnerCrash, Mine

(* A step of the invocation that holds a version, or that takes it, writes *)
(* the files of that version only.                                         *)
LEMMA RunnerCore ==
  ASSUME RunnerInv, NEW p \in Procs, NEW v \in Versions, RunnerTypes', run[p].v = v,
         UNCHANGED <<sourceFile, runtime, cost, derived, crashes>>,
         \A q \in Procs : q # p => run'[q] = run[q],
         \A w \in Versions : w # v =>
            /\ auth'[w] = auth[w] /\ receiptLog'[w] = receiptLog[w]
            /\ calls'[w] = calls[w] /\ output'[w] = output[w],
         run[p].pc \in Mine \/ auth[v] = None, output[v] = None,
         run'[p].pc \in Mine \/ run'[p].pc = "idle",
         run'[p].pc \in Mine => run'[p].v = v /\ HolderHolds(p)',
         VersionHolds(v)', OutputHolds(v)',
         \/ receiptLog'[v] = receiptLog[v] /\ calls'[v] = calls[v]
         \/ \A i \in DOMAIN receiptLog[v] : receiptLog[v][i].pass
  PROVE  RunnerInv'
<1> USE DEF RunnerInv
<1>1. Wrappers' /\ Priced'
  BY DEF Wrappers, Priced, Mine
<1>2. ASSUME NEW q \in Procs, q # p, run[q].pc \in Mine PROVE run[q].v # v
  <2>1. CASE run[p].pc \in Mine
    BY <1>2, <2>1 DEF Holders
  <2>2. CASE auth[v] = None
    <3>4. HolderHolds(q)
      BY <1>2 DEF Holders
    <3>1. run[q].v = v => auth[v] = [of |-> run[q].cost, commit |-> run[q].code]
      BY <3>4 DEF HolderHolds, Remembers
    <3>2. run[q].v = v => auth[v].of = run[q].cost /\ DOMAIN auth[v] = {"of", "commit"}
      BY <3>1
    <3>3. DOMAIN None = {"none"}
      BY DEF None
    <3>. QED
      BY <2>2, <3>2, <3>3
  <2>. QED
    BY <2>1, <2>2
<1>3. Holders'
  <2>1. ASSUME NEW q \in Procs, run'[q].pc \in Mine PROVE HolderHolds(q)'
    <3>1. CASE q = p
      BY <2>1, <3>1
    <3>2. CASE q # p
      <4>1. run'[q] = run[q] /\ run[q].v # v /\ run[q].v \in Versions /\ HolderHolds(q)
        BY <1>2, <2>1, <3>2 DEF Holders, RunnerTypes, Invocations
      <4>2. /\ auth'[run[q].v] = auth[run[q].v] /\ receiptLog'[run[q].v] = receiptLog[run[q].v]
            /\ calls'[run[q].v] = calls[run[q].v] /\ output'[run[q].v] = output[run[q].v]
        BY <4>1
      <4>. QED
        BY <4>1, <4>2 DEF HolderHolds
    <3>. QED
      BY <3>1, <3>2
  <2>2. ASSUME NEW q \in Procs, run'[q].pc = "started"
        PROVE  Covers(run'[q].code, run'[q].cost, run'[q].v) /\ run'[q].code \in Commits
               /\ run'[q].answers = <<>>
    <3>1. q # p
      BY <2>2 DEF Mine
    <3>. QED
      BY <2>2, <3>1 DEF Holders
  <2>3. ASSUME NEW q \in Procs, NEW t \in Procs, run'[q].pc \in Mine, run'[t].pc \in Mine,
               run'[q].v = run'[t].v
        PROVE  q = t
    <3>1. CASE q # p /\ t # p
      BY <2>3, <3>1 DEF Holders
    <3>2. CASE q = p /\ t # p
      BY <1>2, <2>3, <3>2
    <3>3. CASE q # p /\ t = p
      BY <1>2, <2>3, <3>3
    <3>. QED
      BY <3>1, <3>2, <3>3
  <2>. QED
    BY <2>1, <2>2, <2>3 DEF Holders, Covers
<1>4. ASSUME NEW w \in Versions PROVE VersionHolds(w)'
  <2>1. CASE w = v
    BY <2>1
  <2>2. CASE w # v
    <3>1. VersionHolds(w)
      OBVIOUS
    <3>2. ASSUME Len(calls[w]) > Len(receiptLog[w])
          PROVE  crashes' > 0 \/ \E q \in Procs : run'[q].pc = "answered" /\ run'[q].v = w
      BY <2>2, <3>1, <3>2 DEF VersionHolds
    <3>. QED
      BY <2>2, <3>1, <3>2 DEF VersionHolds, Covers, CallReceipt, ReceiptV1, ReceiptV2
  <2>. QED
    BY <2>1, <2>2
<1>5. ASSUME NEW w \in Versions PROVE OutputHolds(w)'
  <2>1. OutputHolds(w)
    OBVIOUS
  <2>. QED
    BY <2>1, SMTT(30) DEF OutputHolds, IsBlockedOutput, IsFrozenOutput, Frozen
<1>6. ASSUME NEW w \in DOMAIN After PROVE DiagnosisHolds(w)'
  <2>1. DiagnosisHolds(w) /\ w \in Versions
    BY DEF After, Versions
  <2>2. CASE w = v
    BY <2>1, <2>2 DEF DiagnosisHolds, derived
  <2>3. CASE w # v
    BY <2>1, <2>3 DEF DiagnosisHolds, derived, Charge
  <2>. QED
    BY <2>2, <2>3
<1>7. ASSUME NEW w \in Repaired PROVE ProofHolds(w)'
  <2>1. ProofHolds(w) /\ Predecessor[w] \in Versions
    BY DEF Repaired, Versions, Predecessor
  <2>2. CASE Predecessor[w] = v /\ ~(receiptLog'[v] = receiptLog[v] /\ calls'[v] = calls[v])
    <3>1. receiptLog[v] \in Seq(Receipts)
      BY DEF RunnerTypes
    <3>2. ~Final(v)
      BY <2>2, <3>1 DEF Final
    <3>. QED
      BY <2>1, <2>2, <3>2 DEF ProofHolds, derived
  <2>3. CASE Predecessor[w] = v /\ receiptLog'[v] = receiptLog[v] /\ calls'[v] = calls[v]
    BY <2>1, <2>3 DEF ProofHolds, derived, Final
  <2>4. CASE Predecessor[w] # v
    BY <2>1, <2>4 DEF ProofHolds, derived, Final
  <2>. QED
    BY <2>2, <2>3, <2>4
<1>. QED
  BY <1>1, <1>3, <1>4, <1>5, <1>6, <1>7

(* The authorization is created exclusively: its creator holds the         *)
(* version.                                                                *)
LEMMA CreateAuthorizationStep ==
  ASSUME RunnerInv, NEW p \in Procs, CreateAuthorization(p)
  PROVE  RunnerInv'
<1> USE DEF artifacts, derived
<1>0. PICK v \in Versions : run[p].v = v
  BY DEF RunnerInv, RunnerTypes, Invocations
<1>1. v \in Versions /\ run[p].v = v /\ run \in [Procs -> Invocations] /\ run[p].pc = "started" /\ run[p] \in Invocations
  BY <1>0 DEF CreateAuthorization, RunnerInv, RunnerTypes
<1>2. Covers(run[p].code, run[p].cost, v) /\ run[p].code \in Commits /\ run[p].answers = <<>>
  BY <1>1 DEF RunnerInv, Holders
<1>3. CASE ~Exclusive(v)
  <2>1. /\ run'[p] = IdleRunner /\ IdleRunner.pc = "idle" /\ run' = [run EXCEPT ![p] = IdleRunner]
        /\ \A q \in Procs : q # p => run'[q] = run[q]
    BY <1>1, <1>3 DEF CreateAuthorization, EndRun, IdleRunner
  <2>2. IdleRunner \in Invocations
    BY DEF IdleRunner, Invocations, RunnerPcs, Versions
  <2>3. run' \in [Procs -> Invocations]
    BY <1>1, <2>1, <2>2
  <2>4. RunnerTypes' /\ Wrappers' /\ Priced'
    BY <1>1, <1>3, <2>1, <2>3 DEF CreateAuthorization, RunnerInv, RunnerTypes, Wrappers, Priced
  <2>5. crashes' >= crashes
    BY StageAssumption DEF CreateAuthorization, RunnerInv, RunnerTypes
  <2>. QED
    BY <1>1, <1>3, <2>1, <2>4, <2>5, RunnerFrame, DerivedFrame DEF CreateAuthorization, Mine
<1>4. CASE Exclusive(v)
  <2> DEFINE a == [of |-> run[p].cost, commit |-> run[p].code]
  <2>1. a \in Authorizations /\ a # None
    BY <1>2, NotNone DEF Authorizations, Covers
  <2>2. /\ auth' = [auth EXCEPT ![v] = a] /\ auth[v] = None
        /\ run' = [run EXCEPT ![p].pc = "ready"]
    BY <1>1, <1>4 DEF CreateAuthorization, Exclusive, Goto
  <2>3. /\ run' \in [Procs -> Invocations] /\ run'[p].pc = "ready" /\ run'[p].v = v
        /\ run'[p].answers = <<>> /\ run'[p].cost = run[p].cost /\ run'[p].code = run[p].code
        /\ \A q \in Procs : q # p => run'[q] = run[q]
    BY <1>1, <1>2, <2>2 DEF Invocations, RunnerPcs
  <2>4. auth' \in [Versions -> Authorizations \cup {None}] /\ auth'[v] = a
        /\ \A w \in Versions : w # v => auth'[w] = auth[w]
    BY <1>1, <2>1, <2>2 DEF RunnerInv, RunnerTypes
  <2>5. RunnerTypes'
    BY <2>3, <2>4 DEF CreateAuthorization, RunnerInv, RunnerTypes
  <2>6. calls[v] = <<>> /\ receiptLog[v] = <<>> /\ output[v] = None
        /\ calls'[v] = <<>> /\ receiptLog'[v] = <<>> /\ output'[v] = None
    BY <1>1, <2>2 DEF RunnerInv, VersionHolds, CreateAuthorization
  <2>7. HolderHolds(p)'
    BY <2>3, <2>4, <2>6, RunnerAssumption DEF HolderHolds, Remembers
  <2>8. VersionHolds(v)'
    BY <1>2, <2>1, <2>4, <2>6, RunnerAssumption DEF VersionHolds, Covers
  <2>9. OutputHolds(v)'
    BY <2>6 DEF OutputHolds
  <2>. HIDE DEF a
  <2>10. /\ UNCHANGED <<sourceFile, runtime, cost, derived, crashes, receiptLog, calls, output>>
         /\ run'[p].pc \in Mine
    BY <2>3 DEF CreateAuthorization, Mine
  <2>. QED
    BY <1>1, <2>2, <2>3, <2>4, <2>5, <2>6, <2>7, <2>8, <2>9, <2>10, RunnerCore
<1>. QED
  BY <1>3, <1>4

(* The call: the provider receives the next request of the council.        *)
LEMMA CallStep ==
  ASSUME RunnerInv, NEW p \in Procs, Call(p)
  PROVE  RunnerInv'
<1> USE DEF artifacts, derived, runnerFiles
<1>0. PICK v \in Versions : run[p].v = v
  BY DEF RunnerInv, RunnerTypes, Invocations
<1>1. /\ run \in [Procs -> Invocations] /\ run[p].v = v /\ run[p].pc = "ready"
      /\ run[p] \in Invocations /\ run[p].answers \in Seq(RunnerAnswers)
      /\ calls[v] \in Seq(CallsMade) /\ receiptLog[v] \in Seq(Receipts)
      /\ auth[v] \in Authorizations \cup {None} /\ VersionHolds(v)
  BY <1>0 DEF Call, RunnerInv, RunnerTypes, Invocations
<1>2. Remembers(run[p], auth[v], receiptLog[v], calls[v], output[v])
  BY <1>1 DEF RunnerInv, Holders, HolderHolds, Mine
<1>3. /\ auth[v] = [of |-> run[p].cost, commit |-> run[p].code] /\ output[v] = None
      /\ Len(run[p].answers) = Len(calls[v]) /\ Len(calls[v]) = Len(receiptLog[v])
      /\ Len(calls[v]) < N
      /\ \A i \in DOMAIN calls[v] : run[p].answers[i] = calls[v][i].answer
      /\ \A i \in DOMAIN receiptLog[v] : receiptLog[v][i].pass
  BY <1>1, <1>2 DEF Remembers
<1>4. auth[v] # None /\ auth[v] \in Authorizations
  <2>1. DOMAIN auth[v] = {"of", "commit"} /\ DOMAIN None = {"none"}
    BY <1>3 DEF None
  <2>. QED
    BY <1>1, <2>1
<1>5. Covers(run[p].code, run[p].cost, v) /\ auth[v].of = run[p].cost /\ auth[v].commit = run[p].code
      /\ run[p].cost \in CostFiles /\ run[p].code \in Commits
  BY <1>1, <1>3, <1>4 DEF VersionHolds, Authorizations
<1>6. PICK a \in RunnerAnswers :
        /\ calls' = [calls EXCEPT ![run[p].v] = Append(@,
              [cost |-> run[p].cost, commit |-> run[p].code, item |-> Len(run[p].answers) + 1,
               builder |-> Builder(run[p].v), answer |-> a])]
        /\ run' = [run EXCEPT ![p].pc = "answered", ![p].answers = Append(@, a)]
  BY DEF Call
<1> DEFINE m == Len(calls[v]) + 1
           c == [cost |-> run[p].cost, commit |-> run[p].code, item |-> m,
                 builder |-> Builder(v), answer |-> a]
<1>7. Builder(v) \in {"base"} \cup Repaired
  BY DEF Builder, RequestV1, RequestV3, RequestV4, RequestV5, Repaired
<1>8. c \in CallsMade
  BY <1>1, <1>5, <1>7 DEF CallsMade
<1>9. /\ calls' = [calls EXCEPT ![v] = Append(calls[v], c)]
      /\ calls'[v] = Append(calls[v], c) /\ calls' \in [Versions -> Seq(CallsMade)]
      /\ \A w \in Versions : w # v => calls'[w] = calls[w]
  <2>1. calls' = [calls EXCEPT ![v] = Append(calls[v], c)] /\ calls \in [Versions -> Seq(CallsMade)]
    BY <1>1, <1>3, <1>6 DEF RunnerInv, RunnerTypes
  <2>. HIDE DEF c
  <2>2. Append(calls[v], c) \in Seq(CallsMade)
    BY <1>1, <1>8
  <2>. QED
    BY <2>1, <2>2
<1>10. /\ run' \in [Procs -> Invocations] /\ run'[p].pc = "answered" /\ run'[p].v = v
       /\ run'[p].cost = run[p].cost /\ run'[p].code = run[p].code
       /\ run'[p].answers = Append(run[p].answers, a)
       /\ \A q \in Procs : q # p => run'[q] = run[q]
  <2> DEFINE r == [run EXCEPT ![p].pc = "answered"]
  <2>1. run' = [r EXCEPT ![p].answers = Append(@, a)]
    BY <1>6
  <2>2. r = [run EXCEPT ![p] = [run[p] EXCEPT !.pc = "answered"]]
    OBVIOUS
  <2>3. r \in [Procs -> Invocations] /\ r[p].pc = "answered" /\ r[p].v = v
        /\ r[p].answers = run[p].answers /\ r[p].cost = run[p].cost /\ r[p].code = run[p].code
        /\ \A q \in Procs : q # p => r[q] = run[q]
    BY <1>1, <2>2 DEF Invocations, RunnerPcs
  <2>4. Append(r[p].answers, a) \in Seq(RunnerAnswers)
    BY <1>1, <2>3
  <2>. HIDE DEF r
  <2>. QED
    BY <2>1, <2>3, <2>4 DEF Invocations
<1>. HIDE DEF c
<1>11. /\ m \in Nat /\ Len(calls'[v]) = m /\ calls'[v][m] = c /\ DOMAIN calls'[v] = 1..m
       /\ c.item = m /\ c.cost = run[p].cost /\ c.commit = run[p].code /\ c.builder = Builder(v)
       /\ c.answer = a
       /\ \A i \in 1..Len(calls[v]) : calls'[v][i] = calls[v][i]
       /\ \A i \in 1..m : i # m => i \in DOMAIN calls[v]
  BY <1>1, <1>8, <1>9 DEF c
<1>12. RunnerTypes'
  BY <1>9, <1>10 DEF Call, RunnerInv, RunnerTypes
<1>13. UNCHANGED <<sourceFile, runtime, cost, derived, crashes, auth, receiptLog, output>>
  BY DEF Call
<1>14. Remembers(run'[p], auth[v], receiptLog[v], calls'[v], output[v])
  <2>1. Len(run'[p].answers) = m
    BY <1>1, <1>3, <1>10
  <2>2. ASSUME NEW i \in 1..m PROVE run'[p].answers[i] = calls'[v][i].answer
    BY <1>1, <1>3, <1>10, <1>11, SMTT(30)
  <2>. QED
    BY <1>1, <1>3, <1>10, <1>11, <2>1, <2>2 DEF Remembers
<1>15. HolderHolds(p)'
  BY <1>10, <1>13, <1>14 DEF HolderHolds
<1>16. VersionHolds(v)'
  <2>1. ASSUME NEW i \in DOMAIN calls'[v]
        PROVE  /\ calls'[v][i].item = i /\ calls'[v][i].cost = auth[v].of
               /\ calls'[v][i].commit = auth[v].commit /\ calls'[v][i].builder = Builder(v)
    BY <1>1, <1>5, <1>11, <2>1 DEF VersionHolds
  <2>2. ASSUME NEW i \in DOMAIN receiptLog[v]
        PROVE  /\ receiptLog[v][i] = CallReceipt(v, i, calls'[v][i].answer)
               /\ receiptLog[v][i].pass
    BY <1>1, <1>3, <1>11, <2>2 DEF VersionHolds
  <2>3. Len(receiptLog[v]) + 1 = m /\ m <= N
    BY <1>1, <1>3, RunnerAssumption
  <2>. QED
    BY <1>1, <1>3, <1>4, <1>5, <1>10, <1>11, <1>13, <2>1, <2>2, <2>3 DEF VersionHolds
<1>17. OutputHolds(v)'
  BY <1>3, <1>13 DEF OutputHolds
<1>. QED
  BY <1>1, <1>3, <1>9, <1>10, <1>12, <1>13, <1>15, <1>16, <1>17, RunnerCore DEF Mine

(* The receipt: it is what the version makes of the answer, and ends the   *)
(* run unless it passes.                                                   *)
LEMMA AppendCallReceiptStep ==
  ASSUME RunnerInv, NEW p \in Procs, AppendCallReceipt(p)
  PROVE  RunnerInv'
<1> USE DEF artifacts, derived, runnerFiles
<1>0. PICK v \in Versions : run[p].v = v
  BY DEF RunnerInv, RunnerTypes, Invocations
<1>1. /\ run \in [Procs -> Invocations] /\ run[p].v = v /\ run[p].pc = "answered"
      /\ run[p] \in Invocations /\ run[p].answers \in Seq(RunnerAnswers)
      /\ calls[v] \in Seq(CallsMade) /\ receiptLog[v] \in Seq(Receipts) /\ VersionHolds(v)
  BY <1>0 DEF AppendCallReceipt, RunnerInv, RunnerTypes, Invocations
<1>2. Remembers(run[p], auth[v], receiptLog[v], calls[v], output[v])
  BY <1>1 DEF RunnerInv, Holders, HolderHolds, Mine
<1> DEFINE m == Len(calls[v])
<1>3. /\ auth[v] = [of |-> run[p].cost, commit |-> run[p].code] /\ output[v] = None
      /\ Len(run[p].answers) = m /\ m = Len(receiptLog[v]) + 1 /\ m \in Nat /\ m <= N
      /\ \A i \in 1..m : run[p].answers[i] = calls[v][i].answer
      /\ \A i \in DOMAIN receiptLog[v] : receiptLog[v][i].pass
  BY <1>1, <1>2 DEF Remembers, VersionHolds
<1> DEFINE a == calls[v][m].answer
           c == CallReceipt(v, m, a)
           log == Append(receiptLog[v], c)
           pc == IF Spent(log) > Ceiling \/ ~Last(log).pass THEN "blocked"
                 ELSE IF m = N THEN "complete" ELSE "ready"
<1>4. a \in RunnerAnswers /\ Last(run[p].answers) = a
  BY <1>1, <1>3 DEF CallsMade, Last
<1>5. c \in Receipts
  BY <1>3, <1>4, ReceiptType
<1>6. receiptLog' = [receiptLog EXCEPT ![v] = log] /\ run' = [run EXCEPT ![p].pc = pc]
  BY <1>1, <1>3, <1>4 DEF AppendCallReceipt, Goto
<1>7. pc \in {"blocked", "complete", "ready"}
  OBVIOUS
<1>8. /\ (pc = "complete" => Spent(log) <= Ceiling /\ m = N)
      /\ (pc = "ready" => m < N) /\ (pc # "blocked" => Last(log).pass)
  <2>1. Spent(log) \in Nat
    <3>1. \A i \in DOMAIN log : Amount(log[i].known) \in Nat
      <4>1. log \in Seq(Receipts)
        BY <1>1, <1>5
      <4>2. \A k \in Amounts : Amount(k) \in Nat
        BY DEF Amounts, Amount
      <4>. HIDE DEF log
      <4>3. \A i \in DOMAIN log : log[i] \in Receipts
        BY <4>1
      <4>4. \A x \in Receipts : x.known \in Amounts
        BY DEF Receipts
      <4>. QED
        BY <4>2, <4>3, <4>4
    <3>2. [i \in DOMAIN log |-> Amount(log[i].known)] \in Seq(Nat)
      BY <1>1, <1>3, <3>1
    <3>. QED
      BY <3>2, TotalNat DEF Spent
  <2>. HIDE DEF log
  <2>. QED
    BY <1>3, <2>1, StageAssumption, RunnerAssumption
<1>. HIDE DEF pc
<1>9. /\ run' \in [Procs -> Invocations] /\ run'[p].pc = pc /\ run'[p].v = v
      /\ run'[p].cost = run[p].cost /\ run'[p].code = run[p].code
      /\ run'[p].answers = run[p].answers
      /\ \A q \in Procs : q # p => run'[q] = run[q]
  BY <1>1, <1>6, <1>7 DEF Invocations, RunnerPcs
<1>10. /\ log \in Seq(Receipts) /\ Len(log) = m /\ DOMAIN log = 1..m
       /\ Last(log) = c /\ log[m] = c
       /\ \A i \in 1..m : i # m => i \in DOMAIN receiptLog[v] /\ log[i] = receiptLog[v][i]
  BY <1>1, <1>3, <1>5 DEF Last
<1>11. /\ receiptLog' \in [Versions -> Seq(Receipts)] /\ receiptLog'[v] = log
       /\ \A w \in Versions : w # v => receiptLog'[w] = receiptLog[w]
  BY <1>6, <1>10 DEF RunnerInv, RunnerTypes
<1>12. RunnerTypes'
  BY <1>9, <1>11 DEF AppendCallReceipt, RunnerInv, RunnerTypes
<1>13. UNCHANGED <<sourceFile, runtime, cost, derived, crashes, auth, calls, output>>
  BY DEF AppendCallReceipt
<1>. HIDE DEF log, c
<1>14. Remembers(run'[p], auth[v], log, calls[v], output[v])
  <2>1. pc # "blocked" => \A i \in DOMAIN log : log[i].pass
    BY <1>3, <1>8, <1>10
  <2>2. log # <<>>
    BY <1>3, <1>10
  <2>3. Len(calls[v]) = Len(log) + (IF pc = "answered" THEN 1 ELSE 0)
    <3>1. pc # "answered"
      BY <1>7
    <3>2. (IF pc = "answered" THEN 1 ELSE 0) = 0
      BY <3>1
    <3>3. m + 0 = m
      BY <1>3
    <3>. QED
      BY <1>10, <3>2, <3>3
  <2>4. Len(run'[p].answers) = Len(calls[v])
        /\ \A i \in DOMAIN calls[v] : run'[p].answers[i] = calls[v][i].answer
    BY <1>1, <1>3, <1>9
  <2>5. (pc = "ready" => Len(calls[v]) < N)
        /\ (pc = "complete" => Len(log) = N /\ Spent(log) <= Ceiling)
    BY <1>8, <1>10
  <2>6. auth[v] = [of |-> run'[p].cost, commit |-> run'[p].code] /\ output[v] = None
    BY <1>3, <1>9
  <2>. QED
    BY <1>9, <2>1, <2>2, <2>3, <2>4, <2>5, <2>6 DEF Remembers
<1>15. HolderHolds(p)'
  BY <1>9, <1>11, <1>13, <1>14 DEF HolderHolds
<1>16. VersionHolds(v)'
  <2>1. ASSUME NEW i \in DOMAIN log
        PROVE  /\ log[i] = CallReceipt(v, i, calls[v][i].answer)
               /\ i < Len(calls[v]) => log[i].pass
    <3>1. CASE i = m
      BY <1>3, <1>10, <3>1 DEF c
    <3>2. CASE i # m
      BY <1>1, <1>3, <1>10, <2>1, <3>2 DEF VersionHolds
    <3>. QED
      BY <3>1, <3>2
  <2>2. m > 0 /\ calls[v] # <<>> /\ auth[v] # None
    BY <1>1, <1>3 DEF VersionHolds
  <2>. QED
    BY <1>1, <1>3, <1>10, <1>11, <1>13, <2>1, <2>2 DEF VersionHolds, Covers
<1>17. OutputHolds(v)'
  BY <1>3, <1>13 DEF OutputHolds
<1>. QED
  BY <1>1, <1>3, <1>7, <1>9, <1>11, <1>12, <1>13, <1>15, <1>16, <1>17, RunnerCore DEF Mine

(* The verdict of a run: what a blocked one says, what a frozen one says.  *)
LEMMA BlockedFields ==
  ASSUME NEW log \in Seq(Receipts), NEW b, b = BlockedV1(log) \/ b = BlockedV2(log)
  PROVE  /\ b.status = "BLOCKED" /\ b.processed = Len(log) - 1
         /\ b.known = Spent(log) /\ b.attempts = Len(log)
         /\ b.reason = Reason(log) /\ b # None
         /\ b.calls = Cardinality({i \in DOMAIN log : log[i].answer.received})
         /\ b.complete => Last(log).answer.received
<1>1. CASE b = BlockedV1(log)
  BY <1>1 DEF BlockedV1, None
<1>2. CASE b = BlockedV2(log)
  <2>1. LET c == BlockedV1(log)
        IN  /\ c.status = "BLOCKED" /\ c.processed = Len(log) - 1
            /\ c.known = Spent(log) /\ c.attempts = Len(log) /\ c.reason = Reason(log)
            /\ c.calls = Cardinality({i \in DOMAIN log : log[i].answer.received})
            /\ c.complete = Last(log).answer.received
    BY DEF BlockedV1
  <2>2. /\ b.status = BlockedV1(log).status /\ b.processed = BlockedV1(log).processed
        /\ b.known = BlockedV1(log).known /\ b.attempts = BlockedV1(log).attempts
        /\ b.reason = BlockedV1(log).reason /\ b.calls = BlockedV1(log).calls
        /\ b.complete => BlockedV1(log).complete
    BY <1>2 DEF BlockedV1, BlockedV2
  <2>3. b # None
    BY <1>2 DEF BlockedV1, BlockedV2, None
  <2>. QED
    BY <2>1, <2>2, <2>3
<1>. QED
  BY <1>1, <1>2

(* ... and what the blocked output of a version says of its receipts.      *)
LEMMA BlockedOutput ==
  ASSUME NEW v \in Versions, receiptLog[v] \in Seq(Receipts), IsBlockedOutput(v)
  PROVE  LET log == receiptLog[v]
         IN  /\ output[v].status = "BLOCKED" /\ output[v].processed = Len(log) - 1
             /\ output[v].known = Spent(log) /\ output[v].attempts = Len(log)
             /\ output[v].reason = Reason(log) /\ output[v] # None
             /\ output[v].calls = Cardinality({i \in DOMAIN log : log[i].answer.received})
             /\ output[v].complete => Last(log).answer.received
<1>1. output[v] = BlockedV1(receiptLog[v]) \/ output[v] = BlockedV2(receiptLog[v])
  BY DEF IsBlockedOutput
<1>2. PICK log \in Seq(Receipts) : log = receiptLog[v]
  OBVIOUS
<1>3. PICK b : b = output[v]
  OBVIOUS
<1>4. b = BlockedV1(log) \/ b = BlockedV2(log)
  BY <1>1, <1>2, <1>3
<1>5. /\ b.status = "BLOCKED" /\ b.processed = Len(log) - 1
      /\ b.known = Spent(log) /\ b.attempts = Len(log)
      /\ b.reason = Reason(log) /\ b # None
      /\ b.calls = Cardinality({i \in DOMAIN log : log[i].answer.received})
      /\ b.complete => Last(log).answer.received
  BY <1>4, BlockedFields
<1>. QED
  BY <1>2, <1>3, <1>5

(* What a frozen council says of its cost.                                 *)
LEMMA FrozenFields ==
  ASSUME NEW v \in Versions, NEW log
  PROVE  /\ Frozen(v, log).status = "FROZEN" /\ Frozen(v, log).known = Spent(log)
         /\ Frozen(v, log) # None
BY DEF Frozen, None

(* The verdict of a run is written, by the invocation that holds it.       *)
LEMMA VerdictStep ==
  ASSUME RunnerInv, NEW p \in Procs, Block(p) \/ FreezeCouncil(p)
  PROVE  RunnerInv'
<1> USE DEF artifacts, derived, runnerFiles
<1>0. PICK v \in Versions : run[p].v = v
  BY DEF RunnerInv, RunnerTypes, Invocations
<1>1. /\ run \in [Procs -> Invocations] /\ run[p].v = v /\ run[p].pc \in {"blocked", "complete"}
      /\ receiptLog[v] \in Seq(Receipts) /\ calls[v] \in Seq(CallsMade) /\ VersionHolds(v)
  BY <1>0 DEF Block, FreezeCouncil, RunnerInv, RunnerTypes
<1>2. Remembers(run[p], auth[v], receiptLog[v], calls[v], output[v])
  BY <1>1 DEF RunnerInv, Holders, HolderHolds, Mine
<1>3. /\ auth[v] = [of |-> run[p].cost, commit |-> run[p].code] /\ output[v] = None
      /\ Len(calls[v]) = Len(receiptLog[v])
  <2>1. run[p].pc # "answered" /\ Len(receiptLog[v]) \in Nat
    BY <1>1
  <2>. QED
    BY <1>2, <2>1 DEF Remembers
<1>4. /\ run'[p].pc = "idle" /\ run' = [run EXCEPT ![p] = IdleRunner]
      /\ \A q \in Procs : q # p => run'[q] = run[q]
  BY <1>1 DEF Block, FreezeCouncil, EndRun, IdleRunner
<1>5. IdleRunner \in Invocations
  BY DEF IdleRunner, Invocations, RunnerPcs, Versions
<1>6. UNCHANGED <<sourceFile, runtime, cost, derived, crashes, auth, calls, receiptLog>>
  BY DEF Block, FreezeCouncil
<1> DEFINE o == IF run[p].pc = "complete" THEN Frozen(v, receiptLog[v])
                ELSE IF v = "v1" THEN BlockedV1(receiptLog[v]) ELSE BlockedV2(receiptLog[v])
<1>7. output' = [output EXCEPT ![v] = o]
  <2>1. CASE Block(p)
    <3>1. run[p].pc # "complete"
      BY <2>1 DEF Block
    <3>2. output' = [output EXCEPT ![v] = IF v = "v1" THEN BlockedV1(receiptLog[v])
                                          ELSE BlockedV2(receiptLog[v])]
      BY <1>1, <2>1 DEF Block
    <3>. QED
      BY <3>1, <3>2
  <2>2. CASE FreezeCouncil(p)
    BY <1>1, <2>2 DEF FreezeCouncil
  <2>. QED
    BY <2>1, <2>2
<1>8. /\ DOMAIN output' = Versions /\ output' = [w \in Versions |-> output'[w]]
      /\ output'[v] = o /\ \A w \in Versions : w # v => output'[w] = output[w]
  BY <1>7 DEF RunnerInv, RunnerTypes
<1>9. RunnerTypes'
  BY <1>1, <1>4, <1>5, <1>6, <1>8 DEF Block, FreezeCouncil, RunnerInv, RunnerTypes
<1>10. OutputHolds(v)'
  <2>1. CASE run[p].pc = "blocked"
    <3>1. receiptLog[v] # <<>>
      BY <1>2, <2>1 DEF Remembers
    <3>2. o = (IF v = "v1" THEN BlockedV1(receiptLog[v]) ELSE BlockedV2(receiptLog[v]))
      BY <1>7, <2>1
    <3>3. IsBlockedOutput(v)'
      BY <1>6, <1>8, <3>1, <3>2 DEF IsBlockedOutput
    <3>. QED
      BY <3>3 DEF OutputHolds
  <2>2. CASE run[p].pc = "complete"
    <3>1. /\ Len(receiptLog[v]) = N /\ Spent(receiptLog[v]) <= Ceiling
          /\ \A i \in DOMAIN receiptLog[v] : receiptLog[v][i].pass
      BY <1>2, <2>2 DEF Remembers
    <3>2. o = Frozen(v, receiptLog[v])
      BY <1>7, <2>2
    <3>3. IsFrozenOutput(v)'
      BY <1>6, <1>8, <3>1, <3>2 DEF IsFrozenOutput, Frozen
    <3>. QED
      BY <3>3 DEF OutputHolds
  <2>. QED
    BY <1>1, <2>1, <2>2
<1>11. VersionHolds(v)'
  <2>1. auth[v] # None
    <3>1. DOMAIN auth[v] = {"of", "commit"} /\ DOMAIN None = {"none"}
      BY <1>3 DEF None
    <3>. QED
      BY <3>1
  <2>. QED
    BY <1>1, <1>3, <1>6, <2>1 DEF VersionHolds, Covers
<1>. QED
  BY <1>1, <1>3, <1>4, <1>6, <1>8, <1>9, <1>10, <1>11, RunnerCore DEF Mine

(* A version with a verdict has a receipt of each call, and all but the    *)
(* last passed; what a blocked one says follows from its receipts.         *)
LEMMA Recorded ==
  ASSUME RunnerInv, NEW v \in Versions, Final(v)
  PROVE  /\ Len(receiptLog[v]) = Len(calls[v]) /\ receiptLog[v] # <<>> /\ calls[v] # <<>>
         /\ receiptLog[v] \in Seq(Receipts) /\ calls[v] \in Seq(CallsMade)
         /\ \A i \in DOMAIN calls[v] :
               /\ receiptLog[v][i] = CallReceipt(v, i, calls[v][i].answer)
               /\ receiptLog[v][i].answer = calls[v][i].answer
               /\ receiptLog[v][i].known = KnownCost(v, calls[v][i].answer)
               /\ receiptLog[v][i].pass = Processed(v, calls[v][i].answer)
               /\ calls[v][i].answer \in RunnerAnswers
               /\ i < Len(calls[v]) =>
                     Processed(v, calls[v][i].answer) /\ Promotes(calls[v][i].answer)
<1>1. VersionHolds(v) /\ OutputHolds(v) /\ receiptLog[v] \in Seq(Receipts) /\ calls[v] \in Seq(CallsMade)
  BY DEF RunnerInv, RunnerTypes
<1>2. Len(receiptLog[v]) = Len(calls[v])
  <2>1. ASSUME Len(receiptLog[v]) < Len(calls[v]) PROVE FALSE
    <3>1. output[v] = None
      BY <1>1, <2>1 DEF VersionHolds
    <3>2. receiptLog[v] # <<>> /\ ~receiptLog[v][Len(receiptLog[v])].pass
      BY <3>1 DEF Final
    <3>. QED
      BY <1>1, <2>1, <3>2 DEF VersionHolds
  <2>2. Len(receiptLog[v]) <= Len(calls[v]) /\ Len(receiptLog[v]) \in Nat /\ Len(calls[v]) \in Nat
    BY <1>1 DEF VersionHolds
  <2>. QED
    BY <2>1, <2>2
<1>3. receiptLog[v] # <<>>
  <2>1. CASE output[v] = None
    BY <2>1 DEF Final
  <2>2. CASE output[v] # None
    BY <1>1, <2>2, RunnerAssumption DEF OutputHolds, IsBlockedOutput, IsFrozenOutput
  <2>. QED
    BY <2>1, <2>2
<1>4. \A i \in DOMAIN calls[v] : i \in Nat /\ calls[v][i].answer \in RunnerAnswers
                                /\ i \in DOMAIN receiptLog[v]
  <2>1. \A i \in DOMAIN calls[v] : i \in Nat /\ calls[v][i] \in CallsMade /\ i \in DOMAIN receiptLog[v]
    BY <1>1, <1>2
  <2>2. \A c \in CallsMade : c.answer \in RunnerAnswers
    BY DEF CallsMade
  <2>. QED
    BY <2>1, <2>2
<1>5. \A i \in DOMAIN calls[v] :
        /\ receiptLog[v][i] = CallReceipt(v, i, calls[v][i].answer)
        /\ i < Len(calls[v]) => receiptLog[v][i].pass
  BY <1>1, <1>4 DEF VersionHolds
<1>6. \A a \in RunnerAnswers : Processed(v, a) => Promotes(a)
  BY DEF Processed, ProcessV1, ProcessV2
<1>7. calls[v] # <<>>
  BY <1>1, <1>2, <1>3
<1>8. ASSUME NEW i \in DOMAIN calls[v]
      PROVE  /\ receiptLog[v][i].answer = calls[v][i].answer
             /\ receiptLog[v][i].known = KnownCost(v, calls[v][i].answer)
             /\ receiptLog[v][i].pass = Processed(v, calls[v][i].answer)
  <2>1. i \in Nat /\ calls[v][i].answer \in RunnerAnswers
    BY <1>4
  <2>. QED
    BY <1>5, <2>1, ReceiptType
<1>. QED
  BY <1>1, <1>2, <1>3, <1>4, <1>5, <1>6, <1>7, <1>8

(* What the receipts of a version add up to is at most what it is charged, *)
(* and it is that when every answer tells its cost, or from v0.2 on when   *)
(* every receipt knows one.                                                *)
LEMMA SpentBound ==
  ASSUME RunnerInv, NEW v \in Versions, Final(v)
  PROVE  /\ Spent(receiptLog[v]) <= Charge(v)
         /\ (\A i \in DOMAIN calls[v] : Told(v, calls[v][i].answer)) => Spent(receiptLog[v]) = Charge(v)
         /\ v # "v1" /\ (\A i \in DOMAIN receiptLog[v] : receiptLog[v][i].known # {})
               => Spent(receiptLog[v]) = Charge(v)
<1> DEFINE s == [i \in DOMAIN receiptLog[v] |-> Amount(receiptLog[v][i].known)]
           t == [i \in DOMAIN calls[v] |-> calls[v][i].answer.cost]
<1>1. Len(receiptLog[v]) = Len(calls[v]) /\ receiptLog[v] \in Seq(Receipts) /\ calls[v] \in Seq(CallsMade)
  BY Recorded
<1>2. DOMAIN receiptLog[v] = 1..Len(calls[v]) /\ DOMAIN calls[v] = 1..Len(calls[v])
      /\ Len(calls[v]) \in Nat
  BY <1>1
<1>3. ASSUME NEW i \in DOMAIN calls[v]
      PROVE  /\ Amount(receiptLog[v][i].known) \in Nat /\ calls[v][i].answer.cost \in Nat
             /\ Amount(receiptLog[v][i].known) <= calls[v][i].answer.cost
             /\ v # "v1" /\ receiptLog[v][i].known # {}
                   => Amount(receiptLog[v][i].known) = calls[v][i].answer.cost
             /\ Told(v, calls[v][i].answer)
                   => Amount(receiptLog[v][i].known) = calls[v][i].answer.cost
  <2>1. calls[v][i].answer \in RunnerAnswers /\ receiptLog[v][i].known = KnownCost(v, calls[v][i].answer)
    BY Recorded
  <2>. QED
    BY <2>1, AmountBound
<1>4. s \in Seq(Nat) /\ t \in Seq(Nat) /\ Len(s) = Len(calls[v]) /\ Len(t) = Len(calls[v])
  BY <1>2, <1>3
<1>5. \A k \in 1..Len(s) : s[k] <= t[k]
  BY <1>2, <1>3, <1>4
<1>6. Total(s) <= Total(t)
  <2>. HIDE DEF s, t
  <2>. QED
    BY <1>2, <1>4, <1>5, TotalAtMost
<1>7. v # "v1" /\ (\A i \in DOMAIN receiptLog[v] : receiptLog[v][i].known # {}) => s = t
  BY <1>2, <1>3
<1>8. (\A i \in DOMAIN calls[v] : Told(v, calls[v][i].answer)) => s = t
  BY <1>2, <1>3
<1>. QED
  BY <1>6, <1>7, <1>8 DEF Spent, Charge

(* A diagnosis replays what was paid; when it shows a gap, the last answer *)
(* is one that the version admitted and the next rejects.                  *)
LEMMA DiagnoseStep ==
  ASSUME RunnerInv, NEW v \in Versions, Diagnose(v)
  PROVE  RunnerInv'
<1> USE DEF artifacts, runnerFiles
<1>1. v \in {"v2", "v3", "v4"} /\ IsBlocked(v) /\ output[v] # None /\ Final(v)
  BY DEF Diagnose, Replayable, IsBlocked, Final
<1> DEFINE m == Len(calls[v])
           last == calls[v][m].answer
<1>2. /\ Len(receiptLog[v]) = m /\ receiptLog[v] \in Seq(Receipts) /\ calls[v] \in Seq(CallsMade)
      /\ receiptLog[v] # <<>> /\ m \in Nat /\ m > 0
      /\ DOMAIN receiptLog[v] = 1..m /\ DOMAIN calls[v] = 1..m
  <2>1. /\ Len(receiptLog[v]) = m /\ receiptLog[v] \in Seq(Receipts) /\ calls[v] \in Seq(CallsMade)
        /\ receiptLog[v] # <<>> /\ calls[v] # <<>>
    BY <1>1, Recorded
  <2>. QED
    BY <2>1
<1>3. \A i \in 1..m :
         /\ receiptLog[v][i].answer = calls[v][i].answer
         /\ receiptLog[v][i].known = KnownCost(v, calls[v][i].answer)
         /\ receiptLog[v][i].pass = Processed(v, calls[v][i].answer)
         /\ i < m => Processed(v, calls[v][i].answer) /\ Promotes(calls[v][i].answer)
  BY <1>1, <1>2, Recorded
<1>4. /\ output[v] = (IF v = "v1" THEN BlockedV1(receiptLog[v]) ELSE BlockedV2(receiptLog[v]))
      /\ output[v].processed = m - 1 /\ output[v].known = Spent(receiptLog[v])
      /\ output[v].reason = Reason(receiptLog[v])
  <2>1. OutputHolds(v)
    BY DEF RunnerInv
  <2>2. ~IsFrozenOutput(v)
    BY <1>1, FrozenFields DEF IsFrozenOutput, IsBlocked
  <2>3. IsBlockedOutput(v)
    BY <1>1, <2>1, <2>2 DEF OutputHolds
  <2>. QED
    BY <1>2, <2>3, BlockedOutput DEF IsBlockedOutput
<1>5. \A i \in 1..m : receiptLog[v][i].known # {}
  <2>1. \A r \in ToSet(receiptLog[v]) : r.known # {}
    BY DEF Diagnose, Replayable
  <2>. QED
    BY <1>2, <2>1 DEF ToSet
<1>6. Spent(receiptLog[v]) = Charge(v)
  BY <1>1, <1>2, <1>5, SpentBound
<1> DEFINE d == CASE v = "v2" -> DiagnosisV2 [] v = "v3" -> DiagnosisV3 [] v = "v4" -> DiagnosisV4
<1>7. /\ diagnosis' = [diagnosis EXCEPT ![v] = d] /\ d.of = output[v]
      /\ v = "v2" => (d.gap => output["v2"].reason = "material") /\ d.replayed = 0
      /\ v = "v3" => (d.gap => output["v3"].reason = "provenance") /\ d.replayed = 0
      /\ v = "v4" => (d.gap => ProposalRules) /\ d.replayed = ReplayedCalls("v4")
  <2>1. diagnosis' = [diagnosis EXCEPT ![v] = d]
    BY DEF Diagnose
  <2>2. CASE v = "v2"
    <3>1. d = DiagnosisV2
      BY <2>2
    <3>2. DiagnosisV2.of = output["v2"] /\ (DiagnosisV2.gap => output["v2"].reason = "material")
          /\ DiagnosisV2.replayed = 0
      BY DEF DiagnosisV2
    <3>. HIDE DEF d
    <3>. QED
      BY <2>1, <2>2, <3>1, <3>2
  <2>3. CASE v = "v3"
    <3>1. d = DiagnosisV3
      BY <2>3
    <3>2. DiagnosisV3.of = output["v3"] /\ (DiagnosisV3.gap => output["v3"].reason = "provenance")
          /\ DiagnosisV3.replayed = 0
      BY DEF DiagnosisV3
    <3>. HIDE DEF d
    <3>. QED
      BY <2>1, <2>3, <3>1, <3>2
  <2>4. CASE v = "v4"
    <3>1. d = DiagnosisV4
      BY <2>4
    <3>2. DiagnosisV4.of = output["v4"] /\ (DiagnosisV4.gap => ProposalRules)
          /\ DiagnosisV4.replayed = ReplayedCalls("v4")
      BY DEF DiagnosisV4
    <3>. HIDE DEF d
    <3>. QED
      BY <2>1, <2>4, <3>1, <3>2
  <2>. QED
    BY <1>1, <2>2, <2>3, <2>4
<1>. HIDE DEF d
<1> DEFINE promoted == {i \in DOMAIN receiptLog[v] : Promotes(receiptLog[v][i].answer)}
<1>8. /\ promoted = 1..m \/ promoted = 1..(m - 1)
      /\ IsFiniteSet(promoted) /\ Cardinality(promoted) \in {m - 1, m}
      /\ (Cardinality(promoted) = 0 => promoted = {})
  <2>1. promoted = 1..m \/ promoted = 1..(m - 1)
    <3>1. \A i \in 1..m : i < m => i \in promoted
      BY <1>2, <1>3
    <3>2. promoted \subseteq 1..m
      BY <1>2
    <3>3. CASE m \in promoted
      BY <1>2, <3>1, <3>2, <3>3
    <3>4. CASE m \notin promoted
      BY <1>2, <3>1, <3>2, <3>4
    <3>. QED
      BY <3>3, <3>4
  <2>. HIDE DEF promoted
  <2>2. IsFiniteSet(promoted) /\ Cardinality(promoted) \in {m - 1, m}
    <3>1. \A n \in Nat : IsFiniteSet(1..n) /\ Cardinality(1..n) = n
      BY FS_Interval
    <3>. QED
      BY <1>2, <2>1, <3>1
  <2>. QED
    BY <2>1, <2>2, FS_EmptySet
<1>9. d.replayed \in {output[v].processed, output[v].processed + 1}
  <2>1. CASE v = "v4"
    <3>1. d.replayed = Cardinality(promoted)
      BY <1>7, <2>1 DEF ReplayedCalls
    <3>. HIDE DEF promoted
    <3>. QED
      BY <1>2, <1>4, <1>8, <3>1
  <2>2. CASE v # "v4"
    <3>1. Cardinality(promoted) = 0
      BY <2>2 DEF Diagnose, NothingPromotes, ReplayedCalls
    <3>2. m = 1
      <4>. HIDE DEF promoted
      <4>. QED
        BY <1>2, <1>8, <3>1
    <3>. QED
      BY <1>1, <1>4, <1>7, <2>2, <3>2
  <2>. QED
    BY <2>1, <2>2
<1>10. ASSUME d.gap
       PROVE  Admits(v, last) /\ Rejects(After[v], last)
  <2>1. Reason(receiptLog[v]) \in {"ceiling", "transport", last.defect, "cache_write", "usage"}
    BY <1>2, <1>3 DEF Reason, Last
  <2>2. CASE v = "v2"
    BY <1>4, <1>7, <1>10, <2>1, <2>2 DEF Admits, Rejects, Repaired, After, RejectsV3
  <2>3. CASE v = "v3"
    BY <1>4, <1>7, <1>10, <2>1, <2>3 DEF Admits, Rejects, Repaired, After, RejectsV3, RejectsV4
  <2>4. CASE v = "v4"
    <3>1. output[v].reason = "stage"
      BY <1>7, <1>10, <2>4 DEF ProposalRules, Gap
    <3>. QED
      BY <1>4, <2>1, <2>4, <3>1 DEF Admits, Rejects, Repaired, After, RejectsV4, RejectsV5
  <2>. QED
    BY <1>1, <2>2, <2>3, <2>4
<1>11. \A i \in 1..(m - 1) : Promotes(calls[v][i].answer)
  BY <1>2, <1>3
<1>12. /\ UNCHANGED <<sourceFile, runtime, cost, auth, receiptLog, calls, output, run, crashes, proof>>
       /\ DOMAIN diagnosis' = Versions /\ diagnosis' = [w \in Versions |-> diagnosis'[w]]
       /\ diagnosis'[v] = d /\ \A w \in Versions : w # v => diagnosis'[w] = diagnosis[w]
  BY <1>7 DEF Diagnose, RunnerInv, RunnerTypes
<1>13. RunnerTypes' /\ Wrappers' /\ Priced'
  BY <1>12, ZenonT(60) DEF Diagnose, RunnerInv, RunnerTypes, Wrappers, Priced
<1>14. ASSUME NEW w \in DOMAIN After PROVE DiagnosisHolds(w)'
  <2>1. DiagnosisHolds(w) /\ w \in Versions
    BY DEF RunnerInv, After, Versions
  <2>2. CASE w = v
    <3>1. Last(calls[v]).answer = last
      BY DEF Last
    <3>2. diagnosis'[v].of = output[v] /\ output[v] # None
          /\ diagnosis'[v].replayed \in {output[v].processed, output[v].processed + 1}
          /\ (diagnosis'[v].gap =>
                /\ Admits(v, Last(calls[v]).answer) /\ Rejects(After[v], Last(calls[v]).answer)
                /\ \A i \in 1..(Len(calls[v]) - 1) : Promotes(calls[v][i].answer)
                /\ output[v].known = Charge(v))
      BY <1>1, <1>4, <1>6, <1>7, <1>9, <1>10, <1>11, <1>12, <3>1
    <3>. QED
      BY <1>12, <2>2, <3>2 DEF DiagnosisHolds, Charge
  <2>3. CASE w # v
    BY <1>12, <2>1, <2>3 DEF DiagnosisHolds, Charge
  <2>. QED
    BY <2>2, <2>3
<1>15. ASSUME NEW w \in Repaired PROVE ProofHolds(w)'
  <2>1. ProofHolds(w)
    BY DEF RunnerInv
  <2>. QED
    BY <1>12, <2>1 DEF ProofHolds, Final
<1>16. crashes' >= crashes
  BY <1>12, StageAssumption DEF RunnerInv, RunnerTypes
<1>. QED
  BY <1>12, <1>13, <1>14, <1>15, <1>16, RunnerFrame

(* A proof of repair is about an answer of the version before, that the    *)
(* repaired one rejects.                                                   *)
LEMMA ProveStep ==
  ASSUME RunnerInv, NEW v \in Repaired, Prove(v)
  PROVE  RunnerInv'
<1> USE DEF artifacts, runnerFiles
<1> DEFINE u == Predecessor[v]
<1>1. u \in Versions /\ v \in Versions
  BY DEF Predecessor, Repaired, Versions
<1>2. receiptLog[u] \in Seq(Receipts) /\ VersionHolds(u)
  BY <1>1 DEF RunnerInv, RunnerTypes
<1>3. Final(u)
  <2>1. CASE v = "v3"
    <3>1. u = "v2" /\ receiptLog[u] # <<>> /\ ~receiptLog[u][1].pass
      BY <2>1 DEF Prove, ProvesV3, Predecessor
    <3>2. Len(receiptLog[u]) = 1
      <4>1. Len(receiptLog[u]) \in Nat /\ Len(receiptLog[u]) # 0 /\ Len(calls[u]) \in Nat
        BY <1>1, <1>2, <3>1 DEF RunnerInv, RunnerTypes
      <4>2. ~(1 < Len(calls[u]))
        <5>1. 1 \in DOMAIN receiptLog[u]
          BY <1>2, <4>1
        <5>. HIDE DEF u
        <5>. QED
          BY <1>2, <3>1, <5>1 DEF VersionHolds
      <4>3. Len(receiptLog[u]) <= Len(calls[u])
        BY <1>2 DEF VersionHolds
      <4>4. \A a, b \in Nat : a # 0 /\ ~(1 < b) /\ a <= b => a = 1
        OBVIOUS
      <4>. QED
        BY <4>1, <4>2, <4>3, <4>4, Zenon
    <3>. QED
      BY <3>1, <3>2 DEF Final
  <2>2. CASE v = "v4"
    BY <2>2 DEF Prove, ProvesV4, Predecessor, IsBlocked, Final
  <2>3. CASE v = "v5"
    BY <2>3 DEF Prove, ProvesV5, Predecessor, IsBlocked, Final
  <2>. QED
    BY <2>1, <2>2, <2>3 DEF Repaired
<1> DEFINE m == Len(calls[u])
           last == calls[u][m].answer
<1>4. /\ Len(receiptLog[u]) = m /\ m \in Nat /\ m > 0 /\ DOMAIN calls[u] = 1..m
      /\ receiptLog[u][m].answer = last
      /\ receiptLog[u][m].pass = Processed(u, last)
      /\ \A i \in 1..m : i < m => receiptLog[u][i].pass
  <2>1. /\ Len(receiptLog[u]) = m /\ calls[u] \in Seq(CallsMade) /\ calls[u] # <<>>
    BY <1>1, <1>3, Recorded
  <2>2. m \in Nat /\ m > 0 /\ DOMAIN calls[u] = 1..m /\ m \in DOMAIN calls[u]
    BY <2>1
  <2>3. \A i \in DOMAIN calls[u] :
               /\ receiptLog[u][i].answer = calls[u][i].answer
               /\ receiptLog[u][i].pass = Processed(u, calls[u][i].answer)
               /\ i < Len(calls[u]) => Processed(u, calls[u][i].answer)
    BY <1>1, <1>3, Recorded
  <2>. QED
    BY <2>1, <2>2, <2>3
<1>5. PICK r : /\ proof' = [proof EXCEPT ![v] = [receipt |-> r]]
               /\ r.answer = last /\ Rejects(v, last)
  <2>1. CASE v = "v3"
    <3>1. u = "v2" /\ ~receiptLog[u][1].pass /\ RejectsV3(receiptLog[u][1].answer)
          /\ proof' = [proof EXCEPT ![v] = [receipt |-> receiptLog[u][1]]]
      BY <2>1 DEF Prove, ProvesV3, Predecessor
    <3>2. m = 1
      <4>1. 1 \in 1..m /\ (1 < m => receiptLog[u][1].pass)
        BY <1>4
      <4>2. ~(1 < m)
        BY <3>1, <4>1, Zenon
      <4>3. m \in Nat /\ m > 0
        BY <1>4
      <4>. HIDE DEF m
      <4>. QED
        BY <4>2, <4>3
    <3>. QED
      BY <1>4, <2>1, <3>1, <3>2 DEF Rejects
  <2>2. CASE v = "v4"
    <3>1. u = "v3" /\ Len(receiptLog[u]) = 1 /\ RejectsV4(receiptLog[u][1].answer)
          /\ proof' = [proof EXCEPT ![v] = [receipt |-> receiptLog[u][1]]]
      BY <2>2 DEF Prove, ProvesV4, Predecessor
    <3>. QED
      BY <1>4, <2>2, <3>1 DEF Rejects
  <2>3. CASE v = "v5"
    <3>1. u = "v4" /\ RejectsV5(receiptLog[u][Len(receiptLog[u])].answer)
          /\ proof' = [proof EXCEPT ![v] = [receipt |-> receiptLog[u][Len(receiptLog[u])]]]
      BY <2>3 DEF Prove, ProvesV5, Predecessor, Last
    <3>. QED
      BY <1>4, <2>3, <3>1 DEF Rejects
  <2>. QED
    BY <2>1, <2>2, <2>3 DEF Repaired
<1>6. /\ UNCHANGED <<sourceFile, runtime, cost, auth, receiptLog, calls, output, run, crashes, diagnosis>>
      /\ DOMAIN proof' = Versions /\ proof' = [w \in Versions |-> proof'[w]]
      /\ proof'[v] = [receipt |-> r] /\ \A w \in Versions : w # v => proof'[w] = proof[w]
  BY <1>1, <1>5 DEF Prove, RunnerInv, RunnerTypes
<1>7. RunnerTypes' /\ Wrappers' /\ Priced'
  BY <1>6 DEF Prove, RunnerInv, RunnerTypes, Wrappers, Priced
<1>8. ASSUME NEW w \in DOMAIN After PROVE DiagnosisHolds(w)'
  <2>1. DiagnosisHolds(w)
    BY DEF RunnerInv
  <2>. QED
    BY <1>6, <2>1 DEF DiagnosisHolds, Charge
<1>9. ASSUME NEW w \in Repaired PROVE ProofHolds(w)'
  <2>1. ProofHolds(w) /\ w \in Versions
    BY DEF RunnerInv, Repaired, Versions
  <2>2. CASE w = v
    <3>1. Last(calls[u]).answer = last
      BY DEF Last
    <3>. QED
      BY <1>3, <1>4, <1>5, <1>6, <2>2, <3>1 DEF ProofHolds, Final
  <2>3. CASE w # v
    BY <1>6, <2>1, <2>3 DEF ProofHolds, Final
  <2>. QED
    BY <2>2, <2>3
<1>10. crashes' >= crashes
  BY <1>6, StageAssumption DEF RunnerInv, RunnerTypes
<1>. QED
  BY <1>6, <1>7, <1>8, <1>9, <1>10, RunnerFrame

(* Every step keeps the invariant.                                         *)
LEMMA RunnerNextInv == RunnerInv /\ [RunnerNext]_runnerVars => RunnerInv'
<1> SUFFICES ASSUME RunnerInv, [RunnerNext]_runnerVars PROVE RunnerInv'
  OBVIOUS
<1>1. live \subseteq Versions
  BY RunnerAssumption DEF RunnerInv, RunnerTypes
<1>2. Repaired \subseteq Versions
  BY DEF Repaired, Versions
<1>3. CASE MoveHead
  BY <1>3, MoveHeadStep
<1>4. ASSUME NEW p \in Procs, NEW v \in live,
             BuildSource(p, v) \/ BuildRuntime(p, v) \/ BuildCost(p, v) \/ StartRunner(p, v)
      PROVE  RunnerInv'
  BY <1>1, <1>4, BuildStep, StartRunnerStep
<1>5. ASSUME NEW p \in Procs, MarkSource(p) \/ MarkRuntime(p) PROVE RunnerInv'
  BY <1>5, MarkStep
<1>6. ASSUME NEW p \in Procs, CreateAuthorization(p) PROVE RunnerInv'
  BY <1>6, CreateAuthorizationStep
<1>7. ASSUME NEW p \in Procs, NoKey(p) \/ RejectCouncil(p) \/ RunnerCrash(p) PROVE RunnerInv'
  BY <1>7, EndRunStep
<1>8. ASSUME NEW p \in Procs, Call(p) PROVE RunnerInv'
  BY <1>8, CallStep
<1>9. ASSUME NEW p \in Procs, AppendCallReceipt(p) PROVE RunnerInv'
  BY <1>9, AppendCallReceiptStep
<1>10. ASSUME NEW p \in Procs, Block(p) \/ FreezeCouncil(p) PROVE RunnerInv'
  BY <1>10, VerdictStep
<1>11. ASSUME NEW v \in live, ApproveCost(v) PROVE RunnerInv'
  BY <1>1, <1>11, ApproveCostStep
<1>12. ASSUME NEW v \in live, Diagnose(v) PROVE RunnerInv'
  BY <1>1, <1>12, DiagnoseStep
<1>13. ASSUME NEW v \in live, Prove(v) PROVE RunnerInv'
  BY <1>13, ProveStep DEF Prove
<1>14. CASE UNCHANGED runnerVars
  <2> USE <1>14 DEF runnerVars, runnerFiles, derived, artifacts
  <2>1. RunnerTypes' /\ Wrappers' /\ Priced'
    BY DEF RunnerInv, RunnerTypes, Wrappers, Priced
  <2>2. crashes' >= crashes
    BY StageAssumption DEF RunnerInv, RunnerTypes
  <2>. QED
    BY <2>1, <2>2, RunnerFrame, DerivedFrame
<1>. QED
  BY <1>3, <1>4, <1>5, <1>6, <1>7, <1>8, <1>9, <1>10, <1>11, <1>12, <1>13, <1>14 DEF RunnerNext

(* The invariant of the first Initial runners.                             *)
LEMMA RunnerAlways == RunnerSpec => []RunnerInv
<1>1. RunnerInit => RunnerInv
  BY RunnerInitInv
<1>2. RunnerInv /\ [RunnerNext]_runnerVars => RunnerInv'
  BY RunnerNextInv
<1>. QED
  BY <1>1, <1>2, PTL DEF RunnerSpec

(* The state of the first Initial runners has the shape the code gives it. *)
THEOREM RunnerTypeCorrect == RunnerSpec => []RunnerTypeOK
<1>1. RunnerInv => RunnerTypeOK
  <2> SUFFICES ASSUME RunnerInv PROVE RunnerTypeOK
    OBVIOUS
  <2>1. ASSUME NEW v \in Versions
        PROVE  /\ auth[v] # None => auth[v].commit \in Commits
               /\ Len(receiptLog[v]) <= N
               /\ output[v] # None => output[v].status \in {"BLOCKED", "FROZEN"}
    <3>1. VersionHolds(v) /\ OutputHolds(v) /\ receiptLog[v] \in Seq(Receipts)
          /\ calls[v] \in Seq(CallsMade) /\ auth[v] \in Authorizations \cup {None}
      BY DEF RunnerInv, RunnerTypes
    <3>2. Len(receiptLog[v]) <= N
      BY <3>1, RunnerAssumption DEF VersionHolds
    <3>3. auth[v] # None => auth[v].commit \in Commits
      BY <3>1 DEF Authorizations
    <3>4. output[v] # None => output[v].status \in {"BLOCKED", "FROZEN"}
      <4>1. IsBlockedOutput(v) => output[v].status = "BLOCKED"
        BY <3>1, BlockedOutput
      <4>2. IsFrozenOutput(v) => output[v].status = "FROZEN"
        BY FrozenFields DEF IsFrozenOutput
      <4>. QED
        BY <3>1, <4>1, <4>2 DEF OutputHolds
    <3>. QED
      BY <3>2, <3>3, <3>4
  <2>2. \A p \in Procs : run[p].pc \in RunnerPcs
    BY DEF RunnerInv, RunnerTypes, Invocations
  <2>3. (sourceFile # None => sourceFile.builder \in {"base"} \cup Repaired)
        /\ (runtime # None => runtime.commit \in Commits)
    BY DEF RunnerInv, RunnerTypes, SourceFiles, RuntimeFiles
  <2>. QED
    BY <2>1, <2>2, <2>3 DEF RunnerTypeOK, RunnerInv, RunnerTypes, RunnerPcs
<1>. QED
  BY <1>1, RunnerAlways, PTL

(* An approval of the cost pays each request of a council once: two calls  *)
(* with one approval and one item are the same call, whatever versions,    *)
(* invocations and crashes there are, and each call is the one approved.   *)
THEOREM RunnerPaysOnce == RunnerSpec => []OncePerApproval
<1>1. RunnerInv => OncePerApproval
  <2> SUFFICES ASSUME RunnerInv, NEW v \in Versions, NEW i \in DOMAIN calls[v]
               PROVE  LET c == calls[v][i]
                      IN  /\ auth[v].of = c.cost
                          /\ c.commit = c.cost.of.commit /\ c.builder = c.cost.of.of.builder
                          /\ \A w \in Versions : \A j \in DOMAIN calls[w] :
                                calls[w][j].cost = c.cost /\ calls[w][j].item = c.item => w = v /\ j = i
    BY DEF OncePerApproval
  <2>1. ASSUME NEW w \in Versions, NEW j \in DOMAIN calls[w]
        PROVE  /\ calls[w][j].item = j /\ calls[w][j].cost = auth[w].of
               /\ calls[w][j].commit = auth[w].of.of.commit
               /\ auth[w].of.of.of.builder = Builder(w) /\ auth[w].of.pricing = CostFile(w)
               /\ calls[w][j].builder = Builder(w)
    <3>1. VersionHolds(w) /\ calls[w] \in Seq(CallsMade)
      BY DEF RunnerInv, RunnerTypes
    <3>2. calls[w] # <<>>
      BY <3>1
    <3>3. auth[w] # None
      BY <3>1, <3>2 DEF VersionHolds
    <3>. QED
      BY <3>1, <3>3 DEF VersionHolds, Covers
  <2>2. \A w \in Versions : Builder(w) = Builder(v) /\ CostFile(w) = CostFile(v) => w = v
    BY DEF Versions, Builder, CostFile, RequestV1, RequestV3, RequestV4, RequestV5
  <2>3. ASSUME NEW w \in Versions, NEW j \in DOMAIN calls[w],
               calls[w][j].cost = calls[v][i].cost, calls[w][j].item = calls[v][i].item
        PROVE  w = v /\ j = i
    BY <2>1, <2>2, <2>3
  <2>. QED
    BY <2>1, <2>3
<1>. QED
  BY <1>1, RunnerAlways, PTL

(* What is written of a run, its receipts and its verdict, agrees with the *)
(* calls the provider received as far as their answers tell, and the       *)
(* diagnosis and the proof derived from it are true of them.               *)
THEOREM RunnerRecordHonest == RunnerSpec => []RecordIsHonest
<1>1. RunnerInv => RunRecord
  <2> SUFFICES ASSUME RunnerInv, NEW v \in Versions
               PROVE  LET missing == Len(calls[v]) - Len(receiptLog[v])
                          made == ToSet(calls[v])
                      IN  /\ missing \in {0, 1} /\ Written(v)
                          /\ missing = 1 =>
                                /\ output[v] = None
                                /\ \/ crashes > 0
                                   \/ \E p \in Procs : run[p].pc = "answered" /\ run[p].v = v
                          /\ \A r \in ToSet(receiptLog[v]) :
                                /\ Amount(r.known) <= r.answer.cost
                                /\ v # "v1" /\ r.known # {} => Told(v, r.answer)
                                /\ Told(v, r.answer) => r.known = {r.answer.cost}
                          /\ output[v] # None =>
                                /\ output[v].known <= Charge(v)
                                /\ (\A c \in made : Told(v, c.answer)) => output[v].known = Charge(v)
                          /\ output[v] # None /\ output[v].status = "BLOCKED" =>
                                /\ output[v].attempts = Len(calls[v])
                                /\ output[v].calls
                                      = Cardinality({i \in DOMAIN calls[v] : calls[v][i].answer.received})
                                /\ output[v].complete => \A c \in made : c.answer.received
                                /\ v # "v1" => \A i \in 1..(Len(calls[v]) - 1) : Told(v, calls[v][i].answer)
                          /\ output[v] # None /\ output[v].status = "FROZEN" =>
                                /\ Len(calls[v]) = N /\ output[v].known <= Ceiling
                                /\ \A c \in made : Promotes(c.answer) /\ (v # "v1" => Told(v, c.answer))
    BY DEF RunRecord
  <2>1. /\ VersionHolds(v) /\ OutputHolds(v) /\ receiptLog[v] \in Seq(Receipts)
        /\ calls[v] \in Seq(CallsMade)
        /\ Len(calls[v]) \in Nat /\ Len(receiptLog[v]) \in Nat
    BY DEF RunnerInv, RunnerTypes
  <2>2. Len(calls[v]) - Len(receiptLog[v]) \in {0, 1} /\ Len(receiptLog[v]) <= Len(calls[v])
    BY <2>1 DEF VersionHolds
  <2>3. ASSUME NEW i \in DOMAIN receiptLog[v]
        PROVE  /\ receiptLog[v][i].item = i /\ receiptLog[v][i].answer = calls[v][i].answer
               /\ receiptLog[v][i].known = KnownCost(v, calls[v][i].answer)
               /\ i \in DOMAIN calls[v] /\ calls[v][i].answer \in RunnerAnswers
    <3>1. i \in Nat /\ i \in DOMAIN calls[v] /\ calls[v][i] \in CallsMade
      BY <2>1, <2>2
    <3>2. calls[v][i].answer \in RunnerAnswers
      BY <3>1 DEF CallsMade
    <3>. QED
      BY <2>1, <3>1, <3>2, ReceiptType DEF VersionHolds
  <2>4. Written(v)
    BY <2>3 DEF Written
  <2>5. Len(calls[v]) - Len(receiptLog[v]) = 1 =>
            /\ output[v] = None
            /\ crashes > 0 \/ \E p \in Procs : run[p].pc = "answered" /\ run[p].v = v
    BY <2>1 DEF VersionHolds
  <2>6. ASSUME NEW r \in ToSet(receiptLog[v])
        PROVE  /\ Amount(r.known) <= r.answer.cost
               /\ v # "v1" /\ r.known # {} => Told(v, r.answer)
               /\ Told(v, r.answer) => r.known = {r.answer.cost}
    <3>1. PICK i \in DOMAIN receiptLog[v] : r = receiptLog[v][i]
      BY DEF ToSet
    <3>. QED
      BY <2>3, <3>1, AmountBound
  <2>7. ASSUME output[v] # None
        PROVE  /\ Len(receiptLog[v]) = Len(calls[v]) /\ DOMAIN receiptLog[v] = DOMAIN calls[v]
               /\ Final(v) /\ Spent(receiptLog[v]) <= Charge(v)
               /\ (\A c \in ToSet(calls[v]) : Told(v, c.answer)) => Spent(receiptLog[v]) = Charge(v)
    <3>1. Final(v)
      BY <2>7 DEF Final
    <3>2. Len(receiptLog[v]) = Len(calls[v])
      BY <3>1, Recorded
    <3>3. (\A c \in ToSet(calls[v]) : Told(v, c.answer))
             => \A i \in DOMAIN calls[v] : Told(v, calls[v][i].answer)
      BY DEF ToSet
    <3>. QED
      BY <2>1, <3>1, <3>2, <3>3, SpentBound
  <2>8. CASE IsBlockedOutput(v)
    <3>1. /\ output[v].status = "BLOCKED" /\ output[v].known = Spent(receiptLog[v])
          /\ output[v].attempts = Len(receiptLog[v]) /\ output[v] # None
          /\ output[v].calls
                = Cardinality({i \in DOMAIN receiptLog[v] : receiptLog[v][i].answer.received})
          /\ output[v].complete => Last(receiptLog[v]).answer.received
      BY <2>1, <2>8, BlockedOutput
    <3>2. Len(receiptLog[v]) = Len(calls[v]) /\ DOMAIN receiptLog[v] = DOMAIN calls[v] /\ Final(v)
      BY <2>7, <3>1
    <3>3. {i \in DOMAIN receiptLog[v] : receiptLog[v][i].answer.received}
             = {i \in DOMAIN calls[v] : calls[v][i].answer.received}
      BY <2>3, <3>2
    <3>4. ASSUME NEW i \in DOMAIN calls[v], i < Len(calls[v])
          PROVE  calls[v][i].answer.received /\ (v # "v1" => Told(v, calls[v][i].answer))
      <4>1. Processed(v, calls[v][i].answer) /\ Promotes(calls[v][i].answer)
            /\ calls[v][i].answer \in RunnerAnswers
        BY <3>2, <3>4, Recorded
      <4>2. v # "v1" => KnownCost(v, calls[v][i].answer) # {}
        BY <4>1 DEF Processed, ProcessV2, KnownCost
      <4>. QED
        BY <4>1, <4>2, AmountBound DEF Promotes
    <3>5. output[v].complete => \A c \in ToSet(calls[v]) : c.answer.received
      <4> SUFFICES ASSUME output[v].complete, NEW c \in ToSet(calls[v]) PROVE c.answer.received
        OBVIOUS
      <4>1. PICK i \in DOMAIN calls[v] : c = calls[v][i]
        BY DEF ToSet
      <4>2. CASE i < Len(calls[v])
        BY <3>4, <4>1, <4>2
      <4>3. CASE i = Len(calls[v])
        <5>1. Last(receiptLog[v]).answer = calls[v][i].answer
          BY <2>3, <3>2, <4>3 DEF Last
        <5>. QED
          BY <3>1, <4>1, <5>1
      <4>. QED
        BY <2>1, <4>1, <4>2, <4>3
    <3>6. v # "v1" => \A i \in 1..(Len(calls[v]) - 1) : Told(v, calls[v][i].answer)
      <4>1. \A i \in 1..(Len(calls[v]) - 1) : i \in DOMAIN calls[v] /\ i < Len(calls[v])
        BY <2>1
      <4>. QED
        BY <3>4, <4>1
    <3>. QED
      BY <2>2, <2>4, <2>5, <2>6, <2>7, <3>1, <3>2, <3>3, <3>5, <3>6
  <2>9. CASE IsFrozenOutput(v)
    <3>1. /\ output[v].status = "FROZEN" /\ output[v].known = Spent(receiptLog[v]) /\ output[v] # None
          /\ Len(receiptLog[v]) = N /\ Spent(receiptLog[v]) <= Ceiling
          /\ \A i \in DOMAIN receiptLog[v] : receiptLog[v][i].pass
      BY <2>1, <2>9, FrozenFields DEF IsFrozenOutput
    <3>2. Final(v) /\ Len(calls[v]) = N /\ DOMAIN receiptLog[v] = DOMAIN calls[v]
      BY <2>7, <3>1
    <3>3. ASSUME NEW i \in DOMAIN calls[v]
          PROVE  Promotes(calls[v][i].answer) /\ (v # "v1" => Told(v, calls[v][i].answer))
      <4>1. Processed(v, calls[v][i].answer) /\ calls[v][i].answer \in RunnerAnswers
        BY <3>1, <3>2, Recorded
      <4>2. v # "v1" => KnownCost(v, calls[v][i].answer) # {}
        BY <4>1 DEF Processed, ProcessV2, KnownCost
      <4>. QED
        BY <4>1, <4>2, AmountBound DEF Processed, ProcessV1, ProcessV2
    <3>4. \A c \in ToSet(calls[v]) : Promotes(c.answer) /\ (v # "v1" => Told(v, c.answer))
      BY <3>3 DEF ToSet
    <3>. QED
      BY <2>2, <2>4, <2>5, <2>6, <2>7, <3>1, <3>2, <3>4
  <2>10. CASE output[v] = None
    BY <2>2, <2>4, <2>5, <2>6, <2>10
  <2>. QED
    BY <2>1, <2>8, <2>9, <2>10 DEF OutputHolds
<1>2. RunnerInv => ReplayIsHonest
  <2> SUFFICES ASSUME RunnerInv PROVE ReplayIsHonest
    OBVIOUS
  <2>1. \A v \in DOMAIN After : DiagnosisHolds(v)
    BY DEF RunnerInv
  <2>2. \A v \in Repaired : ProofHolds(v)
    BY DEF RunnerInv
  <2>. QED
    BY <2>1, <2>2 DEF ReplayIsHonest, DiagnosisHolds, ProofHolds
<1>. QED
  BY <1>1, <1>2, RunnerAlways, PTL DEF RecordIsHonest

-----------------------------------------------------------------------------
(***************************************************************************)
(* The model evaluations. In the council the authorization names the one   *)
(* invocation that pays, which has paid for the first calls of the plan    *)
(* and remembers the outcomes of all but the last of those. When it ends   *)
(* the calls paid stay a beginning of the plan, at most one longer than    *)
(* the receipts. A result that selects holds an outcome of every call of   *)
(* the plan, and what it selects is the least of the candidates that       *)
(* passed.                                                                 *)
(***************************************************************************)

(* Where an invocation is; where it holds the evaluation.                  *)
EvalPcs == {"idle", "started", "checked", "ready", "keyless", "answered", "settle"}
Holding == {"ready", "answered", "settle"}

(* The places of the plan, and what files and outcomes may say.            *)
Slots == 1..(Len(Ladder) * Len(Cases))
Frozens == [commit : Nat, code : Nat]
Reads == [request : Frozens \cup {None}, cost : Frozens \cup {None}, dry : Frozens \cup {None}]
Outs == [at : ToSet(Planned), received : BOOLEAN, passed : BOOLEAN, known : Nat, open : BOOLEAN,
         latency : Nat, defect : Defects, replay : BOOLEAN]
Journaled == [at : ToSet(Planned), result : {"UNKNOWN", "PASS", "FAIL"}, complete : BOOLEAN,
              defect : Defects, replay : BOOLEAN, known : Nat, latency : Nat]
Evaluations == [pc : EvalPcs, code : Nat, read : Reads \cup {None}, memory : Seq(Outs),
                answer : EvalAnswers \cup {None}]

EvalTypes ==
    /\ stage \in Stages /\ work \in 1..MaxVersions /\ head \in 1..work /\ crashes \in 0..MaxCrashes
    /\ frozen \in Frozens \cup {None} /\ cost \in Frozens \cup {None}
    /\ rehearsed \in Frozens \cup {None}
    /\ receipts \in Seq(Journaled) /\ paid \in [ToSet(Planned) -> Nat] /\ spent \in Nat
    /\ run \in [Procs -> Evaluations]

(* A preflight froze a version of the code at the commit below it.         *)
FrozenBelow(f) == f # None => f.commit <= f.code /\ f.code <= work
Preflights == FrozenBelow(frozen) /\ FrozenBelow(cost) /\ FrozenBelow(rehearsed)

(* Every outcome is what the run makes of an answer of the provider.       *)
Answered(s) == \A i \in DOMAIN s : \E a \in EvalAnswers : s[i] = OutcomeOf(i, a)

(* What an invocation has loaded, checked and remembers.                   *)
Loaded(r) ==
    r.pc # "idle" /\ stage \in CommitBound =>
        /\ r.read # None /\ r.read.request # None /\ r.read.cost = r.read.request
        /\ r.read.request.code = r.code /\ r.code <= work /\ r.read.request.commit <= r.code
        /\ r.pc # "started" => r.read.request.commit = r.code
MemoryHolds(r) ==
    /\ Answered(r.memory) /\ Len(r.memory) <= Len(Planned)
    /\ r.pc \notin Holding => r.memory = <<>>
    /\ r.pc \in {"answered", "settle"} => r.answer \in EvalAnswers /\ Len(r.memory) < Len(Planned)
    /\ stage = "RESEARCH" => r.pc \in {"idle", "ready", "settle"}
MemoriesHold == \A p \in Procs : Loaded(run[p]) /\ MemoryHolds(run[p])

(* The calls paid are the first m of the plan.                             *)
PaidUpTo(m) == \A i \in Slots : paid[Planned[i]] = IF i <= m THEN 1 ELSE 0
CallsOf(r) == Len(r.memory) + (IF r.pc = "ready" THEN 0 ELSE 1)
HolderPays(p) ==
    LET r == run[p]
    IN  /\ auth = [by |-> p] /\ PaidUpTo(CallsOf(r))
        /\ Len(receipts) = Len(r.memory) + (IF r.pc = "settle" THEN 1 ELSE 0)
        /\ stage \in CommitBound =>
              /\ spent = KnownSum(r.memory) + (IF r.pc = "ready" THEN 0 ELSE r.answer.cost)
              /\ KnownSum(r.memory) <= Ceiling

(* What is paid, and who may pay.                                          *)
CouncilPays ==
    /\ stage = "RESEARCH" => auth = None /\ receipts = <<>>
    /\ stage \in Council =>
        /\ auth = None => receipts = <<>> /\ PaidUpTo(0) /\ spent = 0
        /\ \A p \in Procs : run[p].pc \in Holding => HolderPays(p)
        /\ \E m \in Nat : PaidUpTo(m) /\ Len(receipts) <= m /\ m <= Len(receipts) + 1
        /\ Len(receipts) <= Len(Planned)
        /\ \A i \in DOMAIN receipts : receipts[i].at = Planned[i]
    /\ SpendIsBounded /\ AuthorizedLeavesResult

(* A result that selects, and the authority frozen from one, hold outcomes *)
(* of every planned call and select among them.                            *)
Selects(o) ==
    /\ o.results \in Seq(Outs) /\ Len(o.results) = Len(Planned) /\ Answered(o.results)
    /\ o.selection = Select(o.results) /\ Select(o.results) # None
ResultHolds == output # None /\ output.status = "PASS_SELECTED" => Selects(output)
AuthorityHolds ==
    authority # None =>
        /\ Selects(authority.source)
        /\ authority.candidate = Select(authority.source.results).candidate

EvalInv == EvalTypes /\ Preflights /\ MemoriesHold /\ CouncilPays /\ ResultHolds /\ AuthorityHolds

-----------------------------------------------------------------------------
(* No file of an evaluation is mistaken for a missing one.                 *)
LEMMA EvalNotNone ==
  /\ \A f \in Frozens : f # None
  /\ \A f \in Reads : f # None
  /\ \A a \in EvalAnswers : a # None
<1>1. DOMAIN None = {"none"}
  BY DEF None
<1>2. \A f \in Frozens : DOMAIN f = {"commit", "code"}
  BY DEF Frozens
<1>3. \A f \in Reads : DOMAIN f = {"request", "cost", "dry"}
  BY DEF Reads
<1>4. \A a \in EvalAnswers : DOMAIN a = {"received", "usage", "defect", "cost", "latency"}
  BY EvalAnswersAssumption
<1>. QED
  BY <1>1, <1>2, <1>3, <1>4

(* The plan has one slot for every candidate and case.                     *)
LEMMA PlannedSlots ==
  /\ Len(Ladder) * Len(Cases) \in Nat /\ DOMAIN Planned = Slots
  /\ Len(Planned) = Len(Ladder) * Len(Cases)
  /\ \A i \in Slots : Planned[i] = <<Ladder[((i - 1) \div Len(Cases)) + 1],
                                     Cases[((i - 1) % Len(Cases)) + 1]>>
<1>1. Len(Ladder) * Len(Cases) \in Nat
  BY LadderAssumption
<1>2. DOMAIN Planned = Slots
      /\ \A i \in Slots : Planned[i] = <<Ladder[((i - 1) \div Len(Cases)) + 1],
                                        Cases[((i - 1) % Len(Cases)) + 1]>>
  BY DEF Planned, Slots
<1>3. Len(Planned) = Len(Ladder) * Len(Cases)
  <2> DEFINE n == Len(Ladder) * Len(Cases)
  <2>1. n \in Nat
    BY <1>1
  <2>2. DOMAIN Planned = 1..n
    BY <1>2 DEF Slots
  <2>. HIDE DEF n
  <2>3. Len(Planned) = n
    BY <2>1, <2>2
  <2>. QED
    BY <2>3 DEF n
<1>. QED
  BY <1>1, <1>2, <1>3

(* The slots are the places of the plan.                                   *)
LEMMA SlotsOfPlan == Len(Planned) \in Nat /\ Slots = 1..Len(Planned)
  BY PlannedSlots DEF Slots

(* Every slot has a call of the plan.                                      *)
LEMMA PlannedIn == \A i \in Slots : Planned[i] \in ToSet(Planned)
  BY PlannedSlots DEF ToSet

(* The facts of division that the plan rests on.                           *)
LEMMA Divided ==
  ASSUME NEW x \in Nat, NEW c \in Nat, c > 0
  PROVE  x = c * (x \div c) + (x % c) /\ x \div c \in Nat /\ x % c \in 0..(c - 1)
  OBVIOUS

(* ... a quotient in range ...                                             *)
LEMMA DividedInRange ==
  ASSUME NEW x \in Nat, NEW l \in Nat, NEW c \in Nat, c > 0, x < l * c
  PROVE  x \div c < l
  OBVIOUS

(* ... the quotient and the remainder of what they make ...                *)
LEMMA DividedBack ==
  ASSUME NEW q \in Nat, NEW r \in Nat, NEW c \in Nat, r < c
  PROVE  (q * c + r) \div c = q /\ (q * c + r) % c = r
  OBVIOUS

(* ... a product and a remainder in range ...                              *)
LEMMA MultipliedInRange ==
  ASSUME NEW q \in Nat, NEW r \in Nat, NEW c \in Nat, NEW l \in Nat, r < c, q < l
  PROVE  q * c + r < l * c
  OBVIOUS

(* ... and what they determine.                                            *)
LEMMA DividedOnce ==
  ASSUME NEW x \in Nat, NEW y \in Nat, NEW c \in Nat, c > 0, x \div c = y \div c, x % c = y % c
  PROVE  x = y
  OBVIOUS

(* A slot is of a candidate and a case of their lists ...                  *)
LEMMA PlannedParts ==
  ASSUME NEW i \in Slots
  PROVE  /\ ((i - 1) \div Len(Cases)) + 1 \in DOMAIN Ladder
         /\ ((i - 1) % Len(Cases)) + 1 \in DOMAIN Cases
<1> DEFINE c == Len(Cases)
           l == Len(Ladder)
<1>1. c \in Nat /\ c > 0 /\ l \in Nat /\ DOMAIN Ladder = 1..l /\ DOMAIN Cases = 1..c
  BY LadderAssumption
<1>2. i - 1 \in Nat /\ i - 1 < l * c
  <2>1. l * c \in Nat
    BY <1>1
  <2>2. i \in 1..(l * c)
    BY DEF Slots
  <2>. HIDE DEF l, c
  <2>. QED
    BY <2>1, <2>2
<1>. HIDE DEF l, c
<1>3. (i - 1) \div c < l
  BY <1>1, <1>2, DividedInRange
<1>4. (i - 1) \div c \in Nat /\ (i - 1) % c \in 0..(c - 1)
  BY <1>1, <1>2, Divided
<1>5. ((i - 1) \div c) + 1 \in 1..l /\ ((i - 1) % c) + 1 \in 1..c
  <2> DEFINE q == (i - 1) \div c
             r == (i - 1) % c
  <2>1. q \in Nat /\ q < l /\ r \in 0..(c - 1)
    BY <1>3, <1>4
  <2>. HIDE DEF q, r
  <2>2. q + 1 \in 1..l /\ r + 1 \in 1..c
    BY <2>1, <1>1
  <2>. QED
    BY <2>2 DEF q, r
<1>. QED
  BY <1>1, <1>5 DEF l, c

(* ... no two slots are of the same ...                                    *)
LEMMA PlannedOnce ==
  ASSUME NEW i \in Slots, NEW j \in Slots, Planned[i] = Planned[j]
  PROVE  i = j
<1> DEFINE c == Len(Cases)
           x == i - 1
           y == j - 1
<1>1. c \in Nat /\ c > 0 /\ x \in Nat /\ y \in Nat
  BY LadderAssumption, PlannedSlots DEF Slots
<1>2. Ladder[(x \div c) + 1] = Ladder[(y \div c) + 1] /\ Cases[(x % c) + 1] = Cases[(y % c) + 1]
  BY PlannedSlots, SMTT(30)
<1>3. /\ (x \div c) + 1 \in DOMAIN Ladder /\ (y \div c) + 1 \in DOMAIN Ladder
      /\ (x % c) + 1 \in DOMAIN Cases /\ (y % c) + 1 \in DOMAIN Cases
  BY PlannedParts
<1>4. (x \div c) + 1 = (y \div c) + 1 /\ (x % c) + 1 = (y % c) + 1
  BY <1>2, <1>3, LadderAssumption DEF IsInjective
<1>5. x \div c \in Nat /\ y \div c \in Nat /\ x % c \in Nat /\ y % c \in Nat
  BY <1>1, Divided
<1>. HIDE DEF c, x, y
<1>6. x \div c = y \div c /\ x % c = y % c
  BY <1>4, <1>5
<1>7. x = y
  BY <1>1, <1>6, DividedOnce
<1>8. i \in Int /\ j \in Int
  BY PlannedSlots DEF Slots
<1>. QED
  BY <1>7, <1>8 DEF x, y

(* ... and every candidate has a slot for every case.                      *)
LEMMA PlannedAll ==
  ASSUME NEW k \in DOMAIN Ladder, NEW e \in DOMAIN Cases
  PROVE  \E i \in Slots : Planned[i] = <<Ladder[k], Cases[e]>>
<1> DEFINE c == Len(Cases)
           l == Len(Ladder)
           q == k - 1
           r == e - 1
           i == (q * c + r) + 1
<1>1. c \in Nat /\ l \in Nat /\ q \in Nat /\ r \in Nat /\ r < c /\ q < l
      /\ q + 1 = k /\ r + 1 = e
  BY LadderAssumption
<1>. HIDE DEF c, l, q, r
<1>2. q * c + r < l * c /\ q * c + r \in Nat /\ l * c \in Nat
  BY <1>1, MultipliedInRange
<1>3. i \in 1..(l * c) /\ i - 1 = q * c + r
  <2> DEFINE n == q * c + r
             m == l * c
  <2>. HIDE DEF n, m
  <2>1. n < m /\ n \in Nat /\ m \in Nat
    BY <1>2 DEF n, m
  <2>2. n + 1 \in 1..m /\ (n + 1) - 1 = n
    BY <2>1
  <2>. QED
    BY <2>2 DEF n, m
<1>. HIDE DEF i
<1>4. (i - 1) \div c = q /\ (i - 1) % c = r
  BY <1>1, <1>3, DividedBack
<1>5. i \in Slots
  BY <1>3 DEF Slots, l, c
<1>6. Planned[i] = <<Ladder[((i - 1) \div c) + 1], Cases[((i - 1) % c) + 1]>>
  BY <1>5, PlannedSlots DEF c
<1>. QED
  BY <1>1, <1>4, <1>5, <1>6

(* What a run makes of an answer: only a passed case shows no defect of    *)
(* its own, and a closed cost is the charge.                               *)
LEMMA OutcomeType ==
  ASSUME stage \in Stages, NEW i \in Slots, NEW a \in EvalAnswers
  PROVE  /\ OutcomeOf(i, a) \in Outs /\ OutcomeOf(i, a).at = Planned[i]
         /\ OutcomeOf(i, a).passed =>
               OutcomeOf(i, a).received /\ OutcomeOf(i, a).defect \notin Fails(Planned[i][2])
         /\ stage \in CommitBound /\ OutcomeOf(i, a).received /\ ~OutcomeOf(i, a).open =>
               OutcomeOf(i, a).known = a.cost
<1>1. a.received \in BOOLEAN /\ a.usage \in BOOLEAN /\ a.defect \in Defects /\ a.cost \in Nat
      /\ a.latency \in Nat
  BY EvalAnswersAssumption
<1>2. Planned[i] \in ToSet(Planned)
  BY PlannedIn
<1>3. CasePassed(i, a) \in BOOLEAN /\ (a.received /\ a.defect # "protocol") \in BOOLEAN
      /\ (CasePassed(i, a) /\ a.usage) \in BOOLEAN /\ (~a.usage) \in BOOLEAN
  BY Zenon DEF CasePassed
<1>4. CasePassed(i, a) => a.received /\ a.defect \notin Fails(Planned[i][2])
  BY Zenon DEF CasePassed
<1>5. ASSUME NEW b \in BOOLEAN, NEW n \in Nat
      PROVE  /\ Outcome(i, a, b, n) \in Outs
             /\ Outcome(i, a, b, n).at = Planned[i] /\ Outcome(i, a, b, n).passed = b
             /\ Outcome(i, a, b, n).received = a.received
             /\ Outcome(i, a, b, n).defect = a.defect /\ Outcome(i, a, b, n).known = n
             /\ Outcome(i, a, b, n).open = FALSE
  BY <1>1, <1>2, <1>3 DEF Outcome, Outs
<1>6. ASSUME NEW b \in BOOLEAN, NEW n \in Nat, NEW w \in BOOLEAN
      PROVE  LET o == [Outcome(i, a, b, n) EXCEPT !.open = w]
             IN  /\ o \in Outs /\ o.at = Planned[i] /\ o.passed = b /\ o.received = a.received
                 /\ o.defect = a.defect /\ o.known = n /\ o.open = w
  <2> DEFINE o == Outcome(i, a, b, n)
  <2>1. /\ o \in Outs /\ o.at = Planned[i] /\ o.passed = b /\ o.received = a.received
        /\ o.defect = a.defect /\ o.known = n
    BY <1>5
  <2>. HIDE DEF o
  <2>2. [o EXCEPT !.open = w] \in Outs /\ [o EXCEPT !.open = w].open = w
    BY <2>1 DEF Outs
  <2>3. /\ [o EXCEPT !.open = w].at = o.at /\ [o EXCEPT !.open = w].passed = o.passed
        /\ [o EXCEPT !.open = w].received = o.received
        /\ [o EXCEPT !.open = w].defect = o.defect /\ [o EXCEPT !.open = w].known = o.known
    BY <2>1 DEF Outs
  <2>. QED
    BY <2>1, <2>2, <2>3 DEF o
<1>7. CASE stage = "RESEARCH"
  <2>1. OutcomeOf(i, a) = ResearchOutcome(i, a)
    BY <1>7 DEF OutcomeOf
  <2> DEFINE n == IF a.received /\ a.defect # "protocol" THEN a.cost ELSE 0
             b == CasePassed(i, a)
  <2>2. n \in Nat /\ b \in BOOLEAN /\ ResearchOutcome(i, a) = Outcome(i, a, b, n)
    BY <1>1, <1>3 DEF ResearchOutcome
  <2>3. b = CasePassed(i, a) /\ stage \notin CommitBound
    BY <1>7 DEF CommitBound
  <2>. HIDE DEF n, b
  <2>4. /\ Outcome(i, a, b, n) \in Outs /\ Outcome(i, a, b, n).at = Planned[i]
        /\ Outcome(i, a, b, n).passed = b /\ Outcome(i, a, b, n).received = a.received
        /\ Outcome(i, a, b, n).defect = a.defect
    BY <1>5, <2>2
  <2>5. OutcomeOf(i, a) = Outcome(i, a, b, n)
    BY <2>1, <2>2
  <2>. QED
    BY <1>4, <2>3, <2>4, <2>5
<1>8. CASE stage = "INITIAL"
  <2>1. OutcomeOf(i, a) = InitialOutcome(i, a)
    BY <1>8 DEF OutcomeOf
  <2> DEFINE n == IF a.received /\ a.usage THEN a.cost ELSE 0
             b == CasePassed(i, a)
  <2>2. n \in Nat /\ b \in BOOLEAN /\ InitialOutcome(i, a) = Outcome(i, a, b, n)
    BY <1>1, <1>3 DEF InitialOutcome
  <2>3. b = CasePassed(i, a) /\ stage \notin CommitBound
    BY <1>8 DEF CommitBound
  <2>. HIDE DEF n, b
  <2>4. /\ Outcome(i, a, b, n) \in Outs /\ Outcome(i, a, b, n).at = Planned[i]
        /\ Outcome(i, a, b, n).passed = b /\ Outcome(i, a, b, n).received = a.received
        /\ Outcome(i, a, b, n).defect = a.defect
    BY <1>5, <2>2
  <2>5. OutcomeOf(i, a) = Outcome(i, a, b, n)
    BY <2>1, <2>2
  <2>. QED
    BY <1>4, <2>3, <2>4, <2>5
<1>9. CASE stage \in CommitBound
  <2> DEFINE n == IF a.usage THEN a.cost ELSE 0
             b == CasePassed(i, a) /\ a.usage
             w == ~a.usage
  <2>1. OutcomeOf(i, a) = [Outcome(i, a, b, n) EXCEPT !.open = w]
    BY <1>9 DEF OutcomeOf, CommitBound, RebuttalOutcome, JudgeOutcome
  <2>2. n \in Nat /\ b \in BOOLEAN /\ w \in BOOLEAN
    BY <1>1, <1>3
  <2>3. (~w => n = a.cost) /\ (b => CasePassed(i, a))
    OBVIOUS
  <2>. HIDE DEF n, b, w
  <2>. QED
    BY <1>4, <1>6, <1>9, <2>1, <2>2, <2>3
<1>. QED
  BY <1>7, <1>8, <1>9 DEF Stages, CommitBound

(* Sums of what is known.                                                  *)
LEMMA OutsKnown == \A o \in Outs : o.known \in Nat /\ o.latency \in Nat
  BY DEF Outs

(* What is known of outcomes is an amount.                                 *)
LEMMA KnownNat ==
  ASSUME NEW s \in Seq(Outs)
  PROVE  [i \in DOMAIN s |-> s[i].known] \in Seq(Nat) /\ KnownSum(s) \in Nat
<1>1. \A i \in 1..Len(s) : s[i].known \in Nat
  BY OutsKnown
<1>2. [i \in DOMAIN s |-> s[i].known] \in Seq(Nat)
  BY <1>1
<1>. QED
  BY <1>2, TotalNat DEF KnownSum

(* Nothing is known of no outcome.                                         *)
LEMMA KnownEmpty == KnownSum(<<>>) = 0
<1>1. [i \in DOMAIN <<>> |-> <<>>[i].known] = <<>>
  OBVIOUS
<1>. QED
  BY <1>1, TotalEmpty DEF KnownSum

(* What is known after one more outcome.                                   *)
LEMMA KnownAppend ==
  ASSUME NEW s \in Seq(Outs), NEW o \in Outs
  PROVE  KnownSum(Append(s, o)) = KnownSum(s) + o.known
<1> DEFINE f == [i \in DOMAIN s |-> s[i].known]
           t == Append(s, o)
           g == [i \in DOMAIN t |-> t[i].known]
<1>1. f \in Seq(Nat) /\ o.known \in Nat
  BY KnownNat, OutsKnown
<1>2. g = Append(f, o.known)
  <2>1. t \in Seq(Outs) /\ Len(t) = Len(s) + 1 /\ t[Len(s) + 1] = o
        /\ \A i \in 1..Len(s) : t[i] = s[i]
    OBVIOUS
  <2>2. Len(f) = Len(s) /\ \A i \in 1..Len(s) : f[i] = s[i].known
    OBVIOUS
  <2>3. Append(f, o.known) \in Seq(Nat) /\ Len(Append(f, o.known)) = Len(s) + 1
        /\ Append(f, o.known)[Len(s) + 1] = o.known
        /\ \A i \in 1..Len(s) : Append(f, o.known)[i] = s[i].known
    BY <1>1, <2>2
  <2>4. g \in Seq(Nat) /\ Len(g) = Len(s) + 1
        /\ \A i \in 1..(Len(s) + 1) : g[i] = t[i].known
    <3>1. \A i \in 1..(Len(s) + 1) : t[i].known \in Nat /\ DOMAIN t = 1..(Len(s) + 1)
      <4>. HIDE DEF t
      <4>. QED
        BY <2>1, OutsKnown
    <3>. HIDE DEF t
    <3>. QED
      BY <2>1, <3>1
  <2>. HIDE DEF f, g, t
  <2>5. \A i \in 1..(Len(s) + 1) : g[i] = Append(f, o.known)[i]
    BY <2>1, <2>3, <2>4, SMTT(30)
  <2>. QED
    BY <2>3, <2>4, <2>5
<1>. QED
  BY <1>1, <1>2, TotalAppend DEF KnownSum

(* What a run makes of an answer depends on the stage alone, which stays.  *)
LEMMA StageFrame ==
  ASSUME stage' = stage
  PROVE  /\ \A i, a : OutcomeOf(i, a)' = OutcomeOf(i, a)
         /\ \A c : Fails(c)' = Fails(c)
<1>1. ASSUME NEW c PROVE Fails(c)' = Fails(c)
  BY DEF Fails
<1>2. ASSUME NEW i, NEW a PROVE CasePassed(i, a)' = CasePassed(i, a)
  BY <1>1 DEF CasePassed
<1>3. ASSUME NEW i, NEW a PROVE OutcomeOf(i, a)' = OutcomeOf(i, a)
  BY <1>2 DEF OutcomeOf, ResearchOutcome, InitialOutcome, RebuttalOutcome, JudgeOutcome
<1>. QED
  BY <1>1, <1>3

(* The next outcome of an invocation joins those it remembers.             *)
LEMMA AnsweredAppend ==
  ASSUME stage \in Stages, NEW s \in Seq(Outs), Answered(s), Len(s) < Len(Planned), NEW a \in EvalAnswers
  PROVE  LET o == OutcomeOf(Len(s) + 1, a)
         IN  /\ o \in Outs /\ Append(s, o) \in Seq(Outs) /\ Len(Append(s, o)) = Len(s) + 1
             /\ Answered(Append(s, o)) /\ Len(s) + 1 \in Slots
<1>1. Len(s) + 1 \in Slots
  BY PlannedSlots DEF Slots
<1>2. OutcomeOf(Len(s) + 1, a) \in Outs
  BY <1>1, OutcomeType
<1>3. Append(s, OutcomeOf(Len(s) + 1, a)) \in Seq(Outs)
      /\ Len(Append(s, OutcomeOf(Len(s) + 1, a))) = Len(s) + 1
      /\ Append(s, OutcomeOf(Len(s) + 1, a))[Len(s) + 1] = OutcomeOf(Len(s) + 1, a)
      /\ \A i \in 1..Len(s) : Append(s, OutcomeOf(Len(s) + 1, a))[i] = s[i]
  BY <1>2
<1>. QED
  BY <1>1, <1>2, <1>3 DEF Answered

-----------------------------------------------------------------------------
(* What an idle invocation looks like.                                     *)
LEMMA IdleEvaluation ==
  /\ IdleEval \in Evaluations /\ IdleEval.pc = "idle" /\ IdleEval.memory = <<>>
  /\ IdleEval.read = None
  BY DEF IdleEval, Evaluations, EvalPcs

(* What holds of one invocation, of those that have gone idle, and of      *)
(* those that have not moved.                                              *)
LEMMA IdleHolds == Loaded(IdleEval)' /\ MemoryHolds(IdleEval)'
<1>1. IdleEval' = IdleEval
  BY DEF IdleEval, None
<1>2. 0 <= Len(Planned)
  BY PlannedSlots
<1>. QED
  BY <1>1, <1>2, IdleEvaluation DEF Loaded, MemoryHolds, Answered, Holding

(* An invocation that has not moved holds what it held.                    *)
LEMMA StillHolds ==
  ASSUME EvalInv, stage' = stage, work' >= work, work' \in Nat, NEW p \in Procs, run'[p] = run[p]
  PROVE  Loaded(run[p])' /\ MemoryHolds(run[p])'
<1>1. Loaded(run[p]) /\ MemoryHolds(run[p]) /\ run[p] \in Evaluations
  BY DEF EvalInv, MemoriesHold, EvalTypes
<1>2. Loaded(run[p])'
  <2>1. work \in Nat
    BY DEF EvalInv, EvalTypes
  <2>2. run[p].read # None => run[p].read \in Reads
    BY <1>1 DEF Evaluations
  <2>3. run[p].code \in Nat
    BY <1>1 DEF Evaluations
  <2>4. run[p].code <= work => run[p].code <= work'
    BY <2>1, <2>3
  <2>. QED
    BY <1>1, <2>4 DEF Loaded
<1>3. MemoryHolds(run[p])'
  BY <1>1, StageFrame DEF MemoryHolds, Answered
<1>. QED
  BY <1>2, <1>3

(* A step of one invocation: the others hold what they held.               *)
LEMMA OneMoves ==
  ASSUME EvalInv, stage' = stage, work' = work, NEW p \in Procs,
         \A q \in Procs : q # p => run'[q] = run[q],
         run'[p] = IdleEval \/ (Loaded(run[p])' /\ MemoryHolds(run[p])')
  PROVE  MemoriesHold'
<1>1. work' >= work /\ work' \in Nat
  BY DEF EvalInv, EvalTypes
<1>2. ASSUME NEW q \in Procs PROVE Loaded(run[q])' /\ MemoryHolds(run[q])'
  <2>1. CASE q # p
    BY <1>1, <2>1, StillHolds
  <2>2. CASE run'[p] = IdleEval /\ q = p
    <3>1. IdleEval' = IdleEval
      BY DEF IdleEval, None
    <3>. QED
      BY <2>2, <3>1, IdleHolds
  <2>. QED
    BY <2>1, <2>2
<1>. QED
  BY <1>2 DEF MemoriesHold

(* Payments stay what they were in a step that pays nothing.               *)
LEMMA PaidUpToStays == ASSUME paid' = paid, NEW m PROVE PaidUpTo(m)' = PaidUpTo(m)
  BY DEF PaidUpTo

(* An authority that is not touched still holds.                           *)
LEMMA AuthorityStays ==
  ASSUME EvalInv, stage' = stage, authority' = authority
  PROVE  AuthorityHolds'
  BY StageFrame DEF EvalInv, AuthorityHolds, Selects, Answered

(* A result that is not touched still holds.                               *)
LEMMA ResultStays ==
  ASSUME EvalInv, stage' = stage, output' = output
  PROVE  ResultHolds'
  BY StageFrame DEF EvalInv, ResultHolds, Selects, Answered

(* A step that pays nothing and in which no invocation of an approved      *)
(* evaluation holds more than before.                                      *)
LEMMA EvalFrame ==
  ASSUME EvalInv, EvalTypes', Preflights', MemoriesHold', ResultHolds', AuthorityHolds',
         UNCHANGED <<stage, auth, receipts>>,
         UNCHANGED <<paid, spent>> \/ stage = "RESEARCH",
         crashes' >= crashes, output # None => output' # None,
         stage \in Council => \A p \in Procs : run'[p] = run[p] \/ run'[p].pc \notin Holding,
         stage \in CommitBound =>
            \A p \in Procs : \/ run'[p] = run[p] \/ run[p].pc \notin Holding \cup {"keyless"}
                             \/ output' # None \/ crashes' > crashes
  PROVE  EvalInv'
<1>1. CouncilPays
  BY DEF EvalInv
<1>2. crashes \in Nat /\ crashes' \in Nat
  BY StageAssumption DEF EvalInv, EvalTypes
<1>3. (stage = "RESEARCH" => auth = None /\ receipts = <<>>)'
  BY <1>1 DEF CouncilPays
<1>4. SpendIsBounded' /\ AuthorizedLeavesResult'
  <2>1. CASE stage \in CommitBound
    <3>1. spent' = spent
      BY <2>1 DEF CommitBound
    <3>2. SpendIsBounded'
      BY <1>1, <3>1 DEF CouncilPays, SpendIsBounded
    <3>3. ASSUME auth' # None, crashes' = 0, output' = None
          PROVE  \/ \E p \in Procs : run'[p].pc \in {"ready", "answered", "settle"}
                 \/ spent' = 0 /\ \E p \in Procs : run'[p].pc = "keyless"
      <4>1. crashes = 0 /\ output = None /\ auth # None
        BY <1>2, <3>3
      <4>2. \/ \E p \in Procs : run[p].pc \in {"ready", "answered", "settle"}
            \/ spent = 0 /\ \E p \in Procs : run[p].pc = "keyless"
        BY <1>1, <2>1, <4>1 DEF CouncilPays, AuthorizedLeavesResult
      <4>3. ASSUME NEW p \in Procs,
                   run[p].pc \in {"ready", "answered", "settle"} \/ run[p].pc = "keyless"
            PROVE  run'[p] = run[p]
        BY <1>2, <2>1, <3>3, <4>1, <4>3 DEF Holding
      <4>. QED
        BY <3>1, <4>2, <4>3
    <3>. QED
      BY <3>2, <3>3 DEF AuthorizedLeavesResult
  <2>. QED
    BY <2>1 DEF SpendIsBounded, AuthorizedLeavesResult
<1>5. ASSUME stage \in Council
      PROVE  (/\ auth = None => receipts = <<>> /\ PaidUpTo(0) /\ spent = 0
              /\ \A p \in Procs : run[p].pc \in Holding => HolderPays(p)
              /\ \E m \in Nat : PaidUpTo(m) /\ Len(receipts) <= m /\ m <= Len(receipts) + 1
              /\ Len(receipts) <= Len(Planned)
              /\ \A i \in DOMAIN receipts : receipts[i].at = Planned[i])'
  <2>1. UNCHANGED <<paid, spent, stage, auth, receipts>>
    BY <1>5 DEF Council
  <2>2. \A m : PaidUpTo(m)' = PaidUpTo(m)
    BY <2>1, PaidUpToStays
  <2>3. ASSUME NEW p \in Procs, run'[p].pc \in Holding PROVE HolderPays(p)'
    <3>1. run'[p] = run[p] /\ HolderPays(p)
      BY <1>1, <1>5, <2>3 DEF CouncilPays
    <3>. QED
      BY <2>1, <2>2, <3>1 DEF HolderPays
  <2>4. (auth = None => receipts = <<>> /\ PaidUpTo(0) /\ spent = 0)'
    BY <1>1, <1>5, <2>1, <2>2 DEF CouncilPays
  <2>5. \E m \in Nat : PaidUpTo(m)' /\ Len(receipts') <= m /\ m <= Len(receipts') + 1
    <3>1. PICK m \in Nat : PaidUpTo(m) /\ Len(receipts) <= m /\ m <= Len(receipts) + 1
      BY <1>1, <1>5 DEF CouncilPays
    <3>. QED
      BY <2>1, <2>2, <3>1
  <2>6. (Len(receipts) <= Len(Planned) /\ \A i \in DOMAIN receipts : receipts[i].at = Planned[i])'
    BY <1>1, <1>5, <2>1 DEF CouncilPays
  <2>. QED
    BY <2>3, <2>4, <2>5, <2>6
<1>6. CouncilPays'
  BY <1>3, <1>4, <1>5 DEF CouncilPays
<1>. QED
  BY <1>6 DEF EvalInv

(* The initial state.                                                      *)
LEMMA EvalInitInv == EvalInit => EvalInv
<1> SUFFICES ASSUME EvalInit PROVE EvalInv
  OBVIOUS
<1> USE DEF EvalInit
<1>1. EvalTypes
  BY IdleEvaluation, LadderAssumption, StageAssumption DEF EvalTypes
<1>2. Preflights
  BY DEF Preflights, FrozenBelow
<1>3. ASSUME NEW p \in Procs PROVE Loaded(run[p]) /\ MemoryHolds(run[p])
  <2>1. run[p] = IdleEval /\ 0 <= Len(Planned)
    BY PlannedSlots
  <2>. QED
    BY <2>1, IdleEvaluation DEF Loaded, MemoryHolds, Answered, Holding
<1>4. PaidUpTo(0)
  BY PlannedIn DEF PaidUpTo, Slots
<1>5. \A p \in Procs : run[p].pc \notin Holding
  BY IdleEvaluation DEF Holding
<1>6. Len(receipts) = 0 /\ DOMAIN receipts = {} /\ 0 <= Len(Planned)
  BY PlannedSlots
<1>7. SpendIsBounded
  BY StageAssumption, EvalAnswersAssumption DEF SpendIsBounded
<1>8. CouncilPays
  BY <1>4, <1>5, <1>6, <1>7 DEF CouncilPays, AuthorizedLeavesResult
<1>. QED
  BY <1>1, <1>2, <1>3, <1>8 DEF EvalInv, MemoriesHold, ResultHolds, AuthorityHolds

(* The developer and the owner.                                            *)
LEMMA FileSteps ==
  ASSUME EvalInv, Develop \/ Commit \/ PreflightEval \/ DryRunEval \/ ApproveEval
  PROVE  EvalInv'
<1> USE DEF Develop, Commit, PreflightEval, DryRunEval, ApproveEval, evalFiles
<1>1. UNCHANGED <<stage, auth, receipts, authority, run, paid, spent, crashes>>
  OBVIOUS
<1>2. work \in 1..MaxVersions /\ head \in 1..work /\ MaxVersions \in Nat /\ crashes \in Nat
  BY LadderAssumption, StageAssumption DEF EvalInv, EvalTypes
<1>3. work' \in 1..MaxVersions /\ head' \in 1..work' /\ work' >= work
  BY <1>2
<1>4. /\ frozen' \in {frozen, FrozenRequest} /\ cost' \in {cost, frozen, FrozenRequest}
      /\ rehearsed' \in {rehearsed, frozen}
  BY DEF InitialRequest, InitialCost, RebuttalRequest, RebuttalCost, JudgePreflights,
         InitialDryRun, JudgeDryRun
<1>5. FrozenRequest \in Frozens /\ FrozenBelow(FrozenRequest)
  BY <1>2 DEF FrozenRequest, Frozens, FrozenBelow
<1>6. ASSUME NEW f \in Frozens \cup {None}, FrozenBelow(f) PROVE FrozenBelow(f)'
  <2>1. CASE f # None
    <3>1. f.code \in Nat /\ f.code <= work /\ f.commit <= f.code
      BY <1>6, <2>1 DEF FrozenBelow, Frozens
    <3>. QED
      BY <1>2, <1>3, <3>1 DEF FrozenBelow
  <2>. QED
    BY <2>1 DEF FrozenBelow
<1>7. /\ frozen \in Frozens \cup {None} /\ cost \in Frozens \cup {None}
      /\ rehearsed \in Frozens \cup {None}
      /\ FrozenBelow(frozen) /\ FrozenBelow(cost) /\ FrozenBelow(rehearsed)
  BY DEF EvalInv, EvalTypes, Preflights
<1>8. EvalTypes'
  BY <1>1, <1>3, <1>4, <1>5, <1>7 DEF EvalInv, EvalTypes
<1>9. Preflights'
  BY <1>4, <1>5, <1>6, <1>7 DEF Preflights, FrozenBelow
<1>10. MemoriesHold'
  BY <1>1, <1>3, StillHolds DEF MemoriesHold
<1>11. ResultHolds'
  <2>1. output' = output \/ output' = [status |-> "DRY"]
    BY DEF InitialDryRun, JudgeDryRun
  <2>2. CASE output' = output
    BY <1>1, <2>2, ResultStays
  <2>3. CASE output' = [status |-> "DRY"]
    BY <2>3 DEF ResultHolds
  <2>. QED
    BY <2>1, <2>2, <2>3
<1>12. AuthorityHolds'
  BY <1>1, AuthorityStays
<1>13. output # None => output' # None
  <2>1. [status |-> "DRY"] # None
    BY DEF None
  <2>. QED
    BY <2>1 DEF InitialDryRun, JudgeDryRun
<1>. QED
  BY <1>1, <1>2, <1>8, <1>9, <1>10, <1>11, <1>12, <1>13, EvalFrame

(* The authority is frozen from a result that selected.                    *)
LEMMA FreezeStep == ASSUME EvalInv, Freeze PROVE EvalInv'
<1> USE DEF Freeze
<1>1. UNCHANGED <<stage, work, head, frozen, cost, rehearsed, approval, auth, receipts, output,
                  run, paid, spent, crashes>>
  OBVIOUS
<1>2. EvalTypes' /\ Preflights'
  BY <1>1 DEF EvalInv, EvalTypes, Preflights, FrozenBelow
<1>3. MemoriesHold'
  BY <1>1, StillHolds DEF EvalInv, EvalTypes, MemoriesHold
<1>4. ResultHolds'
  BY <1>1, ResultStays
<1>5. AuthorityHolds'
  <2>1. Selects(output)
    BY DEF Selected, EvalInv, ResultHolds
  <2>2. authority'.source = output /\ authority'.candidate = output.selection.candidate
    OBVIOUS
  <2>3. Selects(output)'
    BY <1>1, <2>1, StageFrame DEF Selects, Answered
  <2>. QED
    BY <1>1, <2>1, <2>2, <2>3 DEF AuthorityHolds, Selects
<1>6. crashes \in Nat
  BY StageAssumption DEF EvalInv, EvalTypes
<1>. QED
  BY <1>1, <1>2, <1>3, <1>4, <1>5, <1>6, EvalFrame

(* An invocation starts, checks, gives up, ends or dies.                   *)
LEMMA MoveTypes ==
  ASSUME EvalInv, UNCHANGED <<stage, work, head, frozen, cost, rehearsed, receipts, paid, spent>>,
         crashes' \in 0..MaxCrashes, NEW p \in Procs, NEW r \in Evaluations,
         run' = [run EXCEPT ![p] = r]
  PROVE  /\ EvalTypes' /\ Preflights' /\ run'[p] = r
         /\ \A q \in Procs : q # p => run'[q] = run[q]
  BY DEF EvalInv, EvalTypes, Preflights, FrozenBelow

(* An invocation starts and reads its files.                               *)
LEMMA StartStep ==
  ASSUME EvalInv, NEW p \in Procs, StartEval(p) \/ ResearchStart(p)
  PROVE  EvalInv'
<1> USE DEF StartEval, ResearchStart, evalFiles
<1>1. UNCHANGED <<stage, work, head, frozen, cost, rehearsed, auth, receipts, output, authority,
                  paid, spent, crashes>>
  OBVIOUS
<1>2. PICK r \in Evaluations :
        /\ run' = [run EXCEPT ![p] = r] /\ r.memory = <<>> /\ r.code = work
        /\ \/ r.pc = "started" /\ r.read = OnDisk /\ stage \in Council /\ Rebuilds(work, OnDisk)
           \/ r.pc = "ready" /\ stage = "RESEARCH"
  <2>1. work \in Nat /\ OnDisk \in Reads
    BY DEF EvalInv, EvalTypes, OnDisk, Reads
  <2>2. CASE StartEval(p)
    <3> DEFINE r == [IdleEval EXCEPT !.pc = "started", !.code = work, !.read = OnDisk]
    <3>1. r \in Evaluations /\ r.pc = "started" /\ r.code = work /\ r.read = OnDisk
          /\ r.memory = <<>>
      BY <2>1, IdleEvaluation DEF Evaluations, EvalPcs
    <3>2. run' = [run EXCEPT ![p] = r]
      BY <2>2
    <3>. HIDE DEF r
    <3>. QED
      BY <2>2, <3>1, <3>2
  <2>3. CASE ResearchStart(p)
    <3> DEFINE r == [IdleEval EXCEPT !.pc = "ready", !.code = work]
    <3>1. r \in Evaluations /\ r.pc = "ready" /\ r.code = work /\ r.memory = <<>>
      BY <2>1, IdleEvaluation DEF Evaluations, EvalPcs
    <3>2. run' = [run EXCEPT ![p] = r]
      BY <2>3
    <3>. HIDE DEF r
    <3>. QED
      BY <2>3, <3>1, <3>2
  <2>. QED
    BY <2>2, <2>3
<1>3. crashes' \in 0..MaxCrashes /\ crashes' >= crashes
  BY <1>1, StageAssumption DEF EvalInv, EvalTypes
<1>4. EvalTypes' /\ Preflights' /\ run'[p] = r /\ \A q \in Procs : q # p => run'[q] = run[q]
  BY <1>1, <1>2, <1>3, MoveTypes
<1>5. Loaded(r)'
  <2>1. CASE r.pc = "ready"
    BY <1>1, <1>2, <2>1 DEF Loaded, CommitBound
  <2>2. CASE r.pc = "started" /\ stage \in CommitBound
    <3>1. frozen # None /\ cost = frozen /\ frozen.code = work
      BY <1>2, <2>2 DEF Rebuilds, RebuttalRebuilds, JudgeRebuilds, OnDisk, CommitBound
    <3>2. frozen.commit <= frozen.code /\ work \in Nat
      BY <3>1 DEF EvalInv, EvalTypes, Preflights, FrozenBelow
    <3>3. OnDisk \in Reads /\ OnDisk.request = frozen /\ OnDisk.cost = cost
      BY DEF EvalInv, EvalTypes, OnDisk, Reads
    <3>. QED
      BY <1>1, <1>2, <2>2, <3>1, <3>2, <3>3, EvalNotNone DEF Loaded
  <2>. QED
    BY <1>1, <1>2, <2>1, <2>2 DEF Loaded
<1>6. MemoryHolds(r)'
  <2>1. Len(r.memory) <= Len(Planned) /\ Answered(r.memory)'
    BY <1>2, PlannedSlots DEF Answered
  <2>. QED
    BY <1>1, <1>2, <2>1 DEF MemoryHolds, Council
<1>7. MemoriesHold'
  BY <1>1, <1>4, <1>5, <1>6, OneMoves
<1>8. ResultHolds' /\ AuthorityHolds'
  BY <1>1, ResultStays, AuthorityStays
<1>9. stage \in Council => \A q \in Procs : run'[q] = run[q] \/ run'[q].pc \notin Holding
  BY <1>2, <1>4 DEF Holding, Council
<1>10. stage \in CommitBound => run[p].pc \notin Holding \cup {"keyless"}
  BY DEF Holding, CommitBound
<1>. QED
  BY <1>1, <1>3, <1>4, <1>7, <1>8, <1>9, <1>10, EvalFrame

(* An invocation ends, with a result or without.                           *)
LEMMA EndStep ==
  ASSUME EvalInv, NEW p \in Procs, run' = [run EXCEPT ![p] = IdleEval],
         UNCHANGED <<stage, work, head, frozen, cost, rehearsed, auth, receipts, authority,
                     paid, spent>>,
         crashes' \in 0..MaxCrashes, crashes' >= crashes, ResultHolds', output # None => output' # None,
         stage \in CommitBound /\ run[p].pc \in Holding \cup {"keyless"} =>
            output' # None \/ crashes' > crashes
  PROVE  EvalInv'
<1>1. EvalTypes' /\ Preflights' /\ run'[p] = IdleEval /\ \A q \in Procs : q # p => run'[q] = run[q]
  BY IdleEvaluation, MoveTypes
<1>2. MemoriesHold'
  BY <1>1, OneMoves
<1>3. AuthorityHolds'
  BY AuthorityStays
<1>4. \A q \in Procs : run'[q] = run[q] \/ run'[q].pc \notin Holding
  BY <1>1, IdleEvaluation DEF Holding
<1>5. stage \in CommitBound =>
         \A q \in Procs : \/ run'[q] = run[q] \/ run[q].pc \notin Holding \cup {"keyless"}
                          \/ output' # None \/ crashes' > crashes
  BY <1>1
<1>. QED
  BY <1>1, <1>2, <1>3, <1>4, <1>5, EvalFrame

(* An invocation dies.                                                     *)
LEMMA CrashStep == ASSUME EvalInv, NEW p \in Procs, EvalCrash(p) PROVE EvalInv'
<1> USE DEF EvalCrash, evalFiles
<1>1. crashes \in Nat /\ crashes' \in 0..MaxCrashes /\ crashes' > crashes /\ crashes' >= crashes
  BY StageAssumption DEF EvalInv, EvalTypes
<1>2. UNCHANGED <<stage, work, head, frozen, cost, rehearsed, auth, receipts, output, authority,
                  paid, spent>>
      /\ run' = [run EXCEPT ![p] = IdleEval]
  OBVIOUS
<1>3. ResultHolds'
  BY <1>2, ResultStays
<1>. QED
  BY <1>1, <1>2, <1>3, EndStep

(* An invocation checks what it has read against the code at hand.         *)
LEMMA CheckStep == ASSUME EvalInv, NEW p \in Procs, Check(p) PROVE EvalInv'
<1> USE DEF Check, evalFiles
<1>1. UNCHANGED <<stage, work, head, frozen, cost, rehearsed, auth, receipts, output, authority,
                  paid, spent, crashes>>
  OBVIOUS
<1>2. run[p].pc = "started" /\ run[p] \in Evaluations /\ Loaded(run[p]) /\ MemoryHolds(run[p])
  BY DEF EvalInv, EvalTypes, MemoriesHold
<1>3. crashes' \in 0..MaxCrashes /\ crashes' >= crashes
  BY <1>1, StageAssumption DEF EvalInv, EvalTypes
<1>4. ResultHolds' /\ AuthorityHolds'
  BY <1>1, ResultStays, AuthorityStays
<1>5. run[p].pc \notin Holding \cup {"keyless"}
  BY <1>2 DEF Holding
<1>6. CASE run' = [run EXCEPT ![p] = IdleEval]
  BY <1>1, <1>3, <1>4, <1>5, <1>6, EndStep
<1>7. CASE Clean(run[p].read) /\ run' = [run EXCEPT ![p] = [run[p] EXCEPT !.pc = "checked"]]
  <2>1. PICK r \in Evaluations :
          /\ run' = [run EXCEPT ![p] = r] /\ r.pc = "checked" /\ r.code = run[p].code
          /\ r.read = run[p].read /\ r.memory = run[p].memory
    <3> DEFINE u == [run[p] EXCEPT !.pc = "checked"]
    <3>1. u \in Evaluations /\ u.pc = "checked" /\ u.code = run[p].code /\ u.read = run[p].read
          /\ u.memory = run[p].memory
      BY <1>2 DEF Evaluations, EvalPcs
    <3>2. run' = [run EXCEPT ![p] = u]
      BY <1>7
    <3>. HIDE DEF u
    <3>. QED
      BY <3>1, <3>2
  <2>3. EvalTypes' /\ Preflights' /\ run'[p] = r /\ \A q \in Procs : q # p => run'[q] = run[q]
    BY <1>1, <1>3, <2>1, MoveTypes
  <2>4. Loaded(r)'
    <3>1. CASE stage \in CommitBound
      <4>1. work = head /\ head = run[p].read.request.commit
        BY <1>7, <3>1 DEF Clean, RebuttalClean, JudgeClean, CommitBound
      <4>2. run[p].code <= work /\ run[p].read.request.commit <= run[p].code
        BY <1>2, <3>1 DEF Loaded
      <4>3. work \in Nat /\ run[p].code \in Nat
        BY <1>2 DEF EvalInv, EvalTypes, Evaluations
      <4>4. run[p].read.request.commit = run[p].code
        BY <4>1, <4>2, <4>3
      <4>. QED
        BY <1>1, <1>2, <2>1, <3>1, <4>4 DEF Loaded
    <3>. QED
      BY <1>1, <3>1 DEF Loaded
  <2>5. MemoryHolds(r)'
    <3>1. r.memory = <<>>
      BY <1>2, <2>1 DEF MemoryHolds, Holding
    <3>2. Len(r.memory) <= Len(Planned) /\ Answered(r.memory)'
      BY <3>1, PlannedSlots DEF Answered
    <3>3. stage # "RESEARCH"
      BY <1>2 DEF MemoryHolds
    <3>. QED
      BY <1>1, <2>1, <3>1, <3>2, <3>3 DEF MemoryHolds, Holding
  <2>6. MemoriesHold'
    BY <1>1, <2>3, <2>4, <2>5, OneMoves
  <2>7. \A q \in Procs : run'[q] = run[q] \/ run'[q].pc \notin Holding
    BY <2>1, <2>3 DEF Holding
  <2>8. \A q \in Procs : run'[q] = run[q] \/ run[q].pc \notin Holding \cup {"keyless"}
    BY <1>5, <2>3
  <2>. QED
    BY <1>1, <1>3, <1>4, <2>3, <2>6, <2>7, <2>8, EvalFrame
<1>. QED
  BY <1>6, <1>7

(* All calls settled: the result is of every call of the plan.             *)
LEMMA FinishStep == ASSUME EvalInv, NEW p \in Procs, Finish(p) PROVE EvalInv'
<1> USE DEF Finish
<1>1. UNCHANGED <<stage, work, head, frozen, cost, rehearsed, auth, receipts, authority,
                  paid, spent, crashes>>
  OBVIOUS
<1>2. crashes' \in 0..MaxCrashes /\ crashes' >= crashes
  BY <1>1, StageAssumption DEF EvalInv, EvalTypes
<1>3. PICK s \in Seq(Outs) : s = run[p].memory /\ Answered(s) /\ Len(s) = Len(Planned)
  BY DEF EvalInv, EvalTypes, Evaluations, MemoriesHold, MemoryHolds, AllSettled
<1>4. output' = ResultOf(s)
  BY <1>3 DEF InitialFinish, RebuttalFinish, JudgeFinish, ResearchFinish
<1>5. output'.results = s /\ output'.selection = Select(s)
      /\ (output'.status = "PASS_SELECTED" => Select(s) # None)
  BY <1>4 DEF ResultOf
<1>6. output' # None
  <2>1. DOMAIN output' = {"status", "selection", "results", "receipts"} /\ DOMAIN None = {"none"}
    BY <1>4 DEF ResultOf, None
  <2>. QED
    BY <2>1
<1>7. Answered(s)'
  BY <1>1, <1>3, StageFrame DEF Answered
<1>8. ResultHolds'
  BY <1>3, <1>5, <1>7 DEF ResultHolds, Selects
<1>. QED
  BY <1>1, <1>2, <1>6, <1>8, EndStep

(* In an approved evaluation only one invocation is past its authorization *)
(* and accounts for what is paid: a step of it keeps the invariant when it *)
(* still accounts for everything after it.                                 *)
LEMMA HolderStep ==
  ASSUME EvalInv, EvalTypes', Preflights', MemoriesHold', NEW p \in Procs, stage \in Council,
         UNCHANGED <<stage, work, output, authority>>,
         run'[p].pc \in Holding, \A q \in Procs : q # p => run'[q] = run[q],
         auth = None \/ auth = [by |-> p], HolderPays(p)', SpendIsBounded',
         Len(receipts') <= Len(Planned), \A i \in DOMAIN receipts' : receipts'[i].at = Planned[i]
  PROVE  EvalInv'
<1>1. ResultHolds' /\ AuthorityHolds'
  BY ResultStays, AuthorityStays
<1>2. ASSUME NEW q \in Procs, run'[q].pc \in Holding PROVE q = p
  <2>1. CASE q # p
    <3>1. auth = [by |-> q]
      BY <1>2, <2>1 DEF EvalInv, CouncilPays, HolderPays
    <3>2. [by |-> q] # None /\ ([by |-> q] = [by |-> p] => q = p)
      <4>1. DOMAIN [by |-> q] = {"by"} /\ DOMAIN None = {"none"} /\ [by |-> q].by = q
            /\ [by |-> p].by = p
        BY DEF None
      <4>. QED
        BY <4>1
    <3>. QED
      BY <2>1, <3>1, <3>2
  <2>. QED
    BY <2>1
<1>3. ASSUME auth' = None PROVE FALSE
  <2>1. DOMAIN [by |-> p] = {"by"} /\ DOMAIN None = {"none"} /\ auth' = [by |-> p]
    BY DEF None, HolderPays
  <2>. QED
    BY <1>3, <2>1
<1>4. \E m \in Nat : PaidUpTo(m)' /\ Len(receipts') <= m /\ m <= Len(receipts') + 1
  <2>1. run'[p] \in Evaluations
    BY DEF EvalTypes
  <2>2. PICK k \in Nat : k = Len(run'[p].memory)
    BY <2>1 DEF Evaluations
  <2>3. PICK c \in Nat : c = k + (IF run'[p].pc = "ready" THEN 0 ELSE 1)
    <3>1. k + 0 \in Nat /\ k + 1 \in Nat
      OBVIOUS
    <3>2. k + (IF run'[p].pc = "ready" THEN 0 ELSE 1) \in {k + 0, k + 1}
      OBVIOUS
    <3>. QED
      BY <3>1, <3>2
  <2>4. CallsOf(run[p])' = c
    BY <2>2, <2>3 DEF CallsOf
  <2>5. PaidUpTo(c)'
    BY <2>4 DEF HolderPays, PaidUpTo
  <2>6. Len(receipts') = k + (IF run'[p].pc = "settle" THEN 1 ELSE 0)
    BY <2>2 DEF HolderPays
  <2>7. Len(receipts') <= c /\ c <= Len(receipts') + 1
    <3>1. CASE run'[p].pc = "ready"
      BY <2>3, <2>6, <3>1
    <3>2. CASE run'[p].pc = "answered"
      BY <2>3, <2>6, <3>2
    <3>3. CASE run'[p].pc = "settle"
      BY <2>3, <2>6, <3>3
    <3>. QED
      BY <3>1, <3>2, <3>3 DEF Holding
  <2>. QED
    BY <2>5, <2>7
<1>5. AuthorizedLeavesResult'
  BY DEF AuthorizedLeavesResult, Holding
<1>6. CouncilPays'
  <2>1. stage' # "RESEARCH"
    BY DEF Council
  <2>2. \A q \in Procs : run'[q].pc \in Holding => HolderPays(q)'
    BY <1>2
  <2>. QED
    BY <1>3, <1>4, <1>5, <2>1, <2>2 DEF CouncilPays
<1>. QED
  BY <1>1, <1>6 DEF EvalInv

(* The authorization: created exclusively in the council, so that one      *)
(* invocation pays.                                                        *)
LEMMA AuthorizeEvalStep == ASSUME EvalInv, NEW p \in Procs, AuthorizeEval(p) PROVE EvalInv'
<1> USE DEF AuthorizeEval
<1>1. UNCHANGED <<stage, work, head, frozen, cost, rehearsed, receipts, output, authority,
                  paid, spent, crashes>>
  OBVIOUS
<1>2. run[p].pc = "checked" /\ run[p] \in Evaluations /\ Loaded(run[p]) /\ MemoryHolds(run[p])
  BY DEF EvalInv, EvalTypes, MemoriesHold
<1>3. crashes' \in 0..MaxCrashes /\ crashes' >= crashes
  BY <1>1, StageAssumption DEF EvalInv, EvalTypes
<1>4. run[p].pc \notin Holding \cup {"keyless"} /\ run[p].memory = <<>> /\ stage # "RESEARCH"
  BY <1>2 DEF Holding, MemoryHolds
<1>5. CASE run' = [run EXCEPT ![p] = IdleEval] /\ auth' = auth
  BY <1>1, <1>3, <1>4, <1>5, ResultStays, EndStep
<1>6. CASE Create(p) /\ run' = [run EXCEPT ![p].pc = "ready"]
  <2>1. PICK r \in Evaluations :
          /\ run' = [run EXCEPT ![p] = r] /\ r.pc = "ready" /\ r.code = run[p].code
          /\ r.read = run[p].read /\ r.memory = <<>>
    <3> DEFINE u == [run[p] EXCEPT !.pc = "ready"]
    <3>1. u \in Evaluations /\ u.pc = "ready" /\ u.code = run[p].code /\ u.read = run[p].read
          /\ u.memory = run[p].memory
      BY <1>2 DEF Evaluations, EvalPcs
    <3>2. run' = [run EXCEPT ![p] = u]
      BY <1>6
    <3>. HIDE DEF u
    <3>. QED
      BY <1>4, <3>1, <3>2
  <2>2. EvalTypes' /\ Preflights' /\ run'[p] = r /\ \A q \in Procs : q # p => run'[q] = run[q]
    BY <1>1, <1>3, <2>1, MoveTypes
  <2>3. stage \in Council /\ auth = None /\ auth' = [by |-> p]
    BY <1>4, <1>6 DEF Create, Council, EvalInv, EvalTypes
  <2>4. Loaded(r)'
    BY <1>1, <1>2, <2>1 DEF Loaded
  <2>5. MemoryHolds(r)'
    <3>1. Len(r.memory) <= Len(Planned) /\ Answered(r.memory)'
      BY <2>1, PlannedSlots DEF Answered
    <3>. QED
      BY <1>1, <1>4, <2>1, <3>1 DEF MemoryHolds
  <2>6. MemoriesHold'
    BY <1>1, <2>2, <2>4, <2>5, OneMoves
  <2>7. receipts = <<>> /\ PaidUpTo(0) /\ spent = 0 /\ SpendIsBounded
    BY <2>3 DEF EvalInv, CouncilPays
  <2>8. HolderPays(p)'
    <3>1. KnownSum(r.memory) = 0
      BY <2>1, KnownEmpty
    <3>2. CallsOf(r) = 0 /\ Len(r.memory) = 0 /\ Len(receipts') = 0
      BY <1>1, <2>1, <2>7 DEF CallsOf
    <3>3. PaidUpTo(0)'
      BY <1>1, <2>7 DEF PaidUpTo
    <3>4. 0 <= Ceiling
      BY StageAssumption
    <3>5. CallsOf(run[p])' = 0
      BY <2>1, <2>2, <3>2 DEF CallsOf
    <3>6. PaidUpTo(CallsOf(run[p]))'
      BY <3>3, <3>5 DEF PaidUpTo
    <3>7. /\ auth' = [by |-> p] /\ run'[p] = r /\ r.pc = "ready"
          /\ Len(receipts') = Len(r.memory) + 0
          /\ spent' = KnownSum(r.memory) + 0 /\ KnownSum(r.memory) <= Ceiling
      BY <1>1, <2>1, <2>2, <2>3, <2>7, <3>1, <3>2, <3>4
    <3>. QED
      BY <3>6, <3>7 DEF HolderPays
  <2>9. SpendIsBounded'
    BY <1>1, <2>7 DEF SpendIsBounded
  <2>10. Len(receipts') <= Len(Planned) /\ \A i \in DOMAIN receipts' : receipts'[i].at = Planned[i]
    BY <1>1, <2>7, PlannedSlots
  <2>11. run'[p].pc \in Holding
    BY <2>1, <2>2 DEF Holding
  <2>. QED
    BY <1>1, <2>2, <2>3, <2>6, <2>8, <2>9, <2>10, <2>11, HolderStep
<1>. QED
  BY <1>5, <1>6

(* No key: nothing is paid yet, and nothing will be.                       *)
LEMMA KeyMissingStep == ASSUME EvalInv, NEW p \in Procs, KeyMissing(p) PROVE EvalInv'
<1> USE DEF KeyMissing, evalFiles
<1>1. UNCHANGED <<stage, work, head, frozen, cost, rehearsed, auth, receipts, output, authority,
                  paid, spent, crashes>>
  OBVIOUS
<1>2. /\ run[p].pc = "ready" /\ run[p].memory = <<>> /\ stage \in Council
      /\ run[p] \in Evaluations /\ Loaded(run[p]) /\ MemoryHolds(run[p])
  BY DEF EvalInv, EvalTypes, MemoriesHold
<1>3. crashes' \in 0..MaxCrashes /\ crashes' >= crashes
  BY <1>1, StageAssumption DEF EvalInv, EvalTypes
<1>4. PICK r \in Evaluations :
        /\ run' = [run EXCEPT ![p] = r] /\ r.pc = "keyless" /\ r.code = run[p].code
        /\ r.read = run[p].read /\ r.memory = <<>>
  <2> DEFINE u == [run[p] EXCEPT !.pc = "keyless"]
  <2>1. u \in Evaluations /\ u.pc = "keyless" /\ u.code = run[p].code /\ u.read = run[p].read
        /\ u.memory = run[p].memory
    BY <1>2 DEF Evaluations, EvalPcs
  <2>2. run' = [run EXCEPT ![p] = u]
    OBVIOUS
  <2>. HIDE DEF u
  <2>. QED
    BY <1>2, <2>1, <2>2
<1>5. EvalTypes' /\ Preflights' /\ run'[p] = r /\ \A q \in Procs : q # p => run'[q] = run[q]
  BY <1>1, <1>3, <1>4, MoveTypes
<1>6. Loaded(r)'
  BY <1>1, <1>2, <1>4 DEF Loaded
<1>7. MemoryHolds(r)'
  <2>1. Len(r.memory) <= Len(Planned) /\ Answered(r.memory)'
    BY <1>4, PlannedSlots DEF Answered
  <2>. QED
    BY <1>1, <1>2, <1>4, <2>1 DEF MemoryHolds, Council
<1>8. MemoriesHold'
  BY <1>1, <1>5, <1>6, <1>7, OneMoves
<1>9. ResultHolds' /\ AuthorityHolds'
  BY <1>1, ResultStays, AuthorityStays
<1>10. HolderPays(p) /\ CouncilPays
  BY <1>2 DEF EvalInv, CouncilPays, Holding
<1>11. ASSUME stage \in CommitBound PROVE spent = 0
  <2>1. spent = KnownSum(run[p].memory) + 0
    BY <1>2, <1>10, <1>11 DEF HolderPays
  <2>. QED
    BY <1>2, <2>1, KnownEmpty
<1>12. SpendIsBounded' /\ AuthorizedLeavesResult'
  BY <1>1, <1>4, <1>5, <1>10, <1>11 DEF CouncilPays, SpendIsBounded, AuthorizedLeavesResult
<1>13. \A m : PaidUpTo(m)' = PaidUpTo(m)
  BY <1>1, PaidUpToStays
<1>14. ASSUME NEW q \in Procs, run'[q].pc \in Holding PROVE HolderPays(q)'
  <2>1. run'[q] = run[q] /\ HolderPays(q)
    BY <1>2, <1>4, <1>5, <1>10, <1>14 DEF CouncilPays, Holding
  <2>. QED
    BY <1>1, <1>13, <2>1 DEF HolderPays
<1>15. (auth = None => receipts = <<>> /\ PaidUpTo(0) /\ spent = 0)'
  BY <1>1, <1>2, <1>10, <1>13 DEF CouncilPays
<1>16. \E m \in Nat : PaidUpTo(m)' /\ Len(receipts') <= m /\ m <= Len(receipts') + 1
  <2>1. PICK m \in Nat : PaidUpTo(m) /\ Len(receipts) <= m /\ m <= Len(receipts) + 1
    BY <1>2, <1>10 DEF CouncilPays
  <2>. QED
    BY <1>1, <1>13, <2>1
<1>17. CouncilPays'
  BY <1>1, <1>2, <1>10, <1>12, <1>14, <1>15, <1>16 DEF CouncilPays, Council
<1>. QED
  BY <1>5, <1>8, <1>9, <1>17 DEF EvalInv

(* The call after the first m of the plan is paid: now m + 1 are.          *)
LEMMA PaidUpToNext ==
  ASSUME NEW m \in Nat, m + 1 \in Slots, PaidUpTo(m), paid \in [ToSet(Planned) -> Nat],
         paid' = [paid EXCEPT ![Planned[m + 1]] = @ + 1]
  PROVE  PaidUpTo(m + 1)' /\ paid' \in [ToSet(Planned) -> Nat]
<1>1. ASSUME NEW i \in Slots
      PROVE  paid'[Planned[i]] = IF i <= m + 1 THEN 1 ELSE 0
  <2>1. Planned[i] \in ToSet(Planned) /\ Planned[m + 1] \in ToSet(Planned)
    BY PlannedIn
  <2>2. i \in Nat
    BY DEF Slots
  <2>3. paid[Planned[i]] = IF i <= m THEN 1 ELSE 0
    BY DEF PaidUpTo
  <2>4. CASE i = m + 1
    <3>1. paid'[Planned[i]] = paid[Planned[i]] + 1
      BY <2>1, <2>4
    <3>. QED
      BY <2>2, <2>3, <2>4, <3>1
  <2>5. CASE i # m + 1
    <3>1. Planned[i] # Planned[m + 1]
      BY <2>5, PlannedOnce
    <3>2. paid'[Planned[i]] = paid[Planned[i]]
      BY <2>1, <3>1
    <3>. QED
      BY <2>2, <2>3, <2>5, <3>2
  <2>. QED
    BY <2>4, <2>5
<1>. QED
  BY <1>1, PlannedIn DEF PaidUpTo

(* The call: the provider charges the next slot of the plan.               *)
LEMMA PostStep == ASSUME EvalInv, NEW p \in Procs, Post(p) PROVE EvalInv'
<1> USE DEF Post, evalFiles
<1>1. UNCHANGED <<stage, work, head, frozen, cost, rehearsed, auth, receipts, output, authority,
                  crashes>>
  OBVIOUS
<1>2. run[p].pc = "ready" /\ run[p] \in Evaluations /\ Loaded(run[p]) /\ MemoryHolds(run[p])
  BY DEF EvalInv, EvalTypes, MemoriesHold
<1>3. PICK a \in EvalAnswers :
        /\ run' = [run EXCEPT ![p] = [run[p] EXCEPT !.pc = IF stage = "RESEARCH" THEN "settle"
                                                           ELSE "answered",
                                                    !.answer = a]]
        /\ spent' = spent + a.cost
  BY DEF Post
<1>4. PICK m \in Nat : m = Len(run[p].memory) /\ m + 1 \in Slots
  <2>1. Len(run[p].memory) \in Nat /\ Len(run[p].memory) + 1 <= Len(Planned)
    BY <1>2 DEF Evaluations, NextCall
  <2>2. Len(run[p].memory) + 1 \in Slots
    BY <2>1, SlotsOfPlan
  <2>. QED
    BY <2>1, <2>2
<1>5. PICK r \in Evaluations :
        /\ run' = [run EXCEPT ![p] = r] /\ r.code = run[p].code /\ r.read = run[p].read
        /\ r.memory = run[p].memory /\ r.answer = a
        /\ r.pc = IF stage = "RESEARCH" THEN "settle" ELSE "answered"
  <2> DEFINE u == [run[p] EXCEPT !.pc = IF stage = "RESEARCH" THEN "settle" ELSE "answered",
                                 !.answer = a]
  <2>1. u \in Evaluations /\ u.code = run[p].code /\ u.read = run[p].read
        /\ u.memory = run[p].memory /\ u.answer = a
        /\ u.pc = IF stage = "RESEARCH" THEN "settle" ELSE "answered"
    BY <1>2 DEF Evaluations, EvalPcs
  <2>2. run' = [run EXCEPT ![p] = u]
    BY <1>3
  <2>. HIDE DEF u
  <2>. QED
    BY <2>1, <2>2
<1>6. run'[p] = r /\ \A q \in Procs : q # p => run'[q] = run[q]
  BY <1>5 DEF EvalInv, EvalTypes
<1>7. a.cost \in Nat /\ a.cost <= MaxCharge /\ MaxCharge \in Nat
  BY EvalAnswersAssumption
<1>8. spent \in Nat /\ spent' \in Nat /\ paid \in [ToSet(Planned) -> Nat]
  BY <1>3, <1>7 DEF EvalInv, EvalTypes
<1>9. paid' = [paid EXCEPT ![Planned[m + 1]] = @ + 1]
  BY <1>4 DEF NextCall
<1>10. paid' \in [ToSet(Planned) -> Nat]
  <2>1. Planned[m + 1] \in ToSet(Planned)
    BY <1>4, PlannedIn
  <2>. QED
    BY <1>8, <1>9, <2>1
<1>11. EvalTypes' /\ Preflights'
  BY <1>1, <1>5, <1>8, <1>10 DEF EvalInv, EvalTypes, Preflights, FrozenBelow
<1>12. Loaded(r)'
  BY <1>1, <1>2, <1>5 DEF Loaded
<1>13. MemoryHolds(r)'
  <2>1. Answered(run[p].memory) /\ Len(run[p].memory) <= Len(Planned)
    BY <1>2 DEF MemoryHolds
  <2>2. Answered(r.memory)' /\ Len(r.memory) <= Len(Planned)
    BY <1>1, <1>5, <2>1, StageFrame DEF Answered
  <2>3. Len(r.memory) < Len(Planned)
    BY <1>4, <1>5, PlannedSlots DEF Slots
  <2>4. r.pc \in Holding
    BY <1>5 DEF Holding
  <2>. QED
    BY <1>1, <1>2, <1>5, <2>2, <2>3, <2>4 DEF MemoryHolds
<1>14. MemoriesHold'
  BY <1>1, <1>6, <1>12, <1>13, OneMoves
<1>15. ResultHolds' /\ AuthorityHolds'
  BY <1>1, ResultStays, AuthorityStays
<1>16. CASE stage = "RESEARCH"
  <2>1. crashes' >= crashes
    BY <1>1, StageAssumption DEF EvalInv, EvalTypes
  <2>. QED
    BY <1>1, <1>11, <1>14, <1>15, <1>16, <2>1, EvalFrame DEF Council, CommitBound
<1>17. CASE stage \in Council
  <2>1. HolderPays(p) /\ Len(receipts) <= Len(Planned)
        /\ \A i \in DOMAIN receipts : receipts[i].at = Planned[i]
    BY <1>2, <1>17 DEF EvalInv, CouncilPays, Holding
  <2>2. PaidUpTo(m)
    BY <1>2, <1>4, <2>1 DEF HolderPays, CallsOf
  <2>3. PaidUpTo(m + 1)'
    BY <1>4, <1>8, <1>9, <2>2, PaidUpToNext
  <2>4. r.pc = "answered"
    BY <1>5, <1>17 DEF Council
  <2>5. CallsOf(r) = m + 1 /\ Len(r.memory) = m
    BY <1>4, <1>5, <2>4 DEF CallsOf
  <2>6. PICK k \in Nat : k = KnownSum(run[p].memory) /\ k = KnownSum(r.memory)
    BY <1>2, <1>5, KnownNat DEF Evaluations
  <2>7. stage \in CommitBound => spent = k /\ k <= Ceiling
    BY <1>2, <2>1, <2>6 DEF HolderPays
  <2>8. HolderPays(p)'
    <3>1. Len(receipts') = m /\ auth' = [by |-> p]
      BY <1>1, <1>2, <1>4, <2>1 DEF HolderPays
    <3>2. stage \in CommitBound => spent' = k + a.cost
      BY <1>3, <2>7
    <3>3. CallsOf(run[p])' = m + 1
      BY <1>4, <1>5, <1>6, <2>4 DEF CallsOf
    <3>4. PaidUpTo(CallsOf(run[p]))'
      BY <2>3, <3>3 DEF PaidUpTo
    <3>5. /\ run'[p] = r /\ r.pc = "answered" /\ r.answer = a
          /\ Len(receipts') = Len(r.memory) + 0
          /\ stage' \in CommitBound =>
                spent' = KnownSum(r.memory) + a.cost /\ KnownSum(r.memory) <= Ceiling
      BY <1>1, <1>5, <1>6, <2>4, <2>5, <2>6, <2>7, <3>1, <3>2
    <3>. QED
      BY <3>1, <3>4, <3>5 DEF HolderPays
  <2>9. SpendIsBounded'
    <3>1. stage \in CommitBound => spent' <= Ceiling + MaxCharge
      BY <1>3, <1>7, <2>6, <2>7, StageAssumption
    <3>. QED
      BY <1>1, <3>1 DEF SpendIsBounded
  <2>10. run'[p].pc \in Holding
    BY <1>6, <2>4 DEF Holding
  <2>11. auth = [by |-> p]
    BY <2>1 DEF HolderPays
  <2>. QED
    BY <1>1, <1>6, <1>11, <1>14, <1>17, <2>1, <2>8, <2>9, <2>10, <2>11, HolderStep
<1>. QED
  BY <1>16, <1>17 DEF EvalInv, EvalTypes, Council

(* The receipt of the answer.                                              *)
LEMMA ReceiptStep == ASSUME EvalInv, NEW p \in Procs, AppendReceipt(p) PROVE EvalInv'
<1> USE DEF AppendReceipt
<1>1. UNCHANGED <<stage, work, head, frozen, cost, rehearsed, auth, output, authority,
                  paid, spent, crashes>>
  OBVIOUS
<1>2. run[p].pc = "answered" /\ run[p] \in Evaluations /\ Loaded(run[p]) /\ MemoryHolds(run[p])
      /\ stage \in Stages
  BY DEF EvalInv, EvalTypes, MemoriesHold
<1>3. stage \in Council /\ run[p].answer \in EvalAnswers /\ Len(run[p].memory) < Len(Planned)
  BY <1>2 DEF MemoryHolds, Council
<1>4. PICK m \in Nat : m = Len(run[p].memory) /\ m + 1 \in Slots
  <2>1. Len(run[p].memory) \in Nat /\ Len(run[p].memory) + 1 \in Slots
    BY <1>2, <1>3, SlotsOfPlan DEF Evaluations
  <2>. QED
    BY <2>1
<1>5. PICK o \in Outs : o = OutcomeOf(m + 1, run[p].answer) /\ o.at = Planned[m + 1]
  BY <1>2, <1>3, <1>4, OutcomeType
<1>6. EvalReceipt(o) \in Journaled /\ EvalReceipt(o).at = o.at
  <2>1. ASSUME NEW b \in BOOLEAN PROVE ReceiptFor(o, b) \in Journaled /\ ReceiptFor(o, b).at = o.at
    <3>1. Verdict(o) \in {"UNKNOWN", "PASS", "FAIL"}
      BY DEF Verdict
    <3>2. /\ o.at \in ToSet(Planned) /\ o.defect \in Defects /\ o.replay \in BOOLEAN
          /\ o.known \in Nat /\ o.latency \in Nat
      BY DEF Outs
    <3>. QED
      BY <3>1, <3>2 DEF ReceiptFor, Journaled
  <2>2. o.received \in BOOLEAN /\ (~o.open) \in BOOLEAN
    BY DEF Outs
  <2>3. EvalReceipt(o) \in {ReceiptFor(o, o.received), ReceiptFor(o, ~o.open)}
    BY <1>3 DEF EvalReceipt, InitialReceipt, RebuttalReceipt, JudgeReceipt, Council, Stages
  <2>. QED
    BY <2>1, <2>2, <2>3
<1>7. receipts' = Append(receipts, EvalReceipt(o))
  BY <1>4, <1>5 DEF NextCall
<1>8. HolderPays(p) /\ receipts \in Seq(Journaled) /\ Len(receipts) = m
      /\ \A i \in DOMAIN receipts : receipts[i].at = Planned[i]
  <2>1. HolderPays(p) /\ receipts \in Seq(Journaled)
        /\ \A i \in DOMAIN receipts : receipts[i].at = Planned[i]
    BY <1>2, <1>3 DEF EvalInv, EvalTypes, CouncilPays, Holding
  <2>2. Len(receipts) = m
    BY <1>2, <1>4, <2>1 DEF HolderPays
  <2>. QED
    BY <2>1, <2>2
<1>9. receipts' \in Seq(Journaled) /\ Len(receipts') = m + 1
      /\ \A i \in DOMAIN receipts' : receipts'[i].at = Planned[i]
  <2>1. receipts' \in Seq(Journaled) /\ Len(receipts') = m + 1 /\ receipts'[m + 1] = EvalReceipt(o)
        /\ \A i \in 1..m : receipts'[i] = receipts[i]
    BY <1>6, <1>7, <1>8
  <2>2. DOMAIN receipts = 1..m /\ DOMAIN receipts' = 1..(m + 1)
    BY <1>8, <2>1
  <2>3. \A i \in 1..(m + 1) : i \in 1..m \/ i = m + 1
    OBVIOUS
  <2>. QED
    BY <1>5, <1>6, <1>8, <2>1, <2>2, <2>3
<1>10. PICK r \in Evaluations :
        /\ run' = [run EXCEPT ![p] = r] /\ r.code = run[p].code /\ r.read = run[p].read
        /\ r.memory = run[p].memory /\ r.answer = run[p].answer /\ r.pc = "settle"
  <2> DEFINE u == [run[p] EXCEPT !.pc = "settle"]
  <2>1. u \in Evaluations /\ u.code = run[p].code /\ u.read = run[p].read
        /\ u.memory = run[p].memory /\ u.answer = run[p].answer /\ u.pc = "settle"
    BY <1>2 DEF Evaluations, EvalPcs
  <2>2. run' = [run EXCEPT ![p] = u]
    OBVIOUS
  <2>. HIDE DEF u
  <2>. QED
    BY <2>1, <2>2
<1>11. run'[p] = r /\ \A q \in Procs : q # p => run'[q] = run[q]
  BY <1>10 DEF EvalInv, EvalTypes
<1>12. EvalTypes' /\ Preflights'
  BY <1>1, <1>9, <1>10 DEF EvalInv, EvalTypes, Preflights, FrozenBelow
<1>13. Loaded(r)'
  BY <1>1, <1>2, <1>10 DEF Loaded
<1>14. MemoryHolds(r)'
  <2>1. Answered(r.memory)'
    BY <1>1, <1>2, <1>10, StageFrame DEF MemoryHolds, Answered
  <2>. QED
    BY <1>1, <1>2, <1>3, <1>10, <2>1 DEF MemoryHolds, Holding
<1>15. MemoriesHold'
  BY <1>1, <1>11, <1>13, <1>14, OneMoves
<1>16. HolderPays(p)'
  <2>1. auth' = [by |-> p] /\ PaidUpTo(m + 1)
    BY <1>1, <1>2, <1>4, <1>8 DEF HolderPays, CallsOf
  <2>2. CallsOf(run[p])' = m + 1
    BY <1>4, <1>10, <1>11 DEF CallsOf
  <2>3. PaidUpTo(CallsOf(run[p]))'
    BY <1>1, <2>1, <2>2 DEF PaidUpTo
  <2>4. /\ run'[p] = r /\ r.pc = "settle" /\ r.pc # "ready"
        /\ Len(receipts') = Len(r.memory) + 1
    BY <1>4, <1>9, <1>10, <1>11
  <2>5. stage' \in CommitBound =>
           spent' = KnownSum(r.memory) + r.answer.cost /\ KnownSum(r.memory) <= Ceiling
    BY <1>1, <1>2, <1>8, <1>10 DEF HolderPays
  <2>. HIDE DEF AppendReceipt
  <2>. QED
    BY <2>1, <2>3, <2>4, <2>5 DEF HolderPays
<1>17. SpendIsBounded'
  BY <1>1 DEF EvalInv, CouncilPays, SpendIsBounded
<1>18. Len(receipts') <= Len(Planned)
  BY <1>4, <1>9, SlotsOfPlan
<1>19. run'[p].pc \in Holding /\ auth = [by |-> p]
  BY <1>8, <1>10, <1>11 DEF Holding, HolderPays
<1>. QED
  BY <1>1, <1>3, <1>9, <1>11, <1>12, <1>15, <1>16, <1>17, <1>18, <1>19, HolderStep

(* The outcome joins those remembered; the run goes on, or stops at the    *)
(* ceiling.                                                                *)
LEMMA SettleCallStep == ASSUME EvalInv, NEW p \in Procs, SettleCall(p) PROVE EvalInv'
<1>1. UNCHANGED <<stage, work, head, frozen, cost, rehearsed, auth, receipts, authority,
                  paid, spent, crashes>> /\ run[p].pc = "settle"
  BY DEF SettleCall
<1>2. run[p] \in Evaluations /\ Loaded(run[p]) /\ MemoryHolds(run[p]) /\ stage \in Stages
  BY DEF EvalInv, EvalTypes, MemoriesHold
<1>3. crashes' \in 0..MaxCrashes /\ crashes' >= crashes
  BY <1>1, StageAssumption DEF EvalInv, EvalTypes
<1>4. PICK a \in EvalAnswers : a = run[p].answer
  BY <1>1, <1>2 DEF MemoryHolds
<1>5. PICK s \in Seq(Outs) : s = run[p].memory /\ Answered(s) /\ Len(s) < Len(Planned)
  BY <1>1, <1>2 DEF Evaluations, MemoryHolds
<1>6. PICK o \in Outs :
        /\ o = OutcomeOf(Len(s) + 1, a) /\ Append(s, o) \in Seq(Outs)
        /\ Len(Append(s, o)) = Len(s) + 1 /\ Answered(Append(s, o)) /\ Len(s) + 1 \in Slots
        /\ stage \in CommitBound /\ o.received /\ ~o.open => o.known = a.cost
  BY <1>2, <1>5, AnsweredAppend, OutcomeType
<1>7. PICK t \in Seq(Outs) : t = Append(s, o) /\ Len(t) = Len(s) + 1 /\ Answered(t)
                            /\ KnownSum(t) = KnownSum(s) + o.known
  BY <1>6, KnownAppend
<1>8. \/ /\ Stop(o, t) # "none" /\ Blocked(p, Stop(o, t), t) /\ run' = [run EXCEPT ![p] = IdleEval]
      \/ /\ Stop(o, t) = "none" /\ Dies(a, t) /\ output' = output
         /\ run' = [run EXCEPT ![p] = IdleEval]
      \/ /\ Stop(o, t) = "none" /\ output' = output
         /\ run' = [run EXCEPT ![p] = [run[p] EXCEPT !.pc = "ready", !.memory = t,
                                                     !.answer = None]]
  BY <1>4, <1>5, <1>6, <1>7 DEF SettleCall, NextCall
<1>9. CASE Stop(o, t) # "none" /\ Blocked(p, Stop(o, t), t) /\ run' = [run EXCEPT ![p] = IdleEval]
  <2>1. Stop(o, t) # "PASS_SELECTED"
    BY <1>2 DEF Stop, InitialStop, RebuttalStop, JudgeStop, Stages
  <2>2. output'.status # "PASS_SELECTED"
    BY <1>9, <2>1 DEF Blocked
  <2>3. output' # None
    <3>1. DOMAIN output' = {"status", "known"} /\ DOMAIN None = {"none"}
      BY <1>9 DEF Blocked, None
    <3>. QED
      BY <3>1
  <2>4. ResultHolds'
    BY <2>2 DEF ResultHolds
  <2>. QED
    BY <1>1, <1>3, <1>9, <2>3, <2>4, EndStep
<1>10. CASE Stop(o, t) = "none" /\ Dies(a, t) /\ output' = output
            /\ run' = [run EXCEPT ![p] = IdleEval]
  <2>1. stage \notin CommitBound
    BY <1>10 DEF Dies, CommitBound
  <2>2. ResultHolds'
    BY <1>1, <1>10, ResultStays
  <2>. QED
    BY <1>1, <1>3, <1>10, <2>1, <2>2, EndStep
<1>11. CASE /\ Stop(o, t) = "none" /\ output' = output
            /\ run' = [run EXCEPT ![p] = [run[p] EXCEPT !.pc = "ready", !.memory = t,
                                                        !.answer = None]]
  <2>1. PICK r \in Evaluations :
          /\ run' = [run EXCEPT ![p] = r] /\ r.code = run[p].code /\ r.read = run[p].read
          /\ r.memory = t /\ r.pc = "ready"
    <3> DEFINE u == [run[p] EXCEPT !.pc = "ready", !.memory = t, !.answer = None]
    <3>1. u \in Evaluations /\ u.code = run[p].code /\ u.read = run[p].read
          /\ u.memory = t /\ u.pc = "ready"
      BY <1>2 DEF Evaluations, EvalPcs
    <3>2. run' = [run EXCEPT ![p] = u]
      BY <1>11
    <3>. HIDE DEF u
    <3>. QED
      BY <3>1, <3>2
  <2>2. EvalTypes' /\ Preflights' /\ run'[p] = r /\ \A q \in Procs : q # p => run'[q] = run[q]
    BY <1>1, <1>3, <2>1, MoveTypes
  <2>3. Loaded(r)'
    BY <1>1, <1>2, <2>1 DEF Loaded
  <2>4. MemoryHolds(r)'
    <3>1. Answered(r.memory)' /\ Len(r.memory) <= Len(Planned)
      BY <1>1, <1>5, <1>6, <1>7, <2>1, SlotsOfPlan, StageFrame DEF Answered
    <3>. QED
      BY <1>1, <2>1, <3>1 DEF MemoryHolds, Holding
  <2>5. MemoriesHold'
    BY <1>1, <2>2, <2>3, <2>4, OneMoves
  <2>6. CASE stage = "RESEARCH"
    <3>1. ResultHolds' /\ AuthorityHolds'
      BY <1>1, <1>11, ResultStays, AuthorityStays
    <3>. QED
      BY <1>1, <1>3, <1>11, <2>2, <2>5, <2>6, <3>1, EvalFrame DEF Council, CommitBound
  <2>7. CASE stage \in Council
    <3>1. HolderPays(p) /\ Len(receipts) <= Len(Planned)
          /\ \A i \in DOMAIN receipts : receipts[i].at = Planned[i]
      BY <1>1, <2>7 DEF EvalInv, CouncilPays, Holding
    <3>2. PICK m \in Nat : m = Len(s)
      OBVIOUS
    <3>3. auth = [by |-> p] /\ PaidUpTo(m + 1) /\ Len(receipts) = m + 1
      BY <1>1, <1>5, <3>1, <3>2 DEF HolderPays, CallsOf
    <3>4. stage \in CommitBound => spent = KnownSum(t) /\ KnownSum(t) <= Ceiling
      <4>1. SUFFICES ASSUME stage \in CommitBound
                     PROVE  spent = KnownSum(t) /\ KnownSum(t) <= Ceiling
        OBVIOUS
      <4>2. Stop(o, t) \in {RebuttalStop(o, t), JudgeStop(o, t)}
        BY <4>1 DEF Stop, CommitBound
      <4>3. o.received /\ ~o.open /\ ~(KnownSum(t) > Ceiling)
        BY <1>11, <4>2 DEF RebuttalStop, JudgeStop
      <4>4. o.known = a.cost /\ KnownSum(t) = KnownSum(s) + o.known
        BY <1>6, <1>7, <4>1, <4>3
      <4>5. spent = KnownSum(s) + a.cost
        BY <1>1, <1>4, <1>5, <3>1, <4>1 DEF HolderPays
      <4>6. KnownSum(t) \in Nat
        BY KnownNat
      <4>. QED
        BY <4>3, <4>4, <4>5, <4>6, StageAssumption
    <3>5. HolderPays(p)'
      <4>1. CallsOf(run[p])' = m + 1
        <5>1. run'[p].memory = t /\ Len(t) = m + 1 /\ run'[p].pc = "ready"
          BY <1>7, <2>1, <2>2, <3>2
        <5>. QED
          BY <5>1 DEF CallsOf
      <4>2. PaidUpTo(CallsOf(run[p]))'
        BY <1>1, <3>3, <4>1 DEF PaidUpTo
      <4>3. /\ auth' = [by |-> p] /\ run'[p] = r /\ r.pc = "ready"
            /\ Len(receipts') = Len(r.memory) + 0
            /\ stage' \in CommitBound =>
                  spent' = KnownSum(r.memory) + 0 /\ KnownSum(r.memory) <= Ceiling
        <5>1. KnownSum(t) \in Nat /\ Len(t) = m + 1
          BY <1>7, <3>2, KnownNat
        <5>. QED
          BY <1>1, <2>1, <2>2, <3>3, <3>4, <5>1
      <4>. QED
        BY <4>2, <4>3 DEF HolderPays
    <3>6. SpendIsBounded'
      BY <1>1 DEF EvalInv, CouncilPays, SpendIsBounded
    <3>7. run'[p].pc \in Holding
      BY <2>1, <2>2 DEF Holding
    <3>. QED
      BY <1>1, <1>11, <2>2, <2>5, <2>7, <3>1, <3>3, <3>5, <3>6, <3>7, HolderStep
  <2>. QED
    BY <1>2, <2>6, <2>7 DEF Council
<1>. QED
  BY <1>8, <1>9, <1>10, <1>11

(* Every step keeps the invariant.                                         *)
LEMMA EvalStepInv == EvalInv /\ [EvalNext]_evalVars => EvalInv'
<1> SUFFICES ASSUME EvalInv, [EvalNext]_evalVars PROVE EvalInv'
  OBVIOUS
<1>1. CASE UNCHANGED evalVars
  <2>1. UNCHANGED <<stage, work, head, frozen, cost, rehearsed, auth, receipts, output, authority,
                    run, paid, spent, crashes>>
    BY <1>1 DEF evalVars, evalFiles
  <2>2. EvalTypes' /\ Preflights' /\ crashes' >= crashes
    BY <2>1, StageAssumption DEF EvalInv, EvalTypes, Preflights, FrozenBelow
  <2>3. MemoriesHold'
    BY <2>1, StillHolds DEF EvalInv, EvalTypes, MemoriesHold
  <2>4. ResultHolds' /\ AuthorityHolds'
    BY <2>1, ResultStays, AuthorityStays
  <2>. QED
    BY <2>1, <2>2, <2>3, <2>4, EvalFrame
<1>2. CASE EvalNext
  <2>1. CASE Develop \/ Commit \/ PreflightEval \/ DryRunEval \/ ApproveEval
    BY <2>1, FileSteps
  <2>2. CASE Freeze
    BY <2>2, FreezeStep
  <2>3. ASSUME NEW p \in Procs,
               \/ StartEval(p) \/ ResearchStart(p) \/ Check(p) \/ AuthorizeEval(p)
               \/ KeyMissing(p) \/ EvalCrash(p) \/ Post(p) \/ AppendReceipt(p) \/ SettleCall(p) \/ Finish(p)
        PROVE  EvalInv'
    BY <2>3, StartStep, CheckStep, AuthorizeEvalStep, KeyMissingStep, CrashStep, PostStep,
       ReceiptStep, SettleCallStep, FinishStep
  <2>. QED
    BY <1>2, <2>1, <2>2, <2>3 DEF EvalNext
<1>. QED
  BY <1>1, <1>2

(* The invariant of a model evaluation.                                    *)
LEMMA EvalInvariant == EvalSpec => []EvalInv
  BY EvalInitInv, EvalStepInv, PTL DEF EvalSpec

(* The types of ModelEvaluation, for every ladder, list of cases and       *)
(* provider: an invocation remembers at most the outcomes of the plan.     *)
THEOREM EvalTypeCorrect == EvalSpec => []EvalTypeOK
<1>1. ASSUME EvalInv PROVE EvalTypeOK
  <2>1. Len(receipts) <= Len(Planned)
    <3>1. CASE stage = "RESEARCH"
      BY <1>1, <3>1, SlotsOfPlan DEF EvalInv, CouncilPays
    <3>2. CASE stage \in Council
      BY <1>1, <3>2 DEF EvalInv, CouncilPays
    <3>. QED
      BY <1>1, <3>1, <3>2 DEF EvalInv, EvalTypes, Council
  <2>2. ASSUME NEW p \in Procs
        PROVE  /\ run[p].pc \in {"idle", "started", "checked", "ready", "keyless", "answered",
                                  "settle"}
               /\ Len(run[p].memory) <= Len(Planned)
    BY <1>1 DEF EvalInv, EvalTypes, Evaluations, EvalPcs, MemoriesHold, MemoryHolds
  <2>. QED
    BY <1>1, <2>1, <2>2 DEF EvalTypeOK, EvalInv, EvalTypes
<1>. QED
  BY <1>1, EvalInvariant, PTL

(* What a paid evaluation spends is paid once, approved, bounded and shown *)
(* for: for any ladder, cases, number of invocations and crashes, and      *)
(* whatever the provider answers.                                          *)
THEOREM EvalPaymentsAccounted == EvalSpec => []PaymentsAreAccounted
<1>1. ASSUME EvalInv PROVE PaymentsAreAccounted
  <2>1. PaidOnceAndReceipted
    <3>1. SUFFICES ASSUME stage \in Council
                   PROVE  /\ \A i \in DOMAIN Planned :
                              /\ paid[Planned[i]] <= 1
                              /\ paid[Planned[i]] = 1 => Len(receipts) >= i - 1
                          /\ \A i \in DOMAIN receipts :
                              receipts[i].at = Planned[i] /\ paid[Planned[i]] = 1
      BY DEF PaidOnceAndReceipted
    <3>2. PICK m \in Nat : PaidUpTo(m) /\ Len(receipts) <= m /\ m <= Len(receipts) + 1
      BY <1>1, <3>1 DEF EvalInv, CouncilPays
    <3>3. receipts \in Seq(Journaled) /\ Len(receipts) <= Len(Planned)
          /\ \A i \in DOMAIN receipts : receipts[i].at = Planned[i]
      BY <1>1, <3>1 DEF EvalInv, EvalTypes, CouncilPays
    <3>4. ASSUME NEW i \in DOMAIN Planned
          PROVE  paid[Planned[i]] <= 1 /\ (paid[Planned[i]] = 1 => Len(receipts) >= i - 1)
      <4>1. i \in Slots /\ i \in Nat
        BY PlannedSlots, SlotsOfPlan
      <4>2. paid[Planned[i]] = IF i <= m THEN 1 ELSE 0
        BY <3>2, <4>1 DEF PaidUpTo
      <4>3. Len(receipts) \in Nat
        BY <3>3
      <4>. QED
        BY <3>2, <4>1, <4>2, <4>3
    <3>5. ASSUME NEW i \in DOMAIN receipts PROVE paid[Planned[i]] = 1
      <4>1. i \in Nat /\ i <= Len(receipts) /\ i \in Slots /\ Len(receipts) \in Nat
        BY <3>3, SlotsOfPlan
      <4>. QED
        BY <3>2, <4>1 DEF PaidUpTo
    <3>. QED
      BY <3>3, <3>4, <3>5
  <2>2. PaysWhatIsFrozen
    BY <1>1 DEF PaysWhatIsFrozen, EvalInv, MemoriesHold, Loaded
  <2>. QED
    BY <1>1, <2>1, <2>2 DEF PaymentsAreAccounted, EvalInv, CouncilPays
<1>. QED
  BY <1>1, EvalInvariant, PTL

(* What a candidate's record adds up.                                      *)
LEMMA RecordTypes ==
  ASSUME NEW s \in Seq(Outs), NEW k
  PROVE  CandidateRecord(s, k).cost \in Nat /\ CandidateRecord(s, k).latency \in Nat
<1> DEFINE mine == {i \in DOMAIN s : s[i].at[1] = k}
           costs == [i \in DOMAIN s |-> IF i \in mine THEN s[i].known ELSE 0]
           times == [i \in DOMAIN s |-> IF i \in mine THEN s[i].latency ELSE 0]
<1>1. \A i \in 1..Len(s) : s[i].known \in Nat /\ s[i].latency \in Nat
  BY OutsKnown
<1>. HIDE DEF mine
<1>2. costs \in Seq(Nat) /\ times \in Seq(Nat)
  <2>1. \A i \in 1..Len(s) : (IF i \in mine THEN s[i].known ELSE 0) \in Nat
                              /\ (IF i \in mine THEN s[i].latency ELSE 0) \in Nat
    BY <1>1
  <2>2. DOMAIN s = 1..Len(s) /\ Len(s) \in Nat
    OBVIOUS
  <2>. QED
    BY <2>1, <2>2
<1>. HIDE DEF costs, times
<1>3. Total(costs) \in Nat /\ Total(times) \in Nat
  BY <1>2, TotalNat
<1>. QED
  BY <1>3 DEF CandidateRecord, mine, costs, times

(* The selection is the least of the passing candidates in the order of    *)
(* cost, latency and place in the ladder.                                  *)
LEMMA SelectsLeast ==
  ASSUME NEW s \in Seq(Outs), Select(s) # None
  PROVE  \E j \in Passing(s) :
            /\ Select(s).candidate = Ladder[j]
            /\ \A k \in Passing(s) :
                  CandidateRecord(s, Ladder[j]).cost <= CandidateRecord(s, Ladder[k]).cost
<1> DEFINE C(k) == CandidateRecord(s, Ladder[k]).cost
           L(k) == CandidateRecord(s, Ladder[k]).latency
           P == Passing(s)
<1>1. P # {} /\ P \subseteq DOMAIN Ladder /\ DOMAIN Ladder \subseteq Nat
  BY LadderAssumption DEF Select, Passing
<1>2. \A k \in P : C(k) \in Nat /\ L(k) \in Nat
  BY RecordTypes
<1>3. \A j, k : Before(s, j, k) <=> \/ C(j) < C(k)
                                    \/ C(j) = C(k) /\ L(j) < L(k)
                                    \/ C(j) = C(k) /\ L(j) = L(k) /\ j < k
  BY DEF Before
<1>4. Select(s) = [candidate |-> Ladder[CHOOSE j \in P : \A k \in P \ {j} : Before(s, j, k)]]
  BY <1>1 DEF Select
<1>. HIDE DEF C, L, P
<1>5. PICK c \in Nat : (\E k \in P : C(k) = c) /\ \A k \in P : c <= C(k)
  <2> DEFINE T == {C(k) : k \in P}
  <2>1. T \in SUBSET Nat /\ T # {}
    BY <1>1, <1>2
  <2>2. PICK c \in T : \A m \in T : c <= m
    BY <2>1, Least
  <2>. QED
    BY <2>1, <2>2
<1>6. PICK t \in Nat : (\E k \in P : C(k) = c /\ L(k) = t) /\ \A k \in P : C(k) = c => t <= L(k)
  <2> DEFINE T == {L(k) : k \in {n \in P : C(n) = c}}
  <2>1. T \in SUBSET Nat /\ T # {}
    BY <1>2, <1>5
  <2>2. PICK t \in T : \A m \in T : t <= m
    BY <2>1, Least
  <2>. QED
    BY <2>1, <2>2
<1>7. PICK j \in P : C(j) = c /\ L(j) = t /\ \A k \in P : C(k) = c /\ L(k) = t => j <= k
  <2> DEFINE T == {k \in P : C(k) = c /\ L(k) = t}
  <2>1. T \in SUBSET Nat /\ T # {}
    BY <1>1, <1>6
  <2>2. PICK j \in T : \A m \in T : j <= m
    BY <2>1, Least
  <2>. QED
    BY <2>1, <2>2
<1>8. \A k \in P \ {j} : Before(s, j, k)
  <2>1. ASSUME NEW k \in P \ {j}
        PROVE  C(j) < C(k) \/ (C(j) = C(k) /\ L(j) < L(k)) \/ (C(j) = C(k) /\ L(j) = L(k) /\ j < k)
    <3>1. j \in Nat /\ k \in Nat /\ C(k) \in Nat /\ L(k) \in Nat /\ c <= C(k)
      BY <1>1, <1>2, <1>5
    <3>2. C(k) = c => t <= L(k)
      BY <1>6
    <3>3. C(k) = c /\ L(k) = t => j <= k
      BY <1>7
    <3>. QED
      BY <1>7, <3>1, <3>2, <3>3
  <2>. QED
    BY <1>3, <2>1
<1>9. PICK n \in P : Select(s).candidate = Ladder[n] /\ \A k \in P \ {n} : Before(s, n, k)
  <2> DEFINE n == CHOOSE i \in P : \A k \in P \ {i} : Before(s, i, k)
  <2>1. n \in P /\ \A k \in P \ {n} : Before(s, n, k)
    BY <1>8, Zenon
  <2>2. Select(s).candidate = Ladder[n]
    BY <1>4
  <2>. HIDE DEF n
  <2>. QED
    BY <2>1, <2>2
<1>10. \A k \in P : C(n) <= C(k)
  <2>1. ASSUME NEW k \in P \ {n} PROVE C(n) <= C(k)
    BY <1>2, <1>3, <1>9
  <2>2. C(n) <= C(n)
    BY <1>2
  <2>. QED
    BY <2>1, <2>2
<1>. QED
  BY <1>9, <1>10 DEF C, P

(* A frozen model earned it: whatever the provider answered, and whoever   *)
(* ran, its answers to all the cases were right and no candidate whose     *)
(* answers were all right was known to be cheaper.                         *)
THEOREM EvalAuthorityEarned == EvalSpec => []AuthorityIsEarned
<1>1. ASSUME EvalInv, authority # None
      PROVE  LET s == authority.source.results
                 mine == {i \in DOMAIN s : s[i].at[1] = authority.candidate}
                 bill(k) == CandidateRecord(s, k).cost
             IN  /\ {s[i].at[2] : i \in mine} = ToSet(Cases)
                 /\ \A i \in mine : s[i].received /\ s[i].defect \notin Fails(s[i].at[2])
                 /\ \A k \in ToSet(Ladder) :
                     (\A i \in DOMAIN s : s[i].at[1] = k => s[i].passed) =>
                         bill(authority.candidate) <= bill(k)
  <2>1. PICK s \in Seq(Outs) :
          /\ s = authority.source.results /\ Len(s) = Len(Planned) /\ Answered(s)
          /\ Select(s) # None /\ authority.candidate = Select(s).candidate
    BY <1>1 DEF EvalInv, AuthorityHolds, Selects
  <2>2. stage \in Stages
    BY <1>1 DEF EvalInv, EvalTypes
  <2>3. PICK j \in Passing(s) :
          /\ authority.candidate = Ladder[j]
          /\ \A k \in Passing(s) :
                CandidateRecord(s, Ladder[j]).cost <= CandidateRecord(s, Ladder[k]).cost
    BY <2>1, SelectsLeast
  <2>4. DOMAIN s = Slots
    BY <2>1, SlotsOfPlan
  <2>5. ASSUME NEW i \in Slots
        PROVE  /\ s[i].at = Planned[i]
               /\ s[i].passed => s[i].received /\ s[i].defect \notin Fails(s[i].at[2])
    BY <2>1, <2>2, <2>4, OutcomeType DEF Answered
  <2>6. j \in DOMAIN Ladder /\ \A i \in Slots : s[i].at[1] = Ladder[j] => s[i].passed
    BY <2>4 DEF Passing, CandidateRecord
  <2>7. {s[i].at[2] : i \in {n \in Slots : s[n].at[1] = Ladder[j]}} = ToSet(Cases)
    <3>1. ASSUME NEW i \in Slots PROVE s[i].at[2] \in ToSet(Cases)
      BY <2>5, PlannedSlots, PlannedParts DEF ToSet
    <3>2. ASSUME NEW e \in DOMAIN Cases
          PROVE  \E i \in Slots : s[i].at[1] = Ladder[j] /\ s[i].at[2] = Cases[e]
      <4>1. PICK i \in Slots : Planned[i] = <<Ladder[j], Cases[e]>>
        BY <2>6, PlannedAll
      <4>. QED
        BY <2>5, <4>1
    <3>. QED
      BY <3>1, <3>2 DEF ToSet
  <2>8. ASSUME NEW k \in ToSet(Ladder), \A i \in Slots : s[i].at[1] = k => s[i].passed
        PROVE  CandidateRecord(s, Ladder[j]).cost <= CandidateRecord(s, k).cost
    <3>1. PICK n \in DOMAIN Ladder : k = Ladder[n]
      BY DEF ToSet
    <3>2. CandidateRecord(s, k).passed
      BY <2>4, <2>8 DEF CandidateRecord
    <3>3. CandidateRecord(s, k).failures = 0
      <4> DEFINE F == {i \in {m \in DOMAIN s : s[m].at[1] = k} :
                         s[i].at[2] \in Critical /\ ~s[i].passed}
      <4>1. F = {}
        BY <2>4, <2>8
      <4>2. Cardinality(F) = 0
        BY <4>1, FS_EmptySet
      <4>. QED
        BY <4>2 DEF CandidateRecord
    <3>4. n \in Passing(s)
      BY <3>1, <3>2, <3>3 DEF Passing
    <3>. QED
      BY <2>3, <3>1, <3>4
  <2>. QED
    BY <2>1, <2>3, <2>4, <2>5, <2>6, <2>7, <2>8
<1>2. EvalInv => AuthorityIsEarned
  BY <1>1 DEF AuthorityIsEarned
<1>. QED
  BY <1>2, EvalInvariant, PTL
=============================================================================
