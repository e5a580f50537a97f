---------------------------- MODULE OptionOrder ----------------------------
(***************************************************************************)
(* From an INVEST decision to a paper order: the sizing of an option       *)
(* intent (src/aic/b5/competition_v1.py), the owner's approval and the     *)
(* revalidation at commit (src/aic/b6/competition_v1.py).  The account     *)
(* moves on its own while an intent waits, so the intent is sized again,   *)
(* on the state the caller observed, before it is sent.  The send is a     *)
(* function: it uses up neither that state nor the approval.               *)
(* Money is in the unit of a premium; caps are compared in hundredths.     *)
(***************************************************************************)
EXTENDS Integers, Sequences, FiniteSets

CONSTANTS
    Underlyings,
    Premiums,     \* premium_per_contract: ask * multiplier
    Marks,        \* [equity, cash, capacity] the broker may report
    NewPct, SamePct, AggPct, ReservePct,  \* the frozen risk policy, in percent
    MaxContracts, \* max_contracts_per_new_order
    None,         \* no observation
    MaxDecisions, MaxIntents, MaxOrders   \* bounds

Intent == [decision : Nat \ {0}, underlying : Underlyings, premium : Premiums, qty : Nat]

ASSUME PolicyAssumption ==
    /\ NewPct \in Nat /\ SamePct \in Nat /\ AggPct \in Nat /\ ReservePct \in Nat
    /\ MaxContracts \in Nat
    /\ Premiums \subseteq Nat \ {0}
    /\ Marks \subseteq [equity : Nat, cash : Nat, capacity : Nat]
    /\ Marks # {}

VARIABLES
    account,   \* the broker's [equity, cash, capacity]
    held,      \* premium at risk of the open positions, per underlying
    aggregate, \* and in all
    decision,  \* the current final decision: [id, outcome, expired]
    intents,   \* intents B5 has built; payload_hash is their identity
    approved,  \* intents the owner approved: an approval binds the hash
    observed,  \* the commit state the caller has assembled, or None
    sends,     \* the intents submitted, in order
    working,   \* which of them are open at the broker
    pending,   \* premium of the open orders, per underlying
    pendingAll, \* and in all
    peak,      \* history: the highest equity reported
    prompt     \* history: was each order sent on the state the broker was in

broker == <<account, held, aggregate, peak>>
paper  == <<decision, intents, approved, observed>>
orders == <<sends, working, pending, pendingAll, prompt>>
orderVars == <<broker, paper, orders>>

Loss(i) == i.premium * i.qty

OrderInit ==
    /\ account \in Marks
    /\ held = [u \in Underlyings |-> 0]
    /\ aggregate = 0
    /\ decision = [id |-> 1, outcome |-> "INVEST", expired |-> FALSE]
    /\ intents = {} /\ approved = {}
    /\ observed = None
    /\ sends = <<>> /\ working = {}
    /\ pending = [u \in Underlyings |-> 0] /\ pendingAll = 0
    /\ peak = account.equity
    /\ prompt = TRUE
-----------------------------------------------------------------------------
(* calculate_premium_risk for an account a with s at risk in the underlying *)
(* and g in all.                                                            *)

Lesser(x, y) == IF x <= y THEN x ELSE y

SafeBudget(a, s, g) ==
    Lesser(NewPct * a.equity, Lesser(SamePct * a.equity - 100 * s,
    Lesser(AggPct * a.equity - 100 * g, Lesser(100 * a.cash - ReservePct * a.equity,
           100 * a.capacity))))

CapExceeded(a, s, g) == 100 * s > SamePct * a.equity \/ 100 * g > AggPct * a.equity

Quantity(a, s, g, premium) ==
    LET budget == SafeBudget(a, s, g)
    IN  IF CapExceeded(a, s, g) \/ budget <= 0 THEN 0
        ELSE Lesser(budget \div (100 * premium), MaxContracts)

\* mutant: an intent of no contract is built
BuildAnyway(u, premium) ==
    /\ decision.outcome = "INVEST"
    /\ Cardinality(intents) < MaxIntents
    /\ intents' = intents \cup {[decision |-> decision.id, underlying |-> u, premium |-> premium,
                                 qty |-> Quantity(account, held[u], aggregate, premium)]}
    /\ UNCHANGED <<broker, decision, approved, observed, orders>>

(* build_option_intent, select_readonly_b5: an eligible contract on u is     *)
(* sized on the account of the chain snapshot; below one contract: blocked.  *)
Build(u, premium) ==
    LET qty == Quantity(account, held[u], aggregate, premium)
    IN  /\ decision.outcome = "INVEST"
        /\ Cardinality(intents) < MaxIntents
        /\ qty >= 1
        /\ intents' = intents \cup {[decision |-> decision.id, underlying |-> u,
                                     premium |-> premium, qty |-> qty]}
        /\ UNCHANGED <<broker, decision, approved, observed, orders>>

(* create_test_approval *)
Approve(i) ==
    /\ approved' = approved \cup {i}
    /\ UNCHANGED <<broker, decision, intents, observed, orders>>

(* The caller of send_after_commit assembles the commit state for an intent: *)
(* the current decision, the contract and its limit price, whether contract  *)
(* and quote pass (fit), whether an order conflicts, and the account.        *)
Observe(u, premium) ==
    /\ \E fit \in BOOLEAN :
         observed' = [decision |-> decision.id, expired |-> decision.expired,
                      underlying |-> u, premium |-> premium, fit |-> fit,
                      conflict |-> working # {},
                      account |-> account, same |-> held[u], aggregate |-> aggregate]
    /\ UNCHANGED <<broker, decision, intents, approved, orders>>

\* mutant: an open order is no conflict
RevalidateBesideOrder(i) ==
    /\ i \in approved
    /\ observed.decision = i.decision
    /\ observed.underlying = i.underlying
    /\ observed.premium = i.premium
    /\ observed.fit
    /\ Quantity(observed.account, observed.same, observed.aggregate, i.premium) >= i.qty

(* commit_revalidate: the approval binds the intent, the decision and the    *)
(* economics have not drifted, contract and quote pass, nothing conflicts,   *)
(* and the observed account still supports the approved quantity.  The TTL   *)
(* of the decision and the age of the account are not looked at.            *)
CommitRevalidate(i) ==
    /\ i \in approved
    /\ observed.decision = i.decision
    /\ observed.underlying = i.underlying
    /\ observed.premium = i.premium
    /\ ~observed.conflict
    /\ observed.fit
    /\ Quantity(observed.account, observed.same, observed.aggregate, i.premium) >= i.qty

\* mutant: the order has the quantity the fresh account allows
FreshQuantity(i) == [i EXCEPT !.qty = Quantity(observed.account, observed.same,
                                               observed.aggregate, i.premium)]

(* would_submit: the order is the intent itself. *)
OrderOf(i) == i

Submit(o) ==
    /\ sends' = Append(sends, o)
    /\ working' = working \cup {Len(sends) + 1}
    /\ pending' = [pending EXCEPT ![o.underlying] = @ + Loss(o)]
    /\ pendingAll' = pendingAll + Loss(o)

(* Does the commit state still describe the broker? *)
Current(o) ==
    /\ o.account = account
    /\ o.same = held[o.underlying] /\ o.aggregate = aggregate
    /\ o.conflict = (working # {})

(* send_after_commit: neither the approval nor the commit state is consumed, *)
(* so a caller may send again, on a state that was true some time ago.       *)
SendAfterCommit(i) ==
    /\ observed # None
    /\ Len(sends) < MaxOrders
    /\ IF CommitRevalidate(i)
       THEN Submit(OrderOf(i)) /\ prompt' = (prompt /\ Current(observed))
       ELSE UNCHANGED orders
    /\ UNCHANGED <<broker, paper>>
-----------------------------------------------------------------------------
(* The broker and the market. *)

(* Order k is open no more. *)
Settle(k) ==
    /\ working' = working \ {k}
    /\ pending' = [pending EXCEPT ![sends[k].underlying] = @ - Loss(sends[k])]
    /\ pendingAll' = pendingAll - Loss(sends[k])
    /\ UNCHANGED <<account, peak, paper, sends, prompt>>

(* A LIMIT order is filled at its limit at worst; a DAY order may lapse. *)
Fill(k) ==
    /\ held' = [held EXCEPT ![sends[k].underlying] = @ + Loss(sends[k])]
    /\ aggregate' = aggregate + Loss(sends[k])
    /\ Settle(k)

Lapse(k) == UNCHANGED <<held, aggregate>> /\ Settle(k)

(* A position is closed or expires. *)
ClosePosition(u) ==
    /\ held[u] > 0
    /\ held' = [held EXCEPT ![u] = 0]
    /\ aggregate' = aggregate - held[u]
    /\ UNCHANGED <<account, peak, paper, orders>>

Revalue(m) ==
    /\ account' = m
    /\ peak' = IF m.equity > peak THEN m.equity ELSE peak
    /\ UNCHANGED <<held, aggregate, paper, orders>>

Expire ==
    /\ decision' = [decision EXCEPT !.expired = TRUE]
    /\ UNCHANGED <<broker, intents, approved, observed, orders>>

(* The Judge decides again; ABSTAIN is to this component what WATCH is. *)
NewDecision(outcome) ==
    /\ decision.id < MaxDecisions
    /\ decision' = [id |-> decision.id + 1, outcome |-> outcome, expired |-> FALSE]
    /\ UNCHANGED <<broker, intents, approved, observed, orders>>

OrderNext ==
    \/ \E u \in Underlyings, p \in Premiums : Build(u, p) \/ Observe(u, p)
    \/ \E i \in intents : Approve(i) \/ SendAfterCommit(i)
    \/ \E k \in working : Fill(k) \/ Lapse(k)
    \/ Expire
    \/ \E u \in Underlyings : ClosePosition(u)
    \/ \E m \in Marks : Revalue(m)
    \/ \E o \in {"INVEST", "WATCH"} : NewDecision(o)

OrderSpec == OrderInit /\ [][OrderNext]_orderVars
-----------------------------------------------------------------------------
CommitState ==
    [decision : Nat \ {0}, expired : BOOLEAN, underlying : Underlyings,
     premium : Premiums, fit : BOOLEAN, conflict : BOOLEAN,
     account : Marks, same : Nat, aggregate : Int]

ASSUME NoneAssumption == None \notin CommitState

(* Every variable has the values the code can give it; what is approved is  *)
(* an intent B5 built, and an intent has at least one contract.             *)
OrderTypeOK ==
    /\ account \in Marks
    /\ held \in [Underlyings -> Nat]
    /\ aggregate \in Int
    /\ decision \in [id : Nat \ {0}, outcome : {"INVEST", "WATCH"}, expired : BOOLEAN]
    /\ intents \subseteq [decision : Nat \ {0}, underlying : Underlyings,
                          premium : Premiums, qty : 1..MaxContracts]
    /\ approved \subseteq intents
    /\ observed \in CommitState \cup {None}
    /\ sends \in Seq(Intent)
    /\ working \subseteq 1..Len(sends)
    /\ pending \in [Underlyings -> Int] /\ pendingAll \in Int
    /\ peak \in Nat
    /\ prompt \in BOOLEAN

(* What the caller must see to, and what it is enough for: if each order was *)
(* sent on a state the broker was still in, orders never put more premium at *)
(* risk, filled and open, than the caps allow on the highest equity the      *)
(* account ever had, neither in one underlying nor in all, however the       *)
(* account moved while the intents waited.  A second send on one state, or a *)
(* late one, has no such bound.                                             *)
ExposureBounded ==
    prompt =>
        /\ \A u \in Underlyings : 100 * (held[u] + pending[u]) <= SamePct * peak
        /\ 100 * (aggregate + pendingAll) <= AggPct * peak

(* human_approval_required: what is submitted is what the owner approved to  *)
(* the contract, though the commit sizes it again.                          *)
OrderIsApproved == \A k \in 1..Len(sends) : sends[k] \in approved

(* Order i is within every limit of the policy in the commit state o. *)
Within(o, i) ==
    /\ 100 * Loss(i) <= NewPct * o.account.equity
    /\ 100 * (o.same + Loss(i)) <= SamePct * o.account.equity
    /\ 100 * (o.aggregate + Loss(i)) <= AggPct * o.account.equity
    /\ 100 * Loss(i) + ReservePct * o.account.equity <= 100 * o.account.cash
    /\ Loss(i) <= o.account.capacity

(* An order leaves only if, in the state observed for its commit, which may  *)
(* differ from the one it was sized on, its loss is within every limit of    *)
(* the policy together with what is held, and the equity reserve is kept;    *)
(* and it is an order the owner approved.                                    *)
OrderRespectsCaps ==
    [][sends' # sends =>
          Within(observed, sends'[Len(sends')]) /\ OrderIsApproved']_orderVars
=============================================================================
