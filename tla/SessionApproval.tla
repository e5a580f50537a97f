-------------------------- MODULE SessionApproval --------------------------
(***************************************************************************)
(* The cockpit's investment session, the Initial preflights captured for   *)
(* it and the owner approvals of those preflights: product_state.py,       *)
(* initial_preflight.py and initial_approval.py of src/aic/cockpit_v6.     *)
(* The handlers run in a thread pool.  Each reads and writes the SQLite    *)
(* database in several steps, so what a handler has read may have changed  *)
(* when it writes.                                                         *)
(***************************************************************************)
EXTENDS Naturals, Sequences, FiniteSets

CONSTANTS
    Threads,    \* requests the server handles at once
    Symbols,    \* SUPPORTED_SYMBOLS
    Default,    \* the symbol of a session nobody selected one for
    NoSymbol,
    MaxTime,    \* bound on the clock
    MaxHead,    \* bound on the commits of the checkout
    MaxCaptures \* bound on the preflights captured

ASSUME SymbolAssumption == Default \in Symbols /\ NoSymbol \notin Symbols
ASSUME BoundsAssumption ==
    /\ IsFiniteSet(Threads)
    /\ MaxTime \in Nat /\ MaxHead \in Nat \ {0} /\ MaxCaptures \in Nat

VARIABLES
    sessions,   \* rows with status ACTIVE: [symbol, updated]
    preflights, \* rows: [session, symbol, head]
    approvals,  \* rows: [preflight, session, symbol, head]
    now, head,
    req         \* what each handler is doing and the locals it has read

vars == <<sessions, preflights, approvals, now, head, req>>

(* A thread that handles no request. *)
Rest == [pc |-> "idle", at |-> 0, want |-> NoSymbol, sha |-> 1,
         session |-> 0, symbol |-> NoSymbol, target |-> 0]

Init ==
    /\ sessions = <<>> /\ preflights = <<>> /\ approvals = <<>>
    /\ now = 0 /\ head = 1
    /\ req = [t \in Threads |-> Rest]

Goto(t, label) == req' = [req EXCEPT ![t].pc = label]
Return(t)      == req' = [req EXCEPT ![t] = Rest]

(* order_by(updated_at.desc()).limit(1): any of the rows updated last. *)
ActiveRows ==
    {i \in DOMAIN sessions : \A j \in DOMAIN sessions : sessions[j].updated <= sessions[i].updated}

Tick ==
    /\ now < MaxTime
    /\ now' = now + 1
    /\ UNCHANGED <<sessions, preflights, approvals, head, req>>

MoveHead ==
    /\ head < MaxHead
    /\ head' = head + 1
    /\ UNCHANGED <<sessions, preflights, approvals, now, req>>

Idle(t) == req[t].pc = "idle"
-----------------------------------------------------------------------------
(* get_active_session (s = NoSymbol) and select_active_symbol(s). *)

OpenSession(t, s) ==
    /\ Idle(t)
    /\ req' = [req EXCEPT ![t] = [Rest EXCEPT !.pc = "readRow", !.at = now, !.want = s]]
    /\ UNCHANGED <<sessions, preflights, approvals, now, head>>

(* The handler has read row i. *)
HasRead(t, label, i) ==
    req' = [req EXCEPT ![t].pc = label, ![t].session = i, ![t].symbol = sessions[i].symbol]

(* A GET that finds a row touches last_opened_at, which nothing reads. *)
ReadRow(t) ==
    /\ req[t].pc = "readRow"
    /\ \/ sessions = <<>> /\ Goto(t, "insertRow")
       \/ \E i \in ActiveRows :
            IF req[t].want = NoSymbol THEN Return(t) ELSE HasRead(t, "updateRow", i)
    /\ UNCHANGED <<sessions, preflights, approvals, now, head>>

\* mutant: a new session has the requested symbol even when there is none
InsertUnselected(t) ==
    /\ req[t].pc = "insertRow"
    /\ sessions' = Append(sessions, [symbol |-> req[t].want, updated |-> req[t].at])
    /\ Return(t)
    /\ UNCHANGED <<preflights, approvals, now, head>>

InsertRow(t) ==
    /\ req[t].pc = "insertRow"
    /\ sessions' = Append(sessions,
            [symbol  |-> IF req[t].want = NoSymbol THEN Default ELSE req[t].want,
             updated |-> req[t].at])
    /\ Return(t)
    /\ UNCHANGED <<preflights, approvals, now, head>>

(* The ORM writes the columns whose value differs from the one it read: a   *)
(* selection of the symbol it read leaves the symbol of the row alone.      *)
UpdateRow(t) ==
    /\ req[t].pc = "updateRow"
    /\ sessions' = [sessions EXCEPT
            ![req[t].session].symbol  = IF req[t].want = req[t].symbol THEN @ ELSE req[t].want,
            ![req[t].session].updated = req[t].at]
    /\ Return(t)
    /\ UNCHANGED <<preflights, approvals, now, head>>
-----------------------------------------------------------------------------
(* The capture of a preflight: the commit is resolved first, the market and *)
(* the account are read, then create_initial_preflight reads the session.   *)

Capturing ==
    {t \in Threads : req[t].target = 0 /\ req[t].pc \in {"readSession", "insertPreflight"}}

StartCapture(t) ==
    /\ Idle(t)
    /\ Len(preflights) + Cardinality(Capturing) < MaxCaptures
    /\ req' = [req EXCEPT ![t] = [Rest EXCEPT !.pc = "readSession", !.sha = head]]
    /\ UNCHANGED <<sessions, preflights, approvals, now, head>>

(* active_session_no_touch, in a transaction of its own. *)
ReadSession(t) ==
    /\ req[t].pc = "readSession"
    /\ \/ sessions = <<>> /\ Return(t)
       \/ \E i \in ActiveRows :
            HasRead(t, IF req[t].target = 0 THEN "insertPreflight" ELSE "build", i)
    /\ UNCHANGED <<sessions, preflights, approvals, now, head>>

InsertPreflight(t) ==
    /\ req[t].pc = "insertPreflight"
    /\ preflights' = Append(preflights,
            [session |-> req[t].session, symbol |-> req[t].symbol, head |-> req[t].sha])
    /\ Return(t)
    /\ UNCHANGED <<sessions, approvals, now, head>>
-----------------------------------------------------------------------------
(* create_initial_owner_approval of preflight k. *)

StartApproval(t, k) ==
    /\ Idle(t)
    /\ req' = [req EXCEPT ![t] = [Rest EXCEPT !.pc = "readSession", !.sha = head, !.target = k]]
    /\ UNCHANGED <<sessions, preflights, approvals, now, head>>

(* build_initial_owner_approval: request r finds the commit, the session    *)
(* and the symbol preflight f was captured with.                            *)
Binds(r, f) == f.head = r.sha /\ f.session = r.session /\ f.symbol = r.symbol

BuildApproval(t) ==
    /\ req[t].pc = "build"
    /\ IF Binds(req[t], preflights[req[t].target]) THEN Goto(t, "existing") ELSE Return(t)
    /\ UNCHANGED <<sessions, preflights, approvals, now, head>>

\* mutant: every confirmation is stored
NeverExisting(k) == FALSE

Existing(k) == \E j \in DOMAIN approvals : approvals[j].preflight = k

(* A stored approval of the preflight is returned instead of a new one. *)
LookUp(t) ==
    /\ req[t].pc = "existing"
    /\ IF Existing(req[t].target) THEN Return(t) ELSE Goto(t, "insertApproval")
    /\ UNCHANGED <<sessions, preflights, approvals, now, head>>

InsertApproval(t) ==
    /\ req[t].pc = "insertApproval"
    /\ LET f == preflights[req[t].target] IN
       approvals' = Append(approvals,
            [preflight |-> req[t].target, session |-> f.session,
             symbol |-> f.symbol, head |-> req[t].sha])
    /\ Return(t)
    /\ UNCHANGED <<sessions, preflights, now, head>>

Next ==
    \/ Tick
    \/ MoveHead
    \/ \E t \in Threads :
         \/ \E s \in Symbols \cup {NoSymbol} : OpenSession(t, s)
         \/ ReadRow(t) \/ InsertRow(t) \/ UpdateRow(t)
         \/ StartCapture(t) \/ ReadSession(t) \/ InsertPreflight(t)
         \/ \E k \in DOMAIN preflights : StartApproval(t, k)
         \/ BuildApproval(t) \/ LookUp(t) \/ InsertApproval(t)

Spec == Init /\ [][Next]_vars
-----------------------------------------------------------------------------
Request ==
    [pc : {"idle", "readRow", "insertRow", "updateRow", "readSession", "insertPreflight",
           "build", "existing", "insertApproval"},
     at : 0..MaxTime, want : Symbols \cup {NoSymbol}, sha : 1..MaxHead,
     session : Nat, symbol : Symbols \cup {NoSymbol}, target : 0..MaxCaptures]

(* Every variable has the values the code can give it: a stored session has *)
(* a supported symbol, a preflight and an approval point at stored rows.    *)
TypeOK ==
    /\ sessions \in Seq([symbol : Symbols, updated : 0..MaxTime])
    /\ preflights \in Seq([session : DOMAIN sessions, symbol : Symbols, head : 1..MaxHead])
    /\ approvals \in Seq([preflight : DOMAIN preflights, session : DOMAIN sessions,
                          symbol : Symbols, head : 1..MaxHead])
    /\ now \in 0..MaxTime /\ head \in 1..MaxHead
    /\ req \in [Threads -> Request]

(* The approvals stored of preflight k. *)
ApprovalsOf(k) == {j \in DOMAIN approvals : approvals[j].preflight = k}

(* Confirming a preflight that has an approval returns the stored one, as    *)
(* "the idempotent existing-row path" of create_initial_owner_approval      *)
(* says, so it gets no more approvals than confirmations of it can overlap  *)
(* before the first is stored, however often and whenever it is confirmed.  *)
(* They all grant what the preflight asked: latest_initial_owner_approval,  *)
(* which takes any one of them, finds the same session, symbol and commit.  *)
OnlyOverlapRepeats ==
    \A k \in DOMAIN preflights :
        /\ Cardinality(ApprovalsOf(k)) <= Cardinality(Threads)
        /\ \A j \in ApprovalsOf(k) :
              [session |-> approvals[j].session, symbol |-> approvals[j].symbol,
               head |-> approvals[j].head] = preflights[k]
=============================================================================
