----------------------------- MODULE FfiBroker -----------------------------
(***************************************************************************)
(* The navigation authority of the Rust policy core as the hosts call it   *)
(* (core/rust-policy-core/src/ffi/broker.rs).  Any number of host threads  *)
(* call at once.  The broker's state sits behind four mutexes that are     *)
(* never held together - inner (the ContextBroker), issued_actions,        *)
(* pending_navigation_approvals and deny_hosts - so a call is a sequence   *)
(* of lock sections, other threads run between them, and each section is   *)
(* one action here.  pc[t] names the section thread t enters next.         *)
(*                                                                         *)
(* An AuthorizedAction never changes after evaluate_navigation built it    *)
(* and is keyed by a fresh nonce, so action[n] is kept once and the two    *)
(* ledgers keep only where n stands.  A target is a host: scope, method    *)
(* and path are bound and compared together with it.  An evaluation that   *)
(* is refused never disclosed its nonce, which becomes fresh again.        *)
(***************************************************************************)
EXTENDS ContextBroker

CONSTANTS
  Threads,            \* host threads
  Hosts,              \* navigation targets
  HighRiskHosts,      \* those is_high_risk_host names
  Denylists,          \* the snapshots the host list takes
  NoAction, NoNonce,
  MaxIssuedActions,   \* MAX_ISSUED_ACTIONS
  MaxPendingApprovals,\* MAX_PENDING_APPROVALS
  ActionExpiry,       \* ACTION_EXPIRY_SECONDS
  TtlRequests         \* TTLs a host asks for

Action ==
  [session : Sessions, tab : Tabs, generation : Generations, host : Hosts,
   expires_at : 0..(MaxTime + ActionExpiry), lifetime : 0..MaxLifetimes]

ASSUME FfiBrokerAssumption ==
  /\ HighRiskHosts \subseteq Hosts
  /\ Denylists \subseteq SUBSET Hosts
  /\ NoAction \notin Action
  /\ NoNonce \notin Nonces
  /\ MaxIssuedActions \in Nat /\ MaxPendingApprovals \in Nat
  /\ ActionExpiry \in Nat /\ TtlRequests \subseteq Nat

VARIABLES
  deny_hosts,                    \* the active denylist snapshot
  action,                        \* nonce -> the action built for it
  issued_actions,                \* nonce -> absent | pending | consumed
  pending_navigation_approvals,  \* nonces waiting for the user
  pc, held, purging,             \* per thread: next section, nonce, session
  granted,                       \* history: Allow answers of consume per nonce
  approved, rejected,            \* history: what the user decided
  victims, revoked               \* history: see RevocationIsFinal

ledgers == <<action, issued_actions, pending_navigation_approvals>>
callVars == <<pc, held, purging>>
histVars == <<granted, approved, rejected, victims, revoked>>
vars == <<coreVars, deny_hosts, ledgers, callVars, histVars>>

Evaluating == {"evaluate_validate", "evaluate_issue", "evaluate_register"}
Approving  == {"approve_validate", "approve_issue"}
Consuming  == {"consume_lookup", "consume_validate", "consume_record"}
Purging    == {"purge_issued", "purge_pending"}
Sections   == {"idle"} \cup Evaluating \cup Approving \cup Consuming \cup Purging

TypeOK ==
  /\ CoreTypeOK
  /\ deny_hosts \in SUBSET Hosts
  /\ action \in [Nonces -> Action \cup {NoAction}]
  /\ issued_actions \in [Nonces -> {"absent", "pending", "consumed"}]
  /\ pending_navigation_approvals \subseteq Nonces
  /\ pc \in [Threads -> Sections]
  /\ held \in [Threads -> Nonces \cup {NoNonce}]
  /\ purging \in [Threads -> Sessions \cup {NoSession}]
  /\ granted \in [Nonces -> Nat]
  /\ approved \subseteq Nonces /\ rejected \subseteq Nonces
  /\ victims \in [Threads -> SUBSET Nonces]
  /\ revoked \subseteq Nonces

Init ==
  /\ CoreInit
  /\ deny_hosts = {}
  /\ action = [n \in Nonces |-> NoAction]
  /\ issued_actions = [n \in Nonces |-> "absent"]
  /\ pending_navigation_approvals = {}
  /\ pc = [t \in Threads |-> "idle"]
  /\ held = [t \in Threads |-> NoNonce]
  /\ purging = [t \in Threads |-> NoSession]
  /\ granted = [n \in Nonces |-> 0]
  /\ approved = {} /\ rejected = {}
  /\ victims = [t \in Threads |-> {}]
  /\ revoked = {}

-----------------------------------------------------------------------------
(* The call stack of a thread *)

\* Thread t starts a call on nonce n: from here on a revocation in progress
\* overlaps this call and makes no promise about n.
Begin(t, section, n) ==
  /\ pc[t] = "idle"
  /\ pc' = [pc EXCEPT ![t] = section]
  /\ held' = [held EXCEPT ![t] = n]
  /\ victims' = [x \in Threads |-> victims[x] \ {n}]
  /\ UNCHANGED <<purging, granted, approved, rejected, revoked>>

Continue(t, section) ==
  /\ pc' = [pc EXCEPT ![t] = section]
  /\ UNCHANGED <<held, purging>>

Return(t) ==
  /\ pc' = [pc EXCEPT ![t] = "idle"]
  /\ held' = [held EXCEPT ![t] = NoNonce]
  /\ purging' = [purging EXCEPT ![t] = NoSession]

InFlight(n) == \E t \in Threads : held[t] = n

\* The host knows a nonce once the evaluation that made it has returned.
Disclosed(n) ==
  /\ action[n] # NoAction
  /\ \A t \in Threads : held[t] = n => pc[t] \notin Evaluating

OfSession(s) == {n \in Nonces : action[n] # NoAction /\ action[n].session = s}

HighRisk(n) == action[n] # NoAction /\ action[n].host \in HighRiskHosts

-----------------------------------------------------------------------------
(* The two ledgers *)

ExpiredAction(n) == action[n].expires_at <= now

Entries == {n \in Nonces : issued_actions[n] # "absent"}

\* Mistake: makes room by dropping authorizations that are still good.
StaleOrNot ==
  IF Cardinality(Entries) >= MaxIssuedActions
  THEN {n \in Entries : issued_actions[n] = "pending"}
  ELSE {}

\* ledger_can_admit at capacity drops the expired pending records; consumed
\* records stay until their session is revoked.
Stale ==
  IF Cardinality(Entries) >= MaxIssuedActions
  THEN {n \in Entries : issued_actions[n] = "pending" /\ ExpiredAction(n)}
  ELSE {}

\* Mistake: off by one.
LedgerCanAdmitOneMore == Cardinality(Entries \ Stale) <= MaxIssuedActions

LedgerCanAdmit == Cardinality(Entries \ Stale) < MaxIssuedActions

\* The single lock window that checks, cleans up and inserts (or refuses).
RecordInLedger(n, state) ==
  issued_actions' = [m \in Nonces |->
     IF m = n /\ LedgerCanAdmit THEN state
     ELSE IF m \in Stale THEN "absent" ELSE issued_actions[m]]

KeptApprovals ==
  IF Cardinality(pending_navigation_approvals) >= MaxPendingApprovals
  THEN {n \in pending_navigation_approvals : ~ExpiredAction(n)}
  ELSE pending_navigation_approvals

-----------------------------------------------------------------------------
(* evaluate_navigation *)

\* The denylist section, the nonce and the action that is then validated.
EvaluateNavigation(t, n, s, tab, generation, host) ==
  /\ action[n] = NoAction
  /\ host \notin deny_hosts
  /\ Begin(t, "evaluate_validate", n)
  /\ action' = [action EXCEPT ![n] =
       [session |-> s, tab |-> tab, generation |-> generation, host |-> host,
        expires_at |-> now + ActionExpiry, lifetime |-> 0]]
  /\ UNCHANGED <<coreVars, deny_hosts, issued_actions, pending_navigation_approvals>>

Forget(n) == action' = [action EXCEPT ![n] = NoAction]

\* Mistake: every target is answered with an authorization at once.
EvaluateValidateAnyRisk(t) ==
  LET n == held[t] IN
  /\ pc[t] = "evaluate_validate"
  /\ ValidateAction(action[n])
  /\ Continue(t, "evaluate_issue")
  /\ UNCHANGED <<coreVars, deny_hosts, ledgers, histVars>>

\* Section "inner": validate, then choose the ledger by the target's risk.
EvaluateValidate(t) ==
  LET n == held[t] IN
  /\ pc[t] = "evaluate_validate"
  /\ \/ /\ ValidateAction(action[n])
        /\ Continue(t, IF HighRisk(n) THEN "evaluate_register" ELSE "evaluate_issue")
        /\ action' = [action EXCEPT ![n].lifetime = lifetimes[action[n].session]]
     \/ /\ ~ValidateAction(action[n])
        /\ Return(t)
        /\ Forget(n)
  /\ UNCHANGED <<coreVars, deny_hosts, issued_actions, pending_navigation_approvals, histVars>>

\* register_pending_approval: RequireConfirmation, or a full ledger.
RegisterPendingApproval(t) ==
  LET n == held[t] IN
  /\ pc[t] = "evaluate_register"
  /\ \/ /\ Cardinality(KeptApprovals) < MaxPendingApprovals
        /\ pending_navigation_approvals' = KeptApprovals \cup {n}
        /\ UNCHANGED action
     \/ /\ Cardinality(KeptApprovals) >= MaxPendingApprovals
        /\ pending_navigation_approvals' = KeptApprovals
        /\ Forget(n)
  /\ Return(t)
  /\ UNCHANGED <<coreVars, deny_hosts, issued_actions, histVars>>

\* The last section of an evaluation that answers Allow.
EvaluateIssue(t) ==
  LET n == held[t] IN
  /\ pc[t] = "evaluate_issue"
  /\ RecordInLedger(n, "pending")
  /\ IF LedgerCanAdmit THEN UNCHANGED action ELSE Forget(n)
  /\ Return(t)
  /\ UNCHANGED <<coreVars, deny_hosts, pending_navigation_approvals, histVars>>

-----------------------------------------------------------------------------
(* approve_navigation_confirmation, reject_navigation_confirmation *)

\* Mistake: looks the request up without taking it out.
ApproveWithoutTaking(t, n) ==
  /\ Disclosed(n)
  /\ n \in pending_navigation_approvals
  /\ Begin(t, "approve_validate", n)
  /\ UNCHANGED <<coreVars, deny_hosts, ledgers>>

\* The request leaves the pending ledger before anything about it is checked:
\* a URL that does not match the binding burns it.
ApproveNavigation(t, n) ==
  /\ Disclosed(n)
  /\ n \in pending_navigation_approvals
  /\ pending_navigation_approvals' = pending_navigation_approvals \ {n}
  /\ \/ Begin(t, "approve_validate", n)
     \/ /\ pc[t] = "idle"
        /\ UNCHANGED <<callVars, histVars>>
  /\ UNCHANGED <<coreVars, deny_hosts, action, issued_actions>>

ApproveValidate(t) ==
  /\ pc[t] = "approve_validate"
  /\ \/ ValidateAction(action[held[t]]) /\ Continue(t, "approve_issue")
     \/ ~ValidateAction(action[held[t]]) /\ Return(t)
  /\ UNCHANGED <<coreVars, deny_hosts, ledgers, histVars>>

ApproveIssue(t) ==
  LET n == held[t] IN
  /\ pc[t] = "approve_issue"
  /\ RecordInLedger(n, "pending")
  /\ approved' = IF LedgerCanAdmit THEN approved \cup {n} ELSE approved
  /\ Return(t)
  /\ UNCHANGED <<coreVars, deny_hosts, action, pending_navigation_approvals,
                 granted, rejected, victims, revoked>>

\* Mistake: answers without removing the request.
RejectWithoutTaking(t, n) ==
  /\ pc[t] = "idle"
  /\ Disclosed(n)
  /\ n \in pending_navigation_approvals
  /\ rejected' = rejected \cup {n}
  /\ UNCHANGED <<coreVars, deny_hosts, ledgers, callVars, granted, approved,
                 victims, revoked>>

RejectNavigation(t, n) ==
  /\ pc[t] = "idle"
  /\ Disclosed(n)
  /\ n \in pending_navigation_approvals
  /\ pending_navigation_approvals' = pending_navigation_approvals \ {n}
  /\ rejected' = rejected \cup {n}
  /\ UNCHANGED <<coreVars, deny_hosts, action, issued_actions, callVars,
                 granted, approved, victims, revoked>>

-----------------------------------------------------------------------------
(* consume_navigation *)

\* The denylist is judged again at consumption; a URL other than the action's
\* is refused here too, with no effect.
ConsumeNavigation(t, n) ==
  /\ Disclosed(n)
  /\ action[n].host \notin deny_hosts
  /\ Begin(t, "consume_lookup", n)
  /\ UNCHANGED <<coreVars, deny_hosts, ledgers>>

\* Mistake: only a consumed record stops the consumption.
LookupUnlessConsumed(t) ==
  /\ pc[t] = "consume_lookup"
  /\ issued_actions[held[t]] # "consumed"
  /\ Continue(t, "consume_validate")
  /\ UNCHANGED <<coreVars, deny_hosts, ledgers, histVars>>

\* The record is cloned out of the ledger. A forged action fails same_binding.
ConsumeLookup(t) ==
  /\ pc[t] = "consume_lookup"
  /\ \/ issued_actions[held[t]] = "pending" /\ Continue(t, "consume_validate")
     \/ Return(t)
  /\ UNCHANGED <<coreVars, deny_hosts, ledgers, histVars>>

\* validate_and_consume: one section of "inner", the only point of no return.
ConsumeValidate(t) ==
  LET n == held[t] IN
  /\ pc[t] = "consume_validate"
  /\ \/ /\ ValidateAction(action[n])
        /\ ConsumeNonce(n)
        /\ Continue(t, "consume_record")
     \/ /\ ~(ValidateAction(action[n]) /\ MayConsume(n))
        /\ Return(t)
        /\ UNCHANGED coreVars
  /\ UNCHANGED <<deny_hosts, ledgers, histVars>>

\* Allow only if the consumption could be recorded.
ConsumeRecord(t) ==
  LET n == held[t] IN
  /\ pc[t] = "consume_record"
  /\ RecordInLedger(n, "consumed")
  /\ granted' = IF LedgerCanAdmit THEN [granted EXCEPT ![n] = @ + 1] ELSE granted
  /\ Return(t)
  /\ UNCHANGED <<coreVars, deny_hosts, action, pending_navigation_approvals,
                 approved, rejected, victims, revoked>>

-----------------------------------------------------------------------------
(* Sessions *)

FfiCreateSession(t, s, tab, generation, ttl) ==
  /\ pc[t] = "idle"
  /\ CreateSession(s, tab, generation, ttl)
  /\ UNCHANGED <<deny_hosts, ledgers, callVars, histVars>>

\* A revocation of s starts: it answers for every authorization of s that no
\* other call is working on.
BeginPurge(t, s) ==
  /\ pc[t] = "idle"
  /\ pc' = [pc EXCEPT ![t] = "purge_issued"]
  /\ purging' = [purging EXCEPT ![t] = s]
  /\ victims' = [victims EXCEPT ![t] = {n \in OfSession(s) : ~InFlight(n)}]
  /\ UNCHANGED <<held, granted, approved, rejected, revoked>>

\* destroy_session purges even when the id was not in the pool.
FfiDestroySession(t, s) ==
  /\ BeginPurge(t, s)
  /\ RemoveSession(s)
  /\ UNCHANGED <<deny_hosts, ledgers>>

FfiAdvanceDocumentGeneration(t, s, tab, next) ==
  /\ AdvanceGeneration(s, tab, next)
  /\ BeginPurge(t, s)
  /\ UNCHANGED <<deny_hosts, ledgers>>

\* Mistake: purges the pending ledger only.
PurgeIssuedNothing(t) ==
  /\ pc[t] = "purge_issued"
  /\ Continue(t, "purge_pending")
  /\ UNCHANGED <<coreVars, deny_hosts, ledgers, histVars>>

PurgeIssued(t) ==
  /\ pc[t] = "purge_issued"
  /\ issued_actions' = [n \in Nonces |->
       IF n \in OfSession(purging[t]) THEN "absent" ELSE issued_actions[n]]
  /\ Continue(t, "purge_pending")
  /\ UNCHANGED <<coreVars, deny_hosts, action, pending_navigation_approvals, histVars>>

PurgePending(t) ==
  /\ pc[t] = "purge_pending"
  /\ pending_navigation_approvals' = pending_navigation_approvals \ OfSession(purging[t])
  /\ revoked' = revoked \cup victims[t]
  /\ victims' = [victims EXCEPT ![t] = {}]
  /\ Return(t)
  /\ UNCHANGED <<coreVars, deny_hosts, action, issued_actions, granted, approved, rejected>>

-----------------------------------------------------------------------------

\* update_host_denylist, one section of deny_hosts (see HostDenylist).
UpdateHostDenylist(hosts) ==
  /\ deny_hosts # hosts
  /\ deny_hosts' = hosts
  /\ UNCHANGED <<coreVars, ledgers, callVars, histVars>>

ClockTick ==
  /\ Tick
  /\ UNCHANGED <<deny_hosts, ledgers, callVars, histVars>>

Call(t) ==
  \/ \E n \in Nonces, s \in Sessions, tab \in Tabs, g \in Generations, host \in Hosts :
       EvaluateNavigation(t, n, s, tab, g, host)
  \/ \E n \in Nonces :
       \/ ApproveNavigation(t, n)
       \/ RejectNavigation(t, n)
       \/ ConsumeNavigation(t, n)
  \/ \E s \in Sessions, tab \in Tabs, g \in Generations :
       \/ \E ttl \in TtlRequests : FfiCreateSession(t, s, tab, g, ttl)
       \/ FfiAdvanceDocumentGeneration(t, s, tab, g)
  \/ \E s \in Sessions : FfiDestroySession(t, s)

Section(t) ==
  \/ EvaluateValidate(t) \/ RegisterPendingApproval(t) \/ EvaluateIssue(t)
  \/ ApproveValidate(t) \/ ApproveIssue(t)
  \/ ConsumeLookup(t) \/ ConsumeValidate(t) \/ ConsumeRecord(t)
  \/ PurgeIssued(t) \/ PurgePending(t)

Next ==
  \/ \E t \in Threads : Call(t) \/ Section(t)
  \/ \E hosts \in Denylists : UpdateHostDenylist(hosts)
  \/ ClockTick

Spec == Init /\ [][Next]_vars

-----------------------------------------------------------------------------
(* Safety *)

\* However many threads present the same authorization at once, and whatever
\* revocations, renewals and cleanups run between their lock sections, at most
\* one of them is told Allow (consume_navigation, ffi/broker.rs).
OneShot == \A n \in Nonces : granted[n] <= 1

\* A navigation to a high-risk host is allowed only after the user's approval
\* was turned into an issued authorization, and never after a rejection: one
\* pending request cannot be both approved and rejected by racing calls.
ConfirmationIsBinding ==
  /\ \A n \in Nonces : granted[n] > 0 /\ HighRisk(n) => n \in approved
  /\ \A n \in rejected : granted[n] = 0
  /\ approved \cap rejected = {}

\* The two in-memory ledgers never exceed their capacity although the room is
\* tested by several threads (the one-lock-window contract of ledger_can_admit).
LedgersAreBounded ==
  /\ Cardinality(Entries) <= MaxIssuedActions
  /\ Cardinality(pending_navigation_approvals) <= MaxPendingApprovals
  /\ Cardinality(consumed_nonces) <= MaxConsumedNonces
  /\ Cardinality(Pool) <= MaxSessions

\* An authorization that was lost between two ledgers, or exists in both, would
\* be approvable twice or consumable without approval. A nonce awaits the user,
\* or stands in the issued ledger, or is carried by one approval - never two of
\* these; and whatever is recorded as consumed is in the replay ledger.
OnePlaceAtATime ==
  \A n \in Nonces :
    /\ ~(n \in pending_navigation_approvals /\ issued_actions[n] # "absent")
    /\ \A t \in Threads : held[t] = n /\ pc[t] \in Approving =>
         /\ n \notin pending_navigation_approvals
         /\ issued_actions[n] = "absent"
         /\ \A u \in Threads \ {t} : held[u] = n => pc[u] \notin Approving
    /\ issued_actions[n] = "consumed" => n \in consumed_nonces

\* Once destroy_session or advance_document_generation has returned, the
\* authorizations of that session that no other call was working on meanwhile
\* are never granted again - not even when the same session id is created again
\* at the same generation, which validate_action alone could not tell apart.
RevocationIsFinal ==
  [][\A n \in revoked : granted'[n] = granted[n]]_vars

\* What the field comment on issued_actions says (ffi/broker.rs:25): only
\* authorizations issued in the session's current lifetime are consumed. The
\* consumption is at the section that burns the nonce; one that falls into a
\* destroy_session still running is not held against the code.
ConsumedWithinLifetime ==
  [][\A n \in consumed_nonces' \ consumed_nonces :
        \/ action[n].lifetime = lifetimes[action[n].session]
        \/ \E t \in Threads : purging[t] = action[n].session]_vars

\* Making room for a new session in a full pool costs only expired sessions:
\* a live one leaves the pool through its own destroy_session alone.
LiveSessionsSurvive ==
  [][\A s \in Pool : sessions'[s] = NoSession =>
        IsExpired(s) \/ \E t \in Threads : purging'[t] = s]_vars

-----------------------------------------------------------------------------
(* The abstract specification FfiBroker implements *)

Carried(n, sections) == \E t \in Threads : held[t] = n /\ pc[t] \in sections

StatusOf(n) ==
  IF n \in consumed_nonces THEN "consumed"
  ELSE IF issued_actions[n] = "pending" \/ Carried(n, {"consume_validate"}) THEN "issued"
  ELSE IF n \in pending_navigation_approvals \/ Carried(n, Approving) THEN "awaiting"
  ELSE IF action[n] = NoAction \/ Carried(n, Evaluating) THEN "none"
  ELSE "void"

Authority == INSTANCE NavigationAuthority WITH
  status <- [n \in Nonces |-> StatusOf(n)],
  confirmable <- {n \in Nonces : HighRisk(n)},
  granted <- {n \in Nonces : granted[n] > 0}

\* The life cycle of every authorization, seen through the ledgers and the
\* calls in flight, is the one NavigationAuthority allows.
ImplementsAuthority == Authority!Spec

\* An authorization the host holds is never lost by accident: it leaves the two
\* ledgers because its own session is being revoked, it expired, the user
\* rejected it, or a call redeeming that very authorization failed. Cleaning a
\* full ledger or revoking another session costs nobody a live authorization.
NoSilentWithdrawal ==
  [][\A n \in Nonces :
        StatusOf(n) \in {"awaiting", "issued"} /\ (StatusOf(n) = "void")' =>
          \/ ExpiredAction(n)
          \/ n \in rejected'
          \/ \E t \in Threads : held[t] = n \/ purging[t] = action[n].session
          \/ n \in pending_navigation_approvals /\ n \notin pending_navigation_approvals'
              /\ UNCHANGED pc]_vars
=============================================================================
