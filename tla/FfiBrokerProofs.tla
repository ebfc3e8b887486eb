-------------------------- MODULE FfiBrokerProofs ---------------------------
(***************************************************************************)
(* Proofs about FfiBroker for any number of threads, sessions and nonces   *)
(* and any capacities: the invariant IInv with what follows from it, the   *)
(* bounds of the ledgers, that revocation is final and nothing is lost to  *)
(* make room, and that the whole broker implements NavigationAuthority.    *)
(* Last, what it takes for an authorization to end with its session.       *)
(***************************************************************************)
EXTENDS FfiBrokerInv, FiniteSetTheorems, TLAPS

LEMMA ClampTtlRange ==
  ASSUME NEW ttl \in Nat
  PROVE  ClampTtl(ttl) \in 0..MaxTtl
BY ContextBrokerAssumption DEF ClampTtl

LEMMA CreateSessionType ==
  ASSUME CoreTypeOK, NEW s \in Sessions, NEW tab \in Tabs, NEW g \in Generations,
         NEW ttl \in Nat, CreateSession(s, tab, g, ttl)
  PROVE  CoreTypeOK'
<1> DEFINE ctx == [tab |-> tab, generation |-> g, deadline |-> now + ClampTtl(ttl)]
<1>1. ctx \in SessionContext
  BY ClampTtlRange, ContextBrokerAssumption DEF CoreTypeOK, SessionContext
<1>2. sessions' \in [Sessions -> SessionContext \cup {NoSession}]
  BY <1>1 DEF CreateSession, CoreTypeOK
<1>3. lifetimes' \in [Sessions -> 0..MaxLifetimes]
  BY ContextBrokerAssumption DEF CreateSession, CoreTypeOK, Pool
<1> QED
  BY <1>2, <1>3 DEF CreateSession, CoreTypeOK

LEMMA AdvanceType ==
  ASSUME CoreTypeOK, NEW s \in Sessions, NEW tab \in Tabs, NEW g \in Generations,
         AdvanceGeneration(s, tab, g)
  PROVE  CoreTypeOK'
<1>1. [sessions[s] EXCEPT !.generation = g] \in SessionContext
  BY DEF AdvanceGeneration, MayAdvance, CoreTypeOK, SessionContext, Pool
<1> QED
  BY <1>1 DEF AdvanceGeneration, CoreTypeOK

LEMMA RecordInLedgerType ==
  ASSUME TypeOK, NEW n \in Nonces, NEW state \in {"pending", "consumed"},
         RecordInLedger(n, state)
  PROVE  issued_actions' \in [Nonces -> {"absent", "pending", "consumed"}]
BY DEF TypeOK, RecordInLedger

LEMMA InitIInv == Init => IInv
BY ContextBrokerAssumption, FfiBrokerAssumption
   DEF Init, CoreInit, IInv, TypeOK, CoreTypeOK, HoldsNonce, EvaluationIsPrivate,
       PendingIsUndecided, ApprovalIsExclusive, IssuedIsCleared, ConsumptionIsCleared,
       RecorderIsUnique, ReplayLedgerIsCleared, Decided, Evaluating, Approving,
       Consuming, Purging, Sections

LEMMA TypePreserved ==
  ASSUME TypeOK, HoldsNonce, EvaluationIsPrivate, [Next]_vars
  PROVE  TypeOK'
<1> USE DEF TypeOK, callVars, histVars, ledgers
<1>1. CASE UNCHANGED vars
  BY <1>1 DEF vars, coreVars, CoreTypeOK
<1>2. ASSUME NEW t \in Threads, Call(t) PROVE TypeOK'
  <2>1. ASSUME NEW n \in Nonces, NEW s \in Sessions, NEW tab \in Tabs,
               NEW g \in Generations, NEW host \in Hosts,
               EvaluateNavigation(t, n, s, tab, g, host)
        PROVE TypeOK'
    <3>1. [session |-> s, tab |-> tab, generation |-> g, host |-> host,
           expires_at |-> now + ActionExpiry, lifetime |-> 0] \in Action
      BY ContextBrokerAssumption, FfiBrokerAssumption DEF Action, CoreTypeOK
    <3> QED
      BY <2>1, <3>1 DEF EvaluateNavigation, Begin, coreVars, CoreTypeOK, Sections,
         Evaluating
  <2>2. ASSUME NEW n \in Nonces, ApproveNavigation(t, n) PROVE TypeOK'
    BY <2>2 DEF ApproveNavigation, Begin, coreVars, CoreTypeOK, Sections, Approving
  <2>3. ASSUME NEW n \in Nonces, RejectNavigation(t, n) PROVE TypeOK'
    BY <2>3 DEF RejectNavigation, coreVars, CoreTypeOK
  <2>4. ASSUME NEW n \in Nonces, ConsumeNavigation(t, n) PROVE TypeOK'
    BY <2>4 DEF ConsumeNavigation, Begin, coreVars, CoreTypeOK, Sections, Consuming
  <2>5. ASSUME NEW s \in Sessions, NEW tab \in Tabs, NEW g \in Generations,
               NEW ttl \in TtlRequests, FfiCreateSession(t, s, tab, g, ttl)
        PROVE TypeOK'
    <3>1. CoreTypeOK'
      BY <2>5, CreateSessionType, FfiBrokerAssumption DEF FfiCreateSession
    <3> QED
      BY <2>5, <3>1 DEF FfiCreateSession
  <2>6. ASSUME NEW s \in Sessions, NEW tab \in Tabs, NEW g \in Generations,
               FfiAdvanceDocumentGeneration(t, s, tab, g)
        PROVE TypeOK'
    <3>1. CoreTypeOK'
      BY <2>6, AdvanceType DEF FfiAdvanceDocumentGeneration
    <3> QED
      BY <2>6, <3>1 DEF FfiAdvanceDocumentGeneration, BeginPurge, OfSession, Sections,
         Purging
  <2>7. ASSUME NEW s \in Sessions, FfiDestroySession(t, s) PROVE TypeOK'
    BY <2>7 DEF FfiDestroySession, RemoveSession, BeginPurge, OfSession, CoreTypeOK,
                Sections, Purging
  <2> QED
    BY <1>2, <2>1, <2>2, <2>3, <2>4, <2>5, <2>6, <2>7 DEF Call
<1>3. ASSUME NEW t \in Threads, Section(t) PROVE TypeOK'
  <2> USE DEF Return, Continue
  <2>0. pc[t] \in Evaluating \cup Approving \cup Consuming => held[t] \in Nonces
    BY DEF HoldsNonce
  <2>1. CASE EvaluateValidate(t)
    <3>1. held[t] \in Nonces
      BY <2>0, <2>1 DEF EvaluateValidate, Evaluating
    <3>2. ASSUME action[held[t]] \in Action
          PROVE [action[held[t]] EXCEPT !.lifetime = lifetimes[action[held[t]].session]] \in Action
      BY <3>2 DEF Action, CoreTypeOK
    <3>3. action[held[t]] \in Action
      BY <2>1, <3>1 DEF EvaluateValidate, Evaluating, EvaluationIsPrivate, Known
    <3> QED
      BY <2>1, <3>1, <3>2, <3>3 DEF EvaluateValidate, Forget, coreVars, CoreTypeOK,
         Sections, Evaluating
  <2>2. CASE RegisterPendingApproval(t)
    BY <2>0, <2>2 DEF RegisterPendingApproval, KeptApprovals, Forget, coreVars,
       CoreTypeOK,
                      Sections, Evaluating
  <2>3. CASE EvaluateIssue(t)
    BY <2>0, <2>3, RecordInLedgerType DEF EvaluateIssue, Forget, coreVars, CoreTypeOK,
                                          Sections, Evaluating
  <2>4. CASE ApproveValidate(t)
    BY <2>0, <2>4 DEF ApproveValidate, coreVars, CoreTypeOK, Sections, Approving
  <2>5. CASE ApproveIssue(t)
    BY <2>0, <2>5, RecordInLedgerType DEF ApproveIssue, coreVars, CoreTypeOK, Sections,
       Approving
  <2>6. CASE ConsumeLookup(t)
    BY <2>0, <2>6 DEF ConsumeLookup, coreVars, CoreTypeOK, Sections, Consuming
  <2>7. CASE ConsumeValidate(t)
    BY <2>0, <2>7 DEF ConsumeValidate, ConsumeNonce, coreVars, CoreTypeOK, Sections,
       Consuming
  <2>8. CASE ConsumeRecord(t)
    BY <2>0, <2>8, RecordInLedgerType DEF ConsumeRecord, coreVars, CoreTypeOK, Sections,
       Consuming
  <2>9. CASE PurgeIssued(t)
    BY <2>9 DEF PurgeIssued, coreVars, CoreTypeOK, Sections, Purging
  <2>10. CASE PurgePending(t)
    BY <2>10 DEF PurgePending, coreVars, CoreTypeOK, Sections, Purging
  <2> QED
    BY <1>3, <2>1, <2>2, <2>3, <2>4, <2>5, <2>6, <2>7, <2>8, <2>9, <2>10 DEF Section
<1>4. ASSUME NEW hosts \in Denylists, UpdateHostDenylist(hosts) PROVE TypeOK'
  BY <1>4, FfiBrokerAssumption DEF UpdateHostDenylist, coreVars, CoreTypeOK
<1>5. CASE ClockTick
  BY <1>5, ContextBrokerAssumption DEF ClockTick, Tick, CoreTypeOK
<1> QED
  BY <1>1, <1>2, <1>3, <1>4, <1>5 DEF Next

Safe ==
  /\ HoldsNonce
  /\ EvaluationIsPrivate
  /\ PendingIsUndecided
  /\ ApprovalIsExclusive
  /\ IssuedIsCleared
  /\ ConsumptionIsCleared
  /\ RecorderIsUnique
  /\ ReplayLedgerIsCleared
  /\ Decided

LEMMA EvaluateNavigationSafe ==
  ASSUME IInv, NEW t \in Threads, NEW n \in Nonces, NEW s \in Sessions, NEW tab \in Tabs,
         NEW g \in Generations, NEW host \in Hosts, EvaluateNavigation(t, n, s, tab, g, host)
  PROVE  Safe'
<1> USE FfiBrokerAssumption DEF IInv, TypeOK
<1>1. HoldsNonce'
  BY DEF EvaluateNavigation, Begin, coreVars, HoldsNonce, Evaluating, Approving,
         Consuming, Purging
<1>2. EvaluationIsPrivate'
  <2>1. action[n] = NoAction /\ pc[t] = "idle"
    BY DEF EvaluateNavigation, Begin
  <2>2. Undecided(n) /\ n \notin pending_navigation_approvals
    BY <2>1 DEF Undecided, PendingIsUndecided, IssuedIsCleared, ReplayLedgerIsCleared,
                Decided, Cleared, Known
  <2>3. \A u \in Threads : held[u] # n
    BY <2>1 DEF HoldsNonce, EvaluationIsPrivate, ApprovalIsExclusive,
       ConsumptionIsCleared,
                Known, Sections, Evaluating, Approving, Consuming, Purging
  <2>4. action'[n] # NoAction /\ \A m \in Nonces \ {n} : action'[m] = action[m]
    BY <2>1, ContextBrokerAssumption DEF EvaluateNavigation, Action, CoreTypeOK
  <2>5. /\ pc'[t] = "evaluate_validate" /\ held'[t] = n
        /\ \A u \in Threads \ {t} : pc'[u] = pc[u] /\ held'[u] = held[u]
    BY DEF EvaluateNavigation, Begin
  <2>6. UNCHANGED <<coreVars, issued_actions, pending_navigation_approvals,
                    granted, approved, rejected>>
    BY DEF EvaluateNavigation, Begin
  <2>7. \A u \in Threads : pc[u] \in Evaluating => held[u] \in Nonces
    BY DEF HoldsNonce
  <2> QED
    BY <2>2, <2>3, <2>4, <2>5, <2>6, <2>7
       DEF EvaluationIsPrivate, Undecided, Known, HighRisk, Evaluating, coreVars
<1>3. PendingIsUndecided'
  BY DEF EvaluateNavigation, Begin, coreVars, PendingIsUndecided, Undecided, Known,
         HighRisk
<1>4. ApprovalIsExclusive'
  BY DEF EvaluateNavigation, Begin, coreVars, ApprovalIsExclusive, Undecided, Known,
         HighRisk, Approving
<1>5. IssuedIsCleared'
  BY DEF EvaluateNavigation, Begin, coreVars, IssuedIsCleared, Cleared, Known, HighRisk
<1>6. ConsumptionIsCleared'
  BY DEF EvaluateNavigation, Begin, coreVars, ConsumptionIsCleared, Cleared, Known,
         HighRisk, Consuming
<1>7. RecorderIsUnique'
  BY DEF EvaluateNavigation, Begin, coreVars, RecorderIsUnique
<1>8. ReplayLedgerIsCleared'
  BY DEF EvaluateNavigation, Begin, coreVars, ReplayLedgerIsCleared, Cleared, Known,
         HighRisk
<1>9. Decided'
  BY DEF EvaluateNavigation, Begin, coreVars, Decided, Known
<1> QED
  BY <1>1, <1>2, <1>3, <1>4, <1>5, <1>6, <1>7, <1>8, <1>9 DEF Safe

LEMMA EvaluateValidateSafe ==
  ASSUME IInv, NEW t \in Threads, EvaluateValidate(t)
  PROVE  Safe'
<1> USE FfiBrokerAssumption DEF IInv, TypeOK
<1>1. HoldsNonce'
  BY DEF EvaluateValidate, Forget, Return, Continue, coreVars, histVars, HoldsNonce,
         Evaluating, Approving, Consuming, Purging
<1>2. EvaluationIsPrivate'
  <2>1. held[t] \in Nonces /\ Known(held[t]) /\ action[held[t]] \in Action
    BY DEF EvaluateValidate, HoldsNonce, EvaluationIsPrivate, Evaluating, Known
  <2>2. \/ action' = [action EXCEPT ![held[t]] = NoAction] /\ pc'[t] = "idle"
        \/ /\ action'[held[t]] \in Action
           /\ action'[held[t]].host = action[held[t]].host
           /\ \A n \in Nonces \ {held[t]} : action'[n] = action[n]
    BY <2>1 DEF EvaluateValidate, Forget, Return, Continue, Action, CoreTypeOK
  <2> QED
    BY <2>1, <2>2 DEF EvaluateValidate, Forget, Return, Continue, coreVars, histVars,
       EvaluationIsPrivate, Undecided, Known, HighRisk, Evaluating, HoldsNonce,
       Approving, Consuming, Purging
<1>3. PendingIsUndecided'
  BY DEF EvaluateValidate, Forget, Return, Continue, coreVars, histVars,
         PendingIsUndecided, Undecided, Known, HighRisk, HoldsNonce, Evaluating,
         Approving, Consuming, Purging, EvaluationIsPrivate
<1>4. ApprovalIsExclusive'
  BY DEF EvaluateValidate, Forget, Return, Continue, coreVars, histVars,
         ApprovalIsExclusive, Undecided, Known, HighRisk, Approving, HoldsNonce,
         Evaluating, Consuming, Purging, EvaluationIsPrivate
<1>5. IssuedIsCleared'
  BY DEF EvaluateValidate, Forget, Return, Continue, coreVars, histVars,
         IssuedIsCleared, Cleared, Known, HighRisk, HoldsNonce, Evaluating, Approving,
         Consuming, Purging, EvaluationIsPrivate, Undecided
<1>6. ConsumptionIsCleared'
  BY DEF EvaluateValidate, Forget, Return, Continue, coreVars, histVars,
         ConsumptionIsCleared, Cleared, Known, HighRisk, Consuming, HoldsNonce,
         Evaluating, Approving, Purging, EvaluationIsPrivate, Undecided
<1>7. RecorderIsUnique'
  BY DEF EvaluateValidate, Forget, Return, Continue, coreVars, histVars,
         RecorderIsUnique
<1>8. ReplayLedgerIsCleared'
  BY DEF EvaluateValidate, Forget, Return, Continue, coreVars, histVars,
         ReplayLedgerIsCleared, Cleared, Known, HighRisk, HoldsNonce, Evaluating,
         Approving, Consuming, Purging, EvaluationIsPrivate, Undecided
<1>9. Decided'
  BY DEF EvaluateValidate, Forget, Return, Continue, coreVars, histVars, Decided, Known,
         HoldsNonce, Evaluating, Approving, Consuming, Purging, EvaluationIsPrivate,
         Undecided, HighRisk
<1> QED
  BY <1>1, <1>2, <1>3, <1>4, <1>5, <1>6, <1>7, <1>8, <1>9 DEF Safe

LEMMA RegisterPendingApprovalSafe ==
  ASSUME IInv, NEW t \in Threads, RegisterPendingApproval(t)
  PROVE  Safe'
<1> USE FfiBrokerAssumption DEF IInv, TypeOK
<1>1. HoldsNonce'
  BY DEF RegisterPendingApproval, KeptApprovals, Forget, Return, coreVars, histVars,
         HoldsNonce, Evaluating, Approving, Consuming, Purging
<1>2. EvaluationIsPrivate'
  BY DEF RegisterPendingApproval, KeptApprovals, Forget, Return, coreVars, histVars,
         EvaluationIsPrivate, Undecided, Known, HighRisk, Evaluating, HoldsNonce,
         Approving, Consuming, Purging
<1>3. PendingIsUndecided'
  BY DEF RegisterPendingApproval, KeptApprovals, Forget, Return, coreVars, histVars,
         PendingIsUndecided, Undecided, Known, HighRisk, HoldsNonce, Evaluating,
         Approving, Consuming, Purging, EvaluationIsPrivate
<1>4. ApprovalIsExclusive'
  BY DEF RegisterPendingApproval, KeptApprovals, Forget, Return, coreVars, histVars,
         ApprovalIsExclusive, Undecided, Known, HighRisk, Approving, HoldsNonce,
         Evaluating, Consuming, Purging, EvaluationIsPrivate
<1>5. IssuedIsCleared'
  BY DEF RegisterPendingApproval, KeptApprovals, Forget, Return, coreVars, histVars,
         IssuedIsCleared, Cleared, Known, HighRisk, HoldsNonce, Evaluating, Approving,
         Consuming, Purging, EvaluationIsPrivate, Undecided
<1>6. ConsumptionIsCleared'
  BY DEF RegisterPendingApproval, KeptApprovals, Forget, Return, coreVars, histVars,
         ConsumptionIsCleared, Cleared, Known, HighRisk, Consuming, HoldsNonce,
         Evaluating, Approving, Purging, EvaluationIsPrivate, Undecided
<1>7. RecorderIsUnique'
  BY DEF RegisterPendingApproval, KeptApprovals, Forget, Return, coreVars, histVars,
         RecorderIsUnique
<1>8. ReplayLedgerIsCleared'
  BY DEF RegisterPendingApproval, KeptApprovals, Forget, Return, coreVars, histVars,
         ReplayLedgerIsCleared, Cleared, Known, HighRisk, HoldsNonce, Evaluating,
         Approving, Consuming, Purging, EvaluationIsPrivate, Undecided
<1>9. Decided'
  BY DEF RegisterPendingApproval, KeptApprovals, Forget, Return, coreVars, histVars,
         Decided, Known, HoldsNonce, Evaluating, Approving, Consuming, Purging,
         EvaluationIsPrivate, Undecided, HighRisk
<1> QED
  BY <1>1, <1>2, <1>3, <1>4, <1>5, <1>6, <1>7, <1>8, <1>9 DEF Safe

LEMMA EvaluateIssueSafe ==
  ASSUME IInv, NEW t \in Threads, EvaluateIssue(t)
  PROVE  Safe'
<1> USE FfiBrokerAssumption DEF IInv, TypeOK
<1>1. HoldsNonce'
  BY DEF EvaluateIssue, RecordInLedger, Stale, Forget, Return, coreVars, histVars,
         HoldsNonce, Evaluating, Approving, Consuming, Purging
<1>2. EvaluationIsPrivate'
  BY DEF EvaluateIssue, RecordInLedger, Stale, Forget, Return, coreVars, histVars,
         EvaluationIsPrivate, Undecided, Known, HighRisk, Evaluating, HoldsNonce,
         Approving, Consuming, Purging
<1>3. PendingIsUndecided'
  BY DEF EvaluateIssue, RecordInLedger, Stale, Forget, Return, coreVars, histVars,
         PendingIsUndecided, Undecided, Known, HighRisk, HoldsNonce, Evaluating,
         Approving, Consuming, Purging, EvaluationIsPrivate
<1>4. ApprovalIsExclusive'
  BY DEF EvaluateIssue, RecordInLedger, Stale, Forget, Return, coreVars, histVars,
         ApprovalIsExclusive, Undecided, Known, HighRisk, Approving, HoldsNonce,
         Evaluating, Consuming, Purging, EvaluationIsPrivate
<1>5. IssuedIsCleared'
  BY DEF EvaluateIssue, RecordInLedger, Stale, Forget, Return, coreVars, histVars,
         IssuedIsCleared, Cleared, Known, HighRisk, HoldsNonce, Evaluating, Approving,
         Consuming, Purging, EvaluationIsPrivate, Undecided
<1>6. ConsumptionIsCleared'
  BY DEF EvaluateIssue, RecordInLedger, Stale, Forget, Return, coreVars, histVars,
         ConsumptionIsCleared, Cleared, Known, HighRisk, Consuming, HoldsNonce,
         Evaluating, Approving, Purging, EvaluationIsPrivate, Undecided
<1>7. RecorderIsUnique'
  BY DEF EvaluateIssue, RecordInLedger, Stale, Forget, Return, coreVars, histVars,
         RecorderIsUnique
<1>8. ReplayLedgerIsCleared'
  BY DEF EvaluateIssue, RecordInLedger, Stale, Forget, Return, coreVars, histVars,
         ReplayLedgerIsCleared, Cleared, Known, HighRisk, HoldsNonce, Evaluating,
         Approving, Consuming, Purging, EvaluationIsPrivate, Undecided
<1>9. Decided'
  BY DEF EvaluateIssue, RecordInLedger, Stale, Forget, Return, coreVars, histVars,
         Decided, Known, HoldsNonce, Evaluating, Approving, Consuming, Purging,
         EvaluationIsPrivate, Undecided, HighRisk
<1> QED
  BY <1>1, <1>2, <1>3, <1>4, <1>5, <1>6, <1>7, <1>8, <1>9 DEF Safe

LEMMA ApproveNavigationSafe ==
  ASSUME IInv, NEW t \in Threads, NEW n \in Nonces, ApproveNavigation(t, n)
  PROVE  Safe'
<1> USE FfiBrokerAssumption DEF IInv, TypeOK
<1>1. HoldsNonce'
  BY DEF ApproveNavigation, Begin, Disclosed, coreVars, callVars, histVars, HoldsNonce,
         Evaluating, Approving, Consuming, Purging
<1>2. EvaluationIsPrivate'
  BY DEF ApproveNavigation, Begin, Disclosed, coreVars, callVars, histVars,
         EvaluationIsPrivate, Undecided, Known, HighRisk, Evaluating
<1>3. PendingIsUndecided'
  BY DEF ApproveNavigation, Begin, Disclosed, coreVars, callVars, histVars,
         PendingIsUndecided, Undecided, Known, HighRisk
<1>4. ApprovalIsExclusive'
  BY DEF ApproveNavigation, Begin, Disclosed, coreVars, callVars, histVars,
         ApprovalIsExclusive, Undecided, Known, HighRisk, Approving, PendingIsUndecided
<1>5. IssuedIsCleared'
  BY DEF ApproveNavigation, Begin, Disclosed, coreVars, callVars, histVars,
         IssuedIsCleared, Cleared, Known, HighRisk
<1>6. ConsumptionIsCleared'
  BY DEF ApproveNavigation, Begin, Disclosed, coreVars, callVars, histVars,
         ConsumptionIsCleared, Cleared, Known, HighRisk, Consuming
<1>7. RecorderIsUnique'
  BY DEF ApproveNavigation, Begin, Disclosed, coreVars, callVars, histVars,
         RecorderIsUnique
<1>8. ReplayLedgerIsCleared'
  BY DEF ApproveNavigation, Begin, Disclosed, coreVars, callVars, histVars,
         ReplayLedgerIsCleared, Cleared, Known, HighRisk
<1>9. Decided'
  BY DEF ApproveNavigation, Begin, Disclosed, coreVars, callVars, histVars, Decided,
         Known
<1> QED
  BY <1>1, <1>2, <1>3, <1>4, <1>5, <1>6, <1>7, <1>8, <1>9 DEF Safe

LEMMA ApproveValidateSafe ==
  ASSUME IInv, NEW t \in Threads, ApproveValidate(t)
  PROVE  Safe'
<1> USE FfiBrokerAssumption DEF IInv, TypeOK
<1>1. HoldsNonce'
  BY DEF ApproveValidate, Return, Continue, coreVars, ledgers, histVars, HoldsNonce,
         Evaluating, Approving, Consuming, Purging
<1>2. EvaluationIsPrivate'
  BY DEF ApproveValidate, Return, Continue, coreVars, ledgers, histVars,
         EvaluationIsPrivate, Undecided, Known, HighRisk, Evaluating, HoldsNonce,
         Approving, Consuming, Purging
<1>3. PendingIsUndecided'
  BY DEF ApproveValidate, Return, Continue, coreVars, ledgers, histVars,
         PendingIsUndecided, Undecided, Known, HighRisk
<1>4. ApprovalIsExclusive'
  BY DEF ApproveValidate, Return, Continue, coreVars, ledgers, histVars,
         ApprovalIsExclusive, Undecided, Known, HighRisk, Approving
<1>5. IssuedIsCleared'
  BY DEF ApproveValidate, Return, Continue, coreVars, ledgers, histVars,
         IssuedIsCleared, Cleared, Known, HighRisk
<1>6. ConsumptionIsCleared'
  BY DEF ApproveValidate, Return, Continue, coreVars, ledgers, histVars,
         ConsumptionIsCleared, Cleared, Known, HighRisk, Consuming
<1>7. RecorderIsUnique'
  BY DEF ApproveValidate, Return, Continue, coreVars, ledgers, histVars,
         RecorderIsUnique
<1>8. ReplayLedgerIsCleared'
  BY DEF ApproveValidate, Return, Continue, coreVars, ledgers, histVars,
         ReplayLedgerIsCleared, Cleared, Known, HighRisk
<1>9. Decided'
  BY DEF ApproveValidate, Return, Continue, coreVars, ledgers, histVars, Decided, Known
<1> QED
  BY <1>1, <1>2, <1>3, <1>4, <1>5, <1>6, <1>7, <1>8, <1>9 DEF Safe

LEMMA ApproveIssueSafe ==
  ASSUME IInv, NEW t \in Threads, ApproveIssue(t)
  PROVE  Safe'
<1> USE FfiBrokerAssumption DEF IInv, TypeOK
<1>1. HoldsNonce'
  BY DEF ApproveIssue, RecordInLedger, Stale, Return, coreVars, HoldsNonce, Evaluating,
         Approving, Consuming, Purging
<1>2. EvaluationIsPrivate'
  BY DEF ApproveIssue, RecordInLedger, Stale, Return, coreVars, EvaluationIsPrivate,
         Undecided, Known, HighRisk, Evaluating, HoldsNonce, Approving, Consuming,
         Purging, ApprovalIsExclusive
<1>3. PendingIsUndecided'
  BY DEF ApproveIssue, RecordInLedger, Stale, Return, coreVars, PendingIsUndecided,
         Undecided, Known, HighRisk, HoldsNonce, Evaluating, Approving, Consuming,
         Purging, ApprovalIsExclusive
<1>4. ApprovalIsExclusive'
  BY DEF ApproveIssue, RecordInLedger, Stale, Return, coreVars, ApprovalIsExclusive,
         Undecided, Known, HighRisk, Approving, HoldsNonce, Evaluating, Consuming,
         Purging
<1>5. IssuedIsCleared'
  BY DEF ApproveIssue, RecordInLedger, Stale, Return, coreVars, IssuedIsCleared,
         Cleared, Known, HighRisk, HoldsNonce, Evaluating, Approving, Consuming,
         Purging, ApprovalIsExclusive, Undecided
<1>6. ConsumptionIsCleared'
  BY DEF ApproveIssue, RecordInLedger, Stale, Return, coreVars, ConsumptionIsCleared,
         Cleared, Known, HighRisk, Consuming
<1>7. RecorderIsUnique'
  BY DEF ApproveIssue, RecordInLedger, Stale, Return, coreVars, RecorderIsUnique
<1>8. ReplayLedgerIsCleared'
  BY DEF ApproveIssue, RecordInLedger, Stale, Return, coreVars, ReplayLedgerIsCleared,
         Cleared, Known, HighRisk
<1>9. Decided'
  BY DEF ApproveIssue, RecordInLedger, Stale, Return, coreVars, Decided, Known,
         HoldsNonce, Evaluating, Approving, Consuming, Purging, ApprovalIsExclusive,
         Undecided, HighRisk
<1> QED
  BY <1>1, <1>2, <1>3, <1>4, <1>5, <1>6, <1>7, <1>8, <1>9 DEF Safe

LEMMA RejectNavigationSafe ==
  ASSUME IInv, NEW t \in Threads, NEW n \in Nonces, RejectNavigation(t, n)
  PROVE  Safe'
<1> USE FfiBrokerAssumption DEF IInv, TypeOK
<1>1. HoldsNonce'
  BY DEF RejectNavigation, Disclosed, coreVars, callVars, HoldsNonce, Evaluating,
         Approving, Consuming, Purging
<1>2. EvaluationIsPrivate'
  BY DEF RejectNavigation, Disclosed, coreVars, callVars, EvaluationIsPrivate,
         Undecided, Known, HighRisk, Evaluating
<1>3. PendingIsUndecided'
  BY DEF RejectNavigation, Disclosed, coreVars, callVars, PendingIsUndecided, Undecided,
         Known, HighRisk
<1>4. ApprovalIsExclusive'
  BY DEF RejectNavigation, Disclosed, coreVars, callVars, ApprovalIsExclusive,
         Undecided, Known, HighRisk, Approving
<1>5. IssuedIsCleared'
  BY DEF RejectNavigation, Disclosed, coreVars, callVars, IssuedIsCleared, Cleared,
         Known, HighRisk, PendingIsUndecided, Undecided
<1>6. ConsumptionIsCleared'
  BY DEF RejectNavigation, Disclosed, coreVars, callVars, ConsumptionIsCleared, Cleared,
         Known, HighRisk, Consuming, PendingIsUndecided, Undecided
<1>7. RecorderIsUnique'
  BY DEF RejectNavigation, Disclosed, coreVars, callVars, RecorderIsUnique
<1>8. ReplayLedgerIsCleared'
  BY DEF RejectNavigation, Disclosed, coreVars, callVars, ReplayLedgerIsCleared,
         Cleared, Known, HighRisk, PendingIsUndecided, Undecided
<1>9. Decided'
  BY DEF RejectNavigation, Disclosed, coreVars, callVars, Decided, Known,
         PendingIsUndecided, Undecided, HighRisk
<1> QED
  BY <1>1, <1>2, <1>3, <1>4, <1>5, <1>6, <1>7, <1>8, <1>9 DEF Safe

LEMMA ConsumeNavigationSafe ==
  ASSUME IInv, NEW t \in Threads, NEW n \in Nonces, ConsumeNavigation(t, n)
  PROVE  Safe'
<1> USE FfiBrokerAssumption DEF IInv, TypeOK
<1>1. HoldsNonce'
  BY DEF ConsumeNavigation, Begin, Disclosed, coreVars, ledgers, HoldsNonce, Evaluating,
         Approving, Consuming, Purging
<1>2. EvaluationIsPrivate'
  BY DEF ConsumeNavigation, Begin, Disclosed, coreVars, ledgers, EvaluationIsPrivate,
         Undecided, Known, HighRisk, Evaluating
<1>3. PendingIsUndecided'
  BY DEF ConsumeNavigation, Begin, Disclosed, coreVars, ledgers, PendingIsUndecided,
         Undecided, Known, HighRisk
<1>4. ApprovalIsExclusive'
  BY DEF ConsumeNavigation, Begin, Disclosed, coreVars, ledgers, ApprovalIsExclusive,
         Undecided, Known, HighRisk, Approving
<1>5. IssuedIsCleared'
  BY DEF ConsumeNavigation, Begin, Disclosed, coreVars, ledgers, IssuedIsCleared,
         Cleared, Known, HighRisk
<1>6. ConsumptionIsCleared'
  BY DEF ConsumeNavigation, Begin, Disclosed, coreVars, ledgers, ConsumptionIsCleared,
         Cleared, Known, HighRisk, Consuming
<1>7. RecorderIsUnique'
  BY DEF ConsumeNavigation, Begin, Disclosed, coreVars, ledgers, RecorderIsUnique
<1>8. ReplayLedgerIsCleared'
  BY DEF ConsumeNavigation, Begin, Disclosed, coreVars, ledgers, ReplayLedgerIsCleared,
         Cleared, Known, HighRisk
<1>9. Decided'
  BY DEF ConsumeNavigation, Begin, Disclosed, coreVars, ledgers, Decided, Known
<1> QED
  BY <1>1, <1>2, <1>3, <1>4, <1>5, <1>6, <1>7, <1>8, <1>9 DEF Safe

LEMMA ConsumeLookupSafe ==
  ASSUME IInv, NEW t \in Threads, ConsumeLookup(t)
  PROVE  Safe'
<1> USE FfiBrokerAssumption DEF IInv, TypeOK
<1>1. HoldsNonce'
  BY DEF ConsumeLookup, Return, Continue, coreVars, ledgers, histVars, HoldsNonce,
         Evaluating, Approving, Consuming, Purging
<1>2. EvaluationIsPrivate'
  BY DEF ConsumeLookup, Return, Continue, coreVars, ledgers, histVars,
         EvaluationIsPrivate, Undecided, Known, HighRisk, Evaluating, HoldsNonce,
         Approving, Consuming, Purging
<1>3. PendingIsUndecided'
  BY DEF ConsumeLookup, Return, Continue, coreVars, ledgers, histVars,
         PendingIsUndecided, Undecided, Known, HighRisk
<1>4. ApprovalIsExclusive'
  BY DEF ConsumeLookup, Return, Continue, coreVars, ledgers, histVars,
         ApprovalIsExclusive, Undecided, Known, HighRisk, Approving
<1>5. IssuedIsCleared'
  BY DEF ConsumeLookup, Return, Continue, coreVars, ledgers, histVars, IssuedIsCleared,
         Cleared, Known, HighRisk
<1>6. ConsumptionIsCleared'
  BY DEF ConsumeLookup, Return, Continue, coreVars, ledgers, histVars,
         ConsumptionIsCleared, Cleared, Known, HighRisk, Consuming, HoldsNonce,
         Evaluating, Approving, Purging, IssuedIsCleared
<1>7. RecorderIsUnique'
  BY DEF ConsumeLookup, Return, Continue, coreVars, ledgers, histVars, RecorderIsUnique
<1>8. ReplayLedgerIsCleared'
  BY DEF ConsumeLookup, Return, Continue, coreVars, ledgers, histVars,
         ReplayLedgerIsCleared, Cleared, Known, HighRisk
<1>9. Decided'
  BY DEF ConsumeLookup, Return, Continue, coreVars, ledgers, histVars, Decided, Known
<1> QED
  BY <1>1, <1>2, <1>3, <1>4, <1>5, <1>6, <1>7, <1>8, <1>9 DEF Safe

LEMMA ConsumeValidateSafe ==
  ASSUME IInv, NEW t \in Threads, ConsumeValidate(t)
  PROVE  Safe'
<1> USE FfiBrokerAssumption DEF IInv, TypeOK
<1>1. HoldsNonce'
  BY DEF ConsumeValidate, ConsumeNonce, MayConsume, Return, Continue, coreVars, ledgers,
         histVars, HoldsNonce, Evaluating, Approving, Consuming, Purging
<1>2. EvaluationIsPrivate'
  BY DEF ConsumeValidate, ConsumeNonce, MayConsume, Return, Continue, coreVars, ledgers,
         histVars, EvaluationIsPrivate, Undecided, Known, HighRisk, Evaluating,
         HoldsNonce, Approving, Consuming, Purging
<1>3. PendingIsUndecided'
  BY DEF ConsumeValidate, ConsumeNonce, MayConsume, Return, Continue, coreVars, ledgers,
         histVars, PendingIsUndecided, Undecided, Known, HighRisk, HoldsNonce,
         Evaluating, Approving, Consuming, Purging, ConsumptionIsCleared, Cleared
<1>4. ApprovalIsExclusive'
  BY DEF ConsumeValidate, ConsumeNonce, MayConsume, Return, Continue, coreVars, ledgers,
         histVars, ApprovalIsExclusive, Undecided, Known, HighRisk, Approving,
         HoldsNonce, Evaluating, Consuming, Purging, ConsumptionIsCleared, Cleared
<1>5. IssuedIsCleared'
  BY DEF ConsumeValidate, ConsumeNonce, MayConsume, Return, Continue, coreVars, ledgers,
         histVars, IssuedIsCleared, Cleared, Known, HighRisk
<1>6. ConsumptionIsCleared'
  BY DEF ConsumeValidate, ConsumeNonce, MayConsume, Return, Continue, coreVars, ledgers,
         histVars, ConsumptionIsCleared, Cleared, Known, HighRisk, Consuming
<1>7. RecorderIsUnique'
  BY DEF ConsumeValidate, ConsumeNonce, MayConsume, Return, Continue, coreVars, ledgers,
         histVars, RecorderIsUnique, HoldsNonce, Evaluating, Approving, Consuming,
         Purging, ReplayLedgerIsCleared, Cleared, Known, HighRisk
<1>8. ReplayLedgerIsCleared'
  BY DEF ConsumeValidate, ConsumeNonce, MayConsume, Return, Continue, coreVars, ledgers,
         histVars, ReplayLedgerIsCleared, Cleared, Known, HighRisk, HoldsNonce,
         Evaluating, Approving, Consuming, Purging, ConsumptionIsCleared
<1>9. Decided'
  BY DEF ConsumeValidate, ConsumeNonce, MayConsume, Return, Continue, coreVars, ledgers,
         histVars, Decided, Known
<1> QED
  BY <1>1, <1>2, <1>3, <1>4, <1>5, <1>6, <1>7, <1>8, <1>9 DEF Safe

LEMMA ConsumeRecordSafe ==
  ASSUME IInv, NEW t \in Threads, ConsumeRecord(t)
  PROVE  Safe'
<1> USE FfiBrokerAssumption DEF IInv, TypeOK
<1>1. HoldsNonce'
  BY DEF ConsumeRecord, RecordInLedger, Stale, Return, coreVars, HoldsNonce, Evaluating,
         Approving, Consuming, Purging
<1>2. EvaluationIsPrivate'
  BY DEF ConsumeRecord, RecordInLedger, Stale, Return, coreVars, EvaluationIsPrivate,
         Undecided, Known, HighRisk, Evaluating, HoldsNonce, Approving, Consuming,
         Purging
<1>3. PendingIsUndecided'
  BY DEF ConsumeRecord, RecordInLedger, Stale, Return, coreVars, PendingIsUndecided,
         Undecided, Known, HighRisk, HoldsNonce, Evaluating, Approving, Consuming,
         Purging, RecorderIsUnique
<1>4. ApprovalIsExclusive'
  BY DEF ConsumeRecord, RecordInLedger, Stale, Return, coreVars, ApprovalIsExclusive,
         Undecided, Known, HighRisk, Approving, HoldsNonce, Evaluating, Consuming,
         Purging, RecorderIsUnique
<1>5. IssuedIsCleared'
  BY DEF ConsumeRecord, RecordInLedger, Stale, Return, coreVars, IssuedIsCleared,
         Cleared, Known, HighRisk, HoldsNonce, Evaluating, Approving, Consuming,
         Purging, ConsumptionIsCleared, RecorderIsUnique
<1>6. ConsumptionIsCleared'
  BY DEF ConsumeRecord, RecordInLedger, Stale, Return, coreVars, ConsumptionIsCleared,
         Cleared, Known, HighRisk, Consuming
<1>7. RecorderIsUnique'
  BY DEF ConsumeRecord, RecordInLedger, Stale, Return, coreVars, RecorderIsUnique
<1>8. ReplayLedgerIsCleared'
  BY DEF ConsumeRecord, RecordInLedger, Stale, Return, coreVars, ReplayLedgerIsCleared,
         Cleared, Known, HighRisk, HoldsNonce, Evaluating, Approving, Consuming,
         Purging, RecorderIsUnique
<1>9. Decided'
  BY DEF ConsumeRecord, RecordInLedger, Stale, Return, coreVars, Decided, Known
<1> QED
  BY <1>1, <1>2, <1>3, <1>4, <1>5, <1>6, <1>7, <1>8, <1>9 DEF Safe

LEMMA FfiAdvanceSafe ==
  ASSUME IInv, NEW t \in Threads, NEW s \in Sessions, NEW tab \in Tabs, NEW g \in Generations,
         FfiAdvanceDocumentGeneration(t, s, tab, g)
  PROVE  Safe'
<1> USE FfiBrokerAssumption DEF IInv, TypeOK
<1>1. HoldsNonce'
  BY DEF FfiAdvanceDocumentGeneration, AdvanceGeneration, BeginPurge, ledgers,
         HoldsNonce, Evaluating, Approving, Consuming, Purging
<1>2. EvaluationIsPrivate'
  BY DEF FfiAdvanceDocumentGeneration, AdvanceGeneration, BeginPurge, ledgers,
         EvaluationIsPrivate, Undecided, Known, HighRisk, Evaluating
<1>3. PendingIsUndecided'
  BY DEF FfiAdvanceDocumentGeneration, AdvanceGeneration, BeginPurge, ledgers,
         PendingIsUndecided, Undecided, Known, HighRisk
<1>4. ApprovalIsExclusive'
  BY DEF FfiAdvanceDocumentGeneration, AdvanceGeneration, BeginPurge, ledgers,
         ApprovalIsExclusive, Undecided, Known, HighRisk, Approving
<1>5. IssuedIsCleared'
  BY DEF FfiAdvanceDocumentGeneration, AdvanceGeneration, BeginPurge, ledgers,
         IssuedIsCleared, Cleared, Known, HighRisk
<1>6. ConsumptionIsCleared'
  BY DEF FfiAdvanceDocumentGeneration, AdvanceGeneration, BeginPurge, ledgers,
         ConsumptionIsCleared, Cleared, Known, HighRisk, Consuming
<1>7. RecorderIsUnique'
  BY DEF FfiAdvanceDocumentGeneration, AdvanceGeneration, BeginPurge, ledgers,
         RecorderIsUnique
<1>8. ReplayLedgerIsCleared'
  BY DEF FfiAdvanceDocumentGeneration, AdvanceGeneration, BeginPurge, ledgers,
         ReplayLedgerIsCleared, Cleared, Known, HighRisk
<1>9. Decided'
  BY DEF FfiAdvanceDocumentGeneration, AdvanceGeneration, BeginPurge, ledgers, Decided,
         Known
<1> QED
  BY <1>1, <1>2, <1>3, <1>4, <1>5, <1>6, <1>7, <1>8, <1>9 DEF Safe

LEMMA FfiDestroySafe ==
  ASSUME IInv, NEW t \in Threads, NEW s \in Sessions, FfiDestroySession(t, s)
  PROVE  Safe'
<1> USE FfiBrokerAssumption DEF IInv, TypeOK
<1>1. HoldsNonce'
  BY DEF FfiDestroySession, RemoveSession, BeginPurge, ledgers, HoldsNonce, Evaluating,
         Approving, Consuming, Purging
<1>2. EvaluationIsPrivate'
  BY DEF FfiDestroySession, RemoveSession, BeginPurge, ledgers, EvaluationIsPrivate,
         Undecided, Known, HighRisk, Evaluating
<1>3. PendingIsUndecided'
  BY DEF FfiDestroySession, RemoveSession, BeginPurge, ledgers, PendingIsUndecided,
         Undecided, Known, HighRisk
<1>4. ApprovalIsExclusive'
  BY DEF FfiDestroySession, RemoveSession, BeginPurge, ledgers, ApprovalIsExclusive,
         Undecided, Known, HighRisk, Approving
<1>5. IssuedIsCleared'
  BY DEF FfiDestroySession, RemoveSession, BeginPurge, ledgers, IssuedIsCleared,
         Cleared, Known, HighRisk
<1>6. ConsumptionIsCleared'
  BY DEF FfiDestroySession, RemoveSession, BeginPurge, ledgers, ConsumptionIsCleared,
         Cleared, Known, HighRisk, Consuming
<1>7. RecorderIsUnique'
  BY DEF FfiDestroySession, RemoveSession, BeginPurge, ledgers, RecorderIsUnique
<1>8. ReplayLedgerIsCleared'
  BY DEF FfiDestroySession, RemoveSession, BeginPurge, ledgers, ReplayLedgerIsCleared,
         Cleared, Known, HighRisk
<1>9. Decided'
  BY DEF FfiDestroySession, RemoveSession, BeginPurge, ledgers, Decided, Known
<1> QED
  BY <1>1, <1>2, <1>3, <1>4, <1>5, <1>6, <1>7, <1>8, <1>9 DEF Safe

LEMMA PurgeIssuedSafe ==
  ASSUME IInv, NEW t \in Threads, PurgeIssued(t)
  PROVE  Safe'
<1> USE FfiBrokerAssumption DEF IInv, TypeOK
<1>1. HoldsNonce'
  BY DEF PurgeIssued, OfSession, Continue, coreVars, histVars, HoldsNonce, Evaluating,
         Approving, Consuming, Purging
<1>2. EvaluationIsPrivate'
  BY DEF PurgeIssued, OfSession, Continue, coreVars, histVars, EvaluationIsPrivate,
         Undecided, Known, HighRisk, Evaluating, HoldsNonce, Approving, Consuming,
         Purging
<1>3. PendingIsUndecided'
  BY DEF PurgeIssued, OfSession, Continue, coreVars, histVars, PendingIsUndecided,
         Undecided, Known, HighRisk
<1>4. ApprovalIsExclusive'
  BY DEF PurgeIssued, OfSession, Continue, coreVars, histVars, ApprovalIsExclusive,
         Undecided, Known, HighRisk, Approving, HoldsNonce, Evaluating, Consuming,
         Purging
<1>5. IssuedIsCleared'
  BY DEF PurgeIssued, OfSession, Continue, coreVars, histVars, IssuedIsCleared, Cleared,
         Known, HighRisk
<1>6. ConsumptionIsCleared'
  BY DEF PurgeIssued, OfSession, Continue, coreVars, histVars, ConsumptionIsCleared,
         Cleared, Known, HighRisk, Consuming
<1>7. RecorderIsUnique'
  BY DEF PurgeIssued, OfSession, Continue, coreVars, histVars, RecorderIsUnique
<1>8. ReplayLedgerIsCleared'
  BY DEF PurgeIssued, OfSession, Continue, coreVars, histVars, ReplayLedgerIsCleared,
         Cleared, Known, HighRisk
<1>9. Decided'
  BY DEF PurgeIssued, OfSession, Continue, coreVars, histVars, Decided, Known
<1> QED
  BY <1>1, <1>2, <1>3, <1>4, <1>5, <1>6, <1>7, <1>8, <1>9 DEF Safe

LEMMA PurgePendingSafe ==
  ASSUME IInv, NEW t \in Threads, PurgePending(t)
  PROVE  Safe'
<1> USE FfiBrokerAssumption DEF IInv, TypeOK
<1>1. HoldsNonce'
  BY DEF PurgePending, OfSession, Return, coreVars, HoldsNonce, Evaluating, Approving,
         Consuming, Purging
<1>2. EvaluationIsPrivate'
  BY DEF PurgePending, OfSession, Return, coreVars, EvaluationIsPrivate, Undecided,
         Known, HighRisk, Evaluating, HoldsNonce, Approving, Consuming, Purging
<1>3. PendingIsUndecided'
  BY DEF PurgePending, OfSession, Return, coreVars, PendingIsUndecided, Undecided,
         Known, HighRisk
<1>4. ApprovalIsExclusive'
  BY DEF PurgePending, OfSession, Return, coreVars, ApprovalIsExclusive, Undecided,
         Known, HighRisk, Approving
<1>5. IssuedIsCleared'
  BY DEF PurgePending, OfSession, Return, coreVars, IssuedIsCleared, Cleared, Known,
         HighRisk
<1>6. ConsumptionIsCleared'
  BY DEF PurgePending, OfSession, Return, coreVars, ConsumptionIsCleared, Cleared,
         Known, HighRisk, Consuming
<1>7. RecorderIsUnique'
  BY DEF PurgePending, OfSession, Return, coreVars, RecorderIsUnique
<1>8. ReplayLedgerIsCleared'
  BY DEF PurgePending, OfSession, Return, coreVars, ReplayLedgerIsCleared, Cleared,
         Known, HighRisk
<1>9. Decided'
  BY DEF PurgePending, OfSession, Return, coreVars, Decided, Known
<1> QED
  BY <1>1, <1>2, <1>3, <1>4, <1>5, <1>6, <1>7, <1>8, <1>9 DEF Safe

LEMMA FrameSafe ==
  ASSUME IInv,
         UNCHANGED <<consumed_nonces, ledgers, callVars, granted, approved, rejected>>
  PROVE  Safe'
BY DEF IInv, Safe, ledgers, callVars, HoldsNonce, EvaluationIsPrivate,
       PendingIsUndecided,
       ApprovalIsExclusive, IssuedIsCleared, ConsumptionIsCleared, RecorderIsUnique,
       ReplayLedgerIsCleared, Decided, Undecided, Cleared, Known, HighRisk

-----------------------------------------------------------------------------

LEMMA IInvPreserved == IInv /\ [Next]_vars => IInv'
<1> SUFFICES ASSUME IInv, [Next]_vars
             PROVE  IInv'
  OBVIOUS
<1>1. TypeOK'
  BY TypePreserved DEF IInv
<1>2. CASE UNCHANGED vars
  <2>1. Safe'
    BY <1>2, FrameSafe DEF vars, coreVars, histVars
  <2> QED
    BY <1>1, <2>1 DEF IInv, Safe
<1>3. ASSUME NEW t \in Threads, Call(t)
      PROVE  Safe'
  <2>1. ASSUME NEW s \in Sessions, NEW tab \in Tabs, NEW g \in Generations,
               NEW ttl \in TtlRequests, FfiCreateSession(t, s, tab, g, ttl)
        PROVE  Safe'
    BY <2>1, FrameSafe DEF FfiCreateSession, CreateSession, histVars
  <2> QED
    BY <1>3, <2>1, EvaluateNavigationSafe, ApproveNavigationSafe, RejectNavigationSafe,
       ConsumeNavigationSafe, FfiAdvanceSafe, FfiDestroySafe DEF Call
<1>4. ASSUME NEW t \in Threads, Section(t)
      PROVE  Safe'
  BY <1>4, EvaluateValidateSafe, RegisterPendingApprovalSafe, EvaluateIssueSafe,
     ApproveValidateSafe, ApproveIssueSafe, ConsumeLookupSafe, ConsumeValidateSafe,
     ConsumeRecordSafe, PurgeIssuedSafe, PurgePendingSafe DEF Section
<1>5. ASSUME NEW hosts \in Denylists, UpdateHostDenylist(hosts)
      PROVE  Safe'
  BY <1>5, FrameSafe DEF UpdateHostDenylist, coreVars, histVars
<1>6. CASE ClockTick
  <2>1. Safe'
    BY <1>6, FrameSafe DEF ClockTick, Tick, histVars
  <2> QED
    BY <1>1, <2>1 DEF IInv, Safe
<1> QED
  BY <1>1, <1>2, <1>3, <1>4, <1>5, <1>6 DEF Next, IInv, Safe

\* The inductive invariant of FfiBrokerInv holds in every reachable state: what each lock
\* section relies on when it reads what another section wrote (FfiBroker's ledgers).
THEOREM IInvHolds == Spec => []IInv
BY InitIInv, IInvPreserved, PTL DEF Spec

\* Every value every variable takes is of its type: no capacity, race or expiry
\* leads the broker outside the states described in FfiBroker.
THEOREM TypeCorrect == Spec => []TypeOK
<1>1. IInv => TypeOK
  BY DEF IInv
<1> QED
  BY <1>1, IInvHolds, PTL

\* For any number of threads an authorization is granted at most once: the
\* thread that records a grant is the one that burned the nonce under "inner".
THEOREM OneShotAuthorization == Spec => []OneShot
<1>1. IInv => OneShot
  BY DEF IInv, ReplayLedgerIsCleared, OneShot
<1> QED
  BY <1>1, IInvHolds, PTL

\* A high-risk navigation is granted only after the user's approval, and what
\* the user rejected is never granted, for any interleaving of the two answers.
THEOREM ConfirmationBinds == Spec => []ConfirmationIsBinding
<1>1. IInv => ConfirmationIsBinding
  BY DEF IInv, TypeOK, ReplayLedgerIsCleared, Decided, Cleared, Known,
         ConfirmationIsBinding
<1> QED
  BY <1>1, IInvHolds, PTL

\* An authorization is in one place: the pending ledger, the issued ledger or
\* the hands of one approval; and every consumption record is backed by the
\* replay ledger.
THEOREM OnePlace == Spec => []OnePlaceAtATime
<1>1. IInv => OnePlaceAtATime
  <2> SUFFICES ASSUME IInv, NEW n \in Nonces
               PROVE  /\ ~(n \in pending_navigation_approvals /\ issued_actions[n] # "absent")
                      /\ \A t \in Threads : held[t] = n /\ pc[t] \in Approving =>
                           /\ n \notin pending_navigation_approvals
                           /\ issued_actions[n] = "absent"
                           /\ \A u \in Threads \ {t} : held[u] = n => pc[u] \notin Approving
                      /\ issued_actions[n] = "consumed" => n \in consumed_nonces
    BY DEF OnePlaceAtATime
  <2> QED
    BY DEF IInv, PendingIsUndecided, ApprovalIsExclusive, IssuedIsCleared, Undecided
<1> QED
  BY <1>1, IInvHolds, PTL

-----------------------------------------------------------------------------
(* The four ledgers of FfiBroker stay within their capacities, for any     *)
(* capacities and any, even infinite, sets of nonces and sessions: room is *)
(* tested and taken in one lock section.                                   *)

Fits(S, capacity) == IsFiniteSet(S) /\ Cardinality(S) <= capacity

IssuedFits   == Fits(Entries, MaxIssuedActions)
PendingFits  == Fits(pending_navigation_approvals, MaxPendingApprovals)
ConsumedFits == Fits(consumed_nonces, MaxConsumedNonces)
PoolFits     == Fits(Pool, MaxSessions)

LedgersFit == IssuedFits /\ PendingFits /\ ConsumedFits /\ PoolFits

-----------------------------------------------------------------------------
(* Lemmas about sets that fit.                                             *)

LEMMA EmptyFits ==
  ASSUME NEW capacity \in Nat
  PROVE  Fits({}, capacity)
BY FS_EmptySet DEF Fits

LEMMA SubsetFits ==
  ASSUME NEW S, NEW T, NEW capacity \in Nat, Fits(S, capacity), T \subseteq S
  PROVE  Fits(T, capacity)
<1>1. /\ IsFiniteSet(T) /\ Cardinality(T) <= Cardinality(S)
      /\ Cardinality(T) \in Nat /\ Cardinality(S) \in Nat
  BY FS_Subset, FS_CardinalityType DEF Fits
<1> QED
  BY <1>1 DEF Fits

LEMMA OneMoreFits ==
  ASSUME NEW S, NEW T, NEW x, NEW capacity \in Nat, IsFiniteSet(S),
         Cardinality(S) < capacity, T \subseteq S \cup {x}
  PROVE  Fits(T, capacity)
<1>1. /\ IsFiniteSet(S \cup {x}) /\ Cardinality(S) \in Nat
      /\ Cardinality(S \cup {x}) \in {Cardinality(S), Cardinality(S) + 1}
  BY FS_AddElement, FS_CardinalityType
<1>2. Fits(S \cup {x}, capacity)
  BY <1>1 DEF Fits
<1> QED
  BY <1>2, SubsetFits

-----------------------------------------------------------------------------
(* What the steps do to the ledgers.                                       *)

LEMMA RecordFits ==
  ASSUME IssuedFits, NEW n, NEW state, RecordInLedger(n, state)
  PROVE  IssuedFits'
<1>1. CASE LedgerCanAdmit
  <2>1. IsFiniteSet(Entries \ Stale) /\ Cardinality(Entries \ Stale) < MaxIssuedActions
    BY <1>1, FS_Subset DEF LedgerCanAdmit, IssuedFits, Fits
  <2>2. Entries' \subseteq (Entries \ Stale) \cup {n}
    BY DEF Entries, RecordInLedger
  <2> QED
    BY <2>1, <2>2, OneMoreFits, FfiBrokerAssumption DEF IssuedFits
<1>2. CASE ~LedgerCanAdmit
  <2>1. Entries' \subseteq Entries
    BY <1>2 DEF Entries, RecordInLedger
  <2> QED
    BY <2>1, SubsetFits, FfiBrokerAssumption DEF IssuedFits
<1> QED
  BY <1>1, <1>2

LEMMA RegisterFits ==
  ASSUME PendingFits, NEW t \in Threads, RegisterPendingApproval(t)
  PROVE  PendingFits'
<1>1. KeptApprovals \subseteq pending_navigation_approvals
  BY DEF KeptApprovals
<1>2. CASE /\ Cardinality(KeptApprovals) < MaxPendingApprovals
           /\ pending_navigation_approvals' = KeptApprovals \cup {held[t]}
  <2>1. IsFiniteSet(KeptApprovals)
    BY <1>1, FS_Subset DEF PendingFits, Fits
  <2> QED
    BY <1>2, <2>1, OneMoreFits, FfiBrokerAssumption DEF PendingFits
<1>3. CASE pending_navigation_approvals' = KeptApprovals
  BY <1>1, <1>3, SubsetFits, FfiBrokerAssumption DEF PendingFits
<1> QED
  BY <1>2, <1>3 DEF RegisterPendingApproval

LEMMA ConsumeFits ==
  ASSUME ConsumedFits, NEW n, ConsumeNonce(n)
  PROVE  ConsumedFits'
BY OneMoreFits, ContextBrokerAssumption DEF ConsumedFits, ConsumeNonce, MayConsume, Fits

LEMMA CreateFits ==
  ASSUME PoolFits, NEW s \in Sessions, NEW tab \in Tabs, NEW g \in Generations, NEW ttl,
         CreateSession(s, tab, g, ttl)
  PROVE  PoolFits'
<1>1. CASE s \notin Pool /\ Cardinality(Pool \ Evicted(s)) < MaxSessions
  <2>1. IsFiniteSet(Pool \ Evicted(s))
    BY FS_Subset DEF PoolFits, Fits
  <2>2. Pool' \subseteq (Pool \ Evicted(s)) \cup {s}
    BY DEF Pool, CreateSession
  <2> QED
    BY <1>1, <2>1, <2>2, OneMoreFits, ContextBrokerAssumption DEF PoolFits
<1>2. CASE s \in Pool \/ ~(Cardinality(Pool \ Evicted(s)) < MaxSessions)
  <2>1. Pool' \subseteq Pool
    BY <1>2 DEF Pool, CreateSession
  <2> QED
    BY <2>1, SubsetFits, ContextBrokerAssumption DEF PoolFits
<1> QED
  BY <1>1, <1>2

\* A step that adds to no ledger.
LEMMA OtherFits ==
  /\ IssuedFits /\ Entries' \subseteq Entries => IssuedFits'
  /\ PendingFits /\ pending_navigation_approvals' \subseteq pending_navigation_approvals
       => PendingFits'
  /\ ConsumedFits /\ consumed_nonces' \subseteq consumed_nonces => ConsumedFits'
  /\ PoolFits /\ Pool' \subseteq Pool => PoolFits'
BY SubsetFits, FfiBrokerAssumption, ContextBrokerAssumption
   DEF IssuedFits, PendingFits, ConsumedFits, PoolFits

-----------------------------------------------------------------------------
(* The invariant.                                                          *)

LEMMA InitFits == Init => LedgersFit
<1> SUFFICES ASSUME Init PROVE LedgersFit
  OBVIOUS
<1>1. Entries = {} /\ pending_navigation_approvals = {} /\ consumed_nonces = {} /\ Pool = {}
  BY DEF Init, CoreInit, Entries, Pool
<1> QED
  BY <1>1, EmptyFits, FfiBrokerAssumption, ContextBrokerAssumption
     DEF LedgersFit, IssuedFits, PendingFits, ConsumedFits, PoolFits

LEMMA FitsStep == TypeOK /\ LedgersFit /\ [Next]_vars => LedgersFit'
<1> SUFFICES ASSUME TypeOK, LedgersFit, [Next]_vars PROVE LedgersFit'
  OBVIOUS
<1> USE OtherFits DEF LedgersFit, ledgers, coreVars
<1>1. CASE UNCHANGED vars
  BY <1>1 DEF vars, Entries, Pool
<1>2. ASSUME NEW t \in Threads, Call(t) PROVE LedgersFit'
  <2>1. ASSUME NEW s \in Sessions, NEW tab \in Tabs, NEW g \in Generations,
               NEW ttl \in TtlRequests, FfiCreateSession(t, s, tab, g, ttl)
        PROVE  LedgersFit'
    <3>1. PoolFits'
      BY <2>1, CreateFits DEF FfiCreateSession
    <3> QED
      BY <2>1, <3>1 DEF FfiCreateSession, CreateSession, Entries
  <2>2. ASSUME NEW s \in Sessions, NEW tab \in Tabs, NEW g \in Generations,
               FfiAdvanceDocumentGeneration(t, s, tab, g)
        PROVE  LedgersFit'
    <3>1. Pool' \subseteq Pool
      BY <2>2 DEF FfiAdvanceDocumentGeneration, AdvanceGeneration, MayAdvance, Pool,
                  TypeOK, CoreTypeOK
    <3> QED
      BY <2>2, <3>1 DEF FfiAdvanceDocumentGeneration, AdvanceGeneration, Entries
  <2>3. ASSUME NEW s \in Sessions, FfiDestroySession(t, s) PROVE LedgersFit'
    <3>1. Pool' \subseteq Pool
      BY <2>3 DEF FfiDestroySession, RemoveSession, Pool, TypeOK, CoreTypeOK
    <3> QED
      BY <2>3, <3>1 DEF FfiDestroySession, RemoveSession, Entries
  <2>4. ASSUME NEW n \in Nonces,
               \/ \E s \in Sessions, tab \in Tabs, g \in Generations, host \in Hosts :
                    EvaluateNavigation(t, n, s, tab, g, host)
               \/ ApproveNavigation(t, n) \/ RejectNavigation(t, n) \/ ConsumeNavigation(t, n)
        PROVE  LedgersFit'
    BY <2>4 DEF EvaluateNavigation, ApproveNavigation, RejectNavigation,
                ConsumeNavigation, Entries, Pool
  <2> QED
    BY <1>2, <2>1, <2>2, <2>3, <2>4 DEF Call
<1>3. ASSUME NEW t \in Threads, Section(t) PROVE LedgersFit'
  <2>1. CASE EvaluateValidate(t) \/ ApproveValidate(t) \/ ConsumeLookup(t)
    BY <2>1 DEF EvaluateValidate, ApproveValidate, ConsumeLookup, Entries, Pool
  <2>2. CASE RegisterPendingApproval(t)
    <3>1. PendingFits'
      BY <2>2, RegisterFits
    <3> QED
      BY <2>2, <3>1 DEF RegisterPendingApproval, Entries, Pool
  <2>3. CASE EvaluateIssue(t) \/ ApproveIssue(t) \/ ConsumeRecord(t)
    <3>1. IssuedFits'
      BY <2>3, RecordFits DEF EvaluateIssue, ApproveIssue, ConsumeRecord
    <3> QED
      BY <2>3, <3>1 DEF EvaluateIssue, ApproveIssue, ConsumeRecord, Pool
  <2>4. CASE ConsumeValidate(t)
    <3>1. CASE ConsumeNonce(held[t])
      <4>1. ConsumedFits'
        BY <3>1, ConsumeFits
      <4> QED
        BY <2>4, <3>1, <4>1 DEF ConsumeValidate, ConsumeNonce, Entries, Pool
    <3>2. CASE UNCHANGED coreVars
      BY <2>4, <3>2 DEF ConsumeValidate, Entries, Pool
    <3> QED
      BY <2>4, <3>1, <3>2 DEF ConsumeValidate
  <2>5. CASE PurgeIssued(t) \/ PurgePending(t)
    BY <2>5 DEF PurgeIssued, PurgePending, Entries, Pool
  <2> QED
    BY <1>3, <2>1, <2>2, <2>3, <2>4, <2>5 DEF Section
<1>4. ASSUME NEW hosts \in Denylists, UpdateHostDenylist(hosts) PROVE LedgersFit'
  BY <1>4 DEF UpdateHostDenylist, Entries, Pool
<1>5. CASE ClockTick
  BY <1>5 DEF ClockTick, Tick, Entries, Pool
<1> QED
  BY <1>1, <1>2, <1>3, <1>4, <1>5 DEF Next

LEMMA FitsHolds == Spec => []LedgersFit
BY InitFits, FitsStep, TypeCorrect, PTL DEF Spec

\* No ledger ever exceeds its capacity, however many threads test for room in
\* it: the test and the insertion are one lock section (ledger_can_admit).
THEOREM LedgersStayBounded == Spec => []LedgersAreBounded
<1>1. LedgersFit => LedgersAreBounded
  BY DEF LedgersFit, IssuedFits, PendingFits, ConsumedFits, PoolFits, Fits,
         LedgersAreBounded
<1> QED
  BY <1>1, FitsHolds, PTL

-----------------------------------------------------------------------------
(* What destroy_session and advance_document_generation promise once they  *)
(* have returned, and what making room may cost.  IInv alone does not      *)
(* know which authorizations a purge in progress answers for.              *)

Idle(n) == \A t \in Threads : held[t] # n

\* The authorizations a purge in progress answers for: nobody works on them,
\* and behind the first section they are out of the issued ledger.
VictimsAreIdle ==
  \A t \in Threads : \A n \in victims[t] :
    /\ pc[t] \in Purging
    /\ Known(n) /\ action[n].session = purging[t]
    /\ Idle(n)
    /\ pc[t] = "purge_pending" => issued_actions[n] = "absent"

\* A revoked authorization is in no ledger, and the only section a thread can
\* be in with it is the lookup that will not find it.
RevokedAreGone ==
  \A n \in revoked :
    /\ Known(n)
    /\ issued_actions[n] = "absent"
    /\ n \notin pending_navigation_approvals
    /\ \A t \in Threads : held[t] = n => pc[t] = "consume_lookup"

RInv == VictimsAreIdle /\ RevokedAreGone

LEMMA InitRInv == Init => RInv
BY DEF Init, RInv, VictimsAreIdle, RevokedAreGone

-----------------------------------------------------------------------------
(* One lemma per kind of step.                                             *)

LEMMA EvaluateNavigationRevoked ==
  ASSUME IInv, RInv, NEW t \in Threads, NEW n \in Nonces, NEW s \in Sessions, NEW tab \in Tabs,
         NEW g \in Generations, NEW host \in Hosts, EvaluateNavigation(t, n, s, tab, g, host)
  PROVE  RInv'
<1> USE FfiBrokerAssumption DEF IInv, TypeOK, EvaluateNavigation, Begin, RInv
<1>1. VictimsAreIdle'
  BY DEF VictimsAreIdle, Idle, Known, Purging
<1>2. RevokedAreGone'
  BY DEF RevokedAreGone, Known
<1> QED
  BY <1>1, <1>2

LEMMA BeginRevoked ==
  ASSUME IInv, RInv, NEW t \in Threads, NEW n \in Nonces,
         ApproveNavigation(t, n) \/ ConsumeNavigation(t, n)
  PROVE  RInv'
<1> USE FfiBrokerAssumption DEF IInv, TypeOK, ApproveNavigation, ConsumeNavigation, Begin, RInv,
        callVars, histVars, ledgers
<1>1. VictimsAreIdle'
  BY DEF VictimsAreIdle, Idle, Known, Purging
<1>2. RevokedAreGone'
  BY DEF RevokedAreGone, Known
<1> QED
  BY <1>1, <1>2

LEMMA RejectRevoked ==
  ASSUME IInv, RInv, NEW t \in Threads, NEW n \in Nonces, RejectNavigation(t, n)
  PROVE  RInv'
BY DEF RejectNavigation, RInv, VictimsAreIdle, RevokedAreGone, callVars, Idle, Known

\* The sections that end or continue an evaluation: their nonce is private.
LEMMA EvaluationRevoked ==
  ASSUME IInv, RInv, NEW t \in Threads,
         EvaluateValidate(t) \/ RegisterPendingApproval(t) \/ EvaluateIssue(t)
  PROVE  RInv'
<1> USE FfiBrokerAssumption DEF IInv, TypeOK, RInv
<1> PICK n \in Nonces : n = held[t]
  BY DEF HoldsNonce, Evaluating, EvaluateValidate, RegisterPendingApproval, EvaluateIssue
<1>1. /\ pc[t] \in Evaluating /\ n \notin revoked /\ \A u \in Threads : n \notin victims[u]
  BY DEF EvaluateValidate, RegisterPendingApproval, EvaluateIssue, Evaluating, VictimsAreIdle,
         RevokedAreGone, Idle
<1>2. /\ UNCHANGED <<victims, revoked>>
      /\ \A m \in Nonces \ {n} :
           /\ Known(m)' = Known(m) /\ (action[m].session = action'[m].session)
           /\ issued_actions'[m] \in {issued_actions[m], "absent"}
           /\ m \in pending_navigation_approvals' => m \in pending_navigation_approvals
  BY DEF EvaluateValidate, RegisterPendingApproval, EvaluateIssue, RecordInLedger, Forget,
         histVars, Known, KeptApprovals
<1>3. /\ purging[t] = NoSession \/ purging'[t] = purging[t] \/ pc[t] \notin Purging
      /\ pc'[t] \notin Purging /\ held'[t] \in {n, NoNonce}
      /\ \A u \in Threads \ {t} : pc'[u] = pc[u] /\ held'[u] = held[u] /\ purging'[u] = purging[u]
  BY DEF EvaluateValidate, RegisterPendingApproval, EvaluateIssue, Continue, Return, Purging
<1>4. VictimsAreIdle'
  BY <1>1, <1>2, <1>3 DEF VictimsAreIdle, Idle, Purging, Evaluating
<1>5. RevokedAreGone'
  BY <1>1, <1>2, <1>3 DEF RevokedAreGone, Evaluating
<1> QED
  BY <1>4, <1>5

\* The sections of an approval or a consumption. Only the lookup can hold a
\* revoked authorization, and it does not find it.
LEMMA CallRevoked ==
  ASSUME IInv, RInv, NEW t \in Threads,
         \/ ApproveValidate(t) \/ ApproveIssue(t)
         \/ ConsumeLookup(t) \/ ConsumeValidate(t) \/ ConsumeRecord(t)
  PROVE  RInv'
<1> USE FfiBrokerAssumption
        DEF IInv, TypeOK, RInv, ApproveValidate, ApproveIssue, ConsumeLookup, ConsumeValidate,
            ConsumeRecord
<1> PICK n \in Nonces : n = held[t]
  BY DEF HoldsNonce, Approving, Consuming
<1>1. /\ UNCHANGED <<action, victims, revoked, pending_navigation_approvals>>
      /\ \A m \in Nonces \ {n} : issued_actions'[m] \in {issued_actions[m], "absent"}
      /\ pc[t] = "consume_lookup" => issued_actions' = issued_actions
  BY DEF RecordInLedger, histVars, ledgers
<1>2. /\ pc[t] \notin Purging /\ pc'[t] \notin Purging /\ held'[t] \in {n, NoNonce}
      /\ \A u \in Threads \ {t} : pc'[u] = pc[u] /\ held'[u] = held[u] /\ purging'[u] = purging[u]
  BY DEF Continue, Return, Purging
<1>3. n \in revoked => held'[t] = NoNonce /\ pc[t] = "consume_lookup"
  BY DEF RevokedAreGone, Return
<1>4. \A u \in Threads : n \notin victims[u]
  BY DEF VictimsAreIdle, Idle
<1>5. VictimsAreIdle'
  BY <1>1, <1>2, <1>4 DEF VictimsAreIdle, Idle, Known, Purging
<1>6. RevokedAreGone'
  BY <1>1, <1>2, <1>3 DEF RevokedAreGone, Known
<1> QED
  BY <1>5, <1>6

LEMMA SessionRevoked ==
  ASSUME IInv, RInv, NEW t \in Threads, NEW s \in Sessions,
         \/ \E tab \in Tabs, g \in Generations :
              \/ \E ttl \in TtlRequests : FfiCreateSession(t, s, tab, g, ttl)
              \/ FfiAdvanceDocumentGeneration(t, s, tab, g)
         \/ FfiDestroySession(t, s)
  PROVE  RInv'
<1>1. /\ UNCHANGED <<ledgers, held, revoked>>
      /\ \/ UNCHANGED <<pc, purging, victims>>
         \/ BeginPurge(t, s)
  BY DEF FfiCreateSession, FfiAdvanceDocumentGeneration, FfiDestroySession, BeginPurge,
         callVars, histVars
<1>2. CASE UNCHANGED <<pc, purging, victims>>
  BY <1>1, <1>2 DEF RInv, VictimsAreIdle, RevokedAreGone, ledgers, Idle, Known
<1>3. CASE BeginPurge(t, s)
  <2>1. VictimsAreIdle'
    BY <1>1, <1>3 DEF BeginPurge, RInv, VictimsAreIdle, ledgers, Idle, Known, OfSession,
                      InFlight, Purging, IInv, TypeOK
  <2>2. RevokedAreGone'
    BY <1>1, <1>3, FfiBrokerAssumption
       DEF BeginPurge, RInv, RevokedAreGone, ledgers, Known, IInv, TypeOK, HoldsNonce
  <2> QED
    BY <2>1, <2>2 DEF RInv
<1> QED
  BY <1>1, <1>2, <1>3

LEMMA PurgeIssuedRevoked ==
  ASSUME IInv, RInv, NEW t \in Threads, PurgeIssued(t)
  PROVE  RInv'
<1> USE DEF IInv, TypeOK, RInv, PurgeIssued, Continue, histVars
<1>1. VictimsAreIdle'
  BY DEF VictimsAreIdle, Idle, Known, OfSession, Purging
<1>2. RevokedAreGone'
  BY DEF RevokedAreGone, Known
<1> QED
  BY <1>1, <1>2

LEMMA PurgePendingRevoked ==
  ASSUME IInv, RInv, NEW t \in Threads, PurgePending(t)
  PROVE  RInv'
<1> USE FfiBrokerAssumption DEF IInv, TypeOK, RInv, PurgePending, Return
<1>1. VictimsAreIdle'
  BY DEF VictimsAreIdle, Idle, Known, Purging, HoldsNonce
<1>2. RevokedAreGone'
  BY DEF RevokedAreGone, VictimsAreIdle, Idle, Known, OfSession
<1> QED
  BY <1>1, <1>2

-----------------------------------------------------------------------------

LEMMA RInvPreserved == IInv /\ RInv /\ [Next]_vars => RInv'
<1> SUFFICES ASSUME IInv, RInv, [Next]_vars PROVE RInv'
  OBVIOUS
<1>1. ASSUME NEW t \in Threads, Call(t) PROVE RInv'
  <2>1. CASE \E n \in Nonces, s \in Sessions, tab \in Tabs, g \in Generations, host \in Hosts :
               EvaluateNavigation(t, n, s, tab, g, host)
    BY <2>1, EvaluateNavigationRevoked
  <2>2. CASE \E n \in Nonces : ApproveNavigation(t, n) \/ RejectNavigation(t, n)
                               \/ ConsumeNavigation(t, n)
    BY <2>2, BeginRevoked, RejectRevoked
  <2>3. CASE \E s \in Sessions :
               \/ \E tab \in Tabs, g \in Generations :
                    \/ \E ttl \in TtlRequests : FfiCreateSession(t, s, tab, g, ttl)
                    \/ FfiAdvanceDocumentGeneration(t, s, tab, g)
               \/ FfiDestroySession(t, s)
    BY <2>3, SessionRevoked
  <2> QED
    BY <1>1, <2>1, <2>2, <2>3 DEF Call
<1>2. ASSUME NEW t \in Threads, Section(t) PROVE RInv'
  BY <1>2, EvaluationRevoked, CallRevoked, PurgeIssuedRevoked, PurgePendingRevoked DEF Section
<1>3. CASE UNCHANGED vars \/ ClockTick \/ \E hosts \in Denylists : UpdateHostDenylist(hosts)
  <2>1. UNCHANGED <<ledgers, callVars, histVars>>
    BY <1>3 DEF vars, ClockTick, UpdateHostDenylist
  <2> QED
    BY <2>1 DEF RInv, VictimsAreIdle, RevokedAreGone, ledgers, callVars, histVars, Idle, Known
<1> QED
  BY <1>1, <1>2, <1>3 DEF Next

LEMMA RInvHolds == Spec => []RInv
BY InitRInv, RInvPreserved, IInvHolds, PTL DEF Spec

\* Only the section that records a consumption changes the grants, and no
\* thread is in it with a revoked authorization.
LEMMA GrantsOfRevoked ==
  IInv /\ RInv /\ [Next]_vars => \A n \in revoked : granted'[n] = granted[n]
<1> SUFFICES ASSUME IInv, RInv, [Next]_vars, NEW n \in revoked PROVE granted'[n] = granted[n]
  OBVIOUS
<1>1. ASSUME NEW t \in Threads, ConsumeRecord(t) PROVE granted'[n] = granted[n]
  BY <1>1 DEF ConsumeRecord, IInv, TypeOK, RInv, RevokedAreGone
<1>2. ASSUME NEW t \in Threads, Call(t) PROVE granted' = granted
  BY <1>2 DEF Call, EvaluateNavigation, Begin, ApproveNavigation, RejectNavigation,
              ConsumeNavigation, FfiCreateSession, FfiAdvanceDocumentGeneration,
              FfiDestroySession, BeginPurge, histVars
<1>3. ASSUME NEW t \in Threads, Section(t) PROVE ConsumeRecord(t) \/ granted' = granted
  BY <1>3 DEF Section, EvaluateValidate, RegisterPendingApproval, EvaluateIssue,
              ApproveValidate, ApproveIssue, ConsumeLookup, ConsumeValidate, PurgeIssued,
              PurgePending, histVars
<1>4. CASE UNCHANGED vars \/ ClockTick \/ \E hosts \in Denylists : UpdateHostDenylist(hosts)
  BY <1>4 DEF vars, histVars, ClockTick, UpdateHostDenylist
<1> QED
  BY <1>1, <1>2, <1>3, <1>4 DEF Next

\* Once destroy_session or advance_document_generation has returned, what it
\* revoked is never granted, though the same session id may come back at the
\* same generation: no ledger and no call in flight still has it.
THEOREM RevokedIsGone == Spec => RevocationIsFinal
BY GrantsOfRevoked, RInvHolds, IInvHolds, PTL DEF Spec, RevocationIsFinal

-----------------------------------------------------------------------------
(* Sessions leave the pool by themselves only when they have expired.      *)

LEMMA PoolStep ==
  TypeOK /\ [Next]_vars =>
    \A s \in Pool : sessions'[s] = NoSession =>
        IsExpired(s) \/ \E t \in Threads : purging'[t] = s
<1> SUFFICES ASSUME TypeOK, [Next]_vars, NEW s \in Pool, sessions'[s] = NoSession
             PROVE  IsExpired(s) \/ \E t \in Threads : purging'[t] = s
  OBVIOUS
<1>1. s \in Sessions /\ sessions[s] # NoSession
  BY DEF Pool
<1>2. ASSUME NEW t \in Threads, NEW x \in Sessions, NEW tab \in Tabs, NEW g \in Generations,
             NEW ttl \in TtlRequests, FfiCreateSession(t, x, tab, g, ttl)
      PROVE  IsExpired(s)
  <2>1. [tab |-> tab, generation |-> g, deadline |-> now + ClampTtl(ttl)] # NoSession
    <3>1. ClampTtl(ttl) \in 0..MaxTtl
      BY ClampTtlRange, FfiBrokerAssumption
    <3> QED
      BY <3>1, ContextBrokerAssumption DEF SessionContext, TypeOK, CoreTypeOK
  <2>2. s \in Evicted(x)
    BY <1>1, <1>2, <2>1 DEF FfiCreateSession, CreateSession, TypeOK, CoreTypeOK
  <2> QED
    BY <2>2 DEF Evicted
<1>3. ASSUME NEW t \in Threads, NEW x \in Sessions, FfiDestroySession(t, x)
      PROVE  purging'[t] = s
  <2>1. x = s
    BY <1>1, <1>3 DEF FfiDestroySession, RemoveSession, TypeOK, CoreTypeOK
  <2> QED
    BY <1>3, <2>1 DEF FfiDestroySession, BeginPurge, TypeOK
<1>4. ASSUME NEW t \in Threads, NEW x \in Sessions, NEW tab \in Tabs, NEW g \in Generations,
             FfiAdvanceDocumentGeneration(t, x, tab, g)
      PROVE  purging'[t] = s
  <2>1. x = s
    BY <1>1, <1>4 DEF FfiAdvanceDocumentGeneration, AdvanceGeneration, TypeOK, CoreTypeOK
  <2> QED
    BY <1>4, <2>1 DEF FfiAdvanceDocumentGeneration, BeginPurge, TypeOK
<1>5. ASSUME NEW t \in Threads, NEW n \in Nonces,
             \/ \E x \in Sessions, tab \in Tabs, g \in Generations, host \in Hosts :
                  EvaluateNavigation(t, n, x, tab, g, host)
             \/ ApproveNavigation(t, n) \/ RejectNavigation(t, n) \/ ConsumeNavigation(t, n)
      PROVE  sessions' = sessions
  BY <1>5 DEF EvaluateNavigation, ApproveNavigation, RejectNavigation, ConsumeNavigation, coreVars
<1>6. ASSUME NEW t \in Threads, Section(t) PROVE sessions' = sessions
  BY <1>6 DEF Section, EvaluateValidate, RegisterPendingApproval, EvaluateIssue,
              ApproveValidate, ApproveIssue, ConsumeLookup, ConsumeValidate, ConsumeNonce,
              ConsumeRecord, PurgeIssued, PurgePending, coreVars
<1>7. CASE UNCHANGED vars \/ ClockTick \/ \E hosts \in Denylists : UpdateHostDenylist(hosts)
  BY <1>1, <1>7 DEF vars, coreVars, ClockTick, Tick, UpdateHostDenylist
<1> QED
  BY <1>1, <1>2, <1>3, <1>4, <1>5, <1>6, <1>7 DEF Next, Call

\* A full pool makes room for a new session at the cost of expired ones only;
\* a live session leaves it through its own destroy_session.
THEOREM LiveSessionsStay == Spec => LiveSessionsSurvive
BY PoolStep, TypeCorrect, PTL DEF Spec, LiveSessionsSurvive

-----------------------------------------------------------------------------
(* When an authorization does end with the lifetime it was issued in.      *)
(* ConsumedWithinLifetime does not hold of every host; it holds of one     *)
(* that takes the calls about a session in turn.                           *)

\* Thread t is in a call about session s.
WorksOn(t, s) == purging[t] = s \/ \E n \in OfSession(s) : held[t] = n

\* While a call revokes the authorizations of a session no other call is about it.
RevokedAlone ==
  \A t \in Threads, s \in Sessions : purging[t] = s => \A u \in Threads \ {t} : ~WorksOn(u, s)

\* An id comes into the pool only when no call is about it, and out of it only
\* by destroy_session: the pool is never so full that it has to evict.
InTurn ==
  \A s \in Sessions :
    /\ lifetimes'[s] # lifetimes[s] => \A t \in Threads : ~WorksOn(t, s)
    /\ s \in Pool /\ s \notin Pool' => \E t \in Threads : purging'[t] = s

\* The sections in which a thread has an authorization that validated.
Carrying == {"evaluate_issue", "evaluate_register", "consume_validate"} \cup Approving

Usable(n) ==
  /\ Known(n)
  /\ \/ n \in pending_navigation_approvals
     \/ issued_actions[n] = "pending"
     \/ \E t \in Threads : held[t] = n /\ pc[t] \in Carrying

Current(n) ==
  /\ action[n].lifetime = lifetimes[action[n].session]
  /\ action[n].session \in Pool \/ \E t \in Threads : purging[t] = action[n].session

\* Whatever can still be consumed is of its session's current lifetime, and a
\* session out of the pool is still being purged.
LifeInv ==
  /\ \A n \in Nonces : Usable(n) => Current(n)
  /\ \A t \in Threads :
       /\ pc[t] \notin Purging => purging[t] = NoSession
       /\ pc[t] = "purge_pending" => \A n \in OfSession(purging[t]) : issued_actions[n] # "pending"

LEMMA InitLife == Init => LifeInv
BY DEF Init, LifeInv, Usable, Known, Purging

\* What a call does about its own nonce n, and to other authorizations.
CallOn(t, n) ==
  /\ UNCHANGED <<sessions, lifetimes, purging>>
  /\ \A u \in Threads \ {t} : pc'[u] = pc[u] /\ held'[u] = held[u]
  /\ pc[t] \notin Purging /\ pc'[t] \notin Purging /\ held'[t] \in {n, NoNonce}
  /\ \A m \in Nonces \ {n} :
       /\ action'[m] = action[m]
       /\ issued_actions'[m] \in {issued_actions[m], "absent"}
       /\ m \in pending_navigation_approvals' => m \in pending_navigation_approvals
  /\ Known(n)' => ~Known(n) \/ action'[n].session = action[n].session
  /\ issued_actions'[n] = "pending" =>
       issued_actions[n] = "pending" \/ (held[t] = n /\ Known(n))

\* The thread of a call is in no revocation of its own.
LEMMA LeavesPurgingAlone ==
  ASSUME LifeInv, TypeOK, NEW t \in Threads, pc[t] \notin Purging,
         Return(t) \/ UNCHANGED purging
  PROVE  UNCHANGED purging
BY DEF LifeInv, TypeOK, Return

LEMMA CallLife ==
  ASSUME IInv, LifeInv, RevokedAlone, NEW t \in Threads, NEW n \in Nonces, CallOn(t, n),
         Usable(n)' => Current(n)'
  PROVE  LifeInv'
<1> USE FfiBrokerAssumption
<1>1. ASSUME NEW m \in Nonces \ {n}, Usable(m)' PROVE Current(m)'
  <2>1. held'[t] # m /\ Known(m)
    BY <1>1 DEF CallOn, Usable, Known
  <2>2. Usable(m)
    BY <1>1, <2>1 DEF CallOn, Usable
  <2>3. Current(m)
    BY <2>2 DEF LifeInv
  <2> QED
    BY <2>3 DEF CallOn, Current, Pool
<1>2. ASSUME NEW u \in Threads PROVE pc'[u] \notin Purging => purging'[u] = NoSession
  BY DEF CallOn, LifeInv
<1>3. ASSUME NEW u \in Threads, pc'[u] = "purge_pending", NEW m \in OfSession(purging[u])'
      PROVE  issued_actions'[m] # "pending"
  <2>1. u # t /\ pc[u] = "purge_pending" /\ purging[u] \in Sessions /\ purging'[u] = purging[u]
    BY <1>3 DEF CallOn, IInv, HoldsNonce, Purging
  <2>2. \A k \in OfSession(purging[u]) : issued_actions[k] # "pending"
    BY <2>1 DEF LifeInv
  <2>3. m \in Nonces /\ Known(m)' /\ action'[m].session = purging[u]
    BY <1>3, <2>1 DEF OfSession, Known
  <2>4. CASE m # n
    <3>1. m \in OfSession(purging[u])
      BY <2>3, <2>4 DEF CallOn, OfSession, Known
    <3> QED
      BY <2>2, <2>3, <2>4, <3>1 DEF CallOn
  <2>5. CASE m = n
    <3>1. SUFFICES ASSUME issued_actions'[n] = "pending" PROVE FALSE
      BY <2>5
    <3>2. Known(n)
      BY <3>1 DEF CallOn, IInv, IssuedIsCleared, Cleared
    <3>3. n \in OfSession(purging[u])
      BY <2>3, <2>5, <3>2 DEF CallOn, OfSession, Known
    <3>4. held[t] = n
      BY <2>2, <3>1, <3>3 DEF CallOn
    <3> QED
      BY <2>1, <3>3, <3>4 DEF RevokedAlone, WorksOn
  <2> QED
    BY <2>4, <2>5
<1> QED
  BY <1>1, <1>2, <1>3 DEF LifeInv

-----------------------------------------------------------------------------
(* One lemma per kind of step.                                             *)

LEMMA EvaluateNavigationLife ==
  ASSUME IInv, LifeInv, RevokedAlone, NEW t \in Threads, NEW n \in Nonces, NEW s \in Sessions,
         NEW tab \in Tabs, NEW g \in Generations, NEW host \in Hosts,
         EvaluateNavigation(t, n, s, tab, g, host)
  PROVE  LifeInv'
<1> USE FfiBrokerAssumption DEF IInv, TypeOK, EvaluateNavigation, Begin
<1>1. ~Known(n) /\ issued_actions[n] = "absent" /\ n \notin pending_navigation_approvals
  BY DEF Known, IssuedIsCleared, Cleared, PendingIsUndecided
<1>2. \A u \in Threads : pc[u] \in Carrying => held[u] # n
  BY <1>1 DEF Carrying, Approving, Evaluating, Consuming, EvaluationIsPrivate,
              ApprovalIsExclusive, ConsumptionIsCleared
<1>3. CallOn(t, n)
  BY <1>1 DEF CallOn, coreVars, Purging
<1>4. ~Usable(n)'
  BY <1>1, <1>2 DEF Usable, Carrying, Approving
<1> QED
  BY <1>3, <1>4, CallLife

LEMMA EvaluateValidateLife ==
  ASSUME IInv, LifeInv, RevokedAlone, NEW t \in Threads, EvaluateValidate(t)
  PROVE  LifeInv'
<1> USE FfiBrokerAssumption DEF IInv, TypeOK, EvaluateValidate
<1> PICK n \in Nonces : n = held[t]
  BY DEF HoldsNonce, Evaluating
<1>1. pc[t] \in Evaluating /\ Known(n) /\ UNCHANGED purging
  BY LeavesPurgingAlone DEF Evaluating, EvaluationIsPrivate, Continue, Purging
<1>2. CallOn(t, n)
  <2>1. /\ UNCHANGED <<sessions, lifetimes, purging>>
        /\ pc[t] \notin Purging /\ pc'[t] \notin Purging /\ held'[t] \in {n, NoNonce}
        /\ \A u \in Threads \ {t} : pc'[u] = pc[u] /\ held'[u] = held[u]
    BY <1>1 DEF Continue, Return, coreVars, Purging
  <2>2. /\ UNCHANGED <<issued_actions, pending_navigation_approvals>>
        /\ \A m \in Nonces \ {n} : action'[m] = action[m]
    BY DEF Forget
  <2>3. Known(n)' => action'[n].session = action[n].session
    BY <1>1 DEF Forget, Known, Action
  <2> QED
    BY <2>1, <2>2, <2>3, <1>1 DEF CallOn
<1>3. CASE ValidateAction(action[n]) /\ action' = [action EXCEPT ![n].lifetime = lifetimes[action[n].session]]
  <2>1. action'[n].session = action[n].session /\ action'[n].lifetime = lifetimes[action[n].session]
    BY <1>1, <1>3 DEF Known, Action
  <2>2. action[n].session \in Pool
    BY <1>3 DEF ValidateAction
  <2>3. Current(n)'
    BY <2>1, <2>2 DEF Current, Pool, coreVars
  <2> QED
    BY <1>2, <2>3, CallLife
<1>4. CASE Forget(n)
  <2>1. ~Usable(n)'
    BY <1>4 DEF Forget, Usable, Known
  <2> QED
    BY <1>2, <2>1, CallLife
<1> QED
  BY <1>3, <1>4

\* The end of an evaluation, and an approval: what they put into a ledger they
\* carried before.
LEMMA LedgerLife ==
  ASSUME IInv, LifeInv, RevokedAlone, NEW t \in Threads,
         \/ RegisterPendingApproval(t) \/ EvaluateIssue(t)
         \/ ApproveValidate(t) \/ ApproveIssue(t)
  PROVE  LifeInv'
<1> USE FfiBrokerAssumption
        DEF IInv, TypeOK, RegisterPendingApproval, EvaluateIssue, ApproveValidate, ApproveIssue
<1> PICK n \in Nonces : n = held[t]
  BY DEF HoldsNonce, Evaluating, Approving
<1>1. pc[t] \in Carrying /\ pc[t] \notin Purging /\ Known(n)
  BY DEF Carrying, Evaluating, Approving, Purging, EvaluationIsPrivate, ApprovalIsExclusive
<1>2. UNCHANGED purging
  BY <1>1, LeavesPurgingAlone DEF Continue
<1>3. CallOn(t, n)
  <2>1. /\ UNCHANGED <<sessions, lifetimes>> /\ pc'[t] \notin Purging /\ held'[t] \in {n, NoNonce}
        /\ \A u \in Threads \ {t} : pc'[u] = pc[u] /\ held'[u] = held[u]
    BY DEF coreVars, Continue, Return, Purging
  <2>2. \A m \in Nonces \ {n} :
          /\ action'[m] = action[m]
          /\ issued_actions'[m] \in {issued_actions[m], "absent"}
          /\ m \in pending_navigation_approvals' => m \in pending_navigation_approvals
    BY DEF RecordInLedger, Forget, KeptApprovals, ledgers
  <2>3. Known(n)' => action'[n] = action[n]
    BY DEF Forget, Known, ledgers
  <2> QED
    BY <1>1, <1>2, <2>1, <2>2, <2>3 DEF CallOn
<1>4. Current(n)
  BY <1>1 DEF LifeInv, Usable
<1>5. ASSUME Usable(n)' PROVE Current(n)'
  <2>1. action'[n] = action[n]
    BY <1>5 DEF Usable, Known, Forget, ledgers
  <2> QED
    BY <1>2, <1>4, <2>1 DEF Current, Pool, coreVars
<1> QED
  BY <1>3, <1>5, CallLife

\* The calls that take an authorization out of a ledger, or look it up there.
LEMMA LookupLife ==
  ASSUME IInv, LifeInv, RevokedAlone, NEW t \in Threads, NEW n \in Nonces,
         \/ ApproveNavigation(t, n) \/ RejectNavigation(t, n) \/ ConsumeNavigation(t, n)
         \/ held[t] = n /\ (ConsumeLookup(t) \/ ConsumeValidate(t) \/ ConsumeRecord(t))
  PROVE  LifeInv'
<1> USE FfiBrokerAssumption
        DEF IInv, TypeOK, ApproveNavigation, RejectNavigation, ConsumeNavigation, ConsumeLookup,
            ConsumeValidate, ConsumeRecord
<1>1. pc[t] \notin Purging /\ action' = action /\ UNCHANGED <<sessions, lifetimes>>
  BY DEF Purging, Begin, ledgers, coreVars, ConsumeNonce
<1>2. UNCHANGED purging
  BY <1>1, LeavesPurgingAlone DEF Begin, Continue, callVars
<1>3. CallOn(t, n)
  <2>1. /\ pc'[t] \notin Purging /\ held'[t] \in {n, NoNonce}
        /\ \A u \in Threads \ {t} : pc'[u] = pc[u] /\ held'[u] = held[u]
    BY DEF Begin, Continue, Return, Purging, callVars, HoldsNonce
  <2>2. \A m \in Nonces :
          /\ issued_actions'[m] \in {issued_actions[m], "absent"} \/ m = n
          /\ issued_actions'[m] = "pending" => issued_actions[m] = "pending"
          /\ m \in pending_navigation_approvals' => m \in pending_navigation_approvals
    BY DEF RecordInLedger, ledgers
  <2>3. \A m \in Nonces \ {n} : issued_actions'[m] \in {issued_actions[m], "absent"}
    BY <2>2
  <2>4. Known(n)' => action'[n].session = action[n].session
    BY <1>1
  <2>5. issued_actions'[n] = "pending" => issued_actions[n] = "pending"
    BY <2>2
  <2> QED
    BY <1>1, <1>2, <2>1, <2>2, <2>3, <2>4, <2>5 DEF CallOn
<1>4. Usable(n)' => Usable(n)
  BY <1>1 DEF Usable, Known, Carrying, Approving, Begin, Continue, Return, RecordInLedger, ledgers,
              callVars
<1>5. Current(n) => Current(n)'
  BY <1>1, <1>2 DEF Current, Pool
<1> QED
  BY <1>3, <1>4, <1>5, CallLife DEF LifeInv

\* Sessions come and go in turn.
LEMMA CreateLife ==
  ASSUME IInv, LifeInv, InTurn, NEW t \in Threads, NEW s \in Sessions, NEW tab \in Tabs,
         NEW g \in Generations, NEW ttl \in TtlRequests, FfiCreateSession(t, s, tab, g, ttl)
  PROVE  LifeInv'
<1>1. UNCHANGED <<action, issued_actions, pending_navigation_approvals, pc, held, purging>>
  BY DEF FfiCreateSession, ledgers, callVars
<1>2. /\ \A r \in Sessions \ {s} : lifetimes'[r] = lifetimes[r]
      /\ lifetimes'[s] = lifetimes[s] \/ s \notin Pool
  BY DEF FfiCreateSession, CreateSession, IInv, TypeOK, CoreTypeOK
<1>3. ASSUME NEW n \in Nonces, Usable(n)' PROVE Current(n)'
  <2> PICK r : r = action[n].session
    OBVIOUS
  <2>1. Usable(n) /\ Known(n)
    BY <1>1, <1>3 DEF Usable, Known
  <2>2. r \in Sessions /\ n \in OfSession(r) /\ action[n].lifetime = lifetimes[r]
        /\ (r \in Pool \/ \E u \in Threads : purging[u] = r)
    BY <2>1 DEF LifeInv, Current, Known, OfSession, IInv, TypeOK, Action
  <2>3. lifetimes'[r] = lifetimes[r]
    BY <1>2, <2>2 DEF InTurn, WorksOn
  <2>4. r \in Pool' \/ \E u \in Threads : purging'[u] = r
    BY <1>1, <2>2 DEF InTurn
  <2> QED
    BY <1>1, <2>2, <2>3, <2>4 DEF Current
<1>4. \A u \in Threads : OfSession(purging[u])' = OfSession(purging[u])
  BY <1>1 DEF OfSession
<1> QED
  BY <1>1, <1>3, <1>4 DEF LifeInv

LEMMA BeginPurgeLife ==
  ASSUME IInv, LifeInv, InTurn, NEW t \in Threads, NEW s \in Sessions,
         \/ FfiDestroySession(t, s)
         \/ \E tab \in Tabs, g \in Generations : FfiAdvanceDocumentGeneration(t, s, tab, g)
  PROVE  LifeInv'
<1>1. BeginPurge(t, s) /\ UNCHANGED <<action, issued_actions, pending_navigation_approvals, lifetimes>>
  BY DEF FfiDestroySession, FfiAdvanceDocumentGeneration, ledgers, RemoveSession, AdvanceGeneration
<1>2. /\ UNCHANGED held /\ pc[t] = "idle" /\ pc'[t] = "purge_issued" /\ purging[t] = NoSession
      /\ \A u \in Threads \ {t} : pc'[u] = pc[u] /\ purging'[u] = purging[u]
  BY <1>1 DEF BeginPurge, IInv, TypeOK, LifeInv, Purging
<1>3. ASSUME NEW n \in Nonces, Usable(n)' PROVE Current(n)'
  <2> PICK r : r = action[n].session
    OBVIOUS
  <2>1. Usable(n) /\ Known(n)
    BY <1>1, <1>2, <1>3 DEF Usable, Known, Carrying, Approving
  <2>2. r \in Sessions /\ action[n].lifetime = lifetimes[r]
        /\ (r \in Pool \/ \E u \in Threads : purging[u] = r)
    BY <2>1 DEF LifeInv, Current, Known, IInv, TypeOK, Action
  <2>3. r \in Pool' \/ \E u \in Threads : purging'[u] = r
    BY <1>2, <2>2, FfiBrokerAssumption, ContextBrokerAssumption DEF InTurn
  <2> QED
    BY <1>1, <2>2, <2>3 DEF Current
<1>4. \A u \in Threads \ {t} : OfSession(purging[u])' = OfSession(purging[u])
  BY <1>1, <1>2 DEF OfSession
<1> QED
  BY <1>1, <1>2, <1>3, <1>4 DEF LifeInv, Purging

LEMMA PurgeLife ==
  ASSUME IInv, LifeInv, RevokedAlone, NEW t \in Threads, PurgeIssued(t) \/ PurgePending(t)
  PROVE  LifeInv'
<1> USE DEF IInv, TypeOK
<1> PICK s : s = purging[t]
  OBVIOUS
<1>1. /\ s \in Sessions /\ held[t] = NoNonce /\ pc[t] \in Purging
      /\ UNCHANGED <<action, sessions, lifetimes>>
      /\ \A u \in Threads \ {t} : pc'[u] = pc[u] /\ held'[u] = held[u] /\ purging'[u] = purging[u]
  BY DEF PurgeIssued, PurgePending, HoldsNonce, Purging, Continue, Return, coreVars
<1>2. \A n \in Nonces :
        /\ issued_actions'[n] \in {issued_actions[n], "absent"}
        /\ n \in pending_navigation_approvals' => n \in pending_navigation_approvals
  BY DEF PurgeIssued, PurgePending
<1>3. held'[t] = NoNonce /\ NoNonce \notin Nonces
  BY <1>1, FfiBrokerAssumption DEF PurgeIssued, PurgePending, Continue, Return
<1>4. ASSUME NEW n \in Nonces, Usable(n)'
      PROVE  Usable(n) /\ Current(n) /\ (PurgePending(t) => action[n].session # s)
  <2>1. Usable(n)
    BY <1>1, <1>2, <1>3, <1>4 DEF Usable, Known
  <2>2. Current(n)
    BY <2>1 DEF LifeInv
  <2>3. ASSUME PurgePending(t), action[n].session = s PROVE FALSE
    <3>1. n \in OfSession(s)
      BY <2>1, <2>3 DEF OfSession, Usable, Known
    <3>2. n \notin pending_navigation_approvals' /\ issued_actions'[n] # "pending"
      BY <2>3, <3>1 DEF PurgePending, LifeInv
    <3>3. PICK u \in Threads : held'[u] = n
      BY <1>4, <3>2 DEF Usable
    <3>4. u # t /\ held[u] = n
      BY <1>1, <1>3, <3>3
    <3> QED
      BY <1>1, <3>1, <3>4 DEF RevokedAlone, WorksOn
  <2> QED
    BY <2>1, <2>2, <2>3
<1>5. ASSUME NEW n \in Nonces, Usable(n)' PROVE Current(n)'
  <2>1. action[n].session \in Pool' \/ \E u \in Threads : purging'[u] = action[n].session
    <3>1. CASE PurgeIssued(t)
      <4>1. purging' = purging
        BY <3>1 DEF PurgeIssued, Continue
      <4> QED
        BY <1>1, <1>4, <1>5, <4>1 DEF Current, Pool
    <3>2. CASE PurgePending(t)
      <4>1. action[n].session # s /\ Current(n)
        BY <1>4, <1>5, <3>2
      <4> QED
        BY <1>1, <4>1 DEF Current, Pool
    <3> QED
      BY <3>1, <3>2
  <2> QED
    BY <1>1, <1>4, <1>5, <2>1 DEF Current
<1>6. ASSUME NEW u \in Threads
      PROVE  /\ pc'[u] \notin Purging => purging'[u] = NoSession
             /\ pc'[u] = "purge_pending" =>
                  \A n \in OfSession(purging[u])' : issued_actions'[n] # "pending"
  <2>1. CASE u # t
    <3>1. OfSession(purging[u])' = OfSession(purging[u]) /\ OfSession(purging[u]) \subseteq Nonces
      BY <1>1, <2>1 DEF OfSession
    <3> QED
      BY <1>1, <1>2, <2>1, <3>1 DEF LifeInv
  <2>2. CASE u = t /\ PurgeIssued(t)
    <3>1. OfSession(purging[u])' = OfSession(purging[u]) /\ OfSession(purging[u]) \subseteq Nonces
      BY <1>1, <2>2 DEF OfSession, PurgeIssued, Continue
    <3> QED
      BY <2>2, <3>1 DEF PurgeIssued, Continue, Purging
  <2>3. CASE u = t /\ PurgePending(t)
    BY <2>3 DEF PurgePending, Return
  <2> QED
    BY <2>1, <2>2, <2>3
<1> QED
  BY <1>5, <1>6 DEF LifeInv

-----------------------------------------------------------------------------

LEMMA LifePreserved == IInv /\ LifeInv /\ RevokedAlone /\ [Next /\ InTurn]_vars => LifeInv'
<1> SUFFICES ASSUME IInv, LifeInv, RevokedAlone, [Next /\ InTurn]_vars PROVE LifeInv'
  OBVIOUS
<1>1. ASSUME NEW t \in Threads, Call(t), InTurn PROVE LifeInv'
  <2>1. CASE \E n \in Nonces, s \in Sessions, tab \in Tabs, g \in Generations, host \in Hosts :
               EvaluateNavigation(t, n, s, tab, g, host)
    BY <2>1, EvaluateNavigationLife
  <2>2. CASE \E n \in Nonces : ApproveNavigation(t, n) \/ RejectNavigation(t, n)
                               \/ ConsumeNavigation(t, n)
    BY <2>2, LookupLife
  <2>3. CASE \E s \in Sessions :
               \/ \E tab \in Tabs, g \in Generations :
                    \/ \E ttl \in TtlRequests : FfiCreateSession(t, s, tab, g, ttl)
                    \/ FfiAdvanceDocumentGeneration(t, s, tab, g)
               \/ FfiDestroySession(t, s)
    BY <1>1, <2>3, CreateLife, BeginPurgeLife
  <2> QED
    BY <1>1, <2>1, <2>2, <2>3 DEF Call
<1>2. ASSUME NEW t \in Threads, Section(t) PROVE LifeInv'
  <2>1. ConsumeLookup(t) \/ ConsumeValidate(t) \/ ConsumeRecord(t) => held[t] \in Nonces
    BY DEF ConsumeLookup, ConsumeValidate, ConsumeRecord, IInv, HoldsNonce, Consuming
  <2> QED
    BY <1>2, <2>1, EvaluateValidateLife, LedgerLife, LookupLife, PurgeLife DEF Section
<1>3. CASE UNCHANGED vars \/ ClockTick \/ \E hosts \in Denylists : UpdateHostDenylist(hosts)
  <2>1. UNCHANGED <<ledgers, callVars, sessions, lifetimes>>
    BY <1>3 DEF vars, coreVars, ClockTick, Tick, UpdateHostDenylist
  <2> QED
    BY <2>1 DEF LifeInv, Usable, Current, Known, Pool, OfSession, ledgers, callVars
<1> QED
  BY <1>1, <1>2, <1>3 DEF Next

\* Only the section that burns a nonce adds one to the replay ledger.
LEMMA ConsumptionIsCurrent ==
  IInv /\ LifeInv /\ [Next]_vars =>
    \A n \in consumed_nonces' \ consumed_nonces : action[n].lifetime = lifetimes[action[n].session]
<1> SUFFICES ASSUME IInv, LifeInv, [Next]_vars, NEW n \in consumed_nonces' \ consumed_nonces
             PROVE  action[n].lifetime = lifetimes[action[n].session]
  OBVIOUS
<1>1. ASSUME NEW t \in Threads, ConsumeValidate(t) PROVE Current(n)
  <2>1. n = held[t] /\ n \in Nonces /\ pc[t] = "consume_validate"
    BY <1>1 DEF ConsumeValidate, ConsumeNonce, coreVars, IInv, HoldsNonce, Consuming
  <2>2. Usable(n)
    BY <2>1 DEF Usable, Carrying, IInv, ConsumptionIsCleared, Consuming
  <2> QED
    BY <2>1, <2>2 DEF LifeInv
<1>2. ASSUME NEW t \in Threads, Call(t) PROVE consumed_nonces' = consumed_nonces
  BY <1>2 DEF Call, EvaluateNavigation, ApproveNavigation, RejectNavigation, ConsumeNavigation,
              FfiCreateSession, CreateSession, FfiAdvanceDocumentGeneration, AdvanceGeneration,
              FfiDestroySession, RemoveSession, coreVars
<1>3. ASSUME NEW t \in Threads, Section(t)
      PROVE  ConsumeValidate(t) \/ consumed_nonces' = consumed_nonces
  BY <1>3 DEF Section, EvaluateValidate, RegisterPendingApproval, EvaluateIssue, ApproveValidate,
              ApproveIssue, ConsumeLookup, ConsumeRecord, PurgeIssued, PurgePending, coreVars
<1>4. CASE UNCHANGED vars \/ ClockTick \/ \E hosts \in Denylists : UpdateHostDenylist(hosts)
  BY <1>4 DEF vars, coreVars, ClockTick, Tick, UpdateHostDenylist
<1> QED
  BY <1>1, <1>2, <1>3, <1>4 DEF Next, Current

\* What the field comment on issued_actions promises (ffi/broker.rs:25) holds of
\* a host that takes the calls about a session in turn, and whose sessions all
\* fit the pool: only authorizations of the current lifetime are consumed.
THEOREM AuthorizationsEndWithSession ==
  Spec /\ []RevokedAlone /\ [][InTurn]_vars => ConsumedWithinLifetime
<1>1. IInv /\ LifeInv /\ RevokedAlone /\ [Next]_vars /\ [InTurn]_vars => LifeInv'
  BY LifePreserved
<1>2. IInv /\ LifeInv /\ [Next]_vars =>
        [\A n \in consumed_nonces' \ consumed_nonces :
           \/ action[n].lifetime = lifetimes[action[n].session]
           \/ \E t \in Threads : purging[t] = action[n].session]_vars
  BY ConsumptionIsCurrent
<1> QED
  BY <1>1, <1>2, InitLife, IInvHolds, PTL DEF Spec, ConsumedWithinLifetime

-----------------------------------------------------------------------------
(* No authorization is lost by accident.                                   *)

\* The ledger an authorization that nobody works on leaves in a step.
LeavesIssued(n)  == issued_actions[n] = "pending" /\ issued_actions'[n] # "pending"
LeavesPending(n) == /\ n \in pending_navigation_approvals
                    /\ n \notin pending_navigation_approvals'

Excused(n) ==
  \/ ExpiredAction(n)
  \/ n \in rejected'
  \/ \E t \in Threads : held[t] = n \/ purging[t] = action[n].session
  \/ LeavesPending(n) /\ UNCHANGED pc

LEMMA VoidLeaves ==
  ASSUME NEW n \in Nonces, Idle(n), StatusOf(n) \in {"awaiting", "issued"},
         (StatusOf(n) = "void")'
  PROVE  /\ LeavesIssued(n) \/ LeavesPending(n)
         /\ \A t \in Threads : held'[t] = n => pc'[t] \notin Approving
BY DEF Idle, StatusOf, Carried, LeavesIssued, LeavesPending

LEMMA RecordLeaves ==
  ASSUME NEW n \in Nonces, NEW m, NEW state, m # n, RecordInLedger(m, state), LeavesIssued(n)
  PROVE  ExpiredAction(n)
BY DEF RecordInLedger, LeavesIssued, Stale

LEMMA CallLeaves ==
  ASSUME IInv, NEW t \in Threads, Call(t), NEW n \in Nonces,
         LeavesIssued(n) \/ LeavesPending(n),
         \A u \in Threads : held'[u] = n => pc'[u] \notin Approving
  PROVE  Excused(n)
<1> USE DEF LeavesIssued, LeavesPending
<1>1. CASE ApproveNavigation(t, n)
  <2>1. ~Begin(t, "approve_validate", n)
    BY DEF Begin, Approving, IInv, TypeOK
  <2> QED
    BY <1>1, <2>1 DEF ApproveNavigation, callVars, Excused
<1>2. CASE RejectNavigation(t, n)
  BY <1>2 DEF RejectNavigation, Excused
<1>3. ASSUME NEW m \in Nonces \ {n}, ApproveNavigation(t, m) \/ RejectNavigation(t, m)
      PROVE  FALSE
  BY <1>3 DEF ApproveNavigation, RejectNavigation
<1>4. ASSUME \/ \E m \in Nonces, s \in Sessions, tab \in Tabs, g \in Generations, host \in Hosts :
                   EvaluateNavigation(t, m, s, tab, g, host)
             \/ \E m \in Nonces : ConsumeNavigation(t, m)
             \/ \E s \in Sessions, tab \in Tabs, g \in Generations :
                   \/ \E ttl \in TtlRequests : FfiCreateSession(t, s, tab, g, ttl)
                   \/ FfiAdvanceDocumentGeneration(t, s, tab, g)
             \/ \E s \in Sessions : FfiDestroySession(t, s)
      PROVE  FALSE
  BY <1>4 DEF EvaluateNavigation, ConsumeNavigation, FfiCreateSession,
              FfiAdvanceDocumentGeneration, FfiDestroySession, ledgers
<1> QED
  BY <1>1, <1>2, <1>3, <1>4 DEF Call

LEMMA SectionLeaves ==
  ASSUME IInv, NEW t \in Threads, Section(t), NEW n \in Nonces, Idle(n),
         LeavesIssued(n) \/ LeavesPending(n)
  PROVE  Excused(n)
<1> USE DEF Excused
<1>1. CASE EvaluateIssue(t) \/ ApproveIssue(t) \/ ConsumeRecord(t)
  BY <1>1, RecordLeaves
     DEF EvaluateIssue, ApproveIssue, ConsumeRecord, Idle, LeavesPending
<1>2. CASE RegisterPendingApproval(t)
  BY <1>2 DEF RegisterPendingApproval, KeptApprovals, LeavesIssued, LeavesPending
<1>3. CASE PurgeIssued(t) \/ PurgePending(t)
  BY <1>3 DEF PurgeIssued, PurgePending, OfSession, LeavesIssued, LeavesPending
<1>4. CASE EvaluateValidate(t) \/ ApproveValidate(t) \/ ConsumeLookup(t) \/ ConsumeValidate(t)
  BY <1>4 DEF EvaluateValidate, ApproveValidate, ConsumeLookup, ConsumeValidate, ledgers,
              LeavesIssued, LeavesPending
<1> QED
  BY <1>1, <1>2, <1>3, <1>4 DEF Section

LEMMA WithdrawalIsExcused ==
  IInv /\ [Next]_vars =>
    \A n \in Nonces :
      StatusOf(n) \in {"awaiting", "issued"} /\ (StatusOf(n) = "void")' => Excused(n)
<1> SUFFICES ASSUME IInv, [Next]_vars, NEW n \in Nonces, Idle(n),
                    StatusOf(n) \in {"awaiting", "issued"}, (StatusOf(n) = "void")'
             PROVE  Excused(n)
  BY DEF Excused, Idle
<1>1. /\ LeavesIssued(n) \/ LeavesPending(n)
      /\ \A t \in Threads : held'[t] = n => pc'[t] \notin Approving
  BY VoidLeaves
<1>2. CASE UNCHANGED vars \/ ClockTick \/ \E hosts \in Denylists : UpdateHostDenylist(hosts)
  BY <1>1, <1>2 DEF vars, ledgers, ClockTick, UpdateHostDenylist, LeavesIssued, LeavesPending
<1> QED
  BY <1>1, <1>2, CallLeaves, SectionLeaves DEF Next

\* Cleaning a full ledger, or revoking another session, costs nobody a live
\* authorization: it leaves the ledgers expired, rejected, revoked with its own
\* session, or because a call redeeming it failed.
THEOREM NothingIsLost == Spec => NoSilentWithdrawal
<1>1. IInv /\ [Next]_vars =>
        \A n \in Nonces :
          StatusOf(n) \in {"awaiting", "issued"} /\ (StatusOf(n) = "void")' =>
            \/ ExpiredAction(n)
            \/ n \in rejected'
            \/ \E t \in Threads : held[t] = n \/ purging[t] = action[n].session
            \/ n \in pending_navigation_approvals /\ n \notin pending_navigation_approvals'
                /\ UNCHANGED pc
  BY WithdrawalIsExcused DEF Excused, LeavesPending
<1> QED
  BY <1>1, IInvHolds, PTL DEF Spec, NoSilentWithdrawal

-----------------------------------------------------------------------------
(* FfiBroker implements NavigationAuthority: every lock section moves at   *)
(* most one authorization along its life cycle, withdraws others, or does  *)
(* neither, whatever the other threads' calls are in the middle of.        *)

\* What a step does to an authorization it does not move.
Kept(m)      == StatusOf(m)' = StatusOf(m)
Withdrawn(m) == StatusOf(m) \in {"awaiting", "issued"} /\ StatusOf(m)' = "void"

SameRisk   == \A m \in Nonces : HighRisk(m)' = HighRisk(m)
SameGrants == \A m \in Nonces : (granted[m] > 0)' = (granted[m] > 0)

AuthorityStep == [Authority!Next]_Authority!vars

-----------------------------------------------------------------------------
(* From what a step does to each authorization to a step of the authority. *)

LEMMA WithdrawStep ==
  ASSUME \A m \in Nonces : Kept(m) \/ Withdrawn(m), SameRisk, SameGrants
  PROVE  AuthorityStep
<1> DEFINE V == {m \in Nonces : Withdrawn(m)}
<1>1. V \in SUBSET {m \in Nonces : [x \in Nonces |-> StatusOf(x)][m] \in {"awaiting", "issued"}}
  BY DEF Withdrawn
<1>2. [m \in Nonces |-> StatusOf(m)'] =
        [m \in Nonces |-> IF m \in V THEN "void" ELSE [x \in Nonces |-> StatusOf(x)][m]]
  BY DEF Kept, Withdrawn
<1>3. /\ {m \in Nonces : HighRisk(m)}' = {m \in Nonces : HighRisk(m)}
      /\ {m \in Nonces : granted[m] > 0}' = {m \in Nonces : granted[m] > 0}
  BY DEF SameRisk, SameGrants
<1>4. Authority!Withdraw
  BY <1>1, <1>2, <1>3 DEF Authority!Withdraw, Authority!Withdrawable
<1> QED
  BY <1>4 DEF AuthorityStep, Authority!Next

LEMMA MoveStep ==
  ASSUME NEW n \in Nonces, NEW s, StatusOf(n)' = s,
         \A m \in Nonces \ {n} : Kept(m) \/ Withdrawn(m)
  PROVE  \E V \in SUBSET Nonces : Authority!MoveAndWithdraw(n, s, V)
<1> DEFINE V == {m \in Nonces \ {n} : Withdrawn(m)}
<1>1. V \in SUBSET Nonces
  OBVIOUS
<1>2. V \subseteq {m \in Nonces \ {n} : [x \in Nonces |-> StatusOf(x)][m] \in {"awaiting", "issued"}}
  BY DEF Withdrawn
<1>3. [m \in Nonces |-> StatusOf(m)'] =
        [m \in Nonces |-> IF m = n THEN s
                          ELSE IF m \in V THEN "void" ELSE [x \in Nonces |-> StatusOf(x)][m]]
  BY DEF Kept, Withdrawn
<1>4. Authority!MoveAndWithdraw(n, s, V)
  BY <1>2, <1>3 DEF Authority!MoveAndWithdraw, Authority!Withdrawable
<1> QED
  BY <1>1, <1>4

LEMMA AuthorityMoves ==
  ASSUME NEW n \in Nonces
  PROVE  Authority!Classify(n) \/ Authority!AskForConfirmation(n) \/ Authority!Issue(n)
         \/ Authority!Consume(n) \/ Authority!Grant(n) => AuthorityStep
BY DEF AuthorityStep, Authority!Next

LEMMA ClassifyStep ==
  ASSUME NEW n \in Nonces, StatusOf(n) = "none", \A m \in Nonces : Kept(m),
         \A m \in Nonces \ {n} : HighRisk(m)' = HighRisk(m), SameGrants
  PROVE  AuthorityStep
<1> DEFINE confirmable == {m \in Nonces : HighRisk(m)}
<1>1. [m \in Nonces |-> StatusOf(m)][n] = "none"
  OBVIOUS
<1>2. [m \in Nonces |-> StatusOf(m)'] = [m \in Nonces |-> StatusOf(m)]
  BY DEF Kept
<1>3. \/ {m \in Nonces : HighRisk(m)'} = confirmable \cup {n}
      \/ {m \in Nonces : HighRisk(m)'} = confirmable \ {n}
  OBVIOUS
<1>4. {m \in Nonces : (granted[m] > 0)'} = {m \in Nonces : granted[m] > 0}
  BY DEF SameGrants
<1>5. Authority!Classify(n)
  BY <1>1, <1>2, <1>3, <1>4 DEF Authority!Classify
<1> QED
  BY <1>5, AuthorityMoves

LEMMA AskStep ==
  ASSUME NEW n \in Nonces, StatusOf(n) = "none", HighRisk(n), StatusOf(n)' = "awaiting",
         \A m \in Nonces \ {n} : Kept(m) \/ Withdrawn(m), SameRisk, SameGrants
  PROVE  AuthorityStep
<1>1. \E V \in SUBSET Nonces : Authority!MoveAndWithdraw(n, "awaiting", V)
  BY MoveStep
<1>2. /\ {m \in Nonces : HighRisk(m)'} = {m \in Nonces : HighRisk(m)}
      /\ {m \in Nonces : (granted[m] > 0)'} = {m \in Nonces : granted[m] > 0}
  BY DEF SameRisk, SameGrants
<1>3. Authority!AskForConfirmation(n)
  BY <1>1, <1>2 DEF Authority!AskForConfirmation
<1> QED
  BY <1>3, AuthorityMoves

LEMMA IssueStep ==
  ASSUME NEW n \in Nonces,
         (StatusOf(n) = "none" /\ ~HighRisk(n)) \/ StatusOf(n) = "awaiting",
         StatusOf(n)' = "issued",
         \A m \in Nonces \ {n} : Kept(m) \/ Withdrawn(m), SameRisk, SameGrants
  PROVE  AuthorityStep
<1>1. \E V \in SUBSET Nonces : Authority!MoveAndWithdraw(n, "issued", V)
  BY MoveStep
<1>2. /\ {m \in Nonces : HighRisk(m)'} = {m \in Nonces : HighRisk(m)}
      /\ {m \in Nonces : (granted[m] > 0)'} = {m \in Nonces : granted[m] > 0}
  BY DEF SameRisk, SameGrants
<1>3. Authority!Issue(n)
  BY <1>1, <1>2 DEF Authority!Issue
<1> QED
  BY <1>3, AuthorityMoves

LEMMA ConsumeStep ==
  ASSUME NEW n \in Nonces, StatusOf(n) = "issued", StatusOf(n)' = "consumed",
         \A m \in Nonces \ {n} : Kept(m), SameRisk, SameGrants
  PROVE  AuthorityStep
<1>1. [m \in Nonces |-> StatusOf(m)'] =
        [[m \in Nonces |-> StatusOf(m)] EXCEPT ![n] = "consumed"]
  BY DEF Kept
<1>2. /\ {m \in Nonces : HighRisk(m)'} = {m \in Nonces : HighRisk(m)}
      /\ {m \in Nonces : (granted[m] > 0)'} = {m \in Nonces : granted[m] > 0}
  BY DEF SameRisk, SameGrants
<1>3. Authority!Consume(n)
  BY <1>1, <1>2 DEF Authority!Consume
<1> QED
  BY <1>3, AuthorityMoves

LEMMA GrantStep ==
  ASSUME NEW n \in Nonces, StatusOf(n) = "consumed", StatusOf(n)' = "consumed",
         ~(granted[n] > 0), (granted[n] > 0)',
         \A m \in Nonces \ {n} : (granted[m] > 0)' = (granted[m] > 0),
         \A m \in Nonces \ {n} : Kept(m) \/ Withdrawn(m), SameRisk
  PROVE  AuthorityStep
<1>1. \E V \in SUBSET Nonces : Authority!MoveAndWithdraw(n, "consumed", V)
  BY MoveStep
<1>2. /\ {m \in Nonces : HighRisk(m)'} = {m \in Nonces : HighRisk(m)}
      /\ {m \in Nonces : (granted[m] > 0)'} = {m \in Nonces : granted[m] > 0} \cup {n}
  BY DEF SameRisk
<1>3. Authority!Grant(n)
  BY <1>1, <1>2 DEF Authority!Grant
<1> QED
  BY <1>3, AuthorityMoves

-----------------------------------------------------------------------------
(* What the sections of thread t leave alone.                              *)

OnlyMoves(t) == \A u \in Threads \ {t} : pc'[u] = pc[u] /\ held'[u] = held[u]

LEMMA OthersCarried ==
  ASSUME NEW t \in Threads, NEW m \in Nonces, NEW sections, OnlyMoves(t),
         held[t] # m, held'[t] # m
  PROVE  Carried(m, sections)' = Carried(m, sections)
BY DEF OnlyMoves, Carried

\* Where an authorization stands excludes the other places.
LEMMA OnePlaceOnly ==
  ASSUME IInv, NEW m \in Nonces
  PROVE  /\ m \in pending_navigation_approvals \/ Carried(m, Approving) =>
              /\ Known(m) /\ issued_actions[m] = "absent" /\ m \notin consumed_nonces
              /\ ~Carried(m, Evaluating) /\ ~Carried(m, {"consume_validate"})
         /\ issued_actions[m] # "absent" \/ Carried(m, {"consume_validate"})
               \/ m \in consumed_nonces =>
              /\ Known(m) /\ m \notin pending_navigation_approvals
              /\ ~Carried(m, Evaluating) /\ ~Carried(m, Approving)
         /\ issued_actions[m] = "consumed" => m \in consumed_nonces
<1> USE DEF Carried
<1>1. m \in pending_navigation_approvals => Known(m) /\ HighRisk(m) /\ Undecided(m)
  BY DEF IInv, PendingIsUndecided
<1>2. Carried(m, Approving) => Known(m) /\ HighRisk(m) /\ Undecided(m)
  BY DEF IInv, ApprovalIsExclusive
<1>3. Carried(m, {"consume_validate"}) => Cleared(m)
  BY DEF IInv, ConsumptionIsCleared
<1>4. Carried(m, Evaluating) =>
        /\ Undecided(m) /\ m \notin pending_navigation_approvals
        /\ ~Carried(m, Approving) /\ ~Carried(m, {"consume_validate"})
  BY DEF IInv, EvaluationIsPrivate, Evaluating, Approving
<1>5. issued_actions[m] # "absent" \/ m \in consumed_nonces => Cleared(m)
  BY DEF IInv, IssuedIsCleared, ReplayLedgerIsCleared
<1>6. issued_actions[m] = "consumed" => m \in consumed_nonces
  BY DEF IInv, IssuedIsCleared
<1> QED
  BY <1>1, <1>2, <1>3, <1>4, <1>5, <1>6 DEF Undecided, Cleared

LEMMA OtherNonce ==
  ASSUME IInv, NEW t \in Threads, NEW m \in Nonces, OnlyMoves(t),
         held[t] # m, held'[t] # m, action'[m] = action[m],
         m \in consumed_nonces' <=> m \in consumed_nonces,
         issued_actions'[m] \in {issued_actions[m], "absent"},
         m \in pending_navigation_approvals' => m \in pending_navigation_approvals
  PROVE  Kept(m) \/ Withdrawn(m)
<1>1. /\ Carried(m, Approving)' = Carried(m, Approving)
      /\ Carried(m, Evaluating)' = Carried(m, Evaluating)
      /\ Carried(m, {"consume_validate"})' = Carried(m, {"consume_validate"})
  BY OthersCarried
<1> QED
  BY <1>1, OnePlaceOnly DEF Kept, Withdrawn, StatusOf, Known

\* A step that leaves the places of m and all calls alone.
LEMMA UntouchedNonce ==
  ASSUME NEW m \in Nonces, action'[m] = action[m],
         m \in consumed_nonces' <=> m \in consumed_nonces,
         issued_actions'[m] = issued_actions[m],
         m \in pending_navigation_approvals' <=> m \in pending_navigation_approvals,
         \A sections \in {Approving, Evaluating, {"consume_validate"}} :
            Carried(m, sections)' = Carried(m, sections)
  PROVE  Kept(m)
BY DEF Kept, StatusOf

-----------------------------------------------------------------------------
(* One lemma per section.                                                  *)

\* Every step but an evaluation's keeps the actions' targets; most keep grants.
LEMMA Unmoved ==
  /\ action' = action => SameRisk
  /\ granted' = granted => SameGrants
BY DEF SameRisk, SameGrants, HighRisk

\* Steps that touch no ledger and no call on a nonce.
LEMMA QuietStep ==
  ASSUME UNCHANGED <<ledgers, consumed_nonces, granted>>,
         \A m \in Nonces, sections \in {Approving, Evaluating, {"consume_validate"}} :
            Carried(m, sections)' = Carried(m, sections)
  PROVE  AuthorityStep
<1>1. \A m \in Nonces : Kept(m)
  BY UntouchedNonce DEF ledgers
<1> QED
  BY <1>1, Unmoved, WithdrawStep DEF ledgers

LEMMA SessionStep ==
  ASSUME IInv, NEW t \in Threads, NEW s \in Sessions,
         \/ \E tab \in Tabs, g \in Generations :
              \/ \E ttl \in TtlRequests : FfiCreateSession(t, s, tab, g, ttl)
              \/ FfiAdvanceDocumentGeneration(t, s, tab, g)
         \/ FfiDestroySession(t, s)
  PROVE  AuthorityStep
<1>1. /\ UNCHANGED <<ledgers, consumed_nonces, granted, held>>
      /\ \A u \in Threads : pc'[u] = pc[u] \/ (pc[u] = "idle" /\ pc'[u] = "purge_issued")
  BY DEF FfiCreateSession, CreateSession, FfiAdvanceDocumentGeneration, AdvanceGeneration,
         FfiDestroySession, RemoveSession, BeginPurge, callVars, histVars, IInv, TypeOK
<1>2. \A m \in Nonces, sections \in {Approving, Evaluating, {"consume_validate"}} :
        Carried(m, sections)' = Carried(m, sections)
  BY <1>1 DEF Carried, Approving, Evaluating
<1> QED
  BY <1>1, <1>2, QuietStep

LEMMA EvaluateNavigationStep ==
  ASSUME IInv, NEW t \in Threads, NEW n \in Nonces, NEW s \in Sessions, NEW tab \in Tabs,
         NEW g \in Generations, NEW host \in Hosts, EvaluateNavigation(t, n, s, tab, g, host)
  PROVE  AuthorityStep
<1> USE FfiBrokerAssumption DEF IInv, TypeOK, EvaluateNavigation, Begin
<1>1. OnlyMoves(t) /\ held[t] = NoNonce /\ held'[t] = n
  BY DEF OnlyMoves, HoldsNonce
<1>2. /\ UNCHANGED <<issued_actions, pending_navigation_approvals, consumed_nonces, granted>>
      /\ \A m \in Nonces \ {n} : action'[m] = action[m]
  BY DEF coreVars
<1>3. \A m \in Nonces \ {n} : Kept(m)
  BY <1>1, <1>2, OthersCarried, UntouchedNonce
<1>4. StatusOf(n) = "none"
  BY OnePlaceOnly DEF StatusOf, Known
<1>5. StatusOf(n)' = "none"
  <2>1. ~Carried(n, {"consume_validate"}) /\ ~Carried(n, Approving)
    BY OnePlaceOnly DEF Known
  <2>2. ~Carried(n, {"consume_validate"})' /\ ~Carried(n, Approving)'
    BY <1>1, <2>1 DEF Carried, OnlyMoves, Approving
  <2>3. Carried(n, Evaluating)'
    BY <1>1 DEF Carried, Evaluating
  <2> QED
    BY <1>2, <2>2, <2>3, OnePlaceOnly DEF StatusOf, Known
<1>6. \A m \in Nonces \ {n} : HighRisk(m)' = HighRisk(m)
  BY <1>2 DEF HighRisk
<1> QED
  BY <1>2, <1>3, <1>4, <1>5, <1>6, Unmoved, ClassifyStep DEF Kept

LEMMA EvaluateValidateStep ==
  ASSUME IInv, NEW t \in Threads, EvaluateValidate(t)
  PROVE  AuthorityStep
<1> USE FfiBrokerAssumption DEF IInv, TypeOK, EvaluateValidate
<1> PICK n \in Nonces : n = held[t]
  BY DEF HoldsNonce, Evaluating
<1>1. Known(n) /\ Carried(n, Evaluating) /\ OnlyMoves(t)
      /\ held'[t] \in {n, NoNonce}
  BY DEF HoldsNonce, EvaluationIsPrivate, Evaluating, Carried, OnlyMoves, Continue, Return
<1>2. /\ UNCHANGED <<issued_actions, pending_navigation_approvals, consumed_nonces, granted>>
      /\ \A m \in Nonces \ {n} : action'[m] = action[m]
  BY <1>1 DEF coreVars, histVars, Forget
<1>3. \A m \in Nonces \ {n} : Kept(m)
  BY <1>1, <1>2, OthersCarried, UntouchedNonce
<1>4. /\ issued_actions[n] = "absent" /\ n \notin consumed_nonces
      /\ n \notin pending_navigation_approvals
      /\ ~Carried(n, {"consume_validate"}) /\ ~Carried(n, Approving)
  BY <1>1 DEF EvaluationIsPrivate, Evaluating, Undecided, Carried, Approving
<1>5. ~Carried(n, {"consume_validate"})' /\ ~Carried(n, Approving)'
  BY <1>1, <1>4 DEF Carried, OnlyMoves, Approving, Continue, Return
<1>6. StatusOf(n) = "none"
  BY <1>1, <1>4 DEF StatusOf
<1>7. action'[n] = NoAction \/ Carried(n, Evaluating)'
  BY <1>1 DEF Forget, Continue, Carried, Evaluating
<1>8. StatusOf(n)' = "none"
  BY <1>2, <1>4, <1>5, <1>7 DEF StatusOf
<1>9. \A m \in Nonces \ {n} : HighRisk(m)' = HighRisk(m)
  BY <1>2 DEF HighRisk
<1> QED
  BY <1>1, <1>2, <1>3, <1>6, <1>8, <1>9, Unmoved, ClassifyStep DEF Kept

\* A full ledger that makes no room lost nothing: it was within its bound.
LEMMA RefusalLosesNothing ==
  ASSUME NEW S, NEW T, NEW capacity \in Nat, Fits(S, capacity), T \subseteq S,
         ~(Cardinality(T) < capacity)
  PROVE  T = S
<1>1. IsFiniteSet(S) /\ Cardinality(S) <= capacity /\ Cardinality(S) \in Nat
  BY FS_CardinalityType DEF Fits
<1>2. Cardinality(T) <= Cardinality(S) /\ Cardinality(T) \in Nat
      /\ (Cardinality(S) = Cardinality(T) => S = T)
  BY <1>1, FS_Subset, FS_CardinalityType
<1> QED
  BY <1>1, <1>2

LEMMA RegisterStep ==
  ASSUME IInv, PendingFits, NEW t \in Threads, RegisterPendingApproval(t)
  PROVE  AuthorityStep
<1> USE FfiBrokerAssumption DEF IInv, TypeOK, RegisterPendingApproval
<1> PICK n \in Nonces : n = held[t]
  BY DEF HoldsNonce, Evaluating
<1>1. OnlyMoves(t) /\ held'[t] = NoNonce /\ pc'[t] = "idle" /\ KeptApprovals \subseteq pending_navigation_approvals
  BY DEF Return, OnlyMoves, KeptApprovals
<1>2. /\ UNCHANGED <<issued_actions, consumed_nonces, granted>>
      /\ \A m \in Nonces \ {n} : action'[m] = action[m]
      /\ \A m \in Nonces \ {n} :
           m \in pending_navigation_approvals' => m \in pending_navigation_approvals
  BY <1>1 DEF coreVars, histVars, Forget
<1>3. \A m \in Nonces \ {n} : Kept(m) \/ Withdrawn(m)
  BY <1>1, <1>2, OtherNonce
<1>4. /\ issued_actions[n] = "absent" /\ n \notin consumed_nonces /\ HighRisk(n)
      /\ n \notin pending_navigation_approvals /\ Carried(n, Evaluating)
      /\ \A u \in Threads \ {t} : held[u] # n
  BY DEF EvaluationIsPrivate, Evaluating, Undecided, Carried
<1>5. ~Carried(n, {"consume_validate"}) /\ ~Carried(n, Approving)
  BY <1>4 DEF Carried, Approving
<1>6. \A u \in Threads : held'[u] # n
  BY <1>1, <1>4 DEF OnlyMoves
<1>7. StatusOf(n) = "none"
  BY <1>4, <1>5 DEF StatusOf
<1>8. CASE /\ pending_navigation_approvals' = KeptApprovals \cup {n}
           /\ UNCHANGED action
  <2>1. StatusOf(n)' = "awaiting"
    BY <1>2, <1>4, <1>6, <1>8 DEF StatusOf, Carried
  <2> QED
    BY <1>2, <1>3, <1>4, <1>7, <1>8, <2>1, Unmoved, AskStep
<1>9. CASE /\ Cardinality(KeptApprovals) >= MaxPendingApprovals
           /\ pending_navigation_approvals' = KeptApprovals
           /\ Forget(n)
  <2>1. Cardinality(KeptApprovals) \in Nat
    BY <1>1, FS_Subset, FS_CardinalityType DEF PendingFits, Fits
  <2>2. ~(Cardinality(KeptApprovals) < MaxPendingApprovals)
    BY <1>9, <2>1
  <2>3. pending_navigation_approvals' = pending_navigation_approvals
    BY <1>1, <1>9, <2>2, RefusalLosesNothing DEF PendingFits
  <2>4. \A m \in Nonces \ {n} : Kept(m)
    BY <1>1, <1>2, <2>3, OthersCarried, UntouchedNonce
  <2>5. StatusOf(n)' = "none"
    BY <1>2, <1>4, <1>6, <1>9, <2>3 DEF StatusOf, Carried, Forget
  <2>6. \A m \in Nonces \ {n} : HighRisk(m)' = HighRisk(m)
    BY <1>2 DEF HighRisk
  <2> QED
    BY <1>2, <1>7, <2>4, <2>5, <2>6, Unmoved, ClassifyStep DEF Kept
<1> QED
  BY <1>8, <1>9

\* RecordInLedger drops stale pending records of others and touches no call.
LEMMA RecordOthers ==
  ASSUME IInv, NEW t \in Threads, NEW n \in Nonces, NEW state, RecordInLedger(n, state),
         held[t] = n, Return(t), UNCHANGED <<pending_navigation_approvals, consumed_nonces>>,
         \A m \in Nonces \ {n} : action'[m] = action[m]
  PROVE  \A m \in Nonces \ {n} : Kept(m) \/ Withdrawn(m)
<1>1. OnlyMoves(t) /\ held'[t] = NoNonce
  BY DEF Return, OnlyMoves, IInv, TypeOK
<1>2. \A m \in Nonces \ {n} : issued_actions'[m] \in {issued_actions[m], "absent"}
  BY DEF RecordInLedger
<1> QED
  BY <1>1, <1>2, OtherNonce, FfiBrokerAssumption

LEMMA EvaluateIssueStep ==
  ASSUME IInv, IssuedFits, NEW t \in Threads, EvaluateIssue(t)
  PROVE  AuthorityStep
<1> USE FfiBrokerAssumption DEF IInv, TypeOK, EvaluateIssue
<1> PICK n \in Nonces : n = held[t]
  BY DEF HoldsNonce, Evaluating
<1>1. /\ UNCHANGED <<pending_navigation_approvals, consumed_nonces, granted>>
      /\ \A m \in Nonces \ {n} : action'[m] = action[m]
  BY DEF coreVars, histVars, Forget
<1>2. \A m \in Nonces \ {n} : Kept(m) \/ Withdrawn(m)
  BY <1>1, RecordOthers
<1>3. /\ issued_actions[n] = "absent" /\ n \notin consumed_nonces /\ ~HighRisk(n)
      /\ n \notin pending_navigation_approvals /\ Carried(n, Evaluating)
      /\ \A u \in Threads \ {t} : held[u] # n
  BY DEF EvaluationIsPrivate, Evaluating, Undecided, Carried
<1>4. ~Carried(n, {"consume_validate"}) /\ ~Carried(n, Approving)
  BY <1>3 DEF Carried, Approving
<1>5. OnlyMoves(t) /\ held'[t] = NoNonce /\ \A u \in Threads : held'[u] # n
  BY <1>3 DEF Return, OnlyMoves
<1>6. StatusOf(n) = "none"
  BY <1>3, <1>4 DEF StatusOf
<1>7. CASE LedgerCanAdmit
  <2>1. StatusOf(n)' = "issued" /\ UNCHANGED action
    BY <1>1, <1>3, <1>7 DEF StatusOf, RecordInLedger
  <2> QED
    BY <1>1, <1>2, <1>3, <1>6, <2>1, Unmoved, IssueStep
<1>8. CASE ~LedgerCanAdmit
  <2>1. Entries \ Stale = Entries
    BY <1>8, RefusalLosesNothing DEF LedgerCanAdmit, IssuedFits
  <2>2. issued_actions' = issued_actions
    BY <1>8, <2>1 DEF RecordInLedger, Stale
  <2>3. \A m \in Nonces \ {n} : Kept(m)
    BY <1>1, <1>5, <2>2, OthersCarried, UntouchedNonce
  <2>4. StatusOf(n)' = "none"
    BY <1>1, <1>3, <1>5, <1>8, <2>2 DEF StatusOf, Carried, Forget
  <2>5. \A m \in Nonces \ {n} : HighRisk(m)' = HighRisk(m)
    BY <1>1 DEF HighRisk
  <2> QED
    BY <1>1, <1>6, <2>3, <2>4, <2>5, Unmoved, ClassifyStep DEF Kept
<1> QED
  BY <1>7, <1>8

LEMMA ApproveNavigationStep ==
  ASSUME IInv, NEW t \in Threads, NEW n \in Nonces, ApproveNavigation(t, n)
  PROVE  AuthorityStep
<1> USE FfiBrokerAssumption DEF IInv, TypeOK, ApproveNavigation, Begin, callVars, histVars
<1>1. OnlyMoves(t) /\ held[t] = NoNonce /\ held'[t] \in {n, NoNonce}
  BY DEF OnlyMoves, HoldsNonce
<1>2. UNCHANGED <<action, issued_actions, consumed_nonces, granted>>
  BY DEF coreVars
<1>3. \A m \in Nonces \ {n} : Kept(m) \/ Withdrawn(m)
  BY <1>1, <1>2, OtherNonce
<1>4. /\ issued_actions[n] = "absent" /\ n \notin consumed_nonces /\ Known(n)
      /\ ~Carried(n, {"consume_validate"}) /\ ~Carried(n, Evaluating)
  BY OnePlaceOnly
<1>5. StatusOf(n) = "awaiting"
  BY <1>4 DEF StatusOf
<1>6. ~Carried(n, {"consume_validate"})' /\ ~Carried(n, Evaluating)'
  BY <1>1, <1>4 DEF Carried, OnlyMoves, Evaluating
<1>7. StatusOf(n)' \in {"awaiting", "void"}
  BY <1>2, <1>4, <1>6 DEF StatusOf, Known
<1> QED
  BY <1>2, <1>3, <1>5, <1>7, Unmoved, WithdrawStep DEF Kept, Withdrawn

LEMMA RejectStep ==
  ASSUME IInv, NEW t \in Threads, NEW n \in Nonces, RejectNavigation(t, n)
  PROVE  AuthorityStep
<1> USE FfiBrokerAssumption DEF IInv, TypeOK, RejectNavigation, callVars
<1>1. OnlyMoves(t) /\ held[t] = NoNonce /\ held'[t] = NoNonce
  BY DEF OnlyMoves, HoldsNonce
<1>2. UNCHANGED <<action, issued_actions, consumed_nonces, granted>>
  BY DEF coreVars
<1>3. \A m \in Nonces : Kept(m) \/ Withdrawn(m)
  BY <1>1, <1>2, OtherNonce
<1> QED
  BY <1>2, <1>3, Unmoved, WithdrawStep

LEMMA ApproveValidateStep ==
  ASSUME IInv, NEW t \in Threads, ApproveValidate(t)
  PROVE  AuthorityStep
<1> USE FfiBrokerAssumption DEF IInv, TypeOK, ApproveValidate
<1> PICK n \in Nonces : n = held[t]
  BY DEF HoldsNonce, Approving
<1>1. OnlyMoves(t) /\ held'[t] \in {n, NoNonce}
  BY DEF OnlyMoves, Continue, Return
<1>2. UNCHANGED <<action, issued_actions, pending_navigation_approvals, consumed_nonces, granted>>
  BY DEF coreVars, ledgers, histVars
<1>3. \A m \in Nonces \ {n} : Kept(m) \/ Withdrawn(m)
  BY <1>1, <1>2, OtherNonce
<1>4. Carried(n, Approving)
  BY DEF Carried, Approving
<1>5. /\ issued_actions[n] = "absent" /\ n \notin consumed_nonces /\ Known(n)
      /\ ~Carried(n, {"consume_validate"}) /\ ~Carried(n, Evaluating)
  BY <1>4, OnePlaceOnly
<1>6. StatusOf(n) = "awaiting"
  BY <1>4, <1>5 DEF StatusOf
<1>7. ~Carried(n, {"consume_validate"})' /\ ~Carried(n, Evaluating)'
  BY <1>1, <1>5 DEF Carried, OnlyMoves, Evaluating, Continue, Return
<1>8. StatusOf(n)' \in {"awaiting", "void"}
  BY <1>2, <1>5, <1>7 DEF StatusOf, Known
<1> QED
  BY <1>2, <1>3, <1>6, <1>8, Unmoved, WithdrawStep DEF Kept, Withdrawn

LEMMA ApproveIssueStep ==
  ASSUME IInv, NEW t \in Threads, ApproveIssue(t)
  PROVE  AuthorityStep
<1> USE FfiBrokerAssumption DEF IInv, TypeOK, ApproveIssue
<1> PICK n \in Nonces : n = held[t]
  BY DEF HoldsNonce, Approving
<1>1. UNCHANGED <<action, pending_navigation_approvals, consumed_nonces, granted>>
  BY DEF coreVars
<1>2. \A m \in Nonces \ {n} : Kept(m) \/ Withdrawn(m)
  BY <1>1, RecordOthers
<1>3. Carried(n, Approving) /\ n \notin pending_navigation_approvals
      /\ \A u \in Threads \ {t} : held[u] = n => pc[u] \notin Approving
  BY DEF Carried, Approving, ApprovalIsExclusive
<1>4. /\ issued_actions[n] = "absent" /\ n \notin consumed_nonces /\ Known(n)
      /\ ~Carried(n, {"consume_validate"}) /\ ~Carried(n, Evaluating)
  BY <1>3, OnePlaceOnly
<1>5. StatusOf(n) = "awaiting"
  BY <1>3, <1>4 DEF StatusOf
<1>6. /\ ~Carried(n, {"consume_validate"})' /\ ~Carried(n, Evaluating)'
      /\ ~Carried(n, Approving)'
  BY <1>3, <1>4 DEF Carried, Return
<1>7. issued_actions'[n] = IF LedgerCanAdmit THEN "pending" ELSE "absent"
  BY <1>4 DEF RecordInLedger
<1>8. StatusOf(n)' = IF LedgerCanAdmit THEN "issued" ELSE "void"
  BY <1>1, <1>3, <1>4, <1>6, <1>7 DEF StatusOf, Known
<1>9. CASE LedgerCanAdmit
  BY <1>1, <1>2, <1>5, <1>8, <1>9, Unmoved, IssueStep
<1>10. CASE ~LedgerCanAdmit
  BY <1>1, <1>2, <1>5, <1>8, <1>10, Unmoved, WithdrawStep DEF Withdrawn
<1> QED
  BY <1>9, <1>10

LEMMA ConsumeNavigationStep ==
  ASSUME IInv, NEW t \in Threads, NEW n \in Nonces, ConsumeNavigation(t, n)
  PROVE  AuthorityStep
<1> USE FfiBrokerAssumption DEF IInv, TypeOK, ConsumeNavigation, Begin
<1>1. /\ UNCHANGED <<ledgers, consumed_nonces, granted>>
      /\ OnlyMoves(t) /\ pc[t] = "idle" /\ pc'[t] = "consume_lookup"
  BY DEF coreVars, OnlyMoves
<1>2. \A m \in Nonces, sections \in {Approving, Evaluating, {"consume_validate"}} :
        Carried(m, sections)' = Carried(m, sections)
  BY <1>1 DEF Carried, OnlyMoves, Approving, Evaluating
<1> QED
  BY <1>1, <1>2, QuietStep

LEMMA ConsumeLookupStep ==
  ASSUME IInv, NEW t \in Threads, ConsumeLookup(t)
  PROVE  AuthorityStep
<1> USE FfiBrokerAssumption DEF IInv, TypeOK, ConsumeLookup
<1> PICK n \in Nonces : n = held[t]
  BY DEF HoldsNonce, Consuming
<1>1. OnlyMoves(t) /\ held'[t] \in {n, NoNonce} /\ pc'[t] \in {"consume_validate", "idle"}
  BY DEF OnlyMoves, Continue, Return
<1>2. UNCHANGED <<action, issued_actions, pending_navigation_approvals, consumed_nonces, granted>>
  BY DEF coreVars, ledgers, histVars
<1>3. \A m \in Nonces \ {n} : Kept(m)
  BY <1>1, <1>2, OthersCarried, UntouchedNonce
<1>4. /\ Carried(n, Approving)' = Carried(n, Approving)
      /\ Carried(n, Evaluating)' = Carried(n, Evaluating)
  BY <1>1 DEF Carried, OnlyMoves, Approving, Evaluating
<1>5. ASSUME issued_actions[n] = "pending" PROVE Kept(n)
  BY <1>2, <1>5 DEF Kept, StatusOf
<1>6. ASSUME issued_actions[n] # "pending" PROVE Kept(n)
  <2>1. Return(t)
    BY <1>6
  <2>2. Carried(n, {"consume_validate"})' = Carried(n, {"consume_validate"})
    BY <2>1 DEF Carried, Return
  <2> QED
    BY <1>2, <1>4, <2>2 DEF Kept, StatusOf
<1> QED
  BY <1>2, <1>3, <1>5, <1>6, Unmoved, WithdrawStep

LEMMA ConsumeValidateStep ==
  ASSUME IInv, NEW t \in Threads, ConsumeValidate(t)
  PROVE  AuthorityStep
<1> USE FfiBrokerAssumption DEF IInv, TypeOK, ConsumeValidate
<1> PICK n \in Nonces : n = held[t]
  BY DEF HoldsNonce, Consuming
<1>1. OnlyMoves(t) /\ held'[t] \in {n, NoNonce} /\ pc'[t] \in {"consume_record", "idle"}
  BY DEF OnlyMoves, Continue, Return
<1>2. /\ UNCHANGED <<action, issued_actions, pending_navigation_approvals, granted>>
      /\ consumed_nonces' \in {consumed_nonces, consumed_nonces \cup {n}}
  BY DEF coreVars, ledgers, histVars, ConsumeNonce
<1>3. \A m \in Nonces \ {n} : Kept(m)
  BY <1>1, <1>2, OthersCarried, UntouchedNonce
<1>4. Carried(n, {"consume_validate"})
  BY DEF Carried
<1>5. Known(n) /\ n \notin pending_navigation_approvals
      /\ ~Carried(n, Evaluating) /\ ~Carried(n, Approving)
  BY <1>4, OnePlaceOnly
<1>6. CASE ConsumeNonce(n)
  <2>1. StatusOf(n) = "issued" /\ StatusOf(n)' = "consumed"
    BY <1>4, <1>6 DEF StatusOf, ConsumeNonce, MayConsume
  <2> QED
    BY <1>2, <1>3, <2>1, Unmoved, ConsumeStep
<1>7. CASE consumed_nonces' = consumed_nonces
  <2>1. ~Carried(n, Evaluating)' /\ ~Carried(n, Approving)'
    BY <1>1, <1>5 DEF Carried, OnlyMoves, Evaluating, Approving
  <2>2. StatusOf(n) \in {"issued", "consumed"}
    BY <1>4 DEF StatusOf
  <2>3. Kept(n) \/ Withdrawn(n)
    BY <1>2, <1>5, <1>7, <2>1, <2>2 DEF Kept, Withdrawn, StatusOf, Known
  <2> QED
    BY <1>2, <1>3, <2>3, Unmoved, WithdrawStep
<1> QED
  BY <1>6, <1>7 DEF coreVars

LEMMA ConsumeRecordStep ==
  ASSUME IInv, NEW t \in Threads, ConsumeRecord(t)
  PROVE  AuthorityStep
<1> USE FfiBrokerAssumption DEF IInv, TypeOK, ConsumeRecord
<1> PICK n \in Nonces : n = held[t]
  BY DEF HoldsNonce, Consuming
<1>1. UNCHANGED <<action, pending_navigation_approvals, consumed_nonces>>
  BY DEF coreVars
<1>2. \A m \in Nonces \ {n} : Kept(m) \/ Withdrawn(m)
  BY <1>1, RecordOthers
<1>3. n \in consumed_nonces /\ granted[n] = 0
  BY DEF RecorderIsUnique
<1>4. StatusOf(n) = "consumed" /\ StatusOf(n)' = "consumed"
  BY <1>1, <1>3 DEF StatusOf
<1>5. CASE LedgerCanAdmit
  <2>1. granted' = [granted EXCEPT ![n] = 1]
    BY <1>3, <1>5
  <2> QED
    BY <1>1, <1>2, <1>3, <1>4, <2>1, Unmoved, GrantStep
<1>6. CASE ~LedgerCanAdmit
  BY <1>1, <1>2, <1>4, <1>6, Unmoved, WithdrawStep DEF Kept
<1> QED
  BY <1>5, <1>6

LEMMA PurgeStep ==
  ASSUME IInv, NEW t \in Threads, PurgeIssued(t) \/ PurgePending(t)
  PROVE  AuthorityStep
<1> USE FfiBrokerAssumption DEF IInv, TypeOK, PurgeIssued, PurgePending
<1>1. OnlyMoves(t) /\ held[t] = NoNonce /\ held'[t] = NoNonce
  BY DEF OnlyMoves, HoldsNonce, Continue, Return, Purging
<1>2. /\ UNCHANGED <<action, consumed_nonces, granted>>
      /\ \A m \in Nonces :
           /\ issued_actions'[m] \in {issued_actions[m], "absent"}
           /\ m \in pending_navigation_approvals' => m \in pending_navigation_approvals
  BY DEF coreVars, histVars
<1>3. \A m \in Nonces : Kept(m) \/ Withdrawn(m)
  BY <1>1, <1>2, OtherNonce
<1> QED
  BY <1>2, <1>3, Unmoved, WithdrawStep

-----------------------------------------------------------------------------

LEMMA AuthorityInit == Init => Authority!Init
BY DEF Init, CoreInit, Authority!Init, StatusOf, Carried, HighRisk, Approving, Evaluating

LEMMA EveryStepIsAllowed == IInv /\ LedgersFit /\ [Next]_vars => AuthorityStep
<1> SUFFICES ASSUME IInv, LedgersFit, [Next]_vars PROVE AuthorityStep
  OBVIOUS
<1>1. ASSUME NEW t \in Threads, Call(t) PROVE AuthorityStep
  <2>1. CASE \E n \in Nonces, s \in Sessions, tab \in Tabs, g \in Generations, host \in Hosts :
               EvaluateNavigation(t, n, s, tab, g, host)
    BY <2>1, EvaluateNavigationStep
  <2>2. CASE \E n \in Nonces : ApproveNavigation(t, n) \/ RejectNavigation(t, n)
                               \/ ConsumeNavigation(t, n)
    BY <2>2, ApproveNavigationStep, RejectStep, ConsumeNavigationStep
  <2>3. CASE \E s \in Sessions :
               \/ \E tab \in Tabs, g \in Generations :
                    \/ \E ttl \in TtlRequests : FfiCreateSession(t, s, tab, g, ttl)
                    \/ FfiAdvanceDocumentGeneration(t, s, tab, g)
               \/ FfiDestroySession(t, s)
    BY <2>3, SessionStep
  <2> QED
    BY <1>1, <2>1, <2>2, <2>3 DEF Call
<1>2. ASSUME NEW t \in Threads, Section(t) PROVE AuthorityStep
  BY <1>2, EvaluateValidateStep, RegisterStep, EvaluateIssueStep, ApproveValidateStep,
     ApproveIssueStep, ConsumeLookupStep, ConsumeValidateStep, ConsumeRecordStep,
     PurgeStep DEF Section, LedgersFit
<1>3. CASE UNCHANGED vars \/ ClockTick \/ \E hosts \in Denylists : UpdateHostDenylist(hosts)
  <2>1. UNCHANGED <<ledgers, consumed_nonces, granted, pc, held>>
    BY <1>3 DEF vars, coreVars, ledgers, callVars, histVars, ClockTick, Tick,
                UpdateHostDenylist
  <2> QED
    BY <2>1, QuietStep DEF Carried
<1> QED
  BY <1>1, <1>2, <1>3 DEF Next

\* The core keeps the promise of NavigationAuthority: an authorization goes once
\* along its life cycle and is granted at most once after its consumption, for
\* any number of threads inside evaluate, approve, reject, consume, create,
\* destroy and advance at once (ffi/broker.rs).
THEOREM AuthorityImplemented == Spec => ImplementsAuthority
BY AuthorityInit, EveryStepIsAllowed, IInvHolds, FitsHolds, PTL
   DEF Spec, ImplementsAuthority, Authority!Spec, AuthorityStep
=============================================================================
