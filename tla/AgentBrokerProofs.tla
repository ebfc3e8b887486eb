------------------------- MODULE AgentBrokerProofs -------------------------
(***************************************************************************)
(* Proofs about AgentBroker for any finite number of threads, any nonces,  *)
(* sessions, tabs and sizes, and any capacity and budget.                  *)
(***************************************************************************)
EXTENDS AgentBroker, FiniteSetTheorems, TLAPS

-----------------------------------------------------------------------------
(* The inductive invariant.                                                *)

\* The replay cache is the end of what was allowed: all of it, or as much as
\* fits.
CacheIsLatest ==
  /\ Len(nonce_cache) <= Len(log)
  /\ Len(nonce_cache) < NonceCacheCapacity => Len(nonce_cache) = Len(log)
  /\ \A k \in DOMAIN nonce_cache :
       nonce_cache[k] = log[Len(log) - Len(nonce_cache) + k].nonce

\* An evaluation past its budget check fits, until its session is allowed
\* something else.
ChecksStillFit ==
  \A t \in Threads :
    pc[t] = "commit" /\ OverBudget(act[t]) => Allowed(act[t].session) # {}

\* The evaluations that have the kill switch behind them.
PastRevoked == {t \in Threads : pc[t] \in {"budget", "commit"}}

\* What was promised at revoke covers those that may still be allowed.
AllowanceCovers == revoked => Len(log) + Cardinality(PastRevoked) <= allowance

AgentInv ==
  /\ TypeOK
  /\ CacheIsLatest /\ OneShotInWindow
  /\ ChecksStillFit /\ BudgetIsKept /\ OnlyAllowedActionsBind
  /\ AllowanceCovers

-----------------------------------------------------------------------------
(* Lemmas about the operators.                                             *)

\* What the cache keeps is the end of what it is given, at most a cache full.
LEMMA NewestIsSuffix ==
  ASSUME NEW q \in Seq(ActionNonces)
  PROVE  /\ Newest(q) \in Seq(ActionNonces)
         /\ Len(Newest(q)) = IF Len(q) <= NonceCacheCapacity
                             THEN Len(q) ELSE NonceCacheCapacity
         /\ \A k \in 1..Len(Newest(q)) :
              Newest(q)[k] = q[Len(q) - Len(Newest(q)) + k]
<1> DEFINE excess == Len(q) - NonceCacheCapacity
<1>0. NonceCacheCapacity \in Nat /\ NonceCacheCapacity >= 1 /\ Len(q) \in Nat
  BY AgentBrokerAssumption
<1>1. CASE excess > 0
  <2>1. Newest(q) = SubSeq(q, 1 + excess, Len(q))
    BY <1>1 DEF Newest
  <2>2. Len(Newest(q)) = NonceCacheCapacity /\ Newest(q) \in Seq(ActionNonces)
    BY <1>0, <1>1, <2>1
  <2>3. \A k \in 1..NonceCacheCapacity : Newest(q)[k] = q[excess + k]
    BY <1>0, <1>1, <2>1
  <2> QED
    BY <1>0, <1>1, <2>2, <2>3
<1>2. CASE ~(excess > 0)
  BY <1>0, <1>2 DEF Newest
<1> QED
  BY <1>1, <1>2

LEMMA AllowedIsFinite ==
  ASSUME TypeOK, NEW s \in AgentSessions
  PROVE  IsFiniteSet(Allowed(s)) /\ Cardinality(Allowed(s)) \in Nat
<1>1. IsFiniteSet(1..Len(log))
  BY FS_Interval DEF TypeOK
<1>2. Allowed(s) \subseteq 1..Len(log)
  BY DEF Allowed, TypeOK
<1> QED
  BY <1>1, <1>2, FS_Subset, FS_CardinalityType

LEMMA PastRevokedIsFinite == IsFiniteSet(PastRevoked)
BY AgentBrokerAssumption, FS_Subset DEF PastRevoked

\* Position i of n is before the last kept ones, which are all or cap at least:
\* then position n + 1 is more than cap away.
LEMMA OldIsFar ==
  ASSUME NEW n \in Nat, NEW kept \in Nat, NEW cap \in Nat, NEW i \in 1..n,
         kept <= n, kept < cap => kept = n, \A k \in 1..kept : n - kept + k # i
  PROVE  n + 1 - i > cap
<1>1. i \in Nat /\ 1 <= i /\ i <= n
  OBVIOUS
<1>2. CASE i - (n - kept) \in 1..kept
  <2>1. n - kept + (i - (n - kept)) = i
    BY <1>1
  <2> QED
    BY <1>2, <2>1
<1>3. i - (n - kept) < 1
  BY <1>1, <1>2
<1>4. kept >= cap
  BY <1>1, <1>3
<1> QED
  BY <1>1, <1>3, <1>4

LEMMA LogEntry ==
  ASSUME TypeOK, NEW i \in 1..Len(log)
  PROVE  log[i].tab \in AgentTabs
<1> DEFINE entries == [nonce : ActionNonces, session : AgentSessions, tab : AgentTabs]
<1>1. log \in Seq(entries)
  BY DEF TypeOK
<1> HIDE DEF entries
<1>2. log[i] \in entries
  BY <1>1
<1> QED
  BY <1>2 DEF entries

\* What one more allowed action changes.
LEMMA ConsumeEffect ==
  ASSUME TypeOK, NEW a \in Actions, Consume(a)
  PROVE  /\ log' \in Seq([nonce : ActionNonces, session : AgentSessions, tab : AgentTabs])
         /\ Len(log') = Len(log) + 1
         /\ \A i \in 1..Len(log) : log'[i] = log[i]
         /\ log'[Len(log) + 1] = [nonce |-> a.nonce, session |-> a.session, tab |-> a.tab]
         /\ \A s \in AgentSessions :
              Allowed(s)' = IF s = a.session THEN Allowed(s) \cup {Len(log) + 1}
                            ELSE Allowed(s)
<1>1. [nonce |-> a.nonce, session |-> a.session, tab |-> a.tab]
        \in [nonce : ActionNonces, session : AgentSessions, tab : AgentTabs]
  BY DEF Actions
<1>2. /\ log' \in Seq([nonce : ActionNonces, session : AgentSessions, tab : AgentTabs])
      /\ Len(log') = Len(log) + 1
      /\ \A i \in 1..Len(log) : log'[i] = log[i]
      /\ log'[Len(log) + 1] = [nonce |-> a.nonce, session |-> a.session, tab |-> a.tab]
  BY <1>1 DEF Consume, TypeOK
<1>3. ASSUME NEW s \in AgentSessions
      PROVE  Allowed(s)' = IF s = a.session THEN Allowed(s) \cup {Len(log) + 1}
                           ELSE Allowed(s)
  <2>1. DOMAIN log = 1..Len(log) /\ DOMAIN log' = 1..(Len(log) + 1) /\ Len(log) \in Nat
    BY <1>2 DEF TypeOK
  <2>2. log'[Len(log) + 1].session = a.session
    BY <1>2
  <2> QED
    BY <1>2, <2>1, <2>2 DEF Allowed
<1> QED
  BY <1>2, <1>3

-----------------------------------------------------------------------------
(* Initial states and type correctness.                                    *)

LEMMA InitAgentInv == Init => AgentInv
<1> SUFFICES ASSUME Init PROVE AgentInv
  OBVIOUS
<1>1. TypeOK
  <2>1. /\ nonce_cache \in Seq(ActionNonces) /\ Len(nonce_cache) = 0
        /\ log \in Seq([nonce : ActionNonces, session : AgentSessions, tab : AgentTabs]) /\ Len(log) = 0
    BY DEF Init
  <2>2. current_generation \in AgentGenerations /\ generation_read \in [Threads -> AgentGenerations]
    BY AgentBrokerAssumption DEF Init, AgentGenerations
  <2>3. /\ pc \in [Threads -> {"idle", "advance"} \cup Checks]
        /\ act \in [Threads -> Actions \cup {NoAction}]
        /\ \A t \in Threads : pc[t] \in Checks <=> act[t] \in Actions
    BY AgentBrokerAssumption DEF Init, Checks
  <2>4. /\ session_actions \in [AgentSessions -> Nat] /\ session_bytes \in [AgentSessions -> Nat]
        /\ session_tabs \in [AgentSessions -> AgentTabs \cup {NoTab}]
        /\ revoked \in BOOLEAN /\ allowance \in Nat
    BY DEF Init
  <2> QED
    BY <2>1, <2>2, <2>3, <2>4, AgentBrokerAssumption DEF TypeOK
<1>2. \A s \in AgentSessions : Allowed(s) = {}
  BY DEF Init, Allowed
<1>3. CacheIsLatest /\ OneShotInWindow /\ ChecksStillFit /\ AllowanceCovers
  BY AgentBrokerAssumption
     DEF Init, CacheIsLatest, OneShotInWindow, ChecksStillFit, AllowanceCovers
<1>4. BudgetIsKept
  <2>1. ASSUME NEW s \in AgentSessions PROVE session_actions[s] = Cardinality(Allowed(s))
    BY <1>2, FS_EmptySet DEF Init
  <2> QED
    BY <2>1, AgentBrokerAssumption DEF Init, BudgetIsKept
<1>5. OnlyAllowedActionsBind
  BY <1>2 DEF Init, OnlyAllowedActionsBind
<1> QED
  BY <1>1, <1>3, <1>4, <1>5 DEF AgentInv

\* An unlocked check is passed, or answers a denial.
LEMMA CheckType ==
  ASSUME TypeOK, NEW t \in Threads, NEW check \in Checks, NEW passes \in BOOLEAN,
         NEW next \in Checks, Check(t, check, passes, next)
  PROVE  TypeOK'
BY AgentBrokerAssumption DEF Check, Answer, TypeOK, state, Checks

LEMMA CommitType ==
  ASSUME TypeOK, NEW t \in Threads, Commit(t)
  PROVE  TypeOK'
<1> DEFINE a == act[t]
<1>1. a \in Actions /\ pc[t] = "commit"
  BY DEF Commit, TypeOK, Checks
<1>2. /\ a.nonce \in ActionNonces /\ a.session \in AgentSessions /\ a.tab \in AgentTabs
      /\ a.max_bytes \in Nat
  BY <1>1, AgentBrokerAssumption DEF Actions
<1>3. /\ pc' \in [Threads -> {"idle", "advance"} \cup Checks]
      /\ act' \in [Threads -> Actions \cup {NoAction}]
      /\ \A u \in Threads : pc'[u] \in Checks <=> act'[u] \in Actions
  BY <1>1, AgentBrokerAssumption DEF Commit, Answer, TypeOK, Checks
<1>4. session_tabs' \in [AgentSessions -> AgentTabs \cup {NoTab}]
  BY <1>2 DEF Commit, TypeOK, state
<1>5. ASSUME Consume(a)
      PROVE  /\ nonce_cache' \in Seq(ActionNonces)
             /\ Len(nonce_cache') <= NonceCacheCapacity
             /\ session_actions' \in [AgentSessions -> Nat]
             /\ session_bytes' \in [AgentSessions -> Nat]
             /\ log' \in Seq([nonce : ActionNonces, session : AgentSessions, tab : AgentTabs])
  <2>1. Append(nonce_cache, a.nonce) \in Seq(ActionNonces)
    BY <1>2 DEF TypeOK
  <2>2. /\ Newest(Append(nonce_cache, a.nonce)) \in Seq(ActionNonces)
        /\ Len(Newest(Append(nonce_cache, a.nonce))) <= NonceCacheCapacity
    <3>1. ASSUME NEW q \in Seq(ActionNonces)
          PROVE  Newest(q) \in Seq(ActionNonces) /\ Len(Newest(q)) <= NonceCacheCapacity
      <4>1. Len(q) \in Nat
        OBVIOUS
      <4> QED
        BY <4>1, NewestIsSuffix, AgentBrokerAssumption
    <3> QED
      BY <2>1, <3>1
  <2>3. log' \in Seq([nonce : ActionNonces, session : AgentSessions, tab : AgentTabs])
    BY <1>1, <1>5, ConsumeEffect
  <2> QED
    BY <1>2, <1>5, <2>2, <2>3 DEF Consume, TypeOK
<1>6. \/ UNCHANGED <<nonce_cache, session_actions, session_bytes, log>>
      \/ Consume(a)
  BY DEF Commit, state
<1> QED
  BY <1>3, <1>4, <1>5, <1>6 DEF Commit, TypeOK

LEMMA TypeStep ==
  ASSUME TypeOK, [Next]_vars
  PROVE  TypeOK'
<1>1. CASE UNCHANGED vars
  BY <1>1 DEF vars, state, TypeOK
<1>2. ASSUME NEW t \in Threads, NEW a \in Actions, Evaluate(t, a) PROVE TypeOK'
  BY <1>2, AgentBrokerAssumption DEF Evaluate, state, TypeOK, Checks
<1>3. ASSUME NEW t \in Threads,
             CheckGeneration(t) \/ CheckTab(t) \/ CheckRevoked(t) \/ CheckBudget(t)
      PROVE TypeOK'
  <2>1. CASE CheckGeneration(t)
    BY <2>1, CheckType DEF CheckGeneration, Checks
  <2>2. CASE CheckTab(t)
    BY <2>2, CheckType DEF CheckTab, Checks
  <2>3. CASE CheckRevoked(t)
    BY <2>3, CheckType DEF CheckRevoked, Checks, TypeOK
  <2>4. CASE CheckBudget(t)
    BY <2>4, CheckType DEF CheckBudget, Checks
  <2> QED
    BY <1>3, <2>1, <2>2, <2>3, <2>4
<1>4. ASSUME NEW t \in Threads, Commit(t) PROVE TypeOK'
  BY <1>4, CommitType
<1>5. ASSUME NEW t \in Threads, NEW g \in AgentGenerations, AdvanceRead(t, g) PROVE TypeOK'
  BY <1>5 DEF AdvanceRead, state, TypeOK, Checks
<1>6. ASSUME NEW t \in Threads, AdvanceStore(t) PROVE TypeOK'
  BY <1>6, AgentBrokerAssumption DEF AdvanceStore, state, TypeOK, Checks, AgentGenerations
<1>7. CASE Revoke
  <2>1. IsFiniteSet({t \in Threads : pc[t] \in Checks})
    BY AgentBrokerAssumption, FS_Subset
  <2>2. allowance' \in Nat
    BY <1>7, <2>1, FS_CardinalityType DEF Revoke, TypeOK
  <2> QED
    BY <1>7, <2>2 DEF Revoke, state, TypeOK
<1> QED
  BY <1>1, <1>2, <1>3, <1>4, <1>5, <1>6, <1>7 DEF Next

-----------------------------------------------------------------------------
(* An action is allowed: what Consume keeps.                               *)

LEMMA ConsumeCache ==
  ASSUME TypeOK, CacheIsLatest, NEW a \in Actions, Consume(a)
  PROVE  CacheIsLatest'
<1> DEFINE q == Append(nonce_cache, a.nonce)
           new == nonce_cache'
<1>1. /\ q \in Seq(ActionNonces) /\ Len(q) = Len(nonce_cache) + 1
      /\ \A k \in 1..Len(nonce_cache) : q[k] = nonce_cache[k]
      /\ q[Len(nonce_cache) + 1] = a.nonce
      /\ Len(nonce_cache) \in Nat /\ DOMAIN nonce_cache = 1..Len(nonce_cache)
  BY DEF TypeOK, Actions
<1>2. /\ new \in Seq(ActionNonces)
      /\ Len(new) = IF Len(q) <= NonceCacheCapacity THEN Len(q) ELSE NonceCacheCapacity
      /\ \A k \in 1..Len(new) : new[k] = q[Len(q) - Len(new) + k]
  <2>1. new = Newest(q)
    BY DEF Consume
  <2> QED
    BY <1>1, <2>1, NewestIsSuffix
<1>3. /\ Len(log') = Len(log) + 1 /\ Len(log) \in Nat
      /\ \A i \in 1..Len(log) : log'[i] = log[i]
      /\ log'[Len(log) + 1].nonce = a.nonce
  <2>1. Len(log) \in Nat
    BY DEF TypeOK
  <2>2. log'[Len(log) + 1] = [nonce |-> a.nonce, session |-> a.session, tab |-> a.tab]
    BY ConsumeEffect
  <2> QED
    BY <2>1, <2>2, ConsumeEffect
<1>4. /\ NonceCacheCapacity \in Nat /\ Len(new) \in Nat
      /\ Len(nonce_cache) <= NonceCacheCapacity
  BY <1>2, AgentBrokerAssumption DEF TypeOK
<1> HIDE DEF q, new
<1>a. Len(q) \in Nat /\ Len(new) <= Len(q)
  BY <1>1, <1>2, <1>4
<1>5. Len(new) <= Len(log') /\ (Len(new) < NonceCacheCapacity => Len(new) = Len(log'))
  BY <1>1, <1>2, <1>3, <1>4 DEF CacheIsLatest
<1>6. ASSUME NEW k \in 1..Len(new)
      PROVE  new[k] = log'[Len(log') - Len(new) + k].nonce
  <2> DEFINE j == Len(q) - Len(new) + k
  <2>1. new[k] = q[j] /\ j \in 1..Len(q)
    <3>1. new[k] = q[j]
      BY <1>2
    <3> QED
      BY <1>4, <1>a, <3>1
  <2>2. Len(log') - Len(new) + k = Len(log) - Len(nonce_cache) + j
    BY <1>1, <1>3, <1>4
  <2>3. CASE j = Len(nonce_cache) + 1
    BY <1>1, <1>3, <2>1, <2>2, <2>3
  <2>4. CASE j \in 1..Len(nonce_cache)
    <3>1. Len(log) - Len(nonce_cache) + j \in 1..Len(log)
      BY <1>1, <1>3, <2>4 DEF CacheIsLatest
    <3>2. q[j] = nonce_cache[j] /\ j \in DOMAIN nonce_cache
      BY <1>1, <2>4, Zenon
    <3>3. nonce_cache[j] = log[Len(log) - Len(nonce_cache) + j].nonce
      BY <3>2, Zenon DEF CacheIsLatest
    <3>4. log'[Len(log) - Len(nonce_cache) + j] = log[Len(log) - Len(nonce_cache) + j]
      BY <1>3, <3>1, Zenon
    <3> QED
      BY <2>1, <2>2, <3>2, <3>3, <3>4, Zenon
  <2> QED
    BY <1>1, <1>a, <2>1, <2>3, <2>4, SMTT(30)
<1>7. DOMAIN new = 1..Len(new)
  BY <1>2
<1> QED
  BY <1>5, <1>6, <1>7 DEF CacheIsLatest, new

LEMMA ConsumeWindow ==
  ASSUME TypeOK, CacheIsLatest, OneShotInWindow, NEW a \in Actions, Consume(a),
         a.nonce \notin Remembered
  PROVE  OneShotInWindow'
<1>0. Len(log) \in Nat /\ DOMAIN log = 1..Len(log)
  BY DEF TypeOK
<1>1. /\ DOMAIN log' = 1..(Len(log) + 1)
      /\ \A i \in 1..Len(log) : log'[i] = log[i]
      /\ log'[Len(log) + 1].nonce = a.nonce
  <2>1. log'[Len(log) + 1] = [nonce |-> a.nonce, session |-> a.session, tab |-> a.tab]
    BY ConsumeEffect
  <2> QED
    BY <1>0, <2>1, ConsumeEffect
<1>2. ASSUME NEW i \in 1..Len(log), log[i].nonce = a.nonce
      PROVE  Len(log) + 1 - i > NonceCacheCapacity
  <2> DEFINE kept == Len(nonce_cache)
  <2>1. kept \in Nat /\ DOMAIN nonce_cache = 1..kept /\ NonceCacheCapacity \in Nat
        /\ kept <= Len(log)
        /\ (kept < NonceCacheCapacity => kept = Len(log))
    BY AgentBrokerAssumption DEF TypeOK, CacheIsLatest
  <2>2. \A k \in 1..kept : Len(log) - kept + k # i
    <3> SUFFICES ASSUME NEW k \in 1..kept, Len(log) - kept + k = i PROVE FALSE
      OBVIOUS
    <3>1. nonce_cache[k] = a.nonce
      BY <1>2, <2>1 DEF CacheIsLatest
    <3> QED
      BY <2>1, <3>1 DEF Remembered
  <2> HIDE DEF kept
  <2> QED
    BY <1>0, <2>1, <2>2, OldIsFar
<1>3. SUFFICES ASSUME NEW i \in 1..(Len(log) + 1), NEW j \in 1..(Len(log) + 1), i < j,
                      log'[i].nonce = log'[j].nonce
               PROVE  j - i > NonceCacheCapacity
  BY <1>1 DEF OneShotInWindow
<1>4. CASE j = Len(log) + 1
  <2>1. i \in 1..Len(log)
    BY <1>0, <1>3, <1>4
  <2> QED
    BY <1>1, <1>2, <1>3, <1>4, <2>1
<1>5. CASE j \in 1..Len(log)
  <2>1. i \in 1..Len(log)
    BY <1>0, <1>3, <1>5
  <2> QED
    BY <1>0, <1>1, <1>3, <1>5, <2>1 DEF OneShotInWindow
<1> QED
  BY <1>0, <1>4, <1>5

LEMMA ConsumeBudget ==
  ASSUME TypeOK, BudgetIsKept, NEW a \in Actions, Consume(a), ~OverBudget(a)
  PROVE  BudgetIsKept'
<1>1. a.session \in AgentSessions /\ a.max_bytes \in Nat
  BY AgentBrokerAssumption DEF Actions
<1>2. SUFFICES ASSUME NEW s \in AgentSessions
               PROVE  /\ session_actions'[s] = Cardinality(Allowed(s)')
                      /\ session_actions'[s] <= MaxActions /\ session_bytes'[s] <= MaxBytes
  BY DEF BudgetIsKept, Allowed
<1>3. CASE s = a.session
  <2>1. Allowed(s)' = Allowed(s) \cup {Len(log) + 1}
    BY <1>3, ConsumeEffect
  <2>2. Len(log) + 1 \notin Allowed(s)
    BY DEF Allowed, TypeOK
  <2>3. Cardinality(Allowed(s)') = Cardinality(Allowed(s)) + 1
    BY <2>1, <2>2, AllowedIsFinite, FS_AddElement
  <2>4. /\ session_actions'[s] = session_actions[s] + 1
        /\ session_bytes'[s] = session_bytes[s] + a.max_bytes
    BY <1>1, <1>3 DEF Consume, TypeOK
  <2>5. session_actions[s] = Cardinality(Allowed(s))
    BY DEF BudgetIsKept
  <2>6. session_actions[s] + 1 <= MaxActions /\ session_bytes[s] + a.max_bytes <= MaxBytes
    BY <1>1, <1>3, AgentBrokerAssumption DEF OverBudget, TypeOK
  <2> QED
    BY <2>3, <2>4, <2>5, <2>6
<1>4. CASE s # a.session
  <2>1. Allowed(s)' = Allowed(s)
    BY <1>4, ConsumeEffect
  <2>2. session_actions'[s] = session_actions[s] /\ session_bytes'[s] = session_bytes[s]
    BY <1>1, <1>4 DEF Consume, TypeOK
  <2> QED
    BY <2>1, <2>2 DEF BudgetIsKept
<1> QED
  BY <1>3, <1>4

LEMMA ConsumeBinds ==
  ASSUME TypeOK, OnlyAllowedActionsBind, NEW a \in Actions, Consume(a),
         ~BoundElsewhere(a), session_tabs' = [session_tabs EXCEPT ![a.session] = a.tab]
  PROVE  OnlyAllowedActionsBind'
<1>1. a.session \in AgentSessions /\ a.tab \in AgentTabs
  BY DEF Actions
<1>2. SUFFICES ASSUME NEW s \in AgentSessions
               PROVE  /\ session_tabs'[s] # NoTab => Allowed(s)' # {}
                      /\ \A i \in Allowed(s)' : log'[i].tab = session_tabs'[s]
  BY DEF OnlyAllowedActionsBind, Allowed
<1>3. /\ Allowed(s) \subseteq 1..Len(log)
      /\ session_tabs[s] # NoTab => Allowed(s) # {}
      /\ \A i \in Allowed(s) : log'[i].tab = session_tabs[s] /\ log'[i].tab \in AgentTabs
  <2>1. /\ Allowed(s) \subseteq 1..Len(log)
        /\ \A i \in 1..Len(log) : log[i].tab \in AgentTabs
    BY LogEntry DEF Allowed, TypeOK
  <2>2. \A i \in 1..Len(log) : log'[i] = log[i]
    BY ConsumeEffect
  <2> QED
    BY <2>1, <2>2 DEF OnlyAllowedActionsBind
<1>4. CASE s = a.session
  <2>1. Allowed(s)' = Allowed(s) \cup {Len(log) + 1} /\ session_tabs'[s] = a.tab
    BY <1>1, <1>4, ConsumeEffect DEF TypeOK
  <2>2. log'[Len(log) + 1].tab = a.tab
    <3>1. log'[Len(log) + 1] = [nonce |-> a.nonce, session |-> a.session, tab |-> a.tab]
      BY ConsumeEffect
    <3> QED
      BY <3>1
  <2>3. session_tabs[s] \in {NoTab, a.tab}
    BY <1>4 DEF BoundElsewhere
  <2> QED
    BY <1>3, <2>1, <2>2, <2>3, AgentBrokerAssumption
<1>5. CASE s # a.session
  <2>1. Allowed(s)' = Allowed(s)
    BY <1>5, ConsumeEffect, Zenon
  <2>2. session_tabs'[s] = session_tabs[s]
    BY <1>1, <1>5 DEF TypeOK
  <2> QED
    BY <1>3, <2>1, <2>2, Zenon
<1> QED
  BY <1>4, <1>5

-----------------------------------------------------------------------------
(* Each action keeps the invariant.                                        *)

\* What reads nothing but the state is kept by every action that leaves it.
LEMMA StateKept ==
  ASSUME AgentInv, UNCHANGED state
  PROVE  CacheIsLatest' /\ OneShotInWindow' /\ BudgetIsKept' /\ OnlyAllowedActionsBind'
<1>1. \A s \in AgentSessions : Allowed(s)' = Allowed(s)
  BY DEF Allowed, state
<1> QED
  BY <1>1 DEF AgentInv, state, CacheIsLatest, OneShotInWindow, BudgetIsKept,
              OnlyAllowedActionsBind

\* Evaluations that have not come to the kill switch, and those that answer,
\* leave fewer that may be allowed.
LEMMA FewerPastRevoked ==
  ASSUME AgentInv, UNCHANGED <<log, revoked, allowance>>, PastRevoked' \subseteq PastRevoked
  PROVE  AllowanceCovers'
<1>1. Cardinality(PastRevoked') <= Cardinality(PastRevoked)
  BY PastRevokedIsFinite, FS_Subset
<1>2. Cardinality(PastRevoked) \in Nat /\ Cardinality(PastRevoked') \in Nat
  BY PastRevokedIsFinite, FS_Subset, FS_CardinalityType
<1> QED
  BY <1>1, <1>2 DEF AgentInv, AllowanceCovers, TypeOK

\* No evaluation comes past its budget check, and none is allowed.
LEMMA FitsKept ==
  ASSUME AgentInv, UNCHANGED state,
         \A t \in Threads : pc'[t] = "commit" => pc[t] = "commit" /\ act'[t] = act[t]
  PROVE  ChecksStillFit'
BY DEF AgentInv, ChecksStillFit, OverBudget, Allowed, state

\* The three checks that are not the last one.
LEMMA EarlyCheckInv ==
  ASSUME AgentInv, TypeOK', NEW t \in Threads,
         CheckGeneration(t) \/ CheckTab(t) \/ CheckRevoked(t)
  PROVE  AgentInv'
<1>1. UNCHANGED <<state, revoked, allowance>>
  BY DEF CheckGeneration, CheckTab, CheckRevoked, Check
<1>2. \A u \in Threads : pc'[u] = "commit" => pc[u] = "commit" /\ act'[u] = act[u]
  BY DEF CheckGeneration, CheckTab, CheckRevoked, Check, Answer, AgentInv, TypeOK
<1>3. revoked => PastRevoked' \subseteq PastRevoked
  BY DEF CheckGeneration, CheckTab, CheckRevoked, Check, Answer, AgentInv, TypeOK,
         PastRevoked
<1>4. AllowanceCovers'
  <2>1. CASE revoked
    BY <1>1, <1>3, <2>1, FewerPastRevoked DEF state
  <2>2. CASE ~revoked
    BY <1>1, <2>2 DEF AllowanceCovers
  <2> QED
    BY <2>1, <2>2
<1> QED
  BY <1>1, <1>2, <1>4, StateKept, FitsKept DEF AgentInv

LEMMA BudgetCheckInv ==
  ASSUME AgentInv, TypeOK', NEW t \in Threads, CheckBudget(t)
  PROVE  AgentInv'
<1>1. UNCHANGED <<state, revoked, allowance>>
  BY DEF CheckBudget, Check
<1>2. PastRevoked' \subseteq PastRevoked
  BY DEF CheckBudget, Check, Answer, AgentInv, TypeOK, PastRevoked
<1>3. ChecksStillFit'
  <2>1. ASSUME NEW u \in Threads, pc'[u] = "commit", OverBudget(act[u])',
               u # t \/ pc'[t] = "idle"
        PROVE  Allowed(act[u].session)' # {}
    <3>1. pc[u] = "commit" /\ act'[u] = act[u]
      BY <2>1 DEF CheckBudget, Check, Answer, AgentInv, TypeOK
    <3> QED
      BY <1>1, <2>1, <3>1 DEF AgentInv, ChecksStillFit, OverBudget, Allowed, state
  <2>2. CASE ~OverBudget(act[t]) /\ UNCHANGED act
    <3>1. ~OverBudget(act[t])'
      BY <1>1, <2>2 DEF OverBudget, state
    <3> QED
      BY <2>1, <3>1 DEF ChecksStillFit
  <2>3. CASE Answer(t)
    BY <2>1, <2>3 DEF ChecksStillFit, Answer, AgentInv, TypeOK
  <2> QED
    BY <2>2, <2>3 DEF CheckBudget, Check
<1> QED
  BY <1>1, <1>2, <1>3, StateKept, FewerPastRevoked DEF AgentInv, state

\* An action that leaves the state, and adds nothing to what is past the kill
\* switch.
LEMMA OtherInv ==
  ASSUME AgentInv, TypeOK', UNCHANGED <<state, revoked, allowance>>,
         \A t \in Threads :
           pc'[t] \in {"budget", "commit"} => pc'[t] = pc[t] /\ act'[t] = act[t]
  PROVE  AgentInv'
<1>1. PastRevoked' \subseteq PastRevoked
  BY DEF PastRevoked
<1> QED
  BY <1>1, StateKept, FitsKept, FewerPastRevoked DEF AgentInv, state

LEMMA RevokeInv ==
  ASSUME AgentInv, TypeOK', Revoke
  PROVE  AgentInv'
<1> DEFINE inflight == {t \in Threads : pc[t] \in Checks}
<1>1. IsFiniteSet(inflight) /\ PastRevoked' \subseteq inflight
  BY AgentBrokerAssumption, FS_Subset DEF PastRevoked, Revoke, Checks
<1>2. /\ Cardinality(PastRevoked') <= Cardinality(inflight)
      /\ Cardinality(inflight) \in Nat /\ Cardinality(PastRevoked') \in Nat
  BY <1>1, FS_Subset, FS_CardinalityType
<1>3. allowance' = Len(log) + Cardinality(inflight) /\ Len(log) \in Nat /\ log' = log
  BY DEF Revoke, AgentInv, TypeOK, state
<1> HIDE DEF inflight
<1>4. AllowanceCovers'
  BY <1>2, <1>3 DEF AllowanceCovers
<1> QED
  BY <1>4, StateKept, FitsKept DEF AgentInv, Revoke

\* Only what is allowed ends the room of others, and it ends it for its session.
LEMMA CommitFits ==
  ASSUME AgentInv, NEW t \in Threads, Commit(t)
  PROVE  ChecksStillFit'
<1> DEFINE a == act[t]
<1>1. a \in Actions
  BY DEF Commit, AgentInv, TypeOK, Checks
<1>2. SUFFICES ASSUME NEW u \in Threads, pc'[u] = "commit", OverBudget(act[u])'
               PROVE  Allowed(act[u].session)' # {}
  BY DEF ChecksStillFit
<1>3. pc[u] = "commit" /\ act'[u] = act[u] /\ act[u] \in Actions
  BY <1>2 DEF Commit, Answer, AgentInv, TypeOK, Checks
<1>4. CASE UNCHANGED <<session_actions, session_bytes, log>>
  BY <1>2, <1>3, <1>4 DEF AgentInv, ChecksStillFit, OverBudget, Allowed
<1>5. CASE Consume(a)
  <2>1. act[u].session \in AgentSessions
    BY <1>3 DEF Actions
  <2>2. Allowed(act[u].session)' = IF act[u].session = a.session
                                   THEN Allowed(act[u].session) \cup {Len(log) + 1}
                                   ELSE Allowed(act[u].session)
    <3>1. \A s \in AgentSessions : {i \in DOMAIN log' : log'[i].session = s}
            = IF s = a.session THEN Allowed(s) \cup {Len(log) + 1} ELSE Allowed(s)
      BY <1>1, <1>5, ConsumeEffect DEF AgentInv, Allowed
    <3> QED
      BY <1>3, <2>1, <3>1 DEF Allowed
  <2>3. CASE act[u].session = a.session
    BY <2>2, <2>3
  <2>4. CASE act[u].session # a.session
    <3>1. OverBudget(act[u])
      BY <1>1, <1>2, <1>3, <1>5, <2>1, <2>4 DEF OverBudget, Consume, AgentInv, TypeOK
    <3>2. Allowed(act[u].session) # {}
      BY <1>3, <3>1 DEF AgentInv, ChecksStillFit
    <3> QED
      BY <2>2, <2>4, <3>2
  <2> QED
    BY <2>3, <2>4
<1>6. Consume(a) \/ UNCHANGED <<session_actions, session_bytes, log>>
  BY DEF Commit, state
<1> QED
  BY <1>4, <1>5, <1>6

\* The evaluation that is allowed was one of those counted.
LEMMA CommitAllowance ==
  ASSUME AgentInv, NEW t \in Threads, Commit(t)
  PROVE  AllowanceCovers'
<1>1. PastRevoked' = PastRevoked \ {t} /\ t \in PastRevoked
  BY DEF Commit, Answer, PastRevoked, AgentInv, TypeOK
<1>2. /\ Cardinality(PastRevoked') = Cardinality(PastRevoked) - 1
      /\ Cardinality(PastRevoked) \in Nat
  BY <1>1, PastRevokedIsFinite, FS_RemoveElement, FS_CardinalityType
<1>3. Len(log) \in Nat /\ Len(log') \in Nat /\ Len(log') <= Len(log) + 1
  <2>1. act[t] \in Actions
    BY DEF Commit, AgentInv, TypeOK, Checks
  <2>2. Len(log) \in Nat
    BY DEF AgentInv, TypeOK
  <2>3. CASE Consume(act[t])
    <3>1. Len(log') = Len(log) + 1
      BY <2>1, <2>3, ConsumeEffect DEF AgentInv
    <3> QED
      BY <2>2, <3>1
  <2>4. CASE UNCHANGED log
    BY <2>2, <2>4
  <2> QED
    BY <2>3, <2>4 DEF Commit, state
<1>4. UNCHANGED <<revoked, allowance>> /\ allowance \in Nat
  BY DEF Commit, AgentInv, TypeOK
<1> QED
  BY <1>2, <1>3, <1>4 DEF AgentInv, AllowanceCovers

LEMMA CommitInv ==
  ASSUME AgentInv, TypeOK', NEW t \in Threads, Commit(t)
  PROVE  AgentInv'
<1> DEFINE a == act[t]
<1>1. a \in Actions
  BY DEF Commit, AgentInv, TypeOK, Checks
<1>2. CASE UNCHANGED state
  BY <1>2, StateKept, CommitFits, CommitAllowance DEF AgentInv
<1>3. CASE /\ ~BoundElsewhere(a) /\ OverBudget(a)
           /\ session_tabs' = [session_tabs EXCEPT ![a.session] = a.tab]
           /\ UNCHANGED <<nonce_cache, session_actions, session_bytes, log>>
  <2>1. Allowed(a.session) # {} /\ a.session \in AgentSessions
    BY <1>1, <1>3 DEF Commit, AgentInv, ChecksStillFit, Actions
  <2>2. session_tabs[a.session] \in AgentTabs
    <3>1. PICK i \in Allowed(a.session) : log[i].tab = session_tabs[a.session]
      BY <2>1 DEF AgentInv, OnlyAllowedActionsBind
    <3>2. TypeOK /\ i \in DOMAIN log
      BY <3>1 DEF AgentInv, Allowed
    <3>3. DOMAIN log = 1..Len(log)
      BY <3>2 DEF TypeOK
    <3> QED
      BY <3>1, <3>2, <3>3, LogEntry
  <2>3. session_tabs' = session_tabs
    BY <1>3, <2>1, <2>2, AgentBrokerAssumption DEF BoundElsewhere, AgentInv, TypeOK
  <2> QED
    BY <1>3, <2>3, StateKept, CommitFits, CommitAllowance DEF AgentInv, state
<1>4. CASE /\ a.nonce \notin Remembered /\ ~BoundElsewhere(a) /\ ~OverBudget(a)
           /\ session_tabs' = [session_tabs EXCEPT ![a.session] = a.tab]
           /\ Consume(a)
  BY <1>1, <1>4, ConsumeCache, ConsumeWindow, ConsumeBudget, ConsumeBinds, CommitFits,
     CommitAllowance DEF AgentInv
<1> QED
  BY <1>2, <1>3, <1>4 DEF Commit

LEMMA AgentInvStep == AgentInv /\ [Next]_vars => AgentInv'
<1> SUFFICES ASSUME AgentInv, [Next]_vars PROVE AgentInv'
  OBVIOUS
<1>0. TypeOK'
  BY TypeStep DEF AgentInv
<1>1. CASE UNCHANGED vars
  BY <1>0, <1>1, OtherInv DEF vars
<1>2. ASSUME NEW t \in Threads, NEW a \in Actions, Evaluate(t, a) PROVE AgentInv'
  BY <1>0, <1>2, OtherInv DEF Evaluate, AgentInv, TypeOK
<1>3. ASSUME NEW t \in Threads, CheckGeneration(t) \/ CheckTab(t) \/ CheckRevoked(t)
      PROVE  AgentInv'
  BY <1>0, <1>3, EarlyCheckInv
<1>4. ASSUME NEW t \in Threads, CheckBudget(t) PROVE AgentInv'
  BY <1>0, <1>4, BudgetCheckInv
<1>5. ASSUME NEW t \in Threads, Commit(t) PROVE AgentInv'
  BY <1>0, <1>5, CommitInv
<1>6. ASSUME NEW t \in Threads, NEW g \in AgentGenerations, AdvanceRead(t, g) PROVE AgentInv'
  BY <1>0, <1>6, OtherInv DEF AdvanceRead, AgentInv, TypeOK
<1>7. ASSUME NEW t \in Threads, AdvanceStore(t) PROVE AgentInv'
  BY <1>0, <1>7, OtherInv DEF AdvanceStore, AgentInv, TypeOK
<1>8. CASE Revoke
  BY <1>0, <1>8, RevokeInv
<1> QED
  BY <1>1, <1>2, <1>3, <1>4, <1>5, <1>6, <1>7, <1>8 DEF Next

-----------------------------------------------------------------------------
(* The theorems.                                                           *)

\* The strengthened invariant holds in every reachable state of the broker.
THEOREM AgentInvariant == Spec => []AgentInv
BY InitAgentInv, AgentInvStep, PTL DEF Spec

\* The broker's state keeps its shape, the replay cache its capacity.
THEOREM AgentTypeCorrect == Spec => []TypeOK
<1>1. AgentInv => TypeOK
  BY DEF AgentInv
<1> QED
  BY <1>1, AgentInvariant, PTL

\* A nonce is allowed again only after as many others as the cache remembers.
THEOREM NoncesAreOneShot == Spec => []OneShotInWindow
<1>1. AgentInv => OneShotInWindow
  BY DEF AgentInv
<1> QED
  BY <1>1, AgentInvariant, PTL

\* A session's budget counts what it was allowed and is never exceeded, however
\* many evaluations race for the last unit of it.
THEOREM BudgetsAreKept == Spec => []BudgetIsKept
<1>1. AgentInv => BudgetIsKept
  BY DEF AgentInv
<1> QED
  BY <1>1, AgentInvariant, PTL

\* A session is bound to the one tab of what it was allowed, and a denial binds
\* it to none.
THEOREM DenialsBindNoTab == Spec => []OnlyAllowedActionsBind
<1>1. AgentInv => OnlyAllowedActionsBind
  BY DEF AgentInv
<1> QED
  BY <1>1, AgentInvariant, PTL

\* After revoke, at most the evaluations then in flight are still allowed.
THEOREM RevokeDenies == Spec => []RevokedDenies
<1>1. AgentInv => RevokedDenies
  <2>1. Cardinality(PastRevoked) \in Nat
    BY PastRevokedIsFinite, FS_CardinalityType
  <2> QED
    BY <2>1 DEF AgentInv, AllowanceCovers, RevokedDenies, TypeOK
<1> QED
  BY <1>1, AgentInvariant, PTL
=============================================================================
