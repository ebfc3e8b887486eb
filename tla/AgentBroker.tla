---------------------------- MODULE AgentBroker ----------------------------
(***************************************************************************)
(* The policy broker for agents (agent/broker.py, PolicyBroker).           *)
(* evaluate reads the shared state without the lock, check after check,    *)
(* and decides in one section of _state_lock; revoke and                   *)
(* advance_generation take no lock at all, and the latter reads before it  *)
(* writes.  Each unlocked read is a step of its own here.                  *)
(*                                                                         *)
(* The checks that look at the action alone (intent, scope, schema, expiry,*)
(* self-reported budget, description hash) change nothing when they refuse *)
(* and read nothing that is shared; Actions are the actions that pass them.*)
(***************************************************************************)
EXTENDS Integers, FiniteSets, Sequences

CONSTANTS
  Threads,
  ActionNonces, AgentSessions, AgentTabs,
  Sizes,              \* values of max_bytes
  NoTab, NoAction,
  NonceCacheCapacity, \* NONCE_CACHE_CAPACITY
  MaxActions,         \* the action's budget of the catalog
  MaxBytes,
  MaxAgentGeneration  \* bound: generations explored

AgentGenerations == 0..MaxAgentGeneration

Actions == [nonce : ActionNonces, session : AgentSessions, tab : AgentTabs,
            generation : AgentGenerations, max_bytes : Sizes]

ASSUME AgentBrokerAssumption ==
  /\ NonceCacheCapacity \in Nat \ {0} /\ MaxAgentGeneration \in Nat
  /\ MaxActions \in Nat /\ MaxBytes \in Nat /\ Sizes \subseteq Nat
  /\ NoTab \notin AgentTabs /\ NoAction \notin Actions
  /\ IsFiniteSet(Threads)

VARIABLES
  nonce_cache,     \* the replay cache, oldest first
  revoked,
  current_generation,
  session_actions, session_bytes, session_tabs,
  pc, act,             \* per thread: the next check, and the action in hand
  generation_read,     \* per thread: what advance_generation is about to store
  log,                 \* history: what was allowed, in order
  allowance            \* history: how long log may grow, once revoked

state == <<nonce_cache, session_actions, session_bytes, session_tabs, log>>
vars == <<state, revoked, current_generation, pc, act, generation_read, allowance>>

Checks == {"generation", "tab", "revoked", "budget", "commit"}

TypeOK ==
  /\ nonce_cache \in Seq(ActionNonces) /\ Len(nonce_cache) <= NonceCacheCapacity
  /\ revoked \in BOOLEAN /\ current_generation \in AgentGenerations
  /\ session_actions \in [AgentSessions -> Nat] /\ session_bytes \in [AgentSessions -> Nat]
  /\ session_tabs \in [AgentSessions -> AgentTabs \cup {NoTab}]
  /\ pc \in [Threads -> {"idle", "advance"} \cup Checks]
  /\ act \in [Threads -> Actions \cup {NoAction}]
  /\ \A t \in Threads : pc[t] \in Checks <=> act[t] \in Actions
  /\ generation_read \in [Threads -> AgentGenerations]
  /\ log \in Seq([nonce : ActionNonces, session : AgentSessions, tab : AgentTabs])
  /\ allowance \in Nat

Init ==
  /\ nonce_cache = <<>>
  /\ revoked = FALSE /\ current_generation = 0
  /\ session_actions = [s \in AgentSessions |-> 0]
  /\ session_bytes = [s \in AgentSessions |-> 0]
  /\ session_tabs = [s \in AgentSessions |-> NoTab]
  /\ pc = [t \in Threads |-> "idle"]
  /\ act = [t \in Threads |-> NoAction]
  /\ generation_read = [t \in Threads |-> 0]
  /\ log = <<>>
  /\ allowance = 0

Remembered == {nonce_cache[i] : i \in DOMAIN nonce_cache}

BoundElsewhere(a) == session_tabs[a.session] \notin {NoTab, a.tab}

OverBudget(a) ==
  \/ session_actions[a.session] + 1 > MaxActions
  \/ session_bytes[a.session] + a.max_bytes > MaxBytes

-----------------------------------------------------------------------------
(* evaluate *)

Answer(t) ==
  /\ pc' = [pc EXCEPT ![t] = "idle"]
  /\ act' = [act EXCEPT ![t] = NoAction]

Evaluate(t, a) ==
  /\ pc[t] = "idle"
  /\ pc' = [pc EXCEPT ![t] = "generation"]
  /\ act' = [act EXCEPT ![t] = a]
  /\ UNCHANGED <<state, revoked, current_generation, generation_read, allowance>>

\* One unlocked check: it passes on to the next one, or answers a denial.
Check(t, check, passes, next) ==
  /\ pc[t] = check
  /\ \/ passes /\ pc' = [pc EXCEPT ![t] = next] /\ UNCHANGED act
     \/ ~passes /\ Answer(t)
  /\ UNCHANGED <<state, revoked, current_generation, generation_read, allowance>>

CheckGeneration(t) ==
  Check(t, "generation", act[t].generation = current_generation, "tab")

CheckTab(t) == Check(t, "tab", ~BoundElsewhere(act[t]), "revoked")

\* Mistake: the kill switch is not asked.
IgnoreRevoked(t) == Check(t, "revoked", TRUE, "budget")

CheckRevoked(t) == Check(t, "revoked", ~revoked, "budget")

\* Mistake: leaves the budget to the check under the lock.
SkipBudget(t) == Check(t, "budget", TRUE, "commit")

\* Two unlocked reads in the code; the counters only grow and Commit reads them
\* both again, so that one step serves for the two.
CheckBudget(t) == Check(t, "budget", ~OverBudget(act[t]), "commit")

\* The cache drops its oldest nonces when it is full.
Newest(nonces) ==
  LET excess == Len(nonces) - NonceCacheCapacity IN
  IF excess > 0 THEN SubSeq(nonces, 1 + excess, Len(nonces)) ELSE nonces

Consume(a) ==
  /\ nonce_cache' = Newest(Append(nonce_cache, a.nonce))
  /\ session_actions' = [session_actions EXCEPT ![a.session] = @ + 1]
  /\ session_bytes' = [session_bytes EXCEPT ![a.session] = @ + a.max_bytes]
  /\ log' = Append(log, [nonce |-> a.nonce, session |-> a.session, tab |-> a.tab])

\* Mistake: trusts the checks made before the lock was taken.
CommitUnchecked(t) ==
  LET a == act[t] IN
  /\ pc[t] = "commit"
  /\ Consume(a)
  /\ session_tabs' = [session_tabs EXCEPT ![a.session] = IF @ = NoTab THEN a.tab ELSE @]
  /\ Answer(t)
  /\ UNCHANGED <<revoked, current_generation, generation_read, allowance>>

\* Mistake: forgets to check the budget again.
CommitOverBudget(t) ==
  LET a == act[t] IN
  /\ pc[t] = "commit"
  /\ IF a.nonce \in Remembered \/ BoundElsewhere(a)
     THEN UNCHANGED state
     ELSE Consume(a) /\ session_tabs' = [session_tabs EXCEPT ![a.session] = a.tab]
  /\ Answer(t)
  /\ UNCHANGED <<revoked, current_generation, generation_read, allowance>>

\* The section of _state_lock. The tab is bound before the budget is checked
\* again, and stays bound if that check refuses.
Commit(t) ==
  LET a == act[t] IN
  /\ pc[t] = "commit"
  /\ \/ /\ a.nonce \in Remembered \/ BoundElsewhere(a)
        /\ UNCHANGED state
     \/ /\ a.nonce \notin Remembered /\ ~BoundElsewhere(a)
        /\ session_tabs' = [session_tabs EXCEPT ![a.session] = a.tab]
        /\ \/ OverBudget(a)
              /\ UNCHANGED <<nonce_cache, session_actions, session_bytes, log>>
           \/ ~OverBudget(a) /\ Consume(a)
  /\ Answer(t)
  /\ UNCHANGED <<revoked, current_generation, generation_read, allowance>>

-----------------------------------------------------------------------------
(* revoke, advance_generation *)

Revoke ==
  /\ ~revoked
  /\ revoked' = TRUE
  /\ allowance' = Len(log) + Cardinality({t \in Threads : pc[t] \in Checks})
  /\ UNCHANGED <<state, current_generation, pc, act, generation_read>>

\* The maximum is computed from the value read ...
AdvanceRead(t, generation) ==
  /\ pc[t] = "idle" /\ generation > 0
  /\ generation_read' = [generation_read EXCEPT ![t] =
        IF generation > current_generation THEN generation ELSE current_generation]
  /\ pc' = [pc EXCEPT ![t] = "advance"]
  /\ UNCHANGED <<state, revoked, current_generation, act, allowance>>

\* ... and stored.
AdvanceStore(t) ==
  /\ pc[t] = "advance"
  /\ current_generation' = generation_read[t]
  /\ generation_read' = [generation_read EXCEPT ![t] = 0]
  /\ pc' = [pc EXCEPT ![t] = "idle"]
  /\ UNCHANGED <<state, revoked, act, allowance>>

Next ==
  \/ \E t \in Threads :
       \/ \E a \in Actions : Evaluate(t, a)
       \/ CheckGeneration(t) \/ CheckTab(t) \/ CheckRevoked(t) \/ CheckBudget(t)
       \/ Commit(t)
       \/ \E g \in AgentGenerations : AdvanceRead(t, g)
       \/ AdvanceStore(t)
  \/ Revoke

Spec == Init /\ [][Next]_vars

-----------------------------------------------------------------------------

Allowed(s) == {i \in DOMAIN log : log[i].session = s}

\* A nonce is allowed again, by any session, only after at least as many other
\* actions were allowed as the replay cache remembers - whatever evaluations of
\* the same nonce race (SP-012, SP-156).
OneShotInWindow ==
  \A i, j \in DOMAIN log : i < j /\ log[i].nonce = log[j].nonce => j - i > NonceCacheCapacity

\* The budget of a session counts exactly what the session was allowed and is
\* never exceeded, although several evaluations may pass the unlocked check on
\* the last unit of it (SP-149).
BudgetIsKept ==
  \A s \in AgentSessions :
    /\ session_actions[s] = Cardinality(Allowed(s))
    /\ session_actions[s] <= MaxActions /\ session_bytes[s] <= MaxBytes

\* A session works with one tab: all it was allowed was for the tab it is bound
\* to, and a denial never binds it - although evaluate binds the tab before its
\* last budget check (PY-252, PY-260, broker.py:410).
OnlyAllowedActionsBind ==
  \A s \in AgentSessions :
    /\ session_tabs[s] # NoTab => Allowed(s) # {}
    /\ \A i \in Allowed(s) : log[i].tab = session_tabs[s]

\* After revoke, no more actions are allowed than evaluations were in flight when
\* it was called: one that starts later is denied, however the unlocked check of
\* the kill switch falls between the others (SP-013).
RevokedDenies == revoked => Len(log) <= allowance
=============================================================================
