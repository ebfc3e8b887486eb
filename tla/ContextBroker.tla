--------------------------- MODULE ContextBroker ---------------------------
(***************************************************************************)
(* The session pool and the replay ledger of the Rust policy core          *)
(* (core/rust-policy-core/src/broker.rs, ContextBroker).  FfiBroker keeps  *)
(* one behind the mutex "inner" and runs each operation below in one lock  *)
(* section, so each operation is one action.  The three-layer evaluate of  *)
(* this type changes no state and the hosts do not reach it.               *)
(*                                                                         *)
(* One clock stands for Instant and for UNIX seconds.  A session context   *)
(* keeps the last instant it is alive (created_at + ttl) instead of the    *)
(* two terms: is_expired only compares their sum with the clock.           *)
(***************************************************************************)
EXTENDS Integers, FiniteSets

CONSTANTS
  Sessions,          \* session ids a host uses
  Tabs,              \* tab ids
  Nonces,            \* nonces generate_nonce may return
  NoSession,         \* no context: the id is not in the pool
  MaxSessions,       \* MAX_SESSIONS
  MaxConsumedNonces, \* MAX_CONSUMED_NONCES
  MinTtl, MaxTtl,    \* MIN_, MAX_SESSION_TTL_SECONDS of ffi/broker.rs
  MaxGeneration,     \* bound: generations explored
  MaxLifetimes,      \* bound: times one session id is created anew
  MaxTime            \* bound: last instant explored

Generations == 0..MaxGeneration

SessionContext ==
  [tab : Tabs, generation : Generations, deadline : 0..(MaxTime + MaxTtl)]

ASSUME ContextBrokerAssumption ==
  /\ MaxSessions \in Nat /\ MaxConsumedNonces \in Nat
  /\ MinTtl \in Nat /\ MaxTtl \in Nat /\ MinTtl <= MaxTtl
  /\ MaxGeneration \in Nat /\ MaxLifetimes \in Nat /\ MaxTime \in Nat
  /\ NoSession \notin SessionContext
  /\ NoSession \notin Sessions

VARIABLES
  sessions,          \* session id -> its context, or NoSession
  consumed_nonces,   \* the replay ledger: nonces are never removed
  lifetimes,         \* history: how often each id entered the pool
  now

coreVars == <<sessions, consumed_nonces, lifetimes, now>>

CoreTypeOK ==
  /\ sessions \in [Sessions -> SessionContext \cup {NoSession}]
  /\ consumed_nonces \subseteq Nonces
  /\ lifetimes \in [Sessions -> 0..MaxLifetimes]
  /\ now \in 0..MaxTime

CoreInit ==
  /\ sessions = [s \in Sessions |-> NoSession]
  /\ consumed_nonces = {}
  /\ lifetimes = [s \in Sessions |-> 0]
  /\ now = 0

Pool == {s \in Sessions : sessions[s] # NoSession}

\* Strictly later than created_at + ttl: at the deadline itself it is alive.
IsExpired(s) == now > sessions[s].deadline

\* Mistake: makes room by dropping any session.
EvictedAnyone(s) ==
  IF s \notin Pool /\ Cardinality(Pool) >= MaxSessions THEN Pool ELSE {}

\* A full pool admits a new id only by first evicting the expired sessions.
Evicted(s) ==
  IF s \notin Pool /\ Cardinality(Pool) >= MaxSessions
  THEN {e \in Pool : IsExpired(e)}
  ELSE {}

ClampTtl(ttl) == IF ttl < MinTtl THEN MinTtl ELSE IF ttl > MaxTtl THEN MaxTtl ELSE ttl

\* create_session, with the TTL clamp of its FFI entry. The same id replaces
\* its context (renewal); eviction happens even if it does not make room.
CreateSession(s, tab, generation, ttl) ==
  LET room == s \in Pool \/ Cardinality(Pool \ Evicted(s)) < MaxSessions
  IN
  /\ s \in Pool \/ lifetimes[s] < MaxLifetimes
  /\ sessions' = [x \in Sessions |->
       IF x = s /\ room
       THEN [tab |-> tab, generation |-> generation, deadline |-> now + ClampTtl(ttl)]
       ELSE IF x \in Evicted(s) THEN NoSession ELSE sessions[x]]
  /\ lifetimes' = IF room /\ s \notin Pool
                  THEN [lifetimes EXCEPT ![s] = @ + 1] ELSE lifetimes
  /\ UNCHANGED <<consumed_nonces, now>>

\* destroy_session: the nonces of the session stay in the replay ledger.
RemoveSession(s) ==
  /\ sessions' = [sessions EXCEPT ![s] = NoSession]
  /\ UNCHANGED <<consumed_nonces, lifetimes, now>>

\* The same tab, exactly one generation on. The TTL is neither checked nor renewed.
MayAdvance(s, tab, next) ==
  /\ s \in Pool
  /\ sessions[s].tab = tab
  /\ next = sessions[s].generation + 1

\* Mistake: advances by one more than was checked.
AdvanceGenerationTwice(s, tab, next) ==
  /\ MayAdvance(s, tab, next)
  /\ sessions' = [sessions EXCEPT ![s].generation = next + 1]
  /\ UNCHANGED <<consumed_nonces, lifetimes, now>>

AdvanceGeneration(s, tab, next) ==
  /\ MayAdvance(s, tab, next)
  /\ sessions' = [sessions EXCEPT ![s].generation = next]
  /\ UNCHANGED <<consumed_nonces, lifetimes, now>>

\* validate_action: the session is there and alive, the action has not
\* expired (an action is expired AT expires_at), generation and tab match.
ValidateAction(a) ==
  /\ a.session \in Pool
  /\ ~IsExpired(a.session)
  /\ a.expires_at > now
  /\ a.generation = sessions[a.session].generation
  /\ a.tab = sessions[a.session].tab

\* consume_nonce: refuse a replay, refuse when full, never evict.
MayConsume(n) ==
  /\ n \notin consumed_nonces
  /\ Cardinality(consumed_nonces) < MaxConsumedNonces

\* Mistake: checks the nonce and forgets to burn it.
CheckNonceOnly(n) ==
  /\ MayConsume(n)
  /\ UNCHANGED coreVars

ConsumeNonce(n) ==
  /\ MayConsume(n)
  /\ consumed_nonces' = consumed_nonces \cup {n}
  /\ UNCHANGED <<sessions, lifetimes, now>>

Tick ==
  /\ now < MaxTime
  /\ now' = now + 1
  /\ UNCHANGED <<sessions, consumed_nonces, lifetimes>>
=============================================================================
