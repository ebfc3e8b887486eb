--------------------------- MODULE AndroidBroker ---------------------------
(***************************************************************************)
(* The broker of the Android host (android/broker, AndroidBroker.kt and    *)
(* NonceLedger.kt): the host's own sessions and replay ledger in front of  *)
(* the ContextBroker of the native core.  The host side sits behind        *)
(* authorizationLock; a call into the core is made outside of it, so that  *)
(* a slow core holds nobody up, and the host looks again afterwards.  Only *)
(* destroySession keeps the lock over its core call.  Each lock section    *)
(* and each core call is an action; a build without the native core has    *)
(* the host's side alone.                                                  *)
(*                                                                         *)
(* A core call is one action: what FfiBroker does inside it is that        *)
(* module's subject.  An approval and its request end in an issued         *)
(* authorization or in nothing, and are one evaluation here; the target,   *)
(* scope and method an authorization is bound to are compared like its tab *)
(* and left out.                                                           *)
(***************************************************************************)
EXTENDS ContextBroker, Lists

CONSTANTS
  HostThreads,     \* threads that call the broker
  NoCall,          \* the thread is in no call
  SessionTtl,      \* SESSION_TTL_SECONDS, also the life of an authorization
  LedgerSize,      \* MAX_CONSUMED_NONCES of AndroidBroker.kt
  MaxHostLifetimes,\* bound: times the host registers one session id
  MaxAccepted      \* bound: consumptions answered true

HostSession == [tab : Tabs, generation : Generations]

AuthorizedAction ==
  [session : Sessions, tab : Tabs, generation : Generations, nonce : Nonces,
   expires_at : 0..(MaxTime + SessionTtl)]

\* The calls of sessions, and consumptions between the core's answer and the host's.
HostCalls ==
  [at : {"register_core", "register", "renew_core", "renew", "update_core", "update"},
   session : Sessions, tab : Tabs, generation : Generations, core : BOOLEAN, alone : BOOLEAN]
  \cup [at : {"consume"}, session : {NoSession}, action : AuthorizedAction, generation : Generations]

ASSUME AndroidBrokerAssumption ==
  /\ SessionTtl \in Nat /\ LedgerSize \in Nat /\ IsFiniteSet(Sessions)
  /\ NoSession \notin HostSession /\ NoCall \notin HostCalls

VARIABLES
  native,        \* REQUIRE_NATIVE_POLICY_CORE of the build
  host,          \* session id -> its host context, or NoSession
  ledger,        \* consumedNonces: <<session, nonce>>, oldest first
  authorized,    \* the authorizations the hosts hold
  issued,        \* those the core would still accept
  call,          \* per thread: the call under way
  registrations,    \* history: how often the host registered each id
  consumptions,      \* history: consumptions answered true, in order
  mixed          \* history: sessions whose calls overlapped, see EndsAgree

hostVars == <<host, ledger, registrations>>
androidVars == <<coreVars, native, hostVars, authorized, issued, call, consumptions, mixed>>

AndroidTypeOK ==
  /\ CoreTypeOK
  /\ native \in BOOLEAN
  /\ host \in [Sessions -> HostSession \cup {NoSession}]
  /\ ledger \in Seq(Sessions \X Nonces) /\ Len(ledger) <= LedgerSize
  /\ issued \subseteq authorized /\ authorized \subseteq AuthorizedAction
  /\ call \in [HostThreads -> HostCalls \cup {NoCall}]
  /\ registrations \in [Sessions -> Nat]
  /\ consumptions \in Seq([nonce : Nonces, lifetime : Sessions \X Nat])
  /\ mixed \subseteq Sessions

AndroidInit ==
  /\ CoreInit
  /\ native \in BOOLEAN
  /\ host = [s \in Sessions |-> NoSession]
  /\ ledger = <<>>
  /\ authorized = {} /\ issued = {}
  /\ call = [t \in HostThreads |-> NoCall]
  /\ registrations = [s \in Sessions |-> 0]
  /\ consumptions = <<>>
  /\ mixed = {}

On(s) == {t \in HostThreads : call[t] # NoCall /\ call[t].session = s}

OpenFor(s, tab) == host[s] # NoSession /\ host[s].tab = tab

\* A call on session s enters, after its first section: calls already under way
\* on s are no longer alone, and neither is it.
Enter(t, at, s, tab, generation) ==
  /\ call' = [x \in HostThreads |->
       IF x = t
       THEN [at |-> at, session |-> s, tab |-> tab, generation |-> generation,
             core |-> TRUE, alone |-> On(s) = {}]
       ELSE IF x \in On(s) THEN [call[x] EXCEPT !.alone = FALSE] ELSE call[x]]
  /\ mixed' = IF On(s) = {} THEN mixed ELSE mixed \cup {s}

\* The core call of thread t is over; core says whether it did what was asked.
CoreAnswers(t, next, core) == call' = [call EXCEPT ![t].at = next, ![t].core = core]

Leave(t) == call' = [call EXCEPT ![t] = NoCall]

\* A call that replaced the core's session by itself, for a host session that is
\* there in the end, or is again.
Settles(c) == c.alone /\ c.core /\ (c.at = "register" \/ OpenFor(c.session, c.tab))

\* nativeCoreGate: without the native core the answer is yes.
CoreGate(next) == IF native THEN next ELSE UNCHANGED coreVars

-----------------------------------------------------------------------------
(* registerSession; the callers take the default generation 0 *)

RegisterSession(t, s, tab) ==
  /\ call[t] = NoCall
  /\ host[s] = NoSession /\ registrations[s] < MaxHostLifetimes
  /\ Enter(t, "register_core", s, tab, 0)
  /\ UNCHANGED <<coreVars, native, hostVars, authorized, issued, consumptions>>

RegisterCore(t) ==
  LET c == call[t] IN
  /\ c # NoCall /\ c.at = "register_core"
  /\ CoreGate(CreateSession(c.session, c.tab, c.generation, SessionTtl))
  /\ CoreAnswers(t, "register", ~native \/ sessions'[c.session] # NoSession)
  /\ UNCHANGED <<native, hostVars, authorized, issued, consumptions, mixed>>

Register(t) ==
  LET c == call[t] IN
  /\ c # NoCall /\ c.at = "register"
  /\ IF c.core /\ host[c.session] = NoSession
     THEN /\ host' = [host EXCEPT ![c.session] = [tab |-> c.tab, generation |-> c.generation]]
          /\ registrations' = [registrations EXCEPT ![c.session] = @ + 1]
     ELSE UNCHANGED <<host, registrations>>
  /\ mixed' = IF Settles(c) THEN mixed \ {c.session} ELSE mixed
  /\ Leave(t)
  /\ UNCHANGED <<coreVars, native, ledger, authorized, issued, consumptions>>

(* renewSession *)

RenewSession(t, s, tab) ==
  /\ call[t] = NoCall /\ OpenFor(s, tab)
  /\ Enter(t, "renew_core", s, tab, host[s].generation)
  /\ UNCHANGED <<coreVars, native, hostVars, authorized, issued, consumptions>>

RenewCore(t) ==
  LET c == call[t] IN
  /\ c # NoCall /\ c.at = "renew_core"
  /\ CoreGate(CreateSession(c.session, c.tab, c.generation, SessionTtl))
  /\ CoreAnswers(t, "renew", ~native \/ sessions'[c.session] # NoSession)
  /\ UNCHANGED <<native, hostVars, authorized, issued, consumptions, mixed>>

\* It only looks whether the session is still there.
Renew(t) ==
  LET c == call[t] IN
  /\ c # NoCall /\ c.at = "renew"
  /\ mixed' = IF Settles(c) THEN mixed \ {c.session} ELSE mixed
  /\ Leave(t)
  /\ UNCHANGED <<coreVars, native, hostVars, authorized, issued, consumptions>>

(* updateDocumentGeneration *)

UpdateDocumentGeneration(t, s, tab, generation) ==
  /\ call[t] = NoCall /\ OpenFor(s, tab)
  /\ generation = host[s].generation + 1
  /\ Enter(t, "update_core", s, tab, generation)
  /\ UNCHANGED <<coreVars, native, hostVars, authorized, issued, consumptions>>

UpdateCore(t) ==
  LET c == call[t]
      advances == native /\ MayAdvance(c.session, c.tab, c.generation)
  IN
  /\ c # NoCall /\ c.at = "update_core"
  /\ IF advances
     THEN /\ AdvanceGeneration(c.session, c.tab, c.generation)
          /\ issued' = {a \in issued : a.session # c.session}
     ELSE UNCHANGED <<coreVars, issued>>
  /\ CoreAnswers(t, "update", ~native \/ advances)
  /\ UNCHANGED <<native, hostVars, authorized, consumptions, mixed>>

CommitGeneration(t) ==
  LET c == call[t] IN
  /\ c # NoCall /\ c.at = "update"
  /\ host' = IF /\ c.core /\ OpenFor(c.session, c.tab)
                /\ host[c.session].generation + 1 = c.generation
             THEN [host EXCEPT ![c.session].generation = c.generation]
             ELSE host
  /\ Leave(t)
  /\ UNCHANGED <<coreVars, native, ledger, registrations, authorized, issued, consumptions, mixed>>

(* destroySession: one lock section, the core call included *)

\* The keys of other sessions than s, in their order.
Without(keys, s) == Only(keys, {i \in DOMAIN keys : keys[i][1] # s})

EndHostSession(s) ==
  /\ host' = [host EXCEPT ![s] = NoSession]
  /\ ledger' = Without(ledger, s)
  /\ call' = [x \in HostThreads |->
       IF x \in On(s) THEN [call[x] EXCEPT !.alone = FALSE] ELSE call[x]]
  /\ mixed' = IF On(s) = {} THEN mixed \ {s} ELSE mixed \cup {s}
  /\ UNCHANGED <<native, registrations, authorized, consumptions>>

\* Mistake: leaves the core's session to its TTL.
DestroyHostSession(s) ==
  /\ EndHostSession(s)
  /\ UNCHANGED <<coreVars, issued>>

DestroySession(s) ==
  /\ EndHostSession(s)
  /\ IF native
     THEN RemoveSession(s) /\ issued' = {a \in issued : a.session # s}
     ELSE UNCHANGED <<coreVars, issued>>

-----------------------------------------------------------------------------

\* evaluateNavigation, requestNavigationConfirmation and the approval it may ask
\* for: the core judges with its session, a build without it with the host's.
EvaluateNavigation(s, tab, generation) ==
  /\ IF native
     THEN s \in Pool /\ ~IsExpired(s) /\ sessions[s].tab = tab /\ sessions[s].generation = generation
     ELSE host[s] = [tab |-> tab, generation |-> generation]
  /\ \E n \in Nonces \ {a.nonce : a \in authorized} :
       LET a == [session |-> s, tab |-> tab, generation |-> generation, nonce |-> n,
                 expires_at |-> now + SessionTtl]
       IN /\ authorized' = authorized \cup {a}
          /\ issued' = IF native THEN issued \cup {a} ELSE issued
  /\ UNCHANGED <<coreVars, native, hostVars, call, consumptions, mixed>>

\* isValid, with the generation the caller believes current.
IsValid(a, current) ==
  /\ host[a.session] = [tab |-> a.tab, generation |-> a.generation]
  /\ a.generation = current
  /\ a.expires_at > now

Key(a) == <<a.session, a.nonce>>

InLedger(key) == \E i \in DOMAIN ledger : ledger[i] = key

\* trackConsumedNonce: the newest LedgerSize keys are kept.
Tracked(key) ==
  LET all == IF InLedger(key) THEN ledger ELSE Append(ledger, key)
      excess == Len(all) - LedgerSize
  IN IF excess > 0 THEN SubSeq(all, 1 + excess, Len(all)) ELSE all

\* Mistake: looks the nonce up in the section and adds it in none.
AcceptUntracked(a, current) ==
  /\ consumptions' = IF ~IsValid(a, current) \/ InLedger(Key(a)) THEN consumptions
                 ELSE Append(consumptions, [nonce |-> a.nonce,
                                        lifetime |-> <<a.session, registrations[a.session]>>])
  /\ UNCHANGED ledger

\* The section of authorizationLock that ends a consumption.
Accept(a, current) ==
  IF IsValid(a, current)
  THEN /\ ledger' = Tracked(Key(a))
       /\ consumptions' = IF InLedger(Key(a)) THEN consumptions
                      ELSE Append(consumptions, [nonce |-> a.nonce,
                                             lifetime |-> <<a.session, registrations[a.session]>>])
  ELSE UNCHANGED <<ledger, consumptions>>

\* consumeNavigation without the native core.
ConsumeManaged(a, current) ==
  /\ ~native /\ Len(consumptions) < MaxAccepted
  /\ Accept(a, current)
  /\ UNCHANGED <<coreVars, native, host, registrations, authorized, issued, call, mixed>>

\* consumeNavigation with it: the core consumes first, outside the lock. A call
\* the core refuses ends there; the one it accepts waits for the host's section.
ConsumeCore(t, a, current) ==
  /\ native /\ call[t] = NoCall
  /\ a \in issued /\ ValidateAction(a) /\ ConsumeNonce(a.nonce)
  /\ call' = [call EXCEPT ![t] = [at |-> "consume", session |-> NoSession,
                                  action |-> a, generation |-> current]]
  /\ UNCHANGED <<native, hostVars, authorized, issued, consumptions, mixed>>

ConsumeHost(t) ==
  LET c == call[t] IN
  /\ c # NoCall /\ c.at = "consume"
  /\ Accept(c.action, c.generation)
  /\ Leave(t)
  /\ UNCHANGED <<coreVars, native, host, registrations, authorized, issued, mixed>>

AndroidTick == Tick /\ UNCHANGED <<native, hostVars, authorized, issued, call, consumptions, mixed>>

AndroidNext ==
  \/ \E t \in HostThreads, s \in Sessions, tab \in Tabs :
       \/ RegisterSession(t, s, tab) \/ RenewSession(t, s, tab)
       \/ \E g \in Generations : UpdateDocumentGeneration(t, s, tab, g)
  \/ \E t \in HostThreads :
       \/ RegisterCore(t) \/ Register(t) \/ RenewCore(t) \/ Renew(t)
       \/ UpdateCore(t) \/ CommitGeneration(t) \/ ConsumeHost(t)
  \/ \E s \in Sessions : DestroySession(s)
  \/ \E s \in Sessions, tab \in Tabs, g \in Generations : EvaluateNavigation(s, tab, g)
  \/ \E a \in authorized, g \in Generations :
       \/ ConsumeManaged(a, g)
       \/ \E t \in HostThreads : ConsumeCore(t, a, g)
  \/ AndroidTick

AndroidSpec == AndroidInit /\ [][AndroidNext]_androidVars

-----------------------------------------------------------------------------

\* A nonce is accepted once in the life of its session. The core's ledger sees to
\* that for good; the host's alone forgets its oldest, so that without the core a
\* nonce passes again only after LedgerSize others did (AndroidBroker.kt:36-41).
OnceWhileRemembered ==
  \A i, j \in DOMAIN consumptions :
    i < j /\ consumptions[i].nonce = consumptions[j].nonce =>
      /\ ~native
      /\ consumptions[i].lifetime # consumptions[j].lifetime \/ j - i > LedgerSize

\* The two ends agree on a session whenever its calls kept out of each other's way
\* since it was last destroyed, or renewed, by itself: both have none, or both have
\* the same tab and generation (AndroidBroker.kt:99-139, AD-201).
EndsAgree ==
  native =>
    \A s \in Sessions \ mixed :
      On(s) = {} =>
        /\ (host[s] = NoSession) = (s \notin Pool)
        /\ s \in Pool => host[s] = [tab |-> sessions[s].tab,
                                    generation |-> sessions[s].generation]

\* What the host and the native core keep twice stays one truth: nonces are
\* accepted once, also when the host looks at them after the core did, and the
\* sessions of both ends agree again as soon as one call ran by itself.
AndroidKept == OnceWhileRemembered /\ EndsAgree
=============================================================================
